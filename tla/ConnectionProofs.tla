-------------------------- MODULE ConnectionProofs --------------------------
(***************************************************************************)
(* What a connection to a VM may tell or do, for any commands, VMs and     *)
(* ports: a QMP exchange that reports success, a session that returns, and *)
(* ports that other VMs and programs may have.                             *)
(***************************************************************************)
EXTENDS QmpExchange, SshSession, VMNetwork, SequenceTheorems, TLAPS

-----------------------------------------------------------------------------
(* QMP.  The monitor replies once to what it is sent, so that the reply to *)
(* the command is the only one there can be once the first has been read.  *)

Client == [at : QmpSteps, cmd : QmpCommands \union {"none"}]

NoReturn   == \A i \in 1 .. Len(inbox) : inbox[i] # "return"
OneReturn  == \A i, j \in 1 .. Len(inbox) : (inbox[i] = "return" /\ inbox[j] = "return") => i = j

ReplyOK ==
  /\ qmp.at \in {"idle", "dial", "greeting"} => request = "none" /\ NoReturn
  /\ (qmp.at \in {"idle", "dial", "greeting"} \/ request = "qmp_capabilities")
        => monitor # "ready"
  /\ qmp.at \in {"idle", "dial"} => monitor = "none"
  /\ qmp.at = "capabilities" => /\ request \in {"none", "qmp_capabilities"} /\ OneReturn
                                /\ request = "qmp_capabilities" => NoReturn
                                /\ ~NoReturn => monitor \in {"ready", "closed"}
  /\ qmp.at = "reply" => /\ request \in {"none", qmp.cmd} /\ monitor \in {"ready", "closed"}
                         /\ request = qmp.cmd => NoReturn
                         /\ ~NoReturn => qmp.cmd \in ran
  /\ qmp.at \notin {"idle", "failed"} => qmp.cmd \in QmpCommands
  /\ OkMeansDone

QmpInv == qmp \in Client /\ inbox \in Seq(Messages) /\ ReplyOK

\* No exchange has begun.
LEMMA InitQmpInv == QmpInit => QmpInv
  BY DEF QmpInit, QmpInv, Client, QmpSteps, ReplyOK, NoReturn, OkMeansDone, QmpAt

\* A message is read.
LEMMA Taken ==
  ASSUME inbox \in Seq(Messages), inbox # <<>>, inbox' = Tail(inbox)
  PROVE  /\ inbox' \in Seq(Messages) /\ Head(inbox) \in Messages
         /\ NoReturn => NoReturn' /\ Head(inbox) # "return"
         /\ OneReturn => OneReturn'
         /\ OneReturn /\ Head(inbox) = "return" => NoReturn'
         /\ ~NoReturn' => ~NoReturn
<1>1. /\ Len(inbox) \in Nat \ {0} /\ Len(inbox') = Len(inbox) - 1
      /\ inbox' \in Seq(Messages) /\ Head(inbox) = inbox[1] /\ inbox[1] \in Messages
  OBVIOUS
<1>2. \A i \in 1 .. Len(inbox') : inbox'[i] = inbox[i + 1] /\ i + 1 \in 1 .. Len(inbox)
  BY <1>1
<1>3. 1 \in 1 .. Len(inbox)
  BY <1>1
<1>4. NoReturn => NoReturn' /\ Head(inbox) # "return"
  BY <1>1, <1>2, <1>3 DEF NoReturn
<1>5. OneReturn => OneReturn'
  BY <1>1, <1>2 DEF OneReturn
<1>6. OneReturn /\ Head(inbox) = "return" => NoReturn'
  BY <1>1, <1>2, <1>3 DEF OneReturn, NoReturn
<1>. QED BY <1>1, <1>4, <1>5, <1>6

\* A message is sent, or not because the client will not read it any more.
LEMMA Sent ==
  ASSUME inbox \in Seq(Messages), NEW m \in Messages, Send(m)
  PROVE  /\ inbox' \in Seq(Messages)
         /\ m # "return" => (NoReturn' <=> NoReturn) /\ (OneReturn => OneReturn')
         /\ NoReturn => OneReturn'
<1>1. CASE UNCHANGED inbox
  BY <1>1 DEF NoReturn, OneReturn
<1>2. CASE inbox' = Append(inbox, m)
  <2>1. /\ Len(inbox) \in Nat /\ Len(inbox') = Len(inbox) + 1 /\ inbox' \in Seq(Messages)
        /\ inbox'[Len(inbox) + 1] = m
        /\ \A i \in 1 .. Len(inbox) : inbox'[i] = inbox[i]
    BY <1>2
  <2>2. \A i \in 1 .. Len(inbox') : i \in 1 .. Len(inbox) \/ i = Len(inbox) + 1
    BY <2>1
  <2>3. m # "return" => (NoReturn' <=> NoReturn)
    BY <2>1, <2>2 DEF NoReturn
  <2>4. m # "return" /\ OneReturn => OneReturn'
    BY <2>1, <2>2 DEF OneReturn
  <2>5. NoReturn => OneReturn'
    BY <2>1, <2>2 DEF NoReturn, OneReturn
  <2>. QED BY <2>1, <2>3, <2>4, <2>5
<1>. QED BY <1>1, <1>2 DEF Send

\* The client goes on to the step s.
LEMMA GoesTo ==
  ASSUME qmp \in Client, NEW s \in QmpSteps, QmpGoto(s)
  PROVE  qmp' \in Client /\ qmp'.at = s /\ qmp'.cmd = qmp.cmd
  BY DEF Client, QmpGoto

\* Each step of an exchange, and whatever QEMU sends, keeps QmpInv.
LEMMA StepQmpInv == QmpInv /\ [QmpNext]_qmpVars => QmpInv'
<1> SUFFICES ASSUME QmpInv, [QmpNext]_qmpVars PROVE QmpInv'
  OBVIOUS
<1>a. qmp \in Client /\ inbox \in Seq(Messages) /\ ReplyOK
  BY DEF QmpInv
<1>b. {"greeting", "capabilities", "reply", "ok", "failed"} \subseteq QmpSteps
  BY DEF QmpSteps
<1>c. {"greeting", "hello", "return", "error", "event"} \subseteq Messages
  BY DEF Messages
<1>1. ASSUME QmpExec PROVE QmpInv'
  BY <1>a, <1>1, QmpAssumption
  DEF QmpExec, QmpInv, Client, QmpSteps, QmpAt, ReplyOK, NoReturn, OkMeansDone
<1>2. ASSUME QmpDial PROVE QmpInv'
  <2>1. PICK s \in {"failed", "greeting"} :
          QmpGoto(s) /\ (s = "greeting" => monitor' = "silent")
    BY <1>2 DEF QmpDial
  <2>2. qmp' \in Client /\ qmp'.at = s /\ qmp'.cmd = qmp.cmd
    BY <1>a, <1>b, <2>1, GoesTo
  <2>. QED BY <1>a, <1>2, <2>1, <2>2 DEF QmpDial, QmpInv, QmpAt, ReplyOK, NoReturn, OkMeansDone
<1>3. ASSUME ReadGreeting PROVE QmpInv'
  <2>1. /\ inbox' \in Seq(Messages) /\ NoReturn' /\ OneReturn' /\ qmp.at = "greeting"
        /\ monitor' = monitor /\ monitor # "ready" /\ qmp.cmd \in QmpCommands
    BY <1>a, <1>3, Taken DEF ReadGreeting, QmpAt, ReplyOK, NoReturn, OneReturn
  <2>2. CASE QmpGoto("capabilities") /\ request' = "qmp_capabilities"
    <3>1. qmp' \in Client /\ qmp'.at = "capabilities" /\ qmp'.cmd = qmp.cmd
      BY <1>a, <1>b, <2>2, GoesTo
    <3>. QED BY <2>1, <2>2, <3>1 DEF QmpInv, QmpAt, ReplyOK, OkMeansDone
  <2>3. CASE QmpGoto("failed") /\ UNCHANGED request
    <3>1. qmp' \in Client /\ qmp'.at = "failed"
      BY <1>a, <1>b, <2>3, GoesTo
    <3>. QED BY <2>1, <2>3, <3>1 DEF QmpInv, QmpAt, ReplyOK, OkMeansDone
  <2>. QED BY <1>3, <2>2, <2>3 DEF ReadGreeting
<1>4. ASSUME ReadResult PROVE QmpInv'
  <2>1. /\ inbox' \in Seq(Messages) /\ qmp.at \in {"capabilities", "reply"}
        /\ UNCHANGED <<monitor, ran>>
    BY <1>a, <1>4, Taken DEF ReadResult
  <2>2. CASE QmpAt("capabilities") /\ Head(inbox) = "return"
    <3>1. QmpGoto("reply") /\ request' = qmp.cmd
      BY <1>4, <2>2 DEF ReadResult, Replied
    <3>2. qmp' \in Client /\ qmp'.at = "reply" /\ qmp'.cmd = qmp.cmd
      BY <1>a, <1>b, <3>1, GoesTo
    <3>3. NoReturn' /\ ~NoReturn
      BY <1>a, <1>4, <2>2, Taken DEF ReadResult, ReplyOK, QmpAt
    <3>4. monitor \in {"ready", "closed"} /\ qmp.cmd \in QmpCommands
      BY <1>a, <2>2, <3>3 DEF ReplyOK, QmpAt
    <3>. QED BY <2>1, <3>1, <3>2, <3>3, <3>4, QmpAssumption DEF QmpInv, QmpAt, ReplyOK, OkMeansDone
  <2>3. CASE QmpAt("reply") /\ Head(inbox) = "return"
    <3>1. QmpGoto("ok") /\ UNCHANGED request
      BY <1>4, <2>3 DEF ReadResult, Replied, QmpAt
    <3>2. qmp' \in Client /\ qmp'.at = "ok" /\ qmp'.cmd = qmp.cmd
      BY <1>a, <1>b, <3>1, GoesTo
    <3>3. ~NoReturn
      BY <1>a, <1>4, <2>3, Taken DEF ReadResult
    <3>. QED BY <1>a, <2>1, <2>3, <3>1, <3>2, <3>3 DEF QmpInv, QmpAt, ReplyOK, OkMeansDone
  <2>4. CASE Head(inbox) = "error"
    <3>1. QmpGoto("failed") /\ UNCHANGED request
      BY <1>4, <2>4 DEF ReadResult
    <3>2. qmp' \in Client /\ qmp'.at = "failed"
      BY <1>a, <1>b, <3>1, GoesTo
    <3>. QED BY <1>a, <2>1, <3>1, <3>2 DEF QmpInv, QmpAt, ReplyOK, OkMeansDone
  <2>5. CASE Head(inbox) \notin {"return", "error"}
    <3>1. UNCHANGED <<qmp, request>>
      BY <1>4, <2>5 DEF ReadResult
    <3>2. (NoReturn => NoReturn') /\ (OneReturn => OneReturn') /\ (~NoReturn' => ~NoReturn)
      BY <1>a, <1>4, Taken DEF ReadResult
    <3>. QED BY <1>a, <2>1, <3>1, <3>2 DEF QmpInv, QmpAt, ReplyOK, OkMeansDone
  <2>. QED BY <2>1, <2>2, <2>3, <2>4, <2>5 DEF QmpAt
<1>5. ASSUME ReadFails PROVE QmpInv'
  <2>1. qmp' \in Client /\ qmp'.at = "failed"
    BY <1>a, <1>b, <1>5, GoesTo DEF ReadFails
  <2>. QED BY <1>a, <1>5, <2>1 DEF ReadFails, QmpInv, QmpAt, ReplyOK, OkMeansDone
<1>6. ASSUME QmpReturn PROVE QmpInv'
  BY <1>6 DEF QmpReturn, QmpInv, Client, QmpSteps, QmpAt, ReplyOK, NoReturn, OkMeansDone
<1>7. ASSUME Greet PROVE QmpInv'
  <2>1. PICK m \in {"greeting", "hello"} : Send(m) /\ monitor' \in {"negotiating", "closed"}
    BY <1>7 DEF Greet
  <2>2. inbox' \in Seq(Messages) /\ (NoReturn' <=> NoReturn) /\ (OneReturn => OneReturn')
    BY <1>a, <1>c, <2>1, Sent
  <2>3. UNCHANGED <<qmp, request, ran>> /\ monitor = "silent"
    BY <1>7 DEF Greet
  <2>. QED BY <1>a, <2>1, <2>2, <2>3 DEF QmpInv, QmpAt, ReplyOK, OkMeansDone
<1>8. ASSUME Negotiate PROVE QmpInv'
  <2>1. /\ UNCHANGED <<qmp, ran>> /\ monitor = "negotiating"
        /\ request = "qmp_capabilities" /\ request' = "none"
    BY <1>8 DEF Negotiate
  <2>2. CASE Send("return") /\ monitor' = "ready"
    <3>1. inbox' \in Seq(Messages) /\ (NoReturn => OneReturn')
      BY <1>a, <1>c, <2>2, Sent
    <3>. QED BY <1>a, <2>1, <2>2, <3>1, QmpAssumption DEF QmpInv, QmpAt, ReplyOK, OkMeansDone
  <2>3. CASE Send("error") /\ UNCHANGED monitor
    <3>1. inbox' \in Seq(Messages) /\ (NoReturn' <=> NoReturn) /\ (OneReturn => OneReturn')
      BY <1>a, <1>c, <2>3, Sent
    <3>. QED BY <1>a, <2>1, <2>3, <3>1, QmpAssumption DEF QmpInv, QmpAt, ReplyOK, OkMeansDone
  <2>. QED BY <1>8, <2>2, <2>3 DEF Negotiate
<1>9. ASSUME Execute PROVE QmpInv'
  <2>1. /\ UNCHANGED <<qmp, monitor>> /\ monitor = "ready" /\ request' = "none"
        /\ request \in QmpCommands /\ ran \subseteq ran'
    BY <1>9 DEF Execute
  <2>2. qmp.at \in {"reply", "ok", "failed"}
    BY <1>a, <2>1, QmpAssumption DEF ReplyOK, Client, QmpSteps
  <2>3. CASE Send("return") /\ ran' = ran \union {request}
    <3>1. inbox' \in Seq(Messages)
      BY <1>a, <1>c, <2>3, Sent
    <3>2. qmp.at = "reply" => qmp.cmd = request
      BY <1>a, <2>1, QmpAssumption DEF ReplyOK
    <3>. QED BY <1>a, <2>1, <2>2, <2>3, <3>1, <3>2, QmpAssumption
             DEF QmpInv, QmpAt, ReplyOK, OkMeansDone
  <2>4. CASE Send("error") /\ UNCHANGED ran
    <3>1. inbox' \in Seq(Messages) /\ (NoReturn' <=> NoReturn)
      BY <1>a, <1>c, <2>4, Sent
    <3>2. qmp.at = "reply" => NoReturn
      BY <1>a, <2>1, QmpAssumption DEF ReplyOK
    <3>. QED BY <1>a, <2>1, <2>2, <2>4, <3>1, <3>2, QmpAssumption
             DEF QmpInv, QmpAt, ReplyOK, OkMeansDone
  <2>. QED BY <1>9, <2>3, <2>4 DEF Execute
<1>10. ASSUME Event PROVE QmpInv'
  <2>1. inbox' \in Seq(Messages) /\ (NoReturn' <=> NoReturn) /\ (OneReturn => OneReturn')
    BY <1>a, <1>c, <1>10, Sent DEF Event
  <2>. QED BY <1>a, <1>10, <2>1 DEF Event, QmpInv, QmpAt, ReplyOK, OkMeansDone
<1>11. ASSUME HangUp PROVE QmpInv'
  <2>1. inbox' \in Seq(Messages) /\ (NoReturn => NoReturn') /\ (OneReturn => OneReturn')
    <3>1. CASE inbox' = inbox
      BY <1>a, <3>1 DEF NoReturn, OneReturn
    <3>2. CASE inbox' = <<>>
      BY <3>2 DEF NoReturn, OneReturn
    <3>. QED BY <1>11, <3>1, <3>2 DEF HangUp
  <2>. QED BY <1>a, <1>11, <2>1 DEF HangUp, QmpInv, QmpAt, ReplyOK, OkMeansDone
<1>12. CASE Deadline \/ UNCHANGED qmpVars
  <2>1. UNCHANGED <<qmp, inbox, request, monitor, ran>>
    BY <1>12 DEF Deadline, qmpVars
  <2>. QED BY <1>a, <2>1 DEF QmpInv, QmpAt, ReplyOK, NoReturn, OneReturn, OkMeansDone
<1>. QED BY <1>1, <1>2, <1>3, <1>4, <1>5, <1>6, <1>7, <1>8, <1>9, <1>10, <1>11, <1>12
         DEF QmpNext, QmpStep

\* What Powerdown and Quit report done has been done: neither an event nor the reply to
\* the negotiation is taken for the reply to the command (qmp.readResult).
THEOREM RepliesAreForTheCommand == QmpSpec => []OkMeansDone
<1>1. QmpInv => OkMeansDone
  BY DEF QmpInv, ReplyOK
<1>. QED BY <1>1, InitQmpInv, StepQmpInv, PTL DEF QmpSpec

-----------------------------------------------------------------------------
(* Sessions.                                                               *)

\* The terminal is raw only while its restore is deferred, and nothing is deferred before
\* there is a connection or once the command has returned.
Deferred ==
  /\ ssh.at \in {"idle", "dial", "pause"} => ssh.defers = <<>>
  /\ ssh.at \in {"open", "raw"} => ssh.defers = <<"hangup">>
  /\ tty # "cooked" => ssh.defers = <<"restore", "hangup">>

\* What a return says, from the return statement to the next call.
Told ==
  ssh.at \in {"return", "idle"} =>
    /\ ssh.out = "zero"    => remote = "zero"
    /\ ssh.out = "nonzero" => remote \in {"nonzero", "killed"}
    /\ ssh.out = "done"    => ssh.op = "shell" /\ remote \in Statuses \union {"killed"}

SshOuts == Statuses \union {"none", "ready", "done", "timeout", "failed", "cancelled"}
SshKind == [op : SshOps \union {"none"}, at : Session \union {"idle", "dial", "pause"},
            out : SshOuts, defers : Defers]

SessionInv == ssh \in SshKind /\ Deferred /\ Told

\* The lists of deferred calls differ.
LEMMA DefersDiffer ==
  /\ <<>> # <<"hangup">> /\ <<>> # <<"restore", "hangup">>
  /\ <<"hangup">> # <<"restore", "hangup">>
  /\ Tail(<<"hangup">>) = <<>> /\ Head(<<"hangup">>) = "hangup"
  /\ Tail(<<"restore", "hangup">>) = <<"hangup">> /\ Head(<<"restore", "hangup">>) = "restore"
  /\ <<"restore">> \o <<"hangup">> = <<"restore", "hangup">>
<1>1. /\ <<>> # <<"hangup">> /\ <<>> # <<"restore", "hangup">>
      /\ Head(<<"hangup">>) = "hangup" /\ Head(<<"restore", "hangup">>) = "restore"
  OBVIOUS
<1>2. <<"hangup">> # <<"restore", "hangup">>
  OBVIOUS
<1>3. Tail(<<"hangup">>) = <<>>
  OBVIOUS
<1>4. Tail(<<"restore", "hangup">>) = <<"hangup">>
  OBVIOUS
<1>5. <<"restore">> \o <<"hangup">> = <<"restore", "hangup">>
  <2> DEFINE r == <<"restore">> \o <<"hangup">>
             s == <<"restore", "hangup">>
             S == {"restore", "hangup"}
  <2>1. <<"restore">> \in Seq(S) /\ <<"hangup">> \in Seq(S) /\ s \in Seq(S)
    OBVIOUS
  <2>2. Len(<<"restore">>) = 1 /\ Len(<<"hangup">>) = 1 /\ Len(s) = 2
    OBVIOUS
  <2>3. r \in Seq(S) /\ Len(r) = 2
    BY <2>1, <2>2, ConcatProperties
  <2>4. r[1] = s[1] /\ r[2] = s[2]
    BY <2>1, <2>2, ConcatProperties
  <2>5. \A i \in 1 .. Len(r) : r[i] = s[i]
    BY <2>3, <2>4
  <2>6. Len(r) = Len(s)
    BY <2>2, <2>3
  <2>. QED BY <2>1, <2>3, <2>5, <2>6, SeqEqual
<1>. QED BY <1>1, <1>2, <1>3, <1>4, <1>5

\* No session has begun.
LEMMA InitSessionInv == SshInit => SessionInv
  BY DEF SshInit, SessionInv, SshKind, SshOuts, Defers, Deferred, Told

\* An operation returns o, which is no status unless the command ended with it.
LEMMA Returns ==
  ASSUME SessionInv, NEW o \in SshOuts, SshReturn(o), UNCHANGED <<remote, tty>>,
         o = "zero" => remote = "zero",
         o = "nonzero" => remote \in {"nonzero", "killed"},
         o = "done" => ssh.op = "shell" /\ remote \in Statuses \union {"killed"}
  PROVE  SessionInv'
<1>1. /\ ssh'.at = "return" /\ ssh'.out = o /\ ssh'.op = ssh.op /\ ssh'.defers = ssh.defers
      /\ ssh' \in SshKind
  BY DEF SessionInv, SshKind, SshReturn, Session
<1>. QED BY <1>1 DEF SessionInv, Deferred, Told

\* An operation goes on to a step other than its return.
LEMMA GoesOn ==
  ASSUME SessionInv, NEW s \in Session \union {"dial", "pause"}, SshGoto(s), UNCHANGED tty,
         s # "return",
         s \in {"dial", "pause"} => ssh.defers = <<>>,
         s \in {"open", "raw"} => ssh.defers = <<"hangup">>
  PROVE  SessionInv'
<1>1. ssh'.at = s /\ ssh'.out = ssh.out /\ ssh'.defers = ssh.defers /\ ssh' \in SshKind
  BY DEF SessionInv, SshKind, SshGoto
<1>2. s \notin {"return", "idle"}
  BY DEF Session
<1>. QED BY <1>1, <1>2 DEF SessionInv, Deferred, Told

\* Each step of a session, on either side, keeps SessionInv.
LEMMA StepSessionInv == SessionInv /\ [SshNext]_sshVars => SessionInv'
<1> SUFFICES ASSUME SessionInv, [SshNext]_sshVars PROVE SessionInv'
  OBVIOUS
<1>a. ssh \in SshKind /\ Deferred /\ Told
  BY DEF SessionInv
<1>1. ASSUME SshCall PROVE SessionInv'
  <2>1. PICK o \in SshOps : ssh' = [op |-> o, at |-> "dial", out |-> "none", defers |-> <<>>]
    BY <1>1 DEF SshCall
  <2>2. UNCHANGED tty /\ tty = "cooked"
    BY <1>1, <1>a, DefersDiffer DEF SshCall, SshAt, Deferred
  <2>. QED BY <2>1, <2>2 DEF SessionInv, SshKind, SshOuts, Defers, Deferred, Told
<1>2. ASSUME SshDial PROVE SessionInv'
  <2>1. UNCHANGED <<remote, tty>> /\ ssh.at = "dial" /\ ssh.defers = <<>>
    BY <1>2, <1>a DEF SshDial, SshAt, Deferred
  <2>2. CASE ssh' = [ssh EXCEPT !.at = "open", !.defers = <<"hangup">>]
    <3>1. ssh' \in SshKind /\ ssh'.at = "open" /\ ssh'.defers = <<"hangup">>
      BY <1>a, <2>2 DEF SshKind, Session, Defers
    <3>2. tty' = "cooked"
      BY <1>a, <2>1, DefersDiffer DEF Deferred
    <3>. QED BY <3>1, <3>2 DEF SessionInv, Deferred, Told
  <2>3. CASE SshReturn("ready") \/ SshReturn("failed")
    BY <2>1, <2>3, Returns DEF SshOuts
  <2>4. CASE SshGoto("pause")
    BY <2>1, <2>4, GoesOn
  <2>. QED BY <1>2, <2>2, <2>3, <2>4 DEF SshDial
<1>3. ASSUME PauseTick \/ Pty \/ SessionStart \/ Cancelled PROVE SessionInv'
  <2>1. CASE PauseTick
    BY <1>a, <2>1, GoesOn DEF PauseTick, SshAt, Deferred
  <2>2. CASE Pty \/ SessionStart \/ Cancelled
    BY <2>2, GoesOn DEF Pty, SessionStart, Cancelled, Session
  <2>. QED BY <1>3, <2>1, <2>2
<1>4. ASSUME NewSession PROVE SessionInv'
  <2>1. (SshGoto("raw") \/ SshGoto("start")) /\ ssh.at = "open" /\ UNCHANGED tty
    BY <1>4 DEF NewSession, SshAt
  <2>. QED BY <1>a, <2>1, GoesOn DEF Session, Deferred
<1>5. ASSUME MakeRaw PROVE SessionInv'
  <2>1. ssh.at = "raw" /\ ssh.defers = <<"hangup">> /\ UNCHANGED remote
    BY <1>5, <1>a DEF MakeRaw, SshAt, Deferred
  <2>2. CASE ssh' = [ssh EXCEPT !.at = "pty", !.defers = <<"restore">> \o ssh.defers]
    <3>1. ssh' = [ssh EXCEPT !.at = "pty", !.defers = <<"restore", "hangup">>]
      BY <2>1, <2>2, DefersDiffer
    <3>2. ssh' \in SshKind /\ ssh'.at = "pty" /\ ssh'.defers = <<"restore", "hangup">>
      BY <1>a, <3>1 DEF SshKind, Session, Defers
    <3>. QED BY <3>2 DEF SessionInv, Deferred, Told
  <2>3. CASE (SshReturn("failed") \/ SshGoto("start")) /\ UNCHANGED tty
    BY <2>1, <2>3, Returns, GoesOn DEF Session, SshOuts
  <2>. QED BY <1>5, <2>2, <2>3 DEF MakeRaw
<1>6. ASSUME PauseDone \/ Refused \/ Drain PROVE SessionInv'
  BY <1>6, Returns DEF PauseDone, Refused, Drain, SshOuts
<1>7. ASSUME Finished PROVE SessionInv'
  <2>1. PICK err \in WaitErrors :
          SshReturn(IF ssh.op = "shell" THEN ShellResult(ExitCode(err)) ELSE ExitCode(err))
    BY <1>7 DEF Finished
  <2>2. PICK c : c = ExitCode(err)
    OBVIOUS
  <2>3. /\ c \in {"zero", "nonzero", "failed"}
        /\ c = "zero" => remote = "zero"
        /\ c = "nonzero" => remote \in {"nonzero", "killed"}
    BY <2>1, <2>2 DEF WaitErrors, ExitCode
  <2>4. PICK o : o = IF ssh.op = "shell" THEN ShellResult(c) ELSE c
    OBVIOUS
  <2>5. /\ o \in SshOuts
        /\ o = "zero" => remote = "zero"
        /\ o = "nonzero" => remote \in {"nonzero", "killed"}
        /\ o = "done" => ssh.op = "shell" /\ remote \in Statuses \union {"killed"}
    BY <2>3, <2>4 DEF ShellResult, SshOuts, Statuses
  <2>6. SshReturn(o) /\ UNCHANGED <<remote, tty>>
    BY <1>7, <2>1, <2>2, <2>4 DEF Finished
  <2>. QED BY <2>5, <2>6, Returns
<1>8. ASSUME Unwind PROVE SessionInv'
  <2>1. /\ ssh.at = "return" /\ ssh.defers # <<>> /\ UNCHANGED remote
        /\ ssh' = [ssh EXCEPT !.defers = Tail(ssh.defers)]
        /\ IF Head(ssh.defers) = "restore" THEN tty' = "cooked" ELSE UNCHANGED tty
    BY <1>8 DEF Unwind, SshAt
  <2>2. Tail(ssh.defers) \in Defers
    BY <1>a, <2>1, DefersDiffer DEF SshKind, Defers
  <2>3. /\ ssh' \in SshKind /\ ssh'.at = "return" /\ ssh'.out = ssh.out /\ ssh'.op = ssh.op
    BY <1>a, <2>1, <2>2 DEF SshKind
  <2>4. tty' = "cooked"
    BY <1>a, <2>1, DefersDiffer DEF SshKind, Defers, Deferred
  <2>. QED BY <1>a, <2>1, <2>3, <2>4 DEF SessionInv, Deferred, Told
<1>9. ASSUME SshExit PROVE SessionInv'
  <2>1. /\ ssh.at = "return" /\ ssh.defers = <<>> /\ UNCHANGED <<remote, tty>>
        /\ ssh' = [ssh EXCEPT !.at = "idle"]
    BY <1>9 DEF SshExit, SshAt, SshGoto
  <2>2. /\ ssh' \in SshKind /\ ssh'.at = "idle" /\ ssh'.out = ssh.out /\ ssh'.op = ssh.op
        /\ ssh'.defers = <<>>
    BY <1>a, <2>1 DEF SshKind
  <2>. QED BY <1>a, <2>1, <2>2 DEF SessionInv, Deferred, Told
<1>10. ASSUME CommandEnds \/ ServerCloses PROVE SessionInv'
  <2>1. UNCHANGED <<ssh, tty>> /\ remote = "running"
    BY <1>10 DEF CommandEnds, ServerCloses
  <2>2. Told'
    BY <1>a, <2>1 DEF Told, Statuses
  <2>. QED BY <1>a, <2>1, <2>2 DEF SessionInv, Deferred
<1>11. CASE \/ GuestBoots \/ GuestFreezes \/ GuestThaws \/ LinkBreaks \/ Expire
            \/ Interrupted \/ UNCHANGED sshVars
  <2>1. UNCHANGED <<ssh, remote, tty>>
    BY <1>11 DEF GuestBoots, GuestFreezes, GuestThaws, LinkBreaks, Expire, Interrupted, sshVars
  <2>. QED BY <1>a, <2>1 DEF SessionInv, Deferred, Told
<1>. QED BY <1>1, <1>2, <1>3, <1>4, <1>5, <1>6, <1>7, <1>8, <1>9, <1>10, <1>11
         DEF SshNext, SshClient

\* A status that vc reports is the remote command's: exec never turns a lost connection or
\* a cancelled command into one, and a shell is done only if its end was reported
\* (sshx.exitCode, runWithContext, waitShell).
THEOREM NoStatusIsInvented == SshSpec => []StatusIsTheCommands
<1>1. SessionInv => StatusIsTheCommands
  BY DEF SessionInv, Told, StatusIsTheCommands, SshAt
<1>. QED BY <1>1, InitSessionInv, StepSessionInv, PTL DEF SshSpec

\* At whichever step a shell fails, is cancelled or ends, the terminal is the user's again
\* when it has returned: it is raw only while its restore is among the deferred calls
\* (sshx.Shell).
THEOREM TerminalComesBack == SshSpec => []TerminalRestored
<1>1. SessionInv => TerminalRestored
  BY DefersDiffer DEF SessionInv, Deferred, TerminalRestored, SshAt
<1>. QED BY <1>1, InitSessionInv, StepSessionInv, PTL DEF SshSpec

-----------------------------------------------------------------------------
(* Ports.                                                                  *)

\* A VM's two ports differ, and a QEMU that is up has both.
PortsOK ==
  \A v \in NetVMs :
    /\ boot[v] # "new" => ports[v].ssh \in NetPorts
    /\ boot[v] \notin {"new", "ports"} =>
         ports[v].qmp \in NetPorts /\ ports[v].ssh # ports[v].qmp
    /\ boot[v] = "on" => owner[ports[v].ssh] = v /\ owner[ports[v].qmp] = v

NetInv == NetTypeOK /\ PortsOK /\ BlockedByOthers

\* No port is chosen, bound or recorded.
LEMMA InitNetInv == NetInit => NetInv
<1> SUFFICES ASSUME NetInit PROVE NetInv
  OBVIOUS
<1>1. NetTypeOK
  BY DEF NetInit, NetTypeOK, PortOwners, NoneBlocked
<1>2. PortsOK
  BY DEF NetInit, PortsOK
<1>. QED BY <1>1, <1>2 DEF NetInit, NetInv, BlockedByOthers, NoneBlocked

\* The ports of one VM are given, in Create, where no QEMU of it can be up.
LEMMA Given ==
  ASSUME NetInv, NEW v \in NetVMs, NEW r \in [ssh : NetPorts \union {NoPort},
                                             qmp : NetPorts \union {NoPort}],
         NEW b \in {"new", "ports", "off"},
         ports' = [ports EXCEPT ![v] = r], boot' = [boot EXCEPT ![v] = b],
         blocked' = NoneBlocked, UNCHANGED owner,
         b # "new" => r.ssh \in NetPorts,
         b = "off" => r.qmp \in NetPorts /\ r.ssh # r.qmp
  PROVE  NetInv'
<1>1. NetTypeOK'
  BY DEF NetInv, NetTypeOK
<1>2. \A w \in NetVMs : /\ ports'[w] = IF w = v THEN r ELSE ports[w]
                        /\ boot'[w] = IF w = v THEN b ELSE boot[w]
  BY DEF NetInv, NetTypeOK
<1>3. PortsOK'
  BY <1>2 DEF NetInv, PortsOK
<1>. QED BY <1>1, <1>3 DEF NetInv, BlockedByOthers, NoneBlocked

\* A QEMU exits: nothing of another's is lost.
LEMMA Exits ==
  ASSUME NetInv, NEW v \in NetVMs,
         boot' = [boot EXCEPT ![v] = "off"], boot[v] \notin {"new", "ports"},
         owner' = [y \in NetPorts |-> IF owner[y] = v THEN NoPort ELSE owner[y]],
         UNCHANGED ports
  PROVE  PortsOK' /\ boot' \in [NetVMs -> {"new", "ports", "off", "starting", "on"}]
                  /\ owner' \in [NetPorts -> PortOwners]
<1>1. \A w \in NetVMs : boot'[w] = IF w = v THEN "off" ELSE boot[w]
  BY DEF NetInv, NetTypeOK
<1>2. \A w \in NetVMs \ {v} : \A y \in NetPorts : owner[y] = w => owner'[y] = w
  OBVIOUS
<1>3. PortsOK'
  BY <1>1, <1>2 DEF NetInv, PortsOK
<1>4. boot' \in [NetVMs -> {"new", "ports", "off", "starting", "on"}]
  BY DEF NetInv, NetTypeOK
<1>5. owner' \in [NetPorts -> PortOwners]
  BY DEF NetInv, NetTypeOK, PortOwners
<1>. QED BY <1>3, <1>4, <1>5

\* Each step of a VM, or of a program that takes ports, keeps NetInv.
LEMMA StepNetInv == NetInv /\ [NetNext]_netVars => NetInv'
<1> SUFFICES ASSUME NetInv, [NetNext]_netVars PROVE NetInv'
  OBVIOUS
<1>a. NetTypeOK /\ PortsOK
  BY DEF NetInv
<1>b. ASSUME blocked' = NoneBlocked PROVE BlockedByOthers'
  BY <1>b DEF BlockedByOthers, NoneBlocked
<1>1. ASSUME NEW v \in NetVMs, AllocSSH(v) PROVE NetInv'
  <2>1. PICK x \in NetPorts : ports' = [ports EXCEPT ![v] = [ports[v] EXCEPT !.ssh = x]]
    BY <1>1 DEF AllocSSH, Bindable
  <2>2. PICK r : r = [ports[v] EXCEPT !.ssh = x]
    OBVIOUS
  <2>3. r \in [ssh : NetPorts \union {NoPort}, qmp : NetPorts \union {NoPort}] /\ r.ssh = x
    BY <1>a, <2>2 DEF NetTypeOK
  <2>. QED BY <1>1, <2>1, <2>2, <2>3, Given DEF AllocSSH
<1>2. ASSUME NEW v \in NetVMs, AllocQMP(v) PROVE NetInv'
  <2>1. PICK x \in NetPorts : /\ x # ports[v].ssh
                             /\ ports' = [ports EXCEPT ![v] = [ports[v] EXCEPT !.qmp = x]]
    BY <1>2 DEF AllocQMP, Bindable
  <2>2. PICK r : r = [ports[v] EXCEPT !.qmp = x]
    OBVIOUS
  <2>3. /\ r \in [ssh : NetPorts \union {NoPort}, qmp : NetPorts \union {NoPort}]
        /\ r.ssh = ports[v].ssh /\ r.qmp = x
    BY <1>a, <2>2 DEF NetTypeOK
  <2>4. ports[v].ssh \in NetPorts
    BY <1>a, <1>2 DEF AllocQMP, PortsOK
  <2>. QED BY <1>2, <2>1, <2>2, <2>3, <2>4, Given DEF AllocQMP
<1>3. ASSUME NEW v \in NetVMs, AllocFails(v) PROVE NetInv'
  BY <1>3, Given DEF AllocFails
<1>4. ASSUME NEW v \in NetVMs, Launch(v) PROVE NetInv'
  <2>1. \A w \in NetVMs : boot'[w] = IF w = v THEN "starting" ELSE boot[w]
    BY <1>a, <1>4 DEF Launch, NetTypeOK
  <2>2. NetTypeOK' /\ PortsOK'
    BY <1>a, <1>4, <2>1 DEF Launch, NetTypeOK, PortsOK
  <2>. QED BY <1>b, <1>4, <2>2 DEF Launch, NetInv
<1>5. ASSUME NEW v \in NetVMs, BindPort(v) PROVE NetInv'
  <2>1. PICK x \in {ports[v].ssh, ports[v].qmp} :
          IF owner[x] = NoPort
          THEN owner' = [owner EXCEPT ![x] = v] /\ blocked' = NoneBlocked /\ UNCHANGED boot
          ELSE /\ owner[x] # v \/ ports[v].ssh = ports[v].qmp
               /\ blocked' = [of |-> v, by |-> owner[x]]
               /\ boot' = [boot EXCEPT ![v] = "off"]
               /\ owner' = [y \in NetPorts |-> IF owner[y] = v THEN NoPort ELSE owner[y]]
    BY <1>5 DEF BindPort
  <2>2. x \in NetPorts /\ ports[v].ssh # ports[v].qmp /\ UNCHANGED ports /\ boot[v] = "starting"
    BY <1>a, <1>5, <2>1 DEF BindPort, PortsOK
  <2>3. CASE owner[x] = NoPort
    <3>1. owner' \in [NetPorts -> PortOwners]
      BY <1>a, <2>1, <2>3 DEF NetTypeOK, PortOwners
    <3>2. \A y \in NetPorts, w \in NetVMs : owner[y] = w => owner'[y] = w
      BY <1>a, <2>1, <2>2, <2>3, NetAssumption DEF NetTypeOK
    <3>3. PortsOK'
      BY <1>a, <2>1, <2>2, <2>3, <3>2 DEF PortsOK
    <3>. QED BY <1>a, <1>b, <2>1, <2>2, <2>3, <3>1, <3>3 DEF NetInv, NetTypeOK, NoneBlocked
  <2>4. CASE owner[x] # NoPort
    <3>1. PortsOK' /\ boot' \in [NetVMs -> {"new", "ports", "off", "starting", "on"}]
                   /\ owner' \in [NetPorts -> PortOwners]
      BY <2>1, <2>2, <2>4, Exits
    <3>2. blocked' = [of |-> v, by |-> owner[x]] /\ owner[x] # v
      BY <2>1, <2>2, <2>4
    <3>3. owner[x] \in PortOwners
      BY <1>a, <2>2 DEF NetTypeOK
    <3>4. NetTypeOK'
      BY <1>a, <2>2, <3>1, <3>2, <3>3 DEF NetTypeOK
    <3>. QED BY <3>1, <3>2, <3>4 DEF NetInv, BlockedByOthers
  <2>. QED BY <2>3, <2>4
<1>6. ASSUME NEW v \in NetVMs, Listening(v) PROVE NetInv'
  <2>1. \A w \in NetVMs : boot'[w] = IF w = v THEN "on" ELSE boot[w]
    BY <1>a, <1>6 DEF Listening, NetTypeOK
  <2>2. NetTypeOK' /\ PortsOK'
    BY <1>a, <1>6, <2>1 DEF Listening, NetTypeOK, PortsOK
  <2>. QED BY <1>b, <1>6, <2>2 DEF Listening, NetInv
<1>7. ASSUME NEW v \in NetVMs, ExitOf(v), blocked' = NoneBlocked, UNCHANGED ports PROVE NetInv'
  <2>1. PortsOK' /\ boot' \in [NetVMs -> {"new", "ports", "off", "starting", "on"}]
                 /\ owner' \in [NetPorts -> PortOwners]
    BY <1>7, Exits DEF ExitOf
  <2>. QED BY <1>a, <1>b, <1>7, <2>1 DEF NetInv, NetTypeOK, NoneBlocked
<1>8. ASSUME NEW x \in NetPorts, StrangerBinds(x) \/ StrangerLeaves(x) PROVE NetInv'
  <2>1. UNCHANGED <<ports, boot>> /\ blocked' = NoneBlocked
    BY <1>8 DEF StrangerBinds, StrangerLeaves
  <2>2. /\ owner' \in [NetPorts -> PortOwners]
        /\ \A y \in NetPorts, w \in NetVMs : owner[y] = w => owner'[y] = w
    BY <1>a, <1>8, NetAssumption DEF StrangerBinds, StrangerLeaves, NetTypeOK, PortOwners
  <2>3. PortsOK'
    BY <1>a, <2>1, <2>2 DEF PortsOK
  <2>. QED BY <1>a, <1>b, <2>1, <2>2, <2>3 DEF NetInv, NetTypeOK, NoneBlocked
<1>9. CASE UNCHANGED netVars
  BY <1>9 DEF netVars, NetInv, NetTypeOK, PortsOK, BlockedByOthers
<1>10. ASSUME NEW v \in NetVMs, AskQMP(v) PROVE NetInv'
  BY <1>7, <1>10 DEF AskQMP
<1>. QED BY <1>1, <1>2, <1>3, <1>4, <1>5, <1>6, <1>7, <1>8, <1>9, <1>10
         DEF NetNext, Shutdown

\* What keeps a QEMU from its port is another VM's QEMU or another program: the ports
\* of one VM never collide (netx.FreeLoopbackPort with what to avoid).
THEOREM PortsDiffer == NetSpec => []BlockedByOthers
<1>1. NetInv => BlockedByOthers
  BY DEF NetInv
<1>. QED BY <1>1, InitNetInv, StepNetInv, PTL DEF NetSpec

\* A VM whose QEMU has its ports is asked over its own QMP port and no other VM's QEMU
\* exits, though two records may name one port.
THEOREM StopAsksItsOwn == NetSpec => AsksOwnQemu
<1> DEFINE Own == \A v, w \in NetVMs :
                    (boot[v] = "on" /\ AskQMP(v) /\ w # v) => boot'[w] = boot[w]
<1>1. NetInv => Own
  <2> SUFFICES ASSUME NetInv, NEW v \in NetVMs, NEW w \in NetVMs, boot[v] = "on", AskQMP(v),
                      w # v
               PROVE  boot'[w] = boot[w]
    OBVIOUS
  <2>1. PICK u \in NetVMs : owner[ports[v].qmp] = u /\ ExitOf(u)
    BY DEF AskQMP
  <2>2. u = v
    BY <2>1 DEF NetInv, PortsOK
  <2>. QED BY <2>1, <2>2 DEF ExitOf, NetInv, NetTypeOK
<1>2. NetSpec => []NetInv
  BY InitNetInv, StepNetInv, PTL DEF NetSpec
<1>. QED BY <1>1, <1>2, PTL DEF NetSpec, AsksOwnQemu

=============================================================================
