----------------------------- MODULE QmpExchange -----------------------------
(***************************************************************************)
(* One QMP exchange (internal/qemu/qmp.go): qmpExec dials a port, reads a  *)
(* greeting, negotiates, sends one command and reads its reply, all under  *)
(* a single deadline.  At the other end is the monitor of a QEMU, which    *)
(* may send events between any two replies, or may be busy with another    *)
(* client and say nothing; or another program that has the port.           *)
(***************************************************************************)
EXTENDS Naturals, Sequences

CONSTANTS
  QmpCommands,  \* what Powerdown and Quit send
  MaxUnread     \* bound: messages sent to the client and not yet read

ASSUME QmpAssumption ==
  /\ MaxUnread \in Nat \ {0}
  /\ {"none", "qmp_capabilities"} \intersect QmpCommands = {}

Messages == {"greeting", "hello", "event", "return", "error"}

VARIABLES
  qmp,      \* the client: the step it is at, and its command
  inbox,    \* what has been sent to it
  request,  \* what it has sent and the monitor has not yet taken
  monitor,  \* the peer: "none", "silent", "negotiating", "ready", "closed"
  ran,      \* the commands QEMU has carried out in this exchange
  overdue   \* the connection's deadline has passed

qmpVars == <<qmp, inbox, request, monitor, ran, overdue>>

QmpSteps == {"idle", "dial", "greeting", "capabilities", "reply", "ok", "failed"}

QmpTypeOK ==
  /\ qmp \in [at : QmpSteps, cmd : QmpCommands \union {"none"}]
  /\ inbox \in Seq(Messages) /\ Len(inbox) <= MaxUnread
  /\ request \in QmpCommands \union {"none", "qmp_capabilities"}
  /\ monitor \in {"none", "silent", "negotiating", "ready", "closed"}
  /\ ran \subseteq QmpCommands
  /\ overdue \in BOOLEAN

QmpInit ==
  /\ qmp = [at |-> "idle", cmd |-> "none"]
  /\ inbox = <<>> /\ request = "none" /\ monitor = "none"
  /\ ran = {} /\ overdue = FALSE

QmpAt(step)  == qmp.at = step
QmpGoto(step) == qmp' = [qmp EXCEPT !.at = step]

-----------------------------------------------------------------------------
(* The client.                                                             *)

\* Powerdown or Quit is called.
QmpExec ==
  /\ QmpAt("idle")
  /\ \E c \in QmpCommands : qmp' = [at |-> "dial", cmd |-> c]
  /\ UNCHANGED <<inbox, request, monitor, ran, overdue>>

\* DialTimeout, and the deadline that is set once for all that follows.
QmpDial ==
  /\ QmpAt("dial")
  /\ \/ QmpGoto("failed") /\ UNCHANGED monitor
     \/ QmpGoto("greeting") /\ monitor' = "silent"
  /\ UNCHANGED <<inbox, request, ran, overdue>>

\* The first message must be a greeting; capabilities are then asked for.
ReadGreeting ==
  /\ QmpAt("greeting") /\ inbox # <<>>
  /\ inbox' = Tail(inbox)
  /\ IF Head(inbox) = "greeting"
     THEN QmpGoto("capabilities") /\ request' = "qmp_capabilities"
     ELSE QmpGoto("failed") /\ UNCHANGED request
  /\ UNCHANGED <<monitor, ran, overdue>>

\* The reply to the capabilities lets the command go out, the reply to the command
\* ends the exchange.
Replied ==
  IF QmpAt("capabilities")
  THEN QmpGoto("reply") /\ request' = qmp.cmd
  ELSE QmpGoto("ok") /\ UNCHANGED request

\* Mutant of ReadResult: any message that is not an error is a reply.
ReadResultHasty ==
  /\ qmp.at \in {"capabilities", "reply"} /\ inbox # <<>>
  /\ inbox' = Tail(inbox)
  /\ IF Head(inbox) = "error" THEN QmpGoto("failed") /\ UNCHANGED request ELSE Replied
  /\ UNCHANGED <<monitor, ran, overdue>>

\* readResult: events, and messages that are neither, are skipped.
ReadResult ==
  /\ qmp.at \in {"capabilities", "reply"} /\ inbox # <<>>
  /\ inbox' = Tail(inbox)
  /\ CASE Head(inbox) = "return" -> Replied
       [] Head(inbox) = "error"  -> QmpGoto("failed") /\ UNCHANGED request
       [] OTHER                  -> UNCHANGED <<qmp, request>>
  /\ UNCHANGED <<monitor, ran, overdue>>

\* A read past the deadline fails, at the latest when what is buffered has been
\* used up; and so does one at the end of the stream.
ReadFails ==
  /\ qmp.at \in {"greeting", "capabilities", "reply"}
  /\ overdue \/ (monitor = "closed" /\ inbox = <<>>)
  /\ QmpGoto("failed")
  /\ UNCHANGED <<inbox, request, monitor, ran, overdue>>

\* The connection is closed on every way out.
QmpReturn ==
  /\ qmp.at \in {"ok", "failed"}
  /\ qmp' = [at |-> "idle", cmd |-> "none"]
  /\ inbox' = <<>> /\ request' = "none" /\ monitor' = "none"
  /\ ran' = {} /\ overdue' = FALSE

QmpStep == QmpDial \/ ReadGreeting \/ ReadResult \/ ReadFails \/ QmpReturn

-----------------------------------------------------------------------------
(* The peer, and time.                                                     *)

\* What is sent past the deadline is not read any more.
Send(m) == IF overdue THEN UNCHANGED inbox
                      ELSE Len(inbox) < MaxUnread /\ inbox' = Append(inbox, m)

\* A free monitor greets; another program says something else.
Greet ==
  /\ monitor = "silent"
  /\ \/ Send("greeting") /\ monitor' = "negotiating"
     \/ Send("hello") /\ monitor' = "closed"
  /\ UNCHANGED <<qmp, request, ran, overdue>>

Negotiate ==
  /\ monitor = "negotiating" /\ request = "qmp_capabilities"
  /\ request' = "none"
  /\ \/ Send("return") /\ monitor' = "ready"
     \/ Send("error") /\ UNCHANGED monitor
  /\ UNCHANGED <<qmp, ran, overdue>>

Execute ==
  /\ monitor = "ready" /\ request \in QmpCommands
  /\ request' = "none"
  /\ \/ Send("return") /\ ran' = ran \union {request}
     \/ Send("error") /\ UNCHANGED ran
  /\ UNCHANGED <<qmp, monitor, overdue>>

\* Events follow the negotiation, as many as there are.
Event ==
  /\ monitor = "ready"
  /\ Send("event")
  /\ UNCHANGED <<qmp, request, monitor, ran, overdue>>

\* QEMU exits, with or without what it has sent arriving.
HangUp ==
  /\ monitor \in {"silent", "negotiating", "ready"}
  /\ monitor' = "closed"
  /\ inbox' \in {inbox, <<>>}
  /\ UNCHANGED <<qmp, request, ran, overdue>>

\* Mutant of Deadline: it is set again with every message.
DeadlineRenewed ==
  /\ monitor # "none" /\ ~overdue /\ inbox = <<>>
  /\ overdue' = TRUE
  /\ UNCHANGED <<qmp, inbox, request, monitor, ran>>

\* The one deadline of the exchange passes.
Deadline ==
  /\ monitor # "none" /\ ~overdue
  /\ overdue' = TRUE
  /\ UNCHANGED <<qmp, inbox, request, monitor, ran>>

QmpNext ==
  \/ QmpExec \/ QmpStep
  \/ Greet \/ Negotiate \/ Execute \/ Event \/ HangUp \/ Deadline

\* The client runs and time passes.  Nothing is asked of the peer.
QmpSpec == QmpInit /\ [][QmpNext]_qmpVars /\ WF_qmpVars(QmpStep) /\ WF_qmpVars(Deadline)

-----------------------------------------------------------------------------
\* A request that Powerdown or Quit reports done is one that QEMU has carried out:
\* no event, and no reply to the negotiation, is taken for the reply to the command.
OkMeansDone == QmpAt("ok") => qmp.cmd \in ran

\* A request ends, whatever the peer does: says nothing, hangs up, or sends events
\* without end.  Stop holds the VM's lock for as long.
ExchangeEnds == ~QmpAt("idle") ~> QmpAt("idle")

=============================================================================
