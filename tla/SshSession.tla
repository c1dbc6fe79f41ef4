----------------------------- MODULE SshSession -----------------------------
(***************************************************************************)
(* One vc process and the guest's SSH server (internal/sshx): WaitForSSH,  *)
(* which dials until the guest answers, and the sessions of `vc exec` and  *)
(* `vc shell`, each with a goroutine that waits for the remote command     *)
(* beside the select that also watches for Ctrl-C.                         *)
(*                                                                         *)
(* The guest may be booting, up, or not answering for a while with the     *)
(* connection open (frozen: it hangs, it is paused, it was reset and has   *)
(* forgotten the connection, which nothing probes).                        *)
(***************************************************************************)
EXTENDS Sequences

CONSTANT SshOps  \* what the process does: a subset of {"wait", "exec", "shell"}

ASSUME SshAssumption == SshOps \subseteq {"wait", "exec", "shell"}

VARIABLES
  ssh,        \* the client: its operation, the step it is at, what it returns, and the
              \* calls it has deferred, the last one first
  guest,      \* "booting", "up" or "frozen"
  link,       \* the connection: "none", "open" or "broken"
  remote,     \* the channel: "none", "running", or how the server closed it
  tty,        \* the local terminal: "cooked" or "raw"
  expired,    \* the timeout of WaitForSSH has run out
  cancelled   \* Ctrl-C

sshVars == <<ssh, guest, link, remote, tty, expired, cancelled>>

Statuses == {"zero", "nonzero"}
Session  == {"open", "raw", "pty", "start", "wait", "drain", "return"}

\* "hangup" closes the session and the connection, "restore" gives the terminal back
\* the mode it had.
Defers == {<<>>, <<"hangup">>, <<"restore", "hangup">>}

SshTypeOK ==
  /\ ssh \in [op : SshOps \union {"none"},
              at : Session \union {"idle", "dial", "pause"},
              out : Statuses \union {"none", "ready", "done", "timeout", "failed", "cancelled"},
              defers : Defers]
  /\ guest \in {"booting", "up", "frozen"}
  /\ link \in {"none", "open", "broken"}
  /\ remote \in Statuses \union {"none", "running", "killed", "closed"}
  /\ tty \in {"cooked", "raw"}
  /\ {expired, cancelled} \subseteq BOOLEAN

SshInit ==
  /\ ssh = [op |-> "none", at |-> "idle", out |-> "none", defers |-> <<>>]
  /\ guest \in {"booting", "up", "frozen"}
  /\ link = "none" /\ remote = "none" /\ tty = "cooked"
  /\ expired = FALSE /\ cancelled = FALSE

SshAt(step)   == ssh.at = step
SshGoto(step) == ssh' = [ssh EXCEPT !.at = step]

\* A return statement: the result is set, what was deferred is still to run.
SshReturn(o) == ssh' = [ssh EXCEPT !.at = "return", !.out = o]

SshCall ==
  /\ SshAt("idle")
  /\ \E o \in SshOps : ssh' = [op |-> o, at |-> "dial", out |-> "none", defers |-> <<>>]
  /\ remote' = "none" /\ expired' = FALSE /\ cancelled' = FALSE
  /\ UNCHANGED <<guest, link, tty>>

-----------------------------------------------------------------------------
(* Dial and WaitForSSH.                                                    *)

\* Dial, which its own timeouts end: for a guest that is up it succeeds, and a command
\* defers the close of its client.
SshDial ==
  /\ SshAt("dial")
  /\ \/ /\ guest = "up" /\ ssh.op # "wait"
        /\ ssh' = [ssh EXCEPT !.at = "open", !.defers = <<"hangup">>]
        /\ link' = "open"
     \/ /\ guest = "up" /\ ssh.op = "wait"
        /\ SshReturn("ready") /\ UNCHANGED link
     \/ /\ guest # "up"
        /\ IF ssh.op = "wait" THEN SshGoto("pause") ELSE SshReturn("failed")
        /\ UNCHANGED link
  /\ UNCHANGED <<guest, remote, tty, expired, cancelled>>

\* The select between two dials.  When both of its cases are ready, Go picks one.
PauseTick ==
  /\ SshAt("pause")
  /\ SshGoto("dial")
  /\ UNCHANGED <<guest, link, remote, tty, expired, cancelled>>

\* Mutant of PauseDone: the context of the command, without the timeout.
PauseDoneUntimed ==
  /\ SshAt("pause") /\ cancelled
  /\ SshReturn("timeout")
  /\ UNCHANGED <<guest, link, remote, tty, expired, cancelled>>

\* The context is done: the last dial error is returned.
PauseDone ==
  /\ SshAt("pause") /\ (expired \/ cancelled)
  /\ SshReturn("timeout")
  /\ UNCHANGED <<guest, link, remote, tty, expired, cancelled>>

-----------------------------------------------------------------------------
(* A session.  Its first steps wait for the server's answer, with no       *)
(* deadline and without a look at the context.                             *)

Answered == guest = "up" /\ link = "open"

NewSession ==
  /\ SshAt("open") /\ Answered
  /\ SshGoto(IF ssh.op = "shell" THEN "raw" ELSE "start")
  /\ UNCHANGED <<guest, link, remote, tty, expired, cancelled>>

\* Mutant of MakeRaw: the terminal's mode is set, and its restore is not deferred.
MakeRawUndeferred ==
  /\ SshAt("raw")
  /\ tty' \in {"cooked", "raw"}
  /\ SshGoto(IF tty' = "raw" THEN "pty" ELSE "start")
  /\ UNCHANGED <<guest, link, remote, expired, cancelled>>

\* A terminal is made raw, which may fail, and then its restore is deferred; a piped
\* stdin needs neither that nor a PTY.
MakeRaw ==
  /\ SshAt("raw")
  /\ \/ /\ tty' = "raw"
        /\ ssh' = [ssh EXCEPT !.at = "pty", !.defers = <<"restore">> \o ssh.defers]
     \/ (SshReturn("failed") \/ SshGoto("start")) /\ UNCHANGED tty
  /\ UNCHANGED <<guest, link, remote, expired, cancelled>>

Pty ==
  /\ SshAt("pty") /\ Answered
  /\ SshGoto("start")
  /\ UNCHANGED <<guest, link, remote, tty, expired, cancelled>>

SessionStart ==
  /\ SshAt("start") /\ Answered
  /\ remote' = "running"
  /\ SshGoto("wait")
  /\ UNCHANGED <<guest, link, tty, expired, cancelled>>

\* The server refuses, or the connection is lost.
Refused ==
  /\ ssh.at \in {"open", "pty", "start"} /\ (Answered \/ link = "broken")
  /\ SshReturn("failed")
  /\ UNCHANGED <<guest, link, remote, tty, expired, cancelled>>

\* Session.Wait returns in its goroutine when the channel is closed.
WaitIsOver == remote \notin {"none", "running"} \/ link = "broken"

\* What it returns: an ExitError also for a command that a signal killed, whose status
\* is then 128 and more; an ExitMissingError for a channel that closed without a status;
\* after a zero, an error of the copies to the local streams if there was one.
WaitErrors ==
  CASE remote = "zero"                   -> {"nil", "copy"}
    [] remote \in {"nonzero", "killed"} -> {"exit"}
    [] OTHER                             -> {"missing"}

\* Mutant of ExitCode: an end without a status is a success.
ExitCodeLenient(err) ==
  CASE err \in {"nil", "missing"} -> "zero" [] err = "exit" -> "nonzero" [] OTHER -> "failed"

\* exitCode: a status is the command's; every other end is an error.
ExitCode(err) == CASE err = "nil" -> "zero" [] err = "exit" -> "nonzero" [] OTHER -> "failed"

\* A shell drops the status: whatever its last command did, it is done.
ShellResult(c) == IF c \in Statuses THEN "done" ELSE c

\* Of the select in runWithContext and waitShell, the case of the goroutine's result.
Finished ==
  /\ SshAt("wait") /\ WaitIsOver
  /\ \E err \in WaitErrors :
       SshReturn(IF ssh.op = "shell" THEN ShellResult(ExitCode(err)) ELSE ExitCode(err))
  /\ UNCHANGED <<guest, link, remote, tty, expired, cancelled>>

\* The case of the context: ask for a SIGTERM, close the channel.
Cancelled ==
  /\ SshAt("wait") /\ cancelled
  /\ SshGoto("drain")
  /\ UNCHANGED <<guest, link, remote, tty, expired, cancelled>>

\* Mutant of Drain: it waits for the command, not for the channel.
DrainCommand ==
  /\ SshAt("drain") /\ remote \in Statuses \union {"killed"}
  /\ SshReturn("cancelled")
  /\ UNCHANGED <<guest, link, remote, tty, expired, cancelled>>

\* The goroutine is waited for before the return.
Drain ==
  /\ SshAt("drain") /\ WaitIsOver
  /\ SshReturn("cancelled")
  /\ UNCHANGED <<guest, link, remote, tty, expired, cancelled>>

\* The deferred calls run, the last one first ...
Unwind ==
  /\ SshAt("return") /\ ssh.defers # <<>>
  /\ ssh' = [ssh EXCEPT !.defers = Tail(ssh.defers)]
  /\ IF Head(ssh.defers) = "restore"
     THEN tty' = "cooked" /\ UNCHANGED link
     ELSE link' = "none" /\ UNCHANGED tty
  /\ UNCHANGED <<guest, remote, expired, cancelled>>

\* ... and the command has its result.
SshExit ==
  /\ SshAt("return") /\ ssh.defers = <<>>
  /\ SshGoto("idle")
  /\ UNCHANGED <<guest, link, remote, tty, expired, cancelled>>

-----------------------------------------------------------------------------
(* The server, the guest, the user and time.                               *)

\* The remote command ends, with a status or by a signal.
CommandEnds ==
  /\ remote = "running" /\ Answered
  /\ remote' \in Statuses \union {"killed"}
  /\ UNCHANGED <<ssh, guest, link, tty, expired, cancelled>>

\* The server answers a close with a close, whether or not the command goes on.
ServerCloses ==
  /\ SshAt("drain") /\ remote = "running" /\ Answered
  /\ remote' = "closed"
  /\ UNCHANGED <<ssh, guest, link, tty, expired, cancelled>>

GuestBoots ==
  /\ guest = "booting"
  /\ guest' = "up"
  /\ UNCHANGED <<ssh, link, remote, tty, expired, cancelled>>

GuestFreezes ==
  /\ guest = "up"
  /\ guest' = "frozen"
  /\ UNCHANGED <<ssh, link, remote, tty, expired, cancelled>>

GuestThaws ==
  /\ guest = "frozen"
  /\ guest' = "up"
  /\ UNCHANGED <<ssh, link, remote, tty, expired, cancelled>>

\* The QEMU exits, or the guest resets the connection.
LinkBreaks ==
  /\ link = "open"
  /\ link' = "broken"
  /\ UNCHANGED <<ssh, guest, remote, tty, expired, cancelled>>

Expire ==
  /\ ssh.at \in {"dial", "pause"} /\ ~expired
  /\ expired' = TRUE
  /\ UNCHANGED <<ssh, guest, link, remote, tty, cancelled>>

Interrupted ==
  /\ ~SshAt("idle") /\ ~cancelled
  /\ cancelled' = TRUE
  /\ UNCHANGED <<ssh, guest, link, remote, tty, expired>>

SshClient ==
  \/ SshDial \/ PauseTick \/ NewSession \/ MakeRaw \/ Pty \/ SessionStart \/ Refused
  \/ Finished \/ Cancelled \/ Drain \/ Unwind \/ SshExit

SshNext ==
  \/ SshCall \/ SshClient \/ PauseDone
  \/ CommandEnds \/ ServerCloses \/ GuestBoots \/ GuestFreezes \/ GuestThaws
  \/ LinkBreaks \/ Expire \/ Interrupted

(* The client runs, time passes, and a server that answers goes on doing   *)
(* so.  Go's choice among the ready cases of a select is random, so one    *)
(* that is ready time and again is taken (SF).  Nothing makes the command  *)
(* end, the guest boot or thaw, or the user interrupt.                     *)
SshSpec ==
  /\ SshInit /\ [][SshNext]_sshVars
  /\ WF_sshVars(SshClient) /\ SF_sshVars(PauseDone)
  /\ WF_sshVars(ServerCloses) /\ WF_sshVars(Expire)

-----------------------------------------------------------------------------
\* A status that exec reports is its command's: a zero only for a zero, a non-zero for a
\* command that ended with one or was killed.  A shell is done only if its own end was
\* reported.  Neither a cancelled command nor a lost connection counts as either.
StatusIsTheCommands ==
  SshAt("idle") =>
    /\ ssh.out = "zero"    => remote = "zero"
    /\ ssh.out = "nonzero" => remote \in {"nonzero", "killed"}
    /\ ssh.out = "done"    => ssh.op = "shell" /\ remote \in Statuses \union {"killed"}

\* A command leaves the user's terminal as it found it, at whichever step it returns and
\* whatever it had deferred by then.
TerminalRestored == SshAt("idle") => tty = "cooked"

\* The wait for a guest ends even if the guest never answers.
WaitForSSHEnds == (ssh.at \in {"dial", "pause"}) ~> (ssh.at \notin {"dial", "pause"})

\* A session that the user interrupts ends though its command does not, provided
\* the guest's SSH server answers.
CancelledEnds ==
  (ssh.at \in Session /\ cancelled) ~> (SshAt("idle") \/ guest = "frozen")

=============================================================================
