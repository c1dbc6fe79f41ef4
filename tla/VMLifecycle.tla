----------------------------- MODULE VMLifecycle -----------------------------
(***************************************************************************)
(* The life of a VM as concurrent `vc` invocations drive it: the manager   *)
(* (internal/vm), the record and lock files it keeps in the VM's directory *)
(* (internal/state), and the QEMU processes it starts and kills            *)
(* (internal/qemu).                                                        *)
(*                                                                         *)
(* There is no daemon.  Every invocation is a process of its own; what two *)
(* of them share is the file system, the lock on vm.lock and the process   *)
(* table.  Each action below is what an invocation does between two points *)
(* at which another invocation, a QEMU or the kernel may act.              *)
(*                                                                         *)
(* A VM's files are told apart by the creation they belong to: `inst` is a *)
(* token for one run of Create, which makes a key pair, a disk (with the   *)
(* seed that authorises that key) and a record.  Tokens, pids and inodes   *)
(* are taken again once nothing refers to them, so the model is finite     *)
(* with no bound on the length of a behaviour.                             *)
(***************************************************************************)
EXTENDS FiniteSets

CONSTANTS
  Names,        \* VM names
  Procs,        \* slots for concurrent vc invocations
  Pids,         \* the host's process ids
  Insts,        \* creation tokens
  Inodes,       \* inodes vm.lock may have
  Ops,          \* the commands in use, a subset of Commands
  Overlap,      \* TRUE: two invocations may be at work on one VM at a time
  PosixUnlink,  \* TRUE: an open file can be unlinked (FALSE: Windows)
  Crashes,      \* TRUE: an invocation may die at any point
  IOFaults,     \* TRUE: a file operation or a child process may fail
  PidReuse,     \* whose pid may be one still recorded: "program", "qemu"
  None,         \* no process, token, pid, inode or record
  Program       \* a process that is not a QEMU

Commands == {"create", "start", "stop", "stopf", "restart", "rm", "rmf"}
Entries  == {"lock", "key", "disk", "rec"}
Record   == [inst : Insts, pid : Pids \union {None}]
Qemu     == [vm : Names, disk : Insts \union {None}]

ASSUME NoneAssumption ==
  /\ None \notin Names \union Procs \union Pids \union Insts \union Inodes
  /\ None \notin Record /\ None \notin Qemu
  /\ Program \notin Qemu /\ Program # None

ASSUME OptionsAssumption ==
  /\ Ops \subseteq Commands
  /\ PidReuse \subseteq {"program", "qemu"}
  /\ {Overlap, PosixUnlink, Crashes, IOFaults} \subseteq BOOLEAN

VARIABLES
  fs,      \* per VM: its directory, and in it vm.lock, the key, the disk, vm.json
  holder,  \* per inode: the invocation that holds its flock
  os,      \* per pid: no process, a Program, or a QEMU and the disk it opened
  pc,      \* per invocation: the step it is at
  inv      \* per invocation: its command and its local variables

vars == <<fs, holder, os, pc, inv>>

Dir  == [dir : BOOLEAN, lock : Inodes \union {None}, key : Insts \union {None},
         disk : Insts \union {None}, rec : Record \union {None}]

(* rec is the in-memory *VM, lock the vm.lock the invocation has open, and *)
(* todo the names RemoveAll has read from the directory.                   *)
Invocation == [op : Commands \union {"none"}, vm : Names \union {None},
               rec : Record \union {None}, lock : Inodes \union {None},
               todo : SUBSET Entries]
Fresh(o, n, r) == [op |-> o, vm |-> n, rec |-> r, lock |-> None, todo |-> {}]
NoInvocation   == Fresh("none", None, None)

\* The steps between the lock and the deferred unlock.
LockedSteps == {"key", "disk", "save", "spawn", "record", "ready", "stop",
                "powerdown", "quit", "kill", "wait", "clear", "unlock", "handoff"}
Steps == LockedSteps \union {"idle", "exists", "get", "open", "flock",
                             "rmget", "rmscan", "rmunlink"}

TypeOK ==
  /\ fs \in [Names -> Dir]
  /\ holder \in [Inodes -> Procs \union {None}]
  /\ os \in [Pids -> Qemu \union {None, Program}]
  /\ pc \in [Procs -> Steps]
  /\ inv \in [Procs -> Invocation]

Init ==
  /\ fs = [n \in Names |-> [dir |-> FALSE, lock |-> None, key |-> None,
                            disk |-> None, rec |-> None]]
  /\ holder = [i \in Inodes |-> None]
  /\ os = [q \in Pids |-> None]
  /\ pc = [p \in Procs |-> "idle"]
  /\ inv = [p \in Procs |-> NoInvocation]

-----------------------------------------------------------------------------
(* What a step reads, and where it goes.                                   *)

\* Mutant of IsRunning: any live process will do.
IsRunningUnidentified(q) == q # None /\ os[q] # None

\* IsRunning, and Status of a record with this pid: alive and named like a QEMU.
IsRunning(q) == q # None /\ os[q] \in Qemu

VM(p)  == inv[p].vm
Pid(p) == inv[p].rec.pid

Goto(p, step) == pc' = [pc EXCEPT ![p] = step]
SetRec(p, r)  == inv' = [inv EXCEPT ![p] = [@ EXCEPT !.rec = r]]

\* The command returns (or its process is gone): its locals go with it.
Leave(p) == Goto(p, "idle") /\ inv' = [inv EXCEPT ![p] = NoInvocation]

\* The kernel's release of every flock the process holds.
Released(p) == [i \in Inodes |-> IF holder[i] = p THEN None ELSE holder[i]]

Records == {r \in {fs[n].rec : n \in Names} \union {inv[p].rec : p \in Procs} : r # None}

FreshInsts ==
  Insts \ ({r.inst : r \in Records}
             \union {fs[n].key : n \in Names} \union {fs[n].disk : n \in Names}
             \union {os[q].disk : q \in {x \in Pids : os[x] \in Qemu}})

\* A free pid; one that a record still names only if PidReuse lets it be taken again.
FreePids(kind) ==
  {q \in Pids : os[q] = None /\ (kind \in PidReuse \/ q \notin {r.pid : r \in Records})}

FreshInodes ==
  Inodes \ ({fs[n].lock : n \in Names} \union {inv[p].lock : p \in Procs})

\* A QEMU holds the image lock of the disk it opened.
DiskInUse(n) ==
  fs[n].disk # None /\ \E q \in Pids : os[q] = [vm |-> n, disk |-> fs[n].disk]

-----------------------------------------------------------------------------
(* The command line, and the way into the lock.                            *)

Invoke(p) ==
  /\ pc[p] = "idle"
  /\ \E o \in Ops, n \in Names :
       /\ Overlap \/ \A q \in Procs : VM(q) # n
       /\ \E r \in IF o = "create" THEN [inst : FreshInsts, pid : {None}] ELSE {None} :
            inv' = [inv EXCEPT ![p] = Fresh(o, n, r)]
       /\ Goto(p, CASE o = "create"       -> "exists"
                    [] o \in {"rm", "rmf"} -> "rmget"
                    [] OTHER               -> "get")
  /\ UNCHANGED <<fs, holder, os>>

\* Mutant of Exists: the name is taken for free.
ExistsUnchecked(p) ==
  /\ pc[p] = "exists"
  /\ Goto(p, "open")
  /\ UNCHANGED <<fs, holder, os, inv>>

\* Create looks for a record before it takes the lock, and not again after.
Exists(p) ==
  /\ pc[p] = "exists"
  /\ IF fs[VM(p)].rec # None THEN Leave(p) ELSE Goto(p, "open") /\ UNCHANGED inv
  /\ UNCHANGED <<fs, holder, os>>

\* Start and Stop load the record before they take the lock, and keep that copy.
Get(p) ==
  /\ pc[p] = "get"
  /\ IF fs[VM(p)].rec = None THEN Leave(p)
                             ELSE Goto(p, "open") /\ SetRec(p, fs[VM(p)].rec)
  /\ UNCHANGED <<fs, holder, os>>

\* state.Lock, first half: make the directory, open or create vm.lock.
Open(p) ==
  /\ pc[p] = "open"
  /\ \E i \in IF fs[VM(p)].lock = None THEN FreshInodes ELSE {fs[VM(p)].lock} :
       /\ fs' = [fs EXCEPT ![VM(p)] = [@ EXCEPT !.dir = TRUE, !.lock = i]]
       /\ inv' = [inv EXCEPT ![p] = [@ EXCEPT !.lock = i]]
  /\ Goto(p, "flock")
  /\ UNCHANGED <<holder, os>>

\* Mutant of Flock: a TryLock whose answer is not looked at.
FlockUnheeded(p) ==
  /\ pc[p] = "flock"
  /\ holder' = [holder EXCEPT ![inv[p].lock] = p]
  /\ Goto(p, CASE inv[p].op = "create" -> "key"
               [] inv[p].op = "start"  -> "spawn"
               [] OTHER                -> "stop")
  /\ UNCHANGED <<fs, os, inv>>

\* Mutant of Flock: the lock is noted down for the VM, not for its owner.
FlockUnowned(p) ==
  /\ pc[p] = "flock"
  /\ holder[inv[p].lock] = None
  /\ holder' = [holder EXCEPT ![inv[p].lock] = VM(p)]
  /\ Goto(p, CASE inv[p].op = "create" -> "key"
               [] inv[p].op = "start"  -> "spawn"
               [] OTHER                -> "stop")
  /\ UNCHANGED <<fs, os, inv>>

\* state.Lock, second half: wait for the flock on the file that was opened.
Flock(p) ==
  /\ pc[p] = "flock"
  /\ holder[inv[p].lock] = None
  /\ holder' = [holder EXCEPT ![inv[p].lock] = p]
  /\ Goto(p, CASE inv[p].op = "create" -> "key"
               [] inv[p].op = "start"  -> "spawn"
               [] OTHER                -> "stop")
  /\ UNCHANGED <<fs, os, inv>>

\* Mutant of Unlock: a return path without the deferred unlock, in a process that
\* does not end.
UnlockSkipped(p) ==
  /\ pc[p] = "unlock"
  /\ Leave(p)
  /\ UNCHANGED <<fs, holder, os>>

\* The deferred unlock of an operation that is the last of its command.
Unlock(p) ==
  /\ pc[p] = "unlock"
  /\ holder' = Released(p)
  /\ Leave(p)
  /\ UNCHANGED <<fs, os>>

\* The same, when Stop has succeeded inside `restart` or `rm --force`.
Handoff(p) ==
  /\ pc[p] = "handoff"
  /\ holder' = Released(p)
  /\ IF inv[p].op = "restart"
     THEN /\ inv' = [inv EXCEPT ![p] = Fresh("start", VM(p), None)]
          /\ Goto(p, "get")
     ELSE /\ inv' = [inv EXCEPT ![p] = Fresh("rmf", VM(p), None)]
          /\ Goto(p, "rmscan")
  /\ UNCHANGED <<fs, os>>

-----------------------------------------------------------------------------
(* Create and Start, under the lock.                                       *)

\* The directories and the SSH key pair.
Key(p) ==
  /\ pc[p] = "key"
  /\ fs' = [fs EXCEPT ![VM(p)] = [@ EXCEPT !.dir = TRUE, !.key = inv[p].rec.inst]]
  /\ Goto(p, "disk")
  /\ UNCHANGED <<holder, os, inv>>

\* The image, which may have to be downloaded; the overlay (qemu-img refuses a disk
\* that a QEMU has locked) and the seed.
Disk(p) ==
  /\ pc[p] = "disk"
  /\ IF fs[VM(p)].dir /\ ~DiskInUse(VM(p))
     THEN /\ fs' = [fs EXCEPT ![VM(p)] = [@ EXCEPT !.disk = inv[p].rec.inst]]
          /\ Goto(p, "save")
     ELSE Goto(p, "unlock") /\ UNCHANGED fs
  /\ UNCHANGED <<holder, os, inv>>

Save(n, r) == fs' = [fs EXCEPT ![n] = [@ EXCEPT !.dir = TRUE, !.rec = r]]

SaveNew(p) ==
  /\ pc[p] = "save"
  /\ Save(VM(p), inv[p].rec)
  /\ Goto(p, "spawn")
  /\ UNCHANGED <<holder, os, inv>>

\* startLocked up to qemu.Start: the status of the record it was handed, qemu.log
\* in the VM's directory, a process (there may be none to have).
Spawn(p) ==
  /\ pc[p] = "spawn"
  /\ IF IsRunning(Pid(p)) \/ ~fs[VM(p)].dir \/ FreePids("qemu") = {}
     THEN Goto(p, "unlock") /\ UNCHANGED <<os, inv>>
     ELSE \E q \in FreePids("qemu") :
            /\ os' = [os EXCEPT ![q] = [vm |-> VM(p), disk |-> fs[VM(p)].disk]]
            /\ SetRec(p, [inst |-> inv[p].rec.inst, pid |-> q])
            /\ Goto(p, "record")
  /\ UNCHANGED <<fs, holder>>

\* Mutant of RecordPid: the pid goes to the pid file only.
RecordPidUnsaved(p) ==
  /\ pc[p] = "record"
  /\ Goto(p, IF fs[VM(p)].dir THEN "ready" ELSE "unlock")
  /\ UNCHANGED <<fs, holder, os, inv>>

\* startLocked after qemu.Start: the pid file (a missing directory is an error,
\* and the record is then not saved), the record.
RecordPid(p) ==
  /\ pc[p] = "record"
  /\ IF fs[VM(p)].dir
     THEN Save(VM(p), inv[p].rec) /\ Goto(p, "ready")
     ELSE Goto(p, "unlock") /\ UNCHANGED fs
  /\ UNCHANGED <<holder, os, inv>>

\* waitReady: SSH answers, or the timeout or Ctrl-C ends the wait.  Either way the
\* VM is left as it is, and the lock was held throughout.
Ready(p) ==
  /\ pc[p] = "ready"
  /\ Goto(p, "unlock")
  /\ UNCHANGED <<fs, holder, os, inv>>

-----------------------------------------------------------------------------
(* Stop, under the lock.                                                   *)

StopCheck(p) ==
  /\ pc[p] = "stop"
  /\ Goto(p, CASE ~IsRunning(Pid(p))            -> "clear"
               [] inv[p].op \in {"stopf", "rmf"} -> "kill"
               [] OTHER                          -> "powerdown")
  /\ UNCHANGED <<fs, holder, os, inv>>

\* A QMP request and the wait for the exit it asks for.  The request may fail
\* whatever became of the process; the wait ends when the process is gone, or runs out.
Ask(p, here, otherwise) ==
  /\ pc[p] = here
  /\ \/ Goto(p, otherwise)
     \/ ~IsRunning(Pid(p)) /\ Goto(p, "clear")
  /\ UNCHANGED <<fs, holder, os, inv>>

Powerdown(p) == Ask(p, "powerdown", "quit")
Quit(p)      == Ask(p, "quit", "kill")

\* qemu.Kill refuses a pid that is not a QEMU's; the kernel may take its time.
Kill(p) ==
  /\ pc[p] = "kill"
  /\ os' \in {os} \union {[os EXCEPT ![q] = None] : q \in {x \in {Pid(p)} : IsRunning(x)}}
  /\ Goto(p, "wait")
  /\ UNCHANGED <<fs, holder, inv>>

\* Mutant of Wait: the outcome of the last WaitExit is dropped.
WaitUnheeded(p) ==
  /\ pc[p] = "wait"
  /\ Goto(p, "clear")
  /\ UNCHANGED <<fs, holder, os, inv>>

\* The last WaitExit: "did not stop" if the process is still there.
Wait(p) ==
  /\ pc[p] = "wait"
  /\ Goto(p, IF IsRunning(Pid(p)) THEN "unlock" ELSE "clear")
  /\ UNCHANGED <<fs, holder, os, inv>>

\* clearRunState: save the record read before the lock, without its pid.
Clear(p) ==
  /\ pc[p] = "clear"
  /\ LET r == [inv[p].rec EXCEPT !.pid = None]
     IN  Save(VM(p), r) /\ SetRec(p, r)
  /\ Goto(p, IF inv[p].op \in {"restart", "rmf"} THEN "handoff" ELSE "unlock")
  /\ UNCHANGED <<holder, os>>

-----------------------------------------------------------------------------
(* Remove, which takes no lock of its own.                                 *)

\* Mutant of RmGet: Remove does not ask for the status.
RmGetUnchecked(p) ==
  /\ pc[p] = "rmget"
  /\ IF fs[VM(p)].rec = None THEN Leave(p) ELSE Goto(p, "rmscan") /\ UNCHANGED inv
  /\ UNCHANGED <<fs, holder, os>>

\* Mutant of RmGet: --force lets a running VM be deleted without stopping it.
RmGetForced(p) ==
  /\ pc[p] = "rmget"
  /\ LET r == fs[VM(p)].rec
     IN  IF r = None \/ (IsRunning(r.pid) /\ inv[p].op = "rm")
         THEN Leave(p) ELSE Goto(p, "rmscan") /\ UNCHANGED inv
  /\ UNCHANGED <<fs, holder, os>>

RmGet(p) ==
  /\ pc[p] = "rmget"
  /\ LET r == fs[VM(p)].rec
     IN  CASE r = None \/ (IsRunning(r.pid) /\ inv[p].op = "rm") -> Leave(p)
           [] r # None /\ IsRunning(r.pid) /\ inv[p].op = "rmf" ->
                Goto(p, "get") /\ UNCHANGED inv
           [] OTHER -> Goto(p, "rmscan") /\ UNCHANGED inv
  /\ UNCHANGED <<fs, holder, os>>

\* os.RemoveAll reads the directory once ...
RmScan(p) ==
  /\ pc[p] = "rmscan"
  /\ inv' = [inv EXCEPT ![p] = [@ EXCEPT !.todo = {f \in Entries : fs[VM(p)][f] # None}]]
  /\ Goto(p, "rmunlink")
  /\ UNCHANGED <<fs, holder, os>>

\* Windows does not delete a file that another process has open.
Undeletable(f, n) ==
  /\ ~PosixUnlink
  /\ \/ f = "lock" /\ \E q \in Procs : inv[q].lock # None /\ inv[q].lock = fs[n].lock
     \/ f = "disk" /\ DiskInUse(n)

\* ... removes what it read there, entry by entry, and goes on past one that it cannot
\* remove ...
RmUnlink(p) ==
  /\ pc[p] = "rmunlink"
  /\ \E f \in inv[p].todo :
       /\ inv' = [inv EXCEPT ![p] = [@ EXCEPT !.todo = inv[p].todo \ {f}]]
       /\ \/ /\ ~Undeletable(f, VM(p))
             /\ fs' = [fs EXCEPT ![VM(p)] = [@ EXCEPT ![f] = None]]
          \/ /\ IOFaults \/ Undeletable(f, VM(p))
             /\ UNCHANGED fs
  /\ UNCHANGED <<holder, os, pc>>

\* ... and then the directory, which fails if something is left or was created there.
RmDir(p) ==
  /\ pc[p] = "rmunlink" /\ inv[p].todo = {}
  /\ fs' = [fs EXCEPT ![VM(p)] = [@ EXCEPT !.dir = \E f \in Entries : fs[VM(p)][f] # None]]
  /\ Leave(p)
  /\ UNCHANGED <<holder, os>>

-----------------------------------------------------------------------------
(* Faults, crashes, and the processes vc does not run itself.              *)

\* A step that touches files or starts a child returns its error: what the
\* operation did before stays done, the deferred unlock runs.
Fail(p) ==
  /\ IOFaults
  /\ \/ /\ pc[p] \in {"key", "disk", "save", "spawn", "record", "clear"}
        /\ Goto(p, "unlock") /\ UNCHANGED inv
     \/ pc[p] \in {"open", "flock", "rmscan"} /\ Leave(p)
     \/ pc[p] = "rmunlink" /\ inv[p].todo = {} /\ Leave(p)
  /\ UNCHANGED <<fs, holder, os>>

Crash(p) ==
  /\ Crashes
  /\ pc[p] # "idle"
  /\ holder' = Released(p)
  /\ Leave(p)
  /\ UNCHANGED <<fs, os>>

\* A QEMU ends: the guest powers off, it is told to quit, it dies, it could not
\* open its disk.
QemuExit(q) ==
  /\ os[q] \in Qemu
  /\ os' = [os EXCEPT ![q] = None]
  /\ UNCHANGED <<fs, holder, pc, inv>>

ProgramStart(q) ==
  /\ "program" \in PidReuse
  /\ q \in FreePids("program")
  /\ os' = [os EXCEPT ![q] = Program]
  /\ UNCHANGED <<fs, holder, pc, inv>>

ProgramExit(q) ==
  /\ os[q] = Program
  /\ os' = [os EXCEPT ![q] = None]
  /\ UNCHANGED <<fs, holder, pc, inv>>

-----------------------------------------------------------------------------
\* What an invocation does of itself once it is under way, in a time that the code
\* bounds: its waits for QEMU, the guest and the programs it asks have timeouts.
Bounded(p) ==
  \/ Exists(p) \/ Get(p) \/ Open(p) \/ Unlock(p) \/ Handoff(p)
  \/ Key(p) \/ SaveNew(p) \/ Spawn(p) \/ RecordPid(p) \/ Ready(p)
  \/ StopCheck(p) \/ Powerdown(p) \/ Quit(p) \/ Kill(p) \/ Wait(p) \/ Clear(p)
  \/ RmGet(p) \/ RmScan(p) \/ RmUnlink(p) \/ RmDir(p)

\* The same with the two waits that nothing bounds but Ctrl-C: for the body of an image
\* (the HTTP client has no timeout) and for qemu-img.
Step(p) == Bounded(p) \/ Disk(p)

Next ==
  \/ \E p \in Procs : Invoke(p) \/ Flock(p) \/ Step(p) \/ Fail(p) \/ Crash(p)
  \/ \E q \in Pids : QemuExit(q) \/ ProgramStart(q) \/ ProgramExit(q)

Spec == Init /\ [][Next]_vars

(* A running process is scheduled, and the kernel wakes the waiters of a   *)
(* flock in the order they came.  Nothing makes a mirror go on sending, a  *)
(* user invoke, an invocation crash, or a QEMU exit.                       *)
Fairness == \A p \in Procs : WF_vars(Bounded(p)) /\ SF_vars(Flock(p))

FairSpec == Spec /\ Fairness

-----------------------------------------------------------------------------
(* Safety.                                                                 *)

\* At most one invocation is between the lock and the unlock of a VM: the per-VM
\* lock does exclude.  It needs vm.lock to stay one file while anyone has it open.
LockExclusion ==
  \A p, q \in Procs :
    (pc[p] \in LockedSteps /\ pc[q] \in LockedSteps /\ VM(p) = VM(q)) => p = q

\* Stop clears a VM's run state, and so reports success, only when the QEMU it set
\* out to stop is gone, whichever of its escalations it took and whatever other
\* invocations did meanwhile.
ClearOnlyDead == \A p \in Procs : pc[p] = "clear" => ~IsRunning(Pid(p))

\* A kill ends a QEMU of the VM it was asked to stop, or nothing: a pid that went to
\* another process since it was recorded is left alone.
KillsOnlyOwnQemu ==
  [][\A p \in Procs, q \in Pids :
       (pc[p] = "kill" /\ pc'[p] # "kill" /\ os'[q] # os[q])
         => os[q] \in Qemu /\ os[q].vm = VM(p)]_vars

\* A VM's key and disk are the ones its record was created with, or are missing:
\* no step, and no crash between two, leaves a record beside another creation's files.
RecordOwnsFiles ==
  \A n \in Names : fs[n].rec # None =>
    {fs[n].key, fs[n].disk} \subseteq {fs[n].rec.inst, None}

\* No step rewrites or deletes the record of a running VM: the record is the only
\* way to reach its QEMU.
NeverForgetsRunning ==
  [][\A n \in Names :
       (fs[n].rec # None /\ IsRunning(fs[n].rec.pid)) => fs'[n].rec = fs[n].rec]_vars

\* A VM's record names the pid, or the invocation that started its QEMU is about to
\* save it there.
Named(q, n) ==
  \/ fs[n].rec # None /\ fs[n].rec.pid = q
  \/ \E p \in Procs : pc[p] = "record" /\ VM(p) = n /\ Pid(p) = q

\* Every QEMU of a VM is the one its record names, but for the moment in which the
\* invocation that started it still has to save the pid.
RunningIsRecorded ==
  \A q \in Pids, n \in Names : (os[q] \in Qemu /\ os[q].vm = n) => Named(q, n)

\* A QEMU is lost, running under no record, in one way only: the invocation that
\* started it ended, by an error or a crash, before it saved the pid.  No later step,
\* of any command and whatever fails in it, loses one.
LostOnlyBeforeTheSave ==
  [][\A q \in Pids, n \in Names :
       (os'[q] \in Qemu /\ os'[q].vm = n /\ ~Named(q, n)')
         => \/ os[q] = os'[q] /\ ~Named(q, n)
            \/ \E p \in Procs : /\ pc[p] = "record" /\ pc'[p] \in {"unlock", "idle"}
                                /\ VM(p) = n /\ Pid(p) = q]_vars

\* What an invocation read before it took the lock still holds once it has it: Start
\* and Stop have the record as it is on disk, Create a name that is free.
LockedReadIsCurrent ==
  \A p \in Procs :
    /\ (pc[p] = "stop" \/ (pc[p] = "spawn" /\ inv[p].op = "start"))
         => inv[p].rec = fs[VM(p)].rec
    /\ pc[p] = "key" => fs[VM(p)].rec = None

\* Remove deletes a VM's record only while no QEMU runs for the VM.
RunningNeverDeleted ==
  [][\A n \in Names : (fs[n].rec # None /\ fs'[n].rec = None) =>
       \A q \in Pids : ~(os[q] \in Qemu /\ os[q].vm = n)]_vars

-----------------------------------------------------------------------------
(* Liveness.                                                               *)

\* An invocation that never returns waits for an image: one of the VM's invocations, it
\* or another, stays at its download or at qemu-img for ever, with the VM's lock.  Short
\* of that every invocation returns, whatever the others do and wherever they die.
InvocationEnds ==
  \A p \in Procs, n \in Names :
    \/ (VM(p) = n) ~> (VM(p) # n)
    \/ \E q \in Procs : <>[](pc[q] = "disk" /\ VM(q) = n)

=============================================================================
