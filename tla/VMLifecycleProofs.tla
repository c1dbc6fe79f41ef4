-------------------------- MODULE VMLifecycleProofs --------------------------
(***************************************************************************)
(* Theorems about VMLifecycle, for any number of VMs, invocations, pids    *)
(* and creations.                                                          *)
(***************************************************************************)
EXTENDS VMLifecycle, Integers, TLAPS

-----------------------------------------------------------------------------
(* What the updates of the model do to a directory and to an invocation.    *)

\* Each write to a VM's directory leaves it well typed.
LEMMA DirUpdates ==
  ASSUME NEW d \in Dir
  PROVE  /\ \A i \in Inodes : [d EXCEPT !.dir = TRUE, !.lock = i] \in Dir
         /\ \A c \in Insts : /\ [d EXCEPT !.dir = TRUE, !.key = c] \in Dir
                             /\ [d EXCEPT !.disk = c] \in Dir
         /\ \A r \in Record : [d EXCEPT !.dir = TRUE, !.rec = r] \in Dir
         /\ \A b \in BOOLEAN : [d EXCEPT !.dir = b] \in Dir
  BY DEF Dir

\* So does each deletion in it.
LEMMA DirUnlink ==
  ASSUME NEW d \in Dir, NEW f \in Entries
  PROVE  [d EXCEPT ![f] = None] \in Dir
<1>1. CASE f = "lock"  BY <1>1 DEF Dir
<1>2. CASE f = "key"   BY <1>2 DEF Dir
<1>3. CASE f = "disk"  BY <1>3 DEF Dir
<1>4. CASE f = "rec"   BY <1>4 DEF Dir
<1>. QED BY <1>1, <1>2, <1>3, <1>4 DEF Entries

\* The locals a command begins with.
LEMMA FreshInvocation ==
  ASSUME NEW o \in Commands \union {"none"}, NEW n \in Names \union {None},
         NEW r \in Record \union {None}
  PROVE  /\ Fresh(o, n, r) \in Invocation
         /\ Fresh(o, n, r).op = o /\ Fresh(o, n, r).vm = n /\ Fresh(o, n, r).rec = r
         /\ Fresh(o, n, r).lock = None
  BY DEF Fresh, Invocation

\* What assigning a local changes, and what it leaves.
LEMMA InvUpdates ==
  ASSUME NEW r \in Invocation
  PROVE  /\ \A i \in Inodes :
              /\ [r EXCEPT !.lock = i] \in Invocation
              /\ [r EXCEPT !.lock = i].lock = i
              /\ [r EXCEPT !.lock = i].rec = r.rec
              /\ [r EXCEPT !.lock = i].vm = r.vm
              /\ [r EXCEPT !.lock = i].op = r.op
         /\ \A x \in Record \union {None} :
              /\ [r EXCEPT !.rec = x] \in Invocation
              /\ [r EXCEPT !.rec = x].rec = x
              /\ [r EXCEPT !.rec = x].lock = r.lock
              /\ [r EXCEPT !.rec = x].vm = r.vm
              /\ [r EXCEPT !.rec = x].op = r.op
         /\ \A t \in SUBSET Entries :
              /\ [r EXCEPT !.todo = t] \in Invocation
              /\ [r EXCEPT !.todo = t].rec = r.rec
              /\ [r EXCEPT !.todo = t].lock = r.lock
              /\ [r EXCEPT !.todo = t].vm = r.vm
              /\ [r EXCEPT !.todo = t].op = r.op
  BY DEF Invocation

-----------------------------------------------------------------------------
(* Types.                                                                  *)

\* The steps at which an invocation has a record, and those at which it has vm.lock open.
HasRecord == LockedSteps \union {"exists", "open", "flock"}
HasLock   == LockedSteps \union {"flock"}

\* What the locals of an invocation are known to be at each of its steps.  TypeOK is
\* not inductive without it: a step that saves the record needs it to be one.
LocalsOK(s, r) ==
  /\ s # "idle" => r.vm \in Names
  /\ s \in HasRecord => r.rec \in Record
  /\ s \in HasLock => r.lock \in Inodes

Locals == \A p \in Procs : LocalsOK(pc[p], inv[p])

TypeInv == TypeOK /\ Locals

\* An empty data directory is well typed.
LEMMA InitTypeInv == Init => TypeInv
  BY NoneAssumption
  DEF Init, TypeInv, TypeOK, Locals, LocalsOK, Dir, Invocation, NoInvocation, Fresh,
      Commands, HasRecord, HasLock, LockedSteps, Steps

\* The invocations stay well typed when one of them takes a step.
InvTypeOK == pc \in [Procs -> Steps] /\ inv \in [Procs -> Invocation] /\ Locals

\* A step that moves one invocation, to where its locals allow, keeps all well typed.
LEMMA Move ==
  ASSUME InvTypeOK, NEW p \in Procs, NEW s \in Steps, NEW r \in Invocation,
         pc' = [pc EXCEPT ![p] = s], inv' = [inv EXCEPT ![p] = r], LocalsOK(s, r)
  PROVE  InvTypeOK'
  BY DEF InvTypeOK, Locals

\* ... and when it only goes on, its locals unchanged.
LEMMA MoveOn ==
  ASSUME InvTypeOK, NEW p \in Procs, NEW s \in Steps,
         Goto(p, s), inv' = inv, LocalsOK(s, inv[p])
  PROVE  InvTypeOK'
  BY DEF InvTypeOK, Locals, Goto

\* So does the end of an invocation.
LEMMA LeaveOK ==
  ASSUME InvTypeOK, NEW p \in Procs, Leave(p)
  PROVE  InvTypeOK'
<1>1. NoInvocation \in Invocation
  BY FreshInvocation DEF NoInvocation
<1>2. "idle" \in Steps /\ LocalsOK("idle", NoInvocation)
  BY DEF Steps, LocalsOK, HasRecord, HasLock, LockedSteps
<1>. QED BY <1>1, <1>2, Move DEF Leave, Goto

\* Every step keeps TypeInv.
LEMMA StepTypeInv == TypeInv /\ [Next]_vars => TypeInv'
<1> SUFFICES ASSUME TypeInv, [Next]_vars PROVE TypeInv'
  OBVIOUS
<1> USE NoneAssumption
<1> DEFINE FsOK == fs \in [Names -> Dir]
           HolderOK == holder \in [Inodes -> Procs \union {None}]
           OsOK == os \in [Pids -> Qemu \union {None, Program}]
<1>a. FsOK /\ HolderOK /\ OsOK /\ InvTypeOK
  BY DEF TypeInv, TypeOK, InvTypeOK
<1>b. SUFFICES FsOK' /\ HolderOK' /\ OsOK' /\ InvTypeOK'
  BY DEF TypeInv, TypeOK, InvTypeOK
<1>c. ASSUME NEW p \in Procs
      PROVE  /\ pc[p] \in Steps /\ inv[p] \in Invocation /\ LocalsOK(pc[p], inv[p])
             /\ \A n \in Names : fs[n] \in Dir
             /\ (holder' = Released(p) => HolderOK')
  BY <1>a DEF InvTypeOK, Locals, Released
<1> HIDE DEF FsOK, HolderOK, OsOK
<1>1. ASSUME NEW p \in Procs, Invoke(p) PROVE FsOK' /\ HolderOK' /\ OsOK' /\ InvTypeOK'
  <2>1. PICK o \in Ops, n \in Names :
          /\ \E r \in IF o = "create" THEN [inst : FreshInsts, pid : {None}] ELSE {None} :
               inv' = [inv EXCEPT ![p] = Fresh(o, n, r)]
          /\ Goto(p, CASE o = "create"        -> "exists"
                       [] o \in {"rm", "rmf"} -> "rmget"
                       [] OTHER               -> "get")
    BY <1>1 DEF Invoke
  <2>2. PICK r \in IF o = "create" THEN [inst : FreshInsts, pid : {None}] ELSE {None} :
          inv' = [inv EXCEPT ![p] = Fresh(o, n, r)]
    BY <2>1
  <2>3. r \in Record \union {None} /\ (o = "create" => r \in Record)
    BY DEF FreshInsts, Record
  <2>4. PICK s \in {"exists", "rmget", "get"} : Goto(p, s) /\ (s = "exists" => o = "create")
    BY <2>1
  <2>5. /\ Fresh(o, n, r) \in Invocation
        /\ Fresh(o, n, r).vm = n /\ Fresh(o, n, r).rec = r
    BY <2>3, FreshInvocation, OptionsAssumption
  <2>6. s \in Steps /\ LocalsOK(s, Fresh(o, n, r))
    BY <2>3, <2>4, <2>5 DEF LocalsOK, Steps, HasRecord, HasLock, LockedSteps
  <2>7. InvTypeOK'
    BY <1>a, <2>2, <2>4, <2>5, <2>6, Move DEF Goto
  <2>. QED BY <1>1, <1>a, <2>7 DEF Invoke, FsOK, HolderOK, OsOK
<1>2. ASSUME NEW p \in Procs, Flock(p) PROVE FsOK' /\ HolderOK' /\ OsOK' /\ InvTypeOK'
  <2>1. \A s \in LockedSteps : s \in Steps /\ LocalsOK(s, inv[p])
    BY <1>2, <1>c DEF Flock, LocalsOK, Steps, HasRecord, HasLock, LockedSteps
  <2>2. \E s \in {"key", "spawn", "stop"} : Goto(p, s)
    BY <1>2 DEF Flock
  <2>3. InvTypeOK'
    BY <1>2, <1>a, <2>1, <2>2, MoveOn DEF Flock, LockedSteps
  <2>. QED BY <1>2, <1>a, <2>3 DEF Flock, FsOK, HolderOK, OsOK
<1>3. ASSUME NEW p \in Procs, Step(p) PROVE FsOK' /\ HolderOK' /\ OsOK' /\ InvTypeOK'
  <2>a. /\ pc[p] \in Steps /\ inv[p] \in Invocation /\ LocalsOK(pc[p], inv[p])
        /\ holder' = Released(p) => HolderOK'
        /\ \A n \in Names : fs[n] \in Dir
    BY <1>c
  <2>b. pc[p] # "idle" => VM(p) \in Names /\ fs[VM(p)] \in Dir
    BY <2>a DEF LocalsOK, VM
  <2>c. ASSUME pc[p] \in LockedSteps
        PROVE  \A s \in LockedSteps : s \in Steps /\ LocalsOK(s, inv[p])
    BY <2>a, <2>c DEF LocalsOK, Steps, HasRecord, HasLock, LockedSteps
  <2>d. ASSUME pc[p] \in LockedSteps, NEW s \in LockedSteps, Goto(p, s), inv' = inv
        PROVE  InvTypeOK'
    BY <2>c, <2>d, <1>a, MoveOn
  <2>e. ASSUME pc[p] \in LockedSteps
        PROVE  /\ inv[p].rec \in Record /\ inv[p].rec.inst \in Insts
               /\ VM(p) \in Names /\ inv[p].vm \in Names /\ inv[p].lock \in Inodes
               /\ fs[VM(p)] \in Dir
    BY <2>a, <2>b, <2>e DEF LocalsOK, HasRecord, HasLock, LockedSteps, Record, VM
  <2>1. CASE Exists(p)
    <3>1. CASE Leave(p)  BY <2>1, <3>1, <1>a, LeaveOK DEF Exists, FsOK, HolderOK, OsOK
    <3>2. CASE Goto(p, "open") /\ inv' = inv
      <4>1. "open" \in Steps /\ LocalsOK("open", inv[p])
        BY <2>1, <2>a DEF Exists, LocalsOK, Steps, HasRecord, HasLock, LockedSteps
      <4>. QED BY <2>1, <3>2, <4>1, <1>a, MoveOn DEF Exists, FsOK, HolderOK, OsOK
    <3>. QED BY <2>1, <3>1, <3>2 DEF Exists
  <2>2. CASE Get(p)
    <3>1. CASE Leave(p)  BY <2>2, <3>1, <1>a, LeaveOK DEF Get, FsOK, HolderOK, OsOK
    <3>2. CASE fs[VM(p)].rec # None /\ Goto(p, "open") /\ SetRec(p, fs[VM(p)].rec)
      <4>1. fs[VM(p)].rec \in Record
        BY <2>2, <3>2, <2>b DEF Get, Dir
      <4>2. /\ "open" \in Steps
            /\ [inv[p] EXCEPT !.rec = fs[VM(p)].rec] \in Invocation
            /\ LocalsOK("open", [inv[p] EXCEPT !.rec = fs[VM(p)].rec])
        BY <2>2, <2>a, <4>1, InvUpdates
        DEF Get, LocalsOK, Steps, HasRecord, HasLock, LockedSteps
      <4>. QED BY <2>2, <3>2, <4>2, <1>a, Move DEF Get, Goto, SetRec, FsOK, HolderOK, OsOK
    <3>. QED BY <2>2, <3>1, <3>2 DEF Get
  <2>3. CASE Open(p)
    <3>1. VM(p) \in Names /\ fs[VM(p)] \in Dir /\ inv[p].rec \in Record
      BY <2>3, <2>a, <2>b DEF Open, LocalsOK, HasRecord
    <3>2. PICK i \in IF fs[VM(p)].lock = None THEN FreshInodes ELSE {fs[VM(p)].lock} :
            /\ fs' = [fs EXCEPT ![VM(p)] = [@ EXCEPT !.dir = TRUE, !.lock = i]]
            /\ inv' = [inv EXCEPT ![p] = [@ EXCEPT !.lock = i]]
      BY <2>3 DEF Open
    <3>3. i \in Inodes
      BY <3>1, <3>2 DEF FreshInodes, Dir
    <3>4. FsOK'
      BY <1>a, <3>1, <3>2, <3>3, DirUpdates DEF FsOK
    <3>5. /\ "flock" \in Steps
          /\ [inv[p] EXCEPT !.lock = i] \in Invocation
          /\ LocalsOK("flock", [inv[p] EXCEPT !.lock = i])
      BY <2>a, <3>1, <3>3, InvUpdates DEF LocalsOK, Steps, VM
    <3>6. InvTypeOK'
      BY <2>3, <1>a, <3>2, <3>5, Move DEF Open, Goto
    <3>. QED BY <2>3, <1>a, <3>4, <3>6 DEF Open, HolderOK, OsOK
  <2>4. CASE Unlock(p)
    BY <2>4, <2>a, <1>a, LeaveOK DEF Unlock, FsOK, OsOK
  <2>5. CASE Handoff(p)
    <3>1. VM(p) \in Names
      BY <2>5, <2>b DEF Handoff
    <3>2. PICK o \in {"start", "rmf"}, s \in {"get", "rmscan"} :
            inv' = [inv EXCEPT ![p] = Fresh(o, VM(p), None)] /\ Goto(p, s)
      BY <2>5 DEF Handoff
    <3>3. Fresh(o, VM(p), None) \in Invocation /\ Fresh(o, VM(p), None).vm = VM(p)
      BY <3>1, FreshInvocation DEF Commands
    <3>4. s \in Steps /\ LocalsOK(s, Fresh(o, VM(p), None))
      BY <3>1, <3>3 DEF LocalsOK, Steps, HasRecord, HasLock, LockedSteps
    <3>. QED BY <2>5, <2>a, <1>a, <3>2, <3>3, <3>4, Move DEF Handoff, Goto, FsOK, OsOK
  <2>6. CASE Key(p)
    BY <2>6, <2>d, <2>e, <1>a, DirUpdates DEF Key, LockedSteps, FsOK, HolderOK, OsOK
  <2>7. CASE Disk(p)
    <3>1. InvTypeOK'
      BY <2>7, <2>d DEF Disk, LockedSteps
    <3>2. FsOK'
      <4>1. CASE fs' = fs  BY <4>1, <1>a DEF FsOK
      <4>2. CASE fs' = [fs EXCEPT ![VM(p)] = [@ EXCEPT !.disk = inv[p].rec.inst]]
        BY <2>7, <4>2, <2>e, <1>a, DirUpdates DEF Disk, LockedSteps, FsOK
      <4>. QED BY <2>7, <4>1, <4>2 DEF Disk
    <3>. QED BY <2>7, <3>1, <3>2, <1>a DEF Disk, HolderOK, OsOK
  <2>8. CASE SaveNew(p)
    BY <2>8, <2>d, <2>e, <1>a, DirUpdates DEF SaveNew, Save, LockedSteps, FsOK, HolderOK, OsOK
  <2>9. CASE Spawn(p)
    <3>1. CASE Goto(p, "unlock") /\ UNCHANGED <<os, inv>>
      BY <2>9, <3>1, <2>d, <1>a DEF Spawn, LockedSteps, FsOK, HolderOK, OsOK
    <3>2. CASE \E q \in FreePids("qemu") :
                 /\ os' = [os EXCEPT ![q] = [vm |-> VM(p), disk |-> fs[VM(p)].disk]]
                 /\ SetRec(p, [inst |-> inv[p].rec.inst, pid |-> q])
                 /\ Goto(p, "record")
      <4>0. pc[p] \in LockedSteps
        BY <2>9 DEF Spawn, LockedSteps
      <4>1. PICK q \in FreePids("qemu") :
              /\ os' = [os EXCEPT ![q] = [vm |-> VM(p), disk |-> fs[VM(p)].disk]]
              /\ inv' = [inv EXCEPT
                          ![p] = [@ EXCEPT !.rec = [inst |-> inv[p].rec.inst, pid |-> q]]]
              /\ pc' = [pc EXCEPT ![p] = "record"]
        BY <3>2 DEF SetRec, Goto
      <4>2. q \in Pids /\ [inst |-> inv[p].rec.inst, pid |-> q] \in Record
        BY <4>0, <2>e DEF FreePids, Record
      <4>3. [vm |-> VM(p), disk |-> fs[VM(p)].disk] \in Qemu
        BY <4>0, <2>e DEF Qemu, Dir
      <4>4. OsOK'
        BY <1>a, <4>1, <4>3 DEF OsOK
      <4>5. /\ [inv[p] EXCEPT !.rec = [inst |-> inv[p].rec.inst, pid |-> q]] \in Invocation
            /\ LocalsOK("record",
                        [inv[p] EXCEPT !.rec = [inst |-> inv[p].rec.inst, pid |-> q]])
        BY <2>a, <4>0, <2>e, <4>2, InvUpdates DEF LocalsOK, VM
      <4>6. InvTypeOK'
        BY <1>a, <4>1, <4>5, Move DEF Steps, LockedSteps
      <4>. QED BY <2>9, <1>a, <4>4, <4>6 DEF Spawn, FsOK, HolderOK
    <3>. QED BY <2>9, <3>1, <3>2 DEF Spawn
  <2>10. CASE RecordPid(p)
    <3>1. InvTypeOK'
      BY <2>10, <2>d DEF RecordPid, LockedSteps
    <3>2. FsOK'
      <4>1. CASE fs' = fs  BY <4>1, <1>a DEF FsOK
      <4>2. CASE fs' = [fs EXCEPT ![VM(p)] = [@ EXCEPT !.dir = TRUE, !.rec = inv[p].rec]]
        BY <2>10, <4>2, <2>e, <1>a, DirUpdates DEF RecordPid, LockedSteps, FsOK
      <4>. QED BY <2>10, <4>1, <4>2 DEF RecordPid, Save
    <3>. QED BY <2>10, <3>1, <3>2, <1>a DEF RecordPid, HolderOK, OsOK
  <2>11. CASE Ready(p)
    BY <2>11, <2>d, <1>a DEF Ready, LockedSteps, FsOK, HolderOK, OsOK
  <2>12. CASE StopCheck(p)
    <3>1. \E s \in {"clear", "kill", "powerdown"} : Goto(p, s)
      BY <2>12 DEF StopCheck
    <3>. QED BY <2>12, <3>1, <2>d, <1>a DEF StopCheck, LockedSteps, FsOK, HolderOK, OsOK
  <2>13. CASE Powerdown(p)
    BY <2>13, <2>d, <1>a DEF Powerdown, Ask, LockedSteps, FsOK, HolderOK, OsOK
  <2>14. CASE Quit(p)
    BY <2>14, <2>d, <1>a DEF Quit, Ask, LockedSteps, FsOK, HolderOK, OsOK
  <2>15. CASE Kill(p)
    <3>1. OsOK'
      BY <2>15, <1>a DEF Kill, OsOK
    <3>. QED BY <2>15, <3>1, <2>d, <1>a DEF Kill, LockedSteps, FsOK, HolderOK
  <2>16. CASE Wait(p)
    <3>1. \E s \in {"unlock", "clear"} : Goto(p, s)
      BY <2>16 DEF Wait
    <3>. QED BY <2>16, <3>1, <2>d, <1>a DEF Wait, LockedSteps, FsOK, HolderOK, OsOK
  <2>17. CASE Clear(p)
    <3> DEFINE r == [inv[p].rec EXCEPT !.pid = None]
    <3>0. pc[p] \in LockedSteps
      BY <2>17 DEF Clear, LockedSteps
    <3>1. r \in Record
      BY <3>0, <2>e DEF Record
    <3>2. /\ fs' = [fs EXCEPT ![VM(p)] = [@ EXCEPT !.dir = TRUE, !.rec = r]]
          /\ inv' = [inv EXCEPT ![p] = [@ EXCEPT !.rec = r]]
      BY <2>17 DEF Clear, Save, SetRec
    <3>3. PICK s \in {"handoff", "unlock"} : pc' = [pc EXCEPT ![p] = s]
      BY <2>17 DEF Clear, Goto
    <3> HIDE DEF r
    <3>4. FsOK'
      BY <1>a, <3>0, <3>1, <3>2, <2>e, DirUpdates DEF FsOK
    <3>5. [inv[p] EXCEPT !.rec = r] \in Invocation /\ LocalsOK(s, [inv[p] EXCEPT !.rec = r])
      BY <2>a, <3>0, <3>1, <2>e, InvUpdates DEF LocalsOK
    <3>6. InvTypeOK'
      BY <1>a, <3>2, <3>3, <3>5, Move DEF Steps, LockedSteps
    <3>. QED BY <2>17, <1>a, <3>4, <3>6 DEF Clear, HolderOK, OsOK
  <2>18. CASE RmGet(p)
    <3>1. CASE Leave(p)  BY <2>18, <3>1, <1>a, LeaveOK DEF RmGet, FsOK, HolderOK, OsOK
    <3>2. CASE \E s \in {"get", "rmscan"} : Goto(p, s) /\ inv' = inv
      <4>1. \A s \in {"get", "rmscan"} : s \in Steps /\ LocalsOK(s, inv[p])
        BY <2>18, <2>a DEF RmGet, LocalsOK, Steps, HasRecord, HasLock, LockedSteps
      <4>. QED BY <2>18, <3>2, <4>1, <1>a, MoveOn DEF RmGet, FsOK, HolderOK, OsOK
    <3>. QED BY <2>18, <3>1, <3>2 DEF RmGet
  <2>19. CASE RmScan(p)
    <3> DEFINE t == {f \in Entries : fs[VM(p)][f] # None}
    <3>1. /\ [inv[p] EXCEPT !.todo = t] \in Invocation
          /\ LocalsOK("rmunlink", [inv[p] EXCEPT !.todo = t])
      BY <2>19, <2>a, InvUpdates DEF RmScan, LocalsOK, HasRecord, HasLock, LockedSteps
    <3>2. InvTypeOK'
      BY <2>19, <1>a, <3>1, Move DEF RmScan, Goto, Steps
    <3>. QED BY <2>19, <3>2, <1>a DEF RmScan, FsOK, HolderOK, OsOK
  <2>20. CASE RmUnlink(p)
    <3>1. PICK f \in inv[p].todo :
            /\ inv' = [inv EXCEPT ![p] = [@ EXCEPT !.todo = inv[p].todo \ {f}]]
            /\ \/ /\ ~Undeletable(f, VM(p))
                  /\ fs' = [fs EXCEPT ![VM(p)] = [@ EXCEPT ![f] = None]]
               \/ fs' = fs
      BY <2>20 DEF RmUnlink
    <3>2. f \in Entries /\ inv[p].todo \ {f} \in SUBSET Entries
      BY <2>a DEF Invocation
    <3>3. FsOK'
      BY <2>20, <3>1, <3>2, <2>b, <1>a, DirUnlink DEF RmUnlink, FsOK
    <3>4. /\ [inv[p] EXCEPT !.todo = inv[p].todo \ {f}] \in Invocation
          /\ LocalsOK("rmunlink", [inv[p] EXCEPT !.todo = inv[p].todo \ {f}])
      BY <2>20, <2>a, <3>2, InvUpdates
      DEF RmUnlink, LocalsOK, HasRecord, HasLock, LockedSteps
    <3>5. pc' = [pc EXCEPT ![p] = "rmunlink"]
      BY <2>20, <1>a DEF RmUnlink, InvTypeOK
    <3>6. inv' = [inv EXCEPT ![p] = [inv[p] EXCEPT !.todo = inv[p].todo \ {f}]]
      BY <3>1
    <3>7. InvTypeOK'
      BY <1>a, <3>4, <3>5, <3>6, Move DEF Steps
    <3>. QED BY <2>20, <3>3, <3>7, <1>a DEF RmUnlink, HolderOK, OsOK
  <2>21. CASE RmDir(p)
    <3>1. FsOK'
      BY <2>21, <2>b, <1>a, DirUpdates DEF RmDir, FsOK
    <3>. QED BY <2>21, <3>1, <1>a, LeaveOK DEF RmDir, HolderOK, OsOK
  <2>. QED BY <1>3, <2>1, <2>2, <2>3, <2>4, <2>5, <2>6, <2>7, <2>8, <2>9, <2>10, <2>11,
              <2>12, <2>13, <2>14, <2>15, <2>16, <2>17, <2>18, <2>19, <2>20, <2>21 DEF Step, Bounded
<1>4. ASSUME NEW p \in Procs, Fail(p) PROVE FsOK' /\ HolderOK' /\ OsOK' /\ InvTypeOK'
  <2>1. CASE Leave(p)  BY <1>4, <2>1, <1>a, LeaveOK DEF Fail, FsOK, HolderOK, OsOK
  <2>2. CASE pc[p] \in LockedSteps /\ Goto(p, "unlock") /\ inv' = inv
    <3>1. "unlock" \in Steps /\ LocalsOK("unlock", inv[p])
      BY <2>2, <1>c DEF LocalsOK, Steps, HasRecord, HasLock, LockedSteps
    <3>. QED BY <1>4, <2>2, <3>1, <1>a, MoveOn DEF Fail, FsOK, HolderOK, OsOK
  <2>. QED BY <1>4, <2>1, <2>2 DEF Fail, LockedSteps
<1>5. ASSUME NEW p \in Procs, Crash(p) PROVE FsOK' /\ HolderOK' /\ OsOK' /\ InvTypeOK'
  BY <1>5, <1>a, <1>c, LeaveOK DEF Crash, FsOK, OsOK
<1>6. ASSUME NEW q \in Pids, QemuExit(q) \/ ProgramStart(q) \/ ProgramExit(q)
      PROVE  FsOK' /\ HolderOK' /\ OsOK' /\ InvTypeOK'
  BY <1>6, <1>a
  DEF QemuExit, ProgramStart, ProgramExit, FsOK, HolderOK, OsOK, InvTypeOK, Locals
<1>7. CASE UNCHANGED vars
  BY <1>7, <1>a DEF vars, FsOK, HolderOK, OsOK, InvTypeOK, Locals
<1>. QED BY <1>1, <1>2, <1>3, <1>4, <1>5, <1>6, <1>7 DEF Next

\* Every variable keeps its type: among others, no pid is saved in a record that was
\* never read, and no lock is taken on a file that was never opened.
THEOREM TypeCorrect == Spec => []TypeOK
<1>1. TypeInv => TypeOK
  BY DEF TypeInv
<1>. QED BY InitTypeInv, StepTypeInv, <1>1, PTL DEF Spec

-----------------------------------------------------------------------------
(* The lock of a VM excludes, as long as vm.lock is never deleted while an *)
(* invocation has it open: on Windows, where that cannot be done, and      *)
(* anywhere if no VM is ever removed.                                      *)

LockFileStays == ~PosixUnlink \/ Ops \intersect {"rm", "rmf"} = {}

-----------------------------------------------------------------------------
(* Only `rm` gets to Remove's steps.                                       *)

OpOK(s, o) ==
  /\ s \in {"rmget", "rmscan", "rmunlink"} => o \in {"rm", "rmf"}
  /\ s = "handoff" => o \in {"restart", "rmf"}
  /\ o \in {"rm", "rmf"} => o \in Ops

OpInv == \A p \in Procs : OpOK(pc[p], inv[p].op)

\* No command is under way.
LEMMA InitOpInv == Init => OpInv
  BY DEF Init, OpInv, OpOK, NoInvocation, Fresh

\* What a step of p does to the commands, when it does not change p's.
LEMMA OpKept ==
  ASSUME InvTypeOK, OpInv, NEW p \in Procs, NEW s, NEW r,
         pc' = [pc EXCEPT ![p] = s], inv' = [inv EXCEPT ![p] = r], OpOK(s, r.op)
  PROVE  OpInv'
  BY DEF InvTypeOK, OpInv

\* A step that moves an invocation within its command keeps OpInv.
LEMMA OpMoveOn ==
  ASSUME InvTypeOK, OpInv, NEW p \in Procs, NEW s,
         Goto(p, s), inv' = inv, OpOK(s, inv[p].op)
  PROVE  OpInv'
  BY DEF InvTypeOK, OpInv, Goto

\* So does the end of an invocation.
LEMMA OpLeave ==
  ASSUME InvTypeOK, OpInv, NEW p \in Procs, Leave(p)
  PROVE  OpInv'
  BY OpKept DEF Leave, Goto, NoInvocation, Fresh, OpOK

\* Every step keeps OpInv.
LEMMA StepOpInv == TypeInv /\ OpInv /\ [Next]_vars => OpInv'
<1> SUFFICES ASSUME TypeInv, OpInv, [Next]_vars PROVE OpInv'
  OBVIOUS
<1>a. InvTypeOK
  BY DEF TypeInv, TypeOK, InvTypeOK
<1>b. ASSUME NEW p \in Procs
      PROVE  inv[p] \in Invocation /\ OpOK(pc[p], inv[p].op)
  BY <1>a DEF InvTypeOK, OpInv
<1>1. ASSUME NEW p \in Procs, Invoke(p) PROVE OpInv'
  <2>1. PICK o \in Ops, n \in Names :
          /\ \E r \in IF o = "create" THEN [inst : FreshInsts, pid : {None}] ELSE {None} :
               inv' = [inv EXCEPT ![p] = Fresh(o, n, r)]
          /\ Goto(p, CASE o = "create"        -> "exists"
                       [] o \in {"rm", "rmf"} -> "rmget"
                       [] OTHER               -> "get")
    BY <1>1 DEF Invoke
  <2>2. PICK r : inv' = [inv EXCEPT ![p] = Fresh(o, n, r)]
    BY <2>1
  <2>3. PICK s \in {"exists", "rmget", "get"} :
          Goto(p, s) /\ (s = "rmget" => o \in {"rm", "rmf"})
    BY <2>1
  <2>. QED BY <1>a, <2>2, <2>3, OpKept DEF OpOK, Fresh, Goto
<1>2. ASSUME NEW p \in Procs, Flock(p) PROVE OpInv'
  <2>1. \E s \in {"key", "spawn", "stop"} : Goto(p, s)
    BY <1>2 DEF Flock
  <2>. QED BY <1>2, <2>1, <1>a, <1>b, OpMoveOn DEF Flock, OpOK
<1>3. ASSUME NEW p \in Procs, Step(p) PROVE OpInv'
  <2>a. ASSUME NEW s \in Steps \ {"rmget", "rmscan", "rmunlink", "handoff"},
               Goto(p, s), inv' = inv
        PROVE  OpInv'
    BY <2>a, <1>a, <1>b, OpMoveOn DEF OpOK
  <2>b. CASE Leave(p)
    BY <2>b, <1>a, OpLeave
  <2>1. CASE Exists(p)    BY <2>1, <2>a, <2>b DEF Exists, Steps
  <2>2. CASE Get(p)
    <3>1. CASE SetRec(p, fs[VM(p)].rec) /\ Goto(p, "open")
      BY <3>1, <1>a, <1>b, OpKept DEF SetRec, Goto, OpOK, Invocation
    <3>. QED BY <2>2, <2>b, <3>1 DEF Get
  <2>3. CASE Open(p)
    BY <2>3, <1>a, <1>b, OpKept DEF Open, Goto, OpOK, Invocation
  <2>4. CASE Unlock(p)    BY <2>4, <2>b DEF Unlock
  <2>5. CASE Handoff(p)
    <3>1. CASE /\ inv' = [inv EXCEPT ![p] = Fresh("start", VM(p), None)]
               /\ Goto(p, "get")
      BY <3>1, <1>a, OpKept DEF Goto, OpOK, Fresh
    <3>2. CASE /\ inv' = [inv EXCEPT ![p] = Fresh("rmf", VM(p), None)]
               /\ Goto(p, "rmscan") /\ inv[p].op # "restart"
      <4>1. "rmf" \in Ops
        BY <2>5, <3>2, <1>b DEF Handoff, OpOK
      <4>. QED BY <3>2, <4>1, <1>a, OpKept DEF Goto, OpOK, Fresh
    <3>. QED BY <2>5, <3>1, <3>2 DEF Handoff
  <2>6. CASE Key(p)       BY <2>6, <2>a DEF Key, Steps, LockedSteps
  <2>7. CASE Disk(p)      BY <2>7, <2>a DEF Disk, Steps, LockedSteps
  <2>8. CASE SaveNew(p)   BY <2>8, <2>a DEF SaveNew, Steps, LockedSteps
  <2>9. CASE Spawn(p)
    <3>1. CASE Goto(p, "unlock") /\ inv' = inv
      BY <3>1, <2>a DEF Steps, LockedSteps
    <3>2. CASE \E q \in FreePids("qemu") :
                 /\ SetRec(p, [inst |-> inv[p].rec.inst, pid |-> q])
                 /\ Goto(p, "record")
      <4>1. PICK q \in FreePids("qemu") :
              SetRec(p, [inst |-> inv[p].rec.inst, pid |-> q])
        BY <3>2
      <4>2. [inv[p] EXCEPT !.rec = [inst |-> inv[p].rec.inst, pid |-> q]].op = inv[p].op
        BY <1>b DEF Invocation
      <4>. QED BY <3>2, <4>1, <4>2, <1>a, <1>b, OpKept DEF SetRec, Goto, OpOK
    <3>. QED BY <2>9, <3>1, <3>2 DEF Spawn
  <2>10. CASE RecordPid(p) BY <2>10, <2>a DEF RecordPid, Steps, LockedSteps
  <2>11. CASE Ready(p)    BY <2>11, <2>a DEF Ready, Steps, LockedSteps
  <2>12. CASE StopCheck(p)
    <3>1. \E s \in {"clear", "kill", "powerdown"} : Goto(p, s)
      BY <2>12 DEF StopCheck
    <3>. QED BY <2>12, <3>1, <2>a DEF StopCheck, Steps, LockedSteps
  <2>13. CASE Powerdown(p) BY <2>13, <2>a DEF Powerdown, Ask, Steps, LockedSteps
  <2>14. CASE Quit(p)     BY <2>14, <2>a DEF Quit, Ask, Steps, LockedSteps
  <2>15. CASE Kill(p)     BY <2>15, <2>a DEF Kill, Steps, LockedSteps
  <2>16. CASE Wait(p)
    <3>1. \E s \in {"unlock", "clear"} : Goto(p, s)
      BY <2>16 DEF Wait
    <3>. QED BY <2>16, <3>1, <2>a DEF Wait, Steps, LockedSteps
  <2>17. CASE Clear(p)
    <3> DEFINE r == [inv[p].rec EXCEPT !.pid = None]
    <3>1. inv' = [inv EXCEPT ![p] = [@ EXCEPT !.rec = r]]
      BY <2>17 DEF Clear, SetRec
    <3>2. PICK s \in {"handoff", "unlock"} :
            Goto(p, s) /\ (s = "handoff" => inv[p].op \in {"restart", "rmf"})
      BY <2>17 DEF Clear
    <3> HIDE DEF r
    <3>. QED BY <3>1, <3>2, <1>a, <1>b, OpKept DEF OpOK, Invocation, Goto
  <2>18. CASE RmGet(p)
    <3>1. CASE \E s \in {"get", "rmscan"} : Goto(p, s) /\ inv' = inv
      BY <2>18, <3>1, <1>a, <1>b, OpMoveOn DEF RmGet, OpOK
    <3>. QED BY <2>18, <3>1, <2>b DEF RmGet
  <2>19. CASE RmScan(p)
    <3>1. PICK t : inv' = [inv EXCEPT ![p] = [@ EXCEPT !.todo = t]]
      BY <2>19 DEF RmScan
    <3>. QED BY <2>19, <3>1, <1>a, <1>b, OpKept DEF RmScan, Goto, OpOK, Invocation
  <2>20. CASE RmUnlink(p)
    <3>1. CASE \E f \in inv[p].todo :
                 inv' = [inv EXCEPT ![p] = [@ EXCEPT !.todo = inv[p].todo \ {f}]] /\ pc' = pc
      <4>1. pc' = [pc EXCEPT ![p] = pc[p]]
        BY <3>1, <1>a DEF InvTypeOK
      <4>. QED BY <3>1, <4>1, <1>a, <1>b, OpKept DEF Invocation
    <3>. QED BY <2>20, <3>1 DEF RmUnlink
  <2>21. CASE RmDir(p)    BY <2>21, <2>b DEF RmDir
  <2>. QED BY <1>3, <2>1, <2>2, <2>3, <2>4, <2>5, <2>6, <2>7, <2>8, <2>9, <2>10, <2>11,
              <2>12, <2>13, <2>14, <2>15, <2>16, <2>17, <2>18, <2>19, <2>20, <2>21 DEF Step, Bounded
<1>4. ASSUME NEW p \in Procs, Fail(p) PROVE OpInv'
  <2>1. CASE Leave(p)  BY <2>1, <1>a, OpLeave
  <2>2. CASE Goto(p, "unlock") /\ inv' = inv
    BY <2>2, <1>a, <1>b, OpMoveOn DEF OpOK
  <2>. QED BY <1>4, <2>1, <2>2 DEF Fail
<1>5. ASSUME NEW p \in Procs, Crash(p) PROVE OpInv'
  BY <1>5, <1>a, OpLeave DEF Crash
<1>6. CASE UNCHANGED <<pc, inv>>
  BY <1>6 DEF OpInv
<1>. QED BY <1>1, <1>2, <1>3, <1>4, <1>5, <1>6
         DEF Next, vars, QemuExit, ProgramStart, ProgramExit

-----------------------------------------------------------------------------
(* The inductive invariant: who has vm.lock open has the one that is there *)
(* (so two invocations on a VM have the same file open), and who is past   *)
(* the lock holds it.                                                      *)

LockInv ==
  /\ \A p \in Procs : pc[p] \in HasLock => inv[p].lock = fs[VM(p)].lock
  /\ \A p \in Procs : pc[p] \in LockedSteps => holder[inv[p].lock] = p

\* Nobody is past a lock.
LEMMA InitLockInv == Init => LockInv
  BY DEF Init, LockInv, HasLock, LockedSteps

\* Every update of a directory other than Open's and RmUnlink's leaves vm.lock in place.
LEMMA LockKept ==
  ASSUME NEW d \in Dir
  PROVE  /\ \A c : [d EXCEPT !.dir = TRUE, !.key = c].lock = d.lock
         /\ \A c : [d EXCEPT !.disk = c].lock = d.lock
         /\ \A r : [d EXCEPT !.dir = TRUE, !.rec = r].lock = d.lock
         /\ \A b : [d EXCEPT !.dir = b].lock = d.lock
         /\ \A f \in Entries \ {"lock"} : [d EXCEPT ![f] = None].lock = d.lock
  BY DEF Dir, Entries

SameLockFiles == \A n \in Names : fs'[n].lock = fs[n].lock

\* A step of p that opens, takes and releases no lock.
LEMMA LockFrame ==
  ASSUME TypeInv, LockInv, NEW p \in Procs, holder' = holder, SameLockFiles,
         \A q \in Procs \ {p} : pc'[q] = pc[q] /\ inv'[q] = inv[q],
         pc'[p] \in HasLock => /\ pc[p] \in HasLock
                               /\ inv'[p].lock = inv[p].lock /\ inv'[p].vm = inv[p].vm,
         pc'[p] \in LockedSteps => pc[p] \in LockedSteps
  PROVE  LockInv'
<1>1. ASSUME NEW q \in Procs, pc'[q] \in HasLock
      PROVE  /\ pc[q] \in HasLock /\ inv'[q].lock = inv[q].lock /\ inv'[q].vm = inv[q].vm
             /\ inv[q].vm \in Names
             /\ pc'[q] \in LockedSteps => pc[q] \in LockedSteps
  <2>1. pc[q] \in HasLock /\ inv'[q].lock = inv[q].lock /\ inv'[q].vm = inv[q].vm
    BY <1>1
  <2>2. pc[q] # "idle"
    BY <2>1 DEF HasLock, LockedSteps
  <2>. QED BY <1>1, <2>1, <2>2 DEF TypeInv, Locals, LocalsOK
<1>2. \A q \in Procs : pc'[q] \in HasLock => inv'[q].lock = fs'[inv'[q].vm].lock
  BY <1>1 DEF LockInv, SameLockFiles, VM
<1>3. \A q \in Procs : pc'[q] \in LockedSteps => holder'[inv'[q].lock] = q
  BY <1>1 DEF LockInv, HasLock
<1>. QED BY <1>2, <1>3 DEF LockInv, VM

\* A step of p after which p has no lock, and holds none it may have held.
LEMMA LockGone ==
  ASSUME TypeInv, LockInv, NEW p \in Procs, SameLockFiles,
         holder' = Released(p) \/ (holder' = holder /\ pc[p] \notin LockedSteps),
         \A q \in Procs \ {p} : pc'[q] = pc[q] /\ inv'[q] = inv[q],
         pc'[p] \notin HasLock
  PROVE  LockInv'
<1>1. ASSUME NEW q \in Procs, pc'[q] \in HasLock
      PROVE  /\ q # p /\ pc[q] = pc'[q] /\ inv'[q] = inv[q] /\ inv[q].vm \in Names
             /\ inv[q].lock \in Inodes
  <2>1. q # p /\ pc[q] = pc'[q] /\ inv'[q] = inv[q]
    BY <1>1
  <2>. QED BY <1>1, <2>1 DEF TypeInv, Locals, LocalsOK, HasLock, LockedSteps
<1>2. \A q \in Procs : pc'[q] \in HasLock => inv'[q].lock = fs'[inv'[q].vm].lock
  BY <1>1 DEF LockInv, SameLockFiles, VM
<1>3. ASSUME NEW q \in Procs, pc'[q] \in LockedSteps PROVE holder'[inv'[q].lock] = q
  <2>1. pc'[q] \in HasLock
    BY <1>3 DEF HasLock
  <2>2. holder[inv[q].lock] = q /\ q # p /\ inv[q].lock \in Inodes
    BY <1>1, <1>3, <2>1 DEF LockInv
  <2>. QED BY <1>1, <2>1, <2>2 DEF Released
<1>. QED BY <1>2, <1>3 DEF LockInv, VM

\* While vm.lock stays where it is, every step keeps LockInv.
LEMMA StepLockInv ==
  ASSUME LockFileStays
  PROVE  TypeInv /\ OpInv /\ LockInv /\ [Next]_vars => LockInv'
<1> SUFFICES ASSUME TypeInv, OpInv, LockInv, [Next]_vars PROVE LockInv'
  OBVIOUS
<1> USE NoneAssumption DEF VM
<1>a. ASSUME NEW p \in Procs
      PROVE  /\ inv[p] \in Invocation /\ LocalsOK(pc[p], inv[p])
             /\ pc[p] # "idle" => inv[p].vm \in Names /\ fs[inv[p].vm] \in Dir
  BY DEF TypeInv, TypeOK, Locals, LocalsOK
<1>b. ASSUME NEW p \in Procs, Leave(p)
      PROVE  /\ \A q \in Procs \ {p} : pc'[q] = pc[q] /\ inv'[q] = inv[q]
             /\ pc'[p] \notin HasLock
  BY <1>b DEF Leave, Goto, TypeInv, TypeOK, HasLock, LockedSteps
<1>c. ASSUME NEW p \in Procs, Leave(p), SameLockFiles, holder' = holder,
             pc[p] \notin LockedSteps
      PROVE  LockInv'
  BY <1>b, <1>c, LockGone
<1>d. ASSUME NEW p \in Procs, NEW s, Goto(p, s)
      PROVE  pc'[p] = s /\ \A q \in Procs \ {p} : pc'[q] = pc[q]
  BY <1>d DEF Goto, TypeInv, TypeOK
<1>e. ASSUME NEW p \in Procs, NEW s, Goto(p, s), SameLockFiles, holder' = holder, inv' = inv,
             s \in HasLock => pc[p] \in HasLock, s \in LockedSteps => pc[p] \in LockedSteps
      PROVE  LockInv'
  BY <1>d, <1>e, LockFrame
<1>1. ASSUME NEW p \in Procs, Invoke(p) PROVE LockInv'
  <2>1. \E s \in {"exists", "rmget", "get"} : Goto(p, s)
    BY <1>1 DEF Invoke
  <2>2. \A q \in Procs \ {p} : inv'[q] = inv[q]
    BY <1>1 DEF Invoke, TypeInv, TypeOK
  <2>3. holder' = holder /\ SameLockFiles /\ pc[p] \notin LockedSteps
    BY <1>1 DEF Invoke, SameLockFiles, LockedSteps
  <2>. QED BY <1>d, <2>1, <2>2, <2>3, LockGone DEF HasLock, LockedSteps
<1>2. ASSUME NEW p \in Procs, Flock(p) PROVE LockInv'
  <2>1. \A q \in Procs \ {p} : pc'[q] = pc[q]
    BY <1>2, <1>d DEF Flock
  <2>2. /\ inv' = inv /\ fs' = fs /\ pc[p] \in HasLock /\ holder[inv[p].lock] = None
        /\ holder' = [holder EXCEPT ![inv[p].lock] = p] /\ inv[p].lock \in Inodes
    BY <1>2, <1>a DEF Flock, LocalsOK, HasLock
  <2>3. \A q \in Procs : pc[q] \in LockedSteps => inv[q].lock # inv[p].lock
    BY <2>2 DEF LockInv
  <2>4. holder'[inv[p].lock] = p
        /\ \A i : i # inv[p].lock => holder'[i] = holder[i]
    BY <2>2 DEF TypeInv, TypeOK
  <2>. QED BY <2>1, <2>2, <2>3, <2>4 DEF LockInv, HasLock
<1>3. ASSUME NEW p \in Procs, Step(p) PROVE LockInv'
  <2>a. pc[p] # "idle" => inv[p].vm \in Names /\ fs[inv[p].vm] \in Dir
    BY <1>a
  <2>b. ASSUME NEW d, fs' = [fs EXCEPT ![inv[p].vm] = d], d.lock = fs[inv[p].vm].lock
        PROVE  SameLockFiles
    BY <2>b DEF SameLockFiles, TypeInv, TypeOK
  <2>c. fs' = fs => SameLockFiles
    BY DEF SameLockFiles
  <2>d. ASSUME pc[p] \in LockedSteps, NEW s \in LockedSteps, Goto(p, s),
               SameLockFiles, holder' = holder, inv' = inv
        PROVE  LockInv'
    BY <2>d, <1>e DEF HasLock
  <2>e. ASSUME pc[p] \in LockedSteps, NEW s \in LockedSteps, Goto(p, s), NEW x,
               SameLockFiles, holder' = holder, SetRec(p, x)
        PROVE  LockInv'
    <3>1. /\ \A q \in Procs \ {p} : inv'[q] = inv[q]
          /\ inv'[p].lock = inv[p].lock /\ inv'[p].vm = inv[p].vm
      BY <2>e, <1>a DEF SetRec, TypeInv, TypeOK, Invocation
    <3>. QED BY <2>e, <3>1, <1>d, LockFrame DEF HasLock
  <2>1. CASE Exists(p)
    BY <2>1, <2>c, <1>c, <1>e DEF Exists, HasLock, LockedSteps
  <2>2. CASE Get(p)
    <3>1. CASE SetRec(p, fs[VM(p)].rec) /\ Goto(p, "open")
      <4>1. \A q \in Procs \ {p} : inv'[q] = inv[q]
        BY <3>1 DEF SetRec, TypeInv, TypeOK
      <4>. QED BY <2>2, <3>1, <4>1, <2>c, <1>d, LockGone DEF Get, HasLock, LockedSteps
    <3>. QED BY <2>2, <3>1, <2>c, <1>c DEF Get, LockedSteps
  <2>3. CASE Open(p)
    <3>1. PICK i \in IF fs[VM(p)].lock = None THEN FreshInodes ELSE {fs[VM(p)].lock} :
            /\ fs' = [fs EXCEPT ![VM(p)] = [@ EXCEPT !.dir = TRUE, !.lock = i]]
            /\ inv' = [inv EXCEPT ![p] = [@ EXCEPT !.lock = i]]
      BY <2>3 DEF Open
    <3>2. /\ inv[p].vm \in Names /\ fs[inv[p].vm] \in Dir /\ pc[p] = "open"
          /\ inv[p] \in Invocation
      BY <2>3, <2>a, <1>a DEF Open
    <3>3. [fs[inv[p].vm] EXCEPT !.dir = TRUE, !.lock = i].lock = i
      BY <3>2 DEF Dir
    <3>4. [inv[p] EXCEPT !.lock = i].lock = i /\ [inv[p] EXCEPT !.lock = i].vm = inv[p].vm
      BY <3>2 DEF Invocation
    <3>5. /\ fs'[inv[p].vm].lock = i
          /\ \A n \in Names : n # inv[p].vm => fs'[n] = fs[n]
          /\ inv'[p].lock = i /\ inv'[p].vm = inv[p].vm
          /\ \A q \in Procs \ {p} : inv'[q] = inv[q]
      BY <3>1, <3>2, <3>3, <3>4 DEF TypeInv, TypeOK
    <3>6. pc'[p] = "flock" /\ \A q \in Procs \ {p} : pc'[q] = pc[q]
      BY <2>3, <1>d DEF Open
    <3>7. ASSUME NEW q \in Procs \ {p}, pc[q] \in HasLock
          PROVE  inv[q].lock = fs'[inv[q].vm].lock
      <4>1. inv[q].lock = fs[inv[q].vm].lock /\ inv[q].lock # None /\ inv[q].vm \in Names
        BY <3>7, <1>a DEF LockInv, LocalsOK, HasLock, LockedSteps
      <4>. QED BY <3>1, <3>5, <4>1
    <3>. QED BY <2>3, <3>5, <3>6, <3>7 DEF LockInv, Open, HasLock, LockedSteps
  <2>4. CASE Unlock(p)
    BY <2>4, <2>c, <1>b, LockGone DEF Unlock
  <2>5. CASE Handoff(p)
    <3>1. \E s \in {"get", "rmscan"} : Goto(p, s)
      BY <2>5 DEF Handoff
    <3>2. \A q \in Procs \ {p} : inv'[q] = inv[q]
      BY <2>5 DEF Handoff, TypeInv, TypeOK
    <3>. QED BY <2>5, <3>1, <3>2, <2>c, <1>d, LockGone DEF Handoff, HasLock, LockedSteps
  <2>6. CASE Key(p)
    BY <2>6, <2>a, <2>b, <2>d, LockKept DEF Key, LockedSteps
  <2>7. CASE Disk(p)
    BY <2>7, <2>a, <2>b, <2>c, <2>d, LockKept DEF Disk, LockedSteps
  <2>8. CASE SaveNew(p)
    BY <2>8, <2>a, <2>b, <2>d, LockKept DEF SaveNew, Save, LockedSteps
  <2>9. CASE Spawn(p)
    BY <2>9, <2>c, <2>d, <2>e DEF Spawn, LockedSteps
  <2>10. CASE RecordPid(p)
    BY <2>10, <2>a, <2>b, <2>c, <2>d, LockKept DEF RecordPid, Save, LockedSteps
  <2>11. CASE Ready(p)
    BY <2>11, <2>c, <2>d DEF Ready, LockedSteps
  <2>12. CASE StopCheck(p)
    <3>1. \E s \in {"clear", "kill", "powerdown"} : Goto(p, s)
      BY <2>12 DEF StopCheck
    <3>. QED BY <2>12, <3>1, <2>c, <2>d DEF StopCheck, LockedSteps
  <2>13. CASE Powerdown(p)
    BY <2>13, <2>c, <2>d DEF Powerdown, Ask, LockedSteps
  <2>14. CASE Quit(p)
    BY <2>14, <2>c, <2>d DEF Quit, Ask, LockedSteps
  <2>15. CASE Kill(p)
    BY <2>15, <2>c, <2>d DEF Kill, LockedSteps
  <2>16. CASE Wait(p)
    <3>1. \E s \in {"unlock", "clear"} : Goto(p, s)
      BY <2>16 DEF Wait
    <3>. QED BY <2>16, <3>1, <2>c, <2>d DEF Wait, LockedSteps
  <2>17. CASE Clear(p)
    <3>1. \E s \in {"handoff", "unlock"} : Goto(p, s)
      BY <2>17 DEF Clear
    <3>2. SameLockFiles
      BY <2>17, <2>a, <2>b, LockKept DEF Clear, Save
    <3>. QED BY <2>17, <3>1, <3>2, <2>e DEF Clear, LockedSteps
  <2>18. CASE RmGet(p)
    <3>1. CASE \E s \in {"get", "rmscan"} : Goto(p, s) /\ inv' = inv
      BY <2>18, <3>1, <2>c, <1>e DEF RmGet, HasLock, LockedSteps
    <3>. QED BY <2>18, <3>1, <2>c, <1>c DEF RmGet, LockedSteps
  <2>19. CASE RmScan(p)
    <3>1. \A q \in Procs \ {p} : inv'[q] = inv[q]
      BY <2>19 DEF RmScan, TypeInv, TypeOK
    <3>. QED BY <2>19, <3>1, <2>c, <1>d, LockGone DEF RmScan, HasLock, LockedSteps
  <2>20. CASE RmUnlink(p)
    <3>1. PICK f \in inv[p].todo :
            /\ inv' = [inv EXCEPT ![p] = [@ EXCEPT !.todo = inv[p].todo \ {f}]]
            /\ \/ /\ ~Undeletable(f, VM(p))
                  /\ fs' = [fs EXCEPT ![VM(p)] = [@ EXCEPT ![f] = None]]
               \/ fs' = fs
      BY <2>20 DEF RmUnlink
    <3>2. /\ pc[p] = "rmunlink" /\ f \in Entries /\ inv[p].vm \in Names
          /\ fs[inv[p].vm] \in Dir /\ holder' = holder /\ pc' = pc
      BY <2>20, <1>a, <2>a DEF RmUnlink, Invocation
    <3>3. \A q \in Procs : pc[q] \in HasLock => inv'[q] = inv[q]
      BY <3>1, <3>2 DEF TypeInv, TypeOK, HasLock, LockedSteps
    <3>4. CASE fs' = fs
      BY <3>2, <3>3, <3>4 DEF LockInv, HasLock
    <3>5. CASE /\ ~Undeletable(f, VM(p))
               /\ fs' = [fs EXCEPT ![VM(p)] = [@ EXCEPT ![f] = None]]
      <4>1. ~PosixUnlink
        BY <3>2 DEF OpInv, OpOK, LockFileStays
      <4>2. ASSUME NEW q \in Procs, pc[q] \in HasLock
            PROVE  inv[q].lock = fs'[inv[q].vm].lock
        <5>1. inv[q].lock = fs[inv[q].vm].lock /\ inv[q].lock # None /\ inv[q].vm \in Names
          BY <4>2, <1>a DEF LockInv, LocalsOK, HasLock, LockedSteps
        <5>2. CASE inv[q].vm # inv[p].vm
          BY <3>5, <5>1, <5>2 DEF TypeInv, TypeOK, VM
        <5>3. CASE inv[q].vm = inv[p].vm
          <6>1. f # "lock"
            BY <3>5, <4>1, <5>1, <5>3 DEF Undeletable, VM
          <6>2. [fs[inv[p].vm] EXCEPT ![f] = None].lock = fs[inv[p].vm].lock
            BY <3>2, <6>1, LockKept DEF Entries
          <6>3. fs'[inv[p].vm] = [fs[inv[p].vm] EXCEPT ![f] = None]
            BY <3>2, <3>5 DEF TypeInv, TypeOK, VM
          <6>. QED BY <5>1, <5>3, <6>2, <6>3
        <5>. QED BY <5>2, <5>3
      <4>. QED BY <3>2, <3>3, <4>2 DEF LockInv, HasLock
    <3>. QED BY <3>1, <3>4, <3>5
  <2>21. CASE RmDir(p)
    <3>1. SameLockFiles
      BY <2>21, <2>a, <2>b, LockKept DEF RmDir
    <3>. QED BY <2>21, <3>1, <1>c DEF RmDir, LockedSteps
  <2>. QED BY <1>3, <2>1, <2>2, <2>3, <2>4, <2>5, <2>6, <2>7, <2>8, <2>9, <2>10, <2>11,
              <2>12, <2>13, <2>14, <2>15, <2>16, <2>17, <2>18, <2>19, <2>20, <2>21 DEF Step, Bounded
<1>4. ASSUME NEW p \in Procs, Fail(p) PROVE LockInv'
  <2>1. SameLockFiles /\ holder' = holder
    BY <1>4 DEF Fail, SameLockFiles
  <2>2. CASE Leave(p) /\ pc[p] \notin LockedSteps
    BY <2>1, <2>2, <1>c
  <2>3. CASE pc[p] \in LockedSteps /\ Goto(p, "unlock") /\ inv' = inv
    BY <2>1, <2>3, <1>e DEF HasLock, LockedSteps
  <2>. QED BY <1>4, <2>2, <2>3 DEF Fail, LockedSteps
<1>5. ASSUME NEW p \in Procs, Crash(p) PROVE LockInv'
  BY <1>5, <1>b, LockGone DEF Crash, SameLockFiles
<1>6. CASE UNCHANGED <<fs, holder, pc, inv>>
  BY <1>6 DEF LockInv
<1>. QED BY <1>1, <1>2, <1>3, <1>4, <1>5, <1>6
         DEF Next, vars, QemuExit, ProgramStart, ProgramExit

\* Two invocations are never both past the lock of one VM, however many there are and
\* wherever any of them dies.
THEOREM LockExcludes ==
  ASSUME LockFileStays
  PROVE  Spec => []LockExclusion
<1>1. TypeInv /\ LockInv => LockExclusion
  BY DEF LockInv, LockExclusion, HasLock
<1>. QED BY InitTypeInv, StepTypeInv, InitOpInv, StepOpInv, InitLockInv, StepLockInv, <1>1,
            PTL DEF Spec

-----------------------------------------------------------------------------
(* Why an invocation returns.  That it does is a liveness property, which   *)
(* TLC checks under fairness (InvocationEnds).  It rests on two facts of    *)
(* safety: the steps of an invocation count down, and whoever holds a lock  *)
(* is not waiting for one.  Both hold in every world: with crashes, faults, *)
(* reuse of pids, and a vm.lock that is unlinked and made anew.             *)

\* How many steps an invocation still has before it, at most, when it is at step s of
\* command o with the entries in t to remove.
StepsLeft(s, o, t) ==
  LET One(f) == IF f \in t THEN 1 ELSE 0
      starts == o \in {"create", "start"}
  IN  CASE s = "idle"      -> 0
        [] s = "unlock"    -> 1
        [] s = "ready"     -> 2
        [] s = "record"    -> 3
        [] s = "spawn"     -> 4
        [] s = "save"      -> 5
        [] s = "disk"      -> 6
        [] s = "key"       -> 7
        [] s = "rmunlink"  -> 1 + One("lock") + One("key") + One("disk") + One("rec")
        [] s = "rmscan"    -> 6
        [] s = "handoff"   -> 11
        [] s = "clear"     -> 12
        [] s = "wait"      -> 13
        [] s = "kill"      -> 14
        [] s = "quit"      -> 15
        [] s = "powerdown" -> 16
        [] s = "stop"      -> 17
        [] s = "flock"     -> IF starts THEN 8 ELSE 18
        [] s = "open"      -> IF starts THEN 9 ELSE 19
        [] s \in {"get", "exists"} -> IF starts THEN 10 ELSE 20
        [] s = "rmget"     -> 21

Left(p) == StepsLeft(pc[p], inv[p].op, inv[p].todo)

\* No step of any process takes an invocation that is under way back, nor leaves it
\* elsewhere with as much before it.
CountsDown(p) ==
  pc[p] # "idle" => \/ pc'[p] = pc[p] /\ inv'[p] = inv[p]
                    \/ Left(p)' < Left(p)

\* The count is a number from 0 to 21, and 0 only for an invocation that has returned.
LEMMA LeftIsBounded ==
  ASSUME NEW s \in Steps, NEW o, NEW t
  PROVE  StepsLeft(s, o, t) \in 0 .. 21 /\ (s # "idle" => StepsLeft(s, o, t) > 0)
  BY DEF StepsLeft, Steps, LockedSteps

\* Removing an entry brings the count down by one, and reading the directory does too.
LEMMA LeftToRemove ==
  ASSUME NEW o, NEW t \in SUBSET Entries
  PROVE  /\ StepsLeft("rmunlink", o, t) \in 1 .. 5
         /\ \A f \in t : StepsLeft("rmunlink", o, t \ {f}) < StepsLeft("rmunlink", o, t)
<1>1. StepsLeft("rmunlink", o, t) \in 1 .. 5
  BY DEF StepsLeft
<1>2. ASSUME NEW f \in t
      PROVE  StepsLeft("rmunlink", o, t \ {f}) < StepsLeft("rmunlink", o, t)
  <2>1. CASE f = "lock"  BY <2>1, <1>2 DEF StepsLeft
  <2>2. CASE f = "key"   BY <2>2, <1>2 DEF StepsLeft
  <2>3. CASE f = "disk"  BY <2>3, <1>2 DEF StepsLeft
  <2>4. CASE f = "rec"   BY <2>4, <1>2 DEF StepsLeft
  <2>. QED BY <2>1, <2>2, <2>3, <2>4 DEF Entries
<1>. QED BY <1>1, <1>2

\* Every step counts down for the invocation that takes it, and leaves the others be.
LEMMA StepCountsDown == TypeInv /\ [Next]_vars => \A p \in Procs : CountsDown(p)
<1> SUFFICES ASSUME TypeInv, [Next]_vars, NEW x \in Procs PROVE CountsDown(x)
  OBVIOUS
<1>a. ASSUME NEW p \in Procs
      PROVE  /\ pc[p] \in Steps /\ inv[p] \in Invocation
             /\ inv[p].todo \in SUBSET Entries
  BY DEF TypeInv, TypeOK, Invocation
<1>b. ASSUME NEW p \in Procs, NEW s, NEW r, Goto(p, s), inv' = [inv EXCEPT ![p] = r],
             pc[p] # "idle" =>
               StepsLeft(s, r.op, r.todo) < StepsLeft(pc[p], inv[p].op, inv[p].todo)
      PROVE  CountsDown(x)
  <2>1. /\ pc'[p] = s /\ inv'[p] = r
        /\ \A q \in Procs \ {p} : pc'[q] = pc[q] /\ inv'[q] = inv[q]
    BY <1>b DEF Goto, TypeInv, TypeOK
  <2>. QED BY <1>b, <2>1 DEF CountsDown, Left
<1>c. ASSUME NEW p \in Procs, NEW s, Goto(p, s), inv' = inv,
             pc[p] # "idle" =>
               StepsLeft(s, inv[p].op, inv[p].todo)
                 < StepsLeft(pc[p], inv[p].op, inv[p].todo)
      PROVE  CountsDown(x)
  <2>1. inv' = [inv EXCEPT ![p] = inv[p]]
    BY <1>c DEF TypeInv, TypeOK
  <2>. QED BY <1>b, <1>c, <2>1
<1>d. ASSUME NEW p \in Procs, Leave(p) PROVE CountsDown(x)
  <2>1. StepsLeft("idle", NoInvocation.op, NoInvocation.todo) = 0
    BY DEF StepsLeft
  <2>2. pc[p] # "idle" => StepsLeft(pc[p], inv[p].op, inv[p].todo) > 0
    BY <1>a, LeftIsBounded
  <2>. QED BY <1>b, <1>d, <2>1, <2>2 DEF Leave
<1>e. ASSUME NEW p \in Procs, NEW s, Goto(p, s), NEW r, SetRec(p, r),
             pc[p] # "idle" =>
               StepsLeft(s, inv[p].op, inv[p].todo)
                 < StepsLeft(pc[p], inv[p].op, inv[p].todo)
      PROVE  CountsDown(x)
  <2>1. /\ [inv[p] EXCEPT !.rec = r].op = inv[p].op
        /\ [inv[p] EXCEPT !.rec = r].todo = inv[p].todo
    BY <1>a DEF Invocation
  <2>. QED BY <1>b, <1>e, <2>1 DEF SetRec
<1>1. ASSUME NEW p \in Procs, Invoke(p) PROVE CountsDown(x)
  <2>1. pc[p] = "idle" /\ \A q \in Procs \ {p} : pc'[q] = pc[q] /\ inv'[q] = inv[q]
    BY <1>1 DEF Invoke, Goto, TypeInv, TypeOK
  <2>. QED BY <2>1 DEF CountsDown
<1>2. ASSUME NEW p \in Procs, Flock(p) PROVE CountsDown(x)
  <2>1. PICK s : Goto(p, s) /\ s = CASE inv[p].op = "create" -> "key"
                                     [] inv[p].op = "start"  -> "spawn"
                                     [] OTHER                -> "stop"
    BY <1>2 DEF Flock
  <2>2. StepsLeft(s, inv[p].op, inv[p].todo) < StepsLeft("flock", inv[p].op, inv[p].todo)
    BY <2>1 DEF StepsLeft
  <2>. QED BY <1>2, <1>c, <2>1, <2>2 DEF Flock
<1>3. ASSUME NEW p \in Procs, Step(p) PROVE CountsDown(x)
  <2> DEFINE o == inv[p].op
             t == inv[p].todo
  <2>1. CASE Exists(p)
    <3>1. StepsLeft("open", o, t) < StepsLeft("exists", o, t)
      BY DEF StepsLeft
    <3>. QED BY <2>1, <3>1, <1>c, <1>d DEF Exists
  <2>2. CASE Get(p)
    <3>1. StepsLeft("open", o, t) < StepsLeft("get", o, t)
      BY DEF StepsLeft
    <3>. QED BY <2>2, <3>1, <1>d, <1>e DEF Get
  <2>3. CASE Open(p)
    <3>1. PICK i : inv' = [inv EXCEPT ![p] = [@ EXCEPT !.lock = i]]
      BY <2>3 DEF Open
    <3>2. [inv[p] EXCEPT !.lock = i].op = o /\ [inv[p] EXCEPT !.lock = i].todo = t
      BY <1>a DEF Invocation
    <3>3. StepsLeft("flock", o, t) < StepsLeft("open", o, t)
      BY DEF StepsLeft
    <3>. QED BY <2>3, <3>1, <3>2, <3>3, <1>b DEF Open
  <2>4. CASE Unlock(p)  BY <2>4, <1>d DEF Unlock
  <2>5. CASE Handoff(p)
    <3>1. PICK c \in {"start", "rmf"}, s \in {"get", "rmscan"} :
            /\ inv' = [inv EXCEPT ![p] = Fresh(c, VM(p), None)] /\ Goto(p, s)
            /\ s = "get" => c = "start"
      BY <2>5 DEF Handoff
    <3>2. /\ Fresh(c, VM(p), None).op = c /\ Fresh(c, VM(p), None).todo = {}
          /\ StepsLeft(s, c, {}) < StepsLeft("handoff", o, t)
      BY <3>1 DEF StepsLeft, Fresh
    <3>. QED BY <2>5, <3>1, <3>2, <1>b DEF Handoff
  <2>6. CASE Key(p)
    <3>1. StepsLeft("disk", o, t) < StepsLeft("key", o, t)
      BY DEF StepsLeft
    <3>. QED BY <2>6, <3>1, <1>c DEF Key
  <2>7. CASE Disk(p)
    <3>1. \A s \in {"save", "unlock"} : StepsLeft(s, o, t) < StepsLeft("disk", o, t)
      BY DEF StepsLeft
    <3>. QED BY <2>7, <3>1, <1>c DEF Disk
  <2>8. CASE SaveNew(p)
    <3>1. StepsLeft("spawn", o, t) < StepsLeft("save", o, t)
      BY DEF StepsLeft
    <3>. QED BY <2>8, <3>1, <1>c DEF SaveNew
  <2>9. CASE Spawn(p)
    <3>1. \A s \in {"record", "unlock"} : StepsLeft(s, o, t) < StepsLeft("spawn", o, t)
      BY DEF StepsLeft
    <3>. QED BY <2>9, <3>1, <1>c, <1>e DEF Spawn
  <2>10. CASE RecordPid(p)
    <3>1. \A s \in {"ready", "unlock"} : StepsLeft(s, o, t) < StepsLeft("record", o, t)
      BY DEF StepsLeft
    <3>. QED BY <2>10, <3>1, <1>c DEF RecordPid
  <2>11. CASE Ready(p)
    <3>1. StepsLeft("unlock", o, t) < StepsLeft("ready", o, t)
      BY DEF StepsLeft
    <3>. QED BY <2>11, <3>1, <1>c DEF Ready
  <2>12. CASE StopCheck(p)
    <3>1. PICK s \in {"clear", "kill", "powerdown"} : Goto(p, s)
      BY <2>12 DEF StopCheck
    <3>2. StepsLeft(s, o, t) < StepsLeft("stop", o, t)
      BY DEF StepsLeft
    <3>. QED BY <2>12, <3>1, <3>2, <1>c DEF StopCheck
  <2>13. CASE Powerdown(p)
    <3>1. \A s \in {"quit", "clear"} : StepsLeft(s, o, t) < StepsLeft("powerdown", o, t)
      BY DEF StepsLeft
    <3>. QED BY <2>13, <3>1, <1>c DEF Powerdown, Ask
  <2>14. CASE Quit(p)
    <3>1. \A s \in {"kill", "clear"} : StepsLeft(s, o, t) < StepsLeft("quit", o, t)
      BY DEF StepsLeft
    <3>. QED BY <2>14, <3>1, <1>c DEF Quit, Ask
  <2>15. CASE Kill(p)
    <3>1. StepsLeft("wait", o, t) < StepsLeft("kill", o, t)
      BY DEF StepsLeft
    <3>. QED BY <2>15, <3>1, <1>c DEF Kill
  <2>16. CASE Wait(p)
    <3>1. PICK s \in {"unlock", "clear"} : Goto(p, s)
      BY <2>16 DEF Wait
    <3>2. StepsLeft(s, o, t) < StepsLeft("wait", o, t)
      BY DEF StepsLeft
    <3>. QED BY <2>16, <3>1, <3>2, <1>c DEF Wait
  <2>17. CASE Clear(p)
    <3>1. PICK s \in {"handoff", "unlock"} : Goto(p, s)
      BY <2>17 DEF Clear
    <3>2. StepsLeft(s, o, t) < StepsLeft("clear", o, t)
      BY DEF StepsLeft
    <3>. QED BY <2>17, <3>1, <3>2, <1>e DEF Clear
  <2>18. CASE RmGet(p)
    <3>1. \A s \in {"get", "rmscan"} : StepsLeft(s, o, t) < StepsLeft("rmget", o, t)
      BY DEF StepsLeft
    <3>. QED BY <2>18, <3>1, <1>c, <1>d DEF RmGet
  <2>19. CASE RmScan(p)
    <3>1. PICK w \in SUBSET Entries : inv' = [inv EXCEPT ![p] = [@ EXCEPT !.todo = w]]
      <4>1. {f \in Entries : fs[VM(p)][f] # None} \in SUBSET Entries
        OBVIOUS
      <4>. QED BY <2>19, <4>1, Zenon DEF RmScan
    <3>2. [inv[p] EXCEPT !.todo = w].op = o /\ [inv[p] EXCEPT !.todo = w].todo = w
      BY <1>a DEF Invocation
    <3>3. StepsLeft("rmscan", o, t) = 6 /\ StepsLeft("rmunlink", o, w) \in 1 .. 5
      BY LeftToRemove DEF StepsLeft
    <3>4. StepsLeft("rmunlink", o, w) < StepsLeft("rmscan", o, t)
      BY <3>3
    <3>. QED BY <2>19, <3>1, <3>2, <3>4, <1>b DEF RmScan
  <2>20. CASE RmUnlink(p)
    <3>1. PICK f \in t :
            /\ inv' = [inv EXCEPT ![p] = [@ EXCEPT !.todo = t \ {f}]]
            /\ \/ /\ ~Undeletable(f, VM(p))
                  /\ fs' = [fs EXCEPT ![VM(p)] = [@ EXCEPT ![f] = None]]
               \/ fs' = fs
      BY <2>20 DEF RmUnlink
    <3>2. /\ [inv[p] EXCEPT !.todo = t \ {f}].op = o
          /\ [inv[p] EXCEPT !.todo = t \ {f}].todo = t \ {f}
      BY <1>a DEF Invocation
    <3>3. StepsLeft("rmunlink", o, t \ {f}) < StepsLeft("rmunlink", o, t)
      BY <1>a, LeftToRemove
    <3>4. Goto(p, "rmunlink") /\ pc[p] = "rmunlink"
      BY <2>20 DEF RmUnlink, Goto, TypeInv, TypeOK
    <3>. QED BY <3>1, <3>2, <3>3, <3>4, <1>b
  <2>21. CASE RmDir(p)  BY <2>21, <1>d DEF RmDir
  <2>. QED BY <1>3, <2>1, <2>2, <2>3, <2>4, <2>5, <2>6, <2>7, <2>8, <2>9, <2>10, <2>11,
              <2>12, <2>13, <2>14, <2>15, <2>16, <2>17, <2>18, <2>19, <2>20, <2>21 DEF Step, Bounded
<1>4. ASSUME NEW p \in Procs, Fail(p) PROVE CountsDown(x)
  <2>1. CASE Leave(p)  BY <2>1, <1>d
  <2>2. CASE /\ pc[p] \in {"key", "disk", "save", "spawn", "record", "clear"}
             /\ Goto(p, "unlock") /\ inv' = inv
    <3>1. \A s \in {"key", "disk", "save", "spawn", "record", "clear"} :
            StepsLeft("unlock", inv[p].op, inv[p].todo) < StepsLeft(s, inv[p].op, inv[p].todo)
      BY DEF StepsLeft
    <3>. QED BY <2>2, <3>1, <1>c
  <2>. QED BY <1>4, <2>1, <2>2 DEF Fail
<1>5. ASSUME NEW p \in Procs, Crash(p) PROVE CountsDown(x)
  BY <1>5, <1>d DEF Crash
<1>6. CASE UNCHANGED <<pc, inv>>
  BY <1>6 DEF CountsDown
<1>. QED BY <1>1, <1>2, <1>3, <1>4, <1>5, <1>6
         DEF Next, vars, QemuExit, ProgramStart, ProgramExit

\* An invocation takes at most 21 steps of its own, whatever it meets on the way and
\* whatever the others do: each step brings the count down, nobody else's step changes
\* it, and it is never above 21.  No loop of an invocation waits for the state of a
\* file or of a process.  It is a count of steps and not of time: a step may be slow, and
\* one of them, Disk with its image download, may take for ever.
THEOREM InvocationsCountDown ==
  Spec => /\ [](\A p \in Procs : Left(p) \in 0 .. 21 /\ (Left(p) = 0 => pc[p] = "idle"))
          /\ [][\A p \in Procs : CountsDown(p)]_vars
<1> DEFINE B == \A p \in Procs : Left(p) \in 0 .. 21 /\ (Left(p) = 0 => pc[p] = "idle")
           A == \A p \in Procs : CountsDown(p)
<1>1. TypeInv => B
  BY LeftIsBounded DEF TypeInv, TypeOK, Left
<1>2. TypeInv /\ [Next]_vars => [A]_vars
  BY StepCountsDown
<1> HIDE DEF B, A
<1>3. Spec => []B /\ [][A]_vars
  BY InitTypeInv, StepTypeInv, <1>1, <1>2, PTL DEF Spec
<1>. QED BY <1>3 DEF A, B

\* Whoever holds the flock of a file has that file open as its vm.lock and is between
\* the lock and the unlock: no process keeps a lock while it waits for another, after
\* it has returned, or when it is dead.
HoldersWork ==
  \A i \in Inodes : holder[i] # None =>
    holder[i] \in Procs /\ pc[holder[i]] \in LockedSteps /\ inv[holder[i]].lock = i

\* A step of p that keeps its lock, if it has one, or gives up all it has.
LEMMA HolderFrame ==
  ASSUME TypeInv, HoldersWork, NEW p \in Procs,
         \A q \in Procs \ {p} : pc'[q] = pc[q] /\ inv'[q] = inv[q],
         \/ holder' = Released(p)
         \/ holder' = holder /\ (pc[p] \in LockedSteps =>
                                   pc'[p] \in LockedSteps /\ inv'[p].lock = inv[p].lock)
  PROVE  HoldersWork'
  BY DEF HoldersWork, Released

\* A step after which p is still between the lock and the unlock.
LEMMA HolderStays ==
  ASSUME TypeInv, HoldersWork, NEW p \in Procs, NEW s \in LockedSteps, Goto(p, s),
         inv' = inv \/ (\E r : SetRec(p, r)), holder' = holder
  PROVE  HoldersWork'
<1>1. /\ \A q \in Procs \ {p} : pc'[q] = pc[q] /\ inv'[q] = inv[q]
      /\ pc'[p] = s /\ inv'[p].lock = inv[p].lock
  BY DEF Goto, SetRec, TypeInv, TypeOK, Invocation
<1>. QED BY <1>1, HolderFrame

\* Every step keeps HoldersWork: a flock that is taken is free, and the way out of the
\* locked steps goes through a release.
LEMMA StepHoldersWork == TypeInv /\ HoldersWork /\ [Next]_vars => HoldersWork'
<1> SUFFICES ASSUME TypeInv, HoldersWork, [Next]_vars PROVE HoldersWork'
  OBVIOUS
<1> USE NoneAssumption
<1>a. ASSUME NEW p \in Procs, Leave(p)
      PROVE  \A q \in Procs \ {p} : pc'[q] = pc[q] /\ inv'[q] = inv[q]
  BY <1>a DEF Leave, Goto, TypeInv, TypeOK
<1>b. ASSUME NEW p \in Procs, Leave(p),
             holder' = Released(p) \/ (holder' = holder /\ pc[p] \notin LockedSteps)
      PROVE  HoldersWork'
  BY <1>a, <1>b, HolderFrame
<1>c. ASSUME NEW p \in Procs, pc[p] \notin LockedSteps, NEW s, Goto(p, s), NEW r,
             inv' = [inv EXCEPT ![p] = r], holder' = holder
      PROVE  HoldersWork'
  <2>1. \A q \in Procs \ {p} : pc'[q] = pc[q] /\ inv'[q] = inv[q]
    BY <1>c DEF Goto, TypeInv, TypeOK
  <2>. QED BY <1>c, <2>1, HolderFrame
<1>d. ASSUME NEW p \in Procs, pc[p] \notin LockedSteps, NEW s, Goto(p, s), inv' = inv,
             holder' = holder
      PROVE  HoldersWork'
  BY <1>d, HolderFrame DEF Goto, TypeInv, TypeOK
<1>1. ASSUME NEW p \in Procs, Invoke(p) PROVE HoldersWork'
  <2>1. pc[p] \notin LockedSteps /\ holder' = holder
    BY <1>1 DEF Invoke, LockedSteps
  <2>2. \A q \in Procs \ {p} : pc'[q] = pc[q] /\ inv'[q] = inv[q]
    BY <1>1 DEF Invoke, Goto, TypeInv, TypeOK
  <2>. QED BY <2>1, <2>2, HolderFrame
<1>2. ASSUME NEW p \in Procs, Flock(p) PROVE HoldersWork'
  <2>1. PICK s \in {"key", "spawn", "stop"} : Goto(p, s)
    BY <1>2 DEF Flock
  <2>2. /\ inv' = inv /\ pc[p] = "flock" /\ pc'[p] \in LockedSteps
        /\ \A q \in Procs \ {p} : pc'[q] = pc[q]
    BY <1>2, <2>1 DEF Flock, Goto, TypeInv, TypeOK, LockedSteps
  <2>3. ASSUME NEW i \in Inodes, holder'[i] # None
        PROVE  /\ holder'[i] \in Procs /\ pc'[holder'[i]] \in LockedSteps
               /\ inv'[holder'[i]].lock = i
    <3>1. CASE i = inv[p].lock
      <4>1. holder'[i] = p
        BY <1>2, <3>1 DEF Flock, TypeInv, TypeOK
      <4>. QED BY <4>1, <2>2, <3>1
    <3>2. CASE i # inv[p].lock
      <4>1. holder'[i] = holder[i]
        BY <1>2, <3>2 DEF Flock, TypeInv, TypeOK
      <4>2. holder[i] # p
        BY <2>2, <2>3, <4>1 DEF HoldersWork, LockedSteps
      <4>. QED BY <4>1, <4>2, <2>2, <2>3 DEF HoldersWork
    <3>. QED BY <3>1, <3>2
  <2>. QED BY <2>3 DEF HoldersWork
<1>3. ASSUME NEW p \in Procs, Step(p) PROVE HoldersWork'
  <2>1. CASE Exists(p)  BY <2>1, <1>b, <1>d DEF Exists, LockedSteps
  <2>2. CASE Get(p)     BY <2>2, <1>b, <1>c DEF Get, SetRec, LockedSteps
  <2>3. CASE Open(p)
    <3>1. PICK i : inv' = [inv EXCEPT ![p] = [@ EXCEPT !.lock = i]]
      BY <2>3 DEF Open
    <3>. QED BY <2>3, <3>1, <1>c DEF Open, LockedSteps
  <2>4. CASE Unlock(p)  BY <2>4, <1>b DEF Unlock
  <2>5. CASE Handoff(p)
    <3>1. \A q \in Procs \ {p} : pc'[q] = pc[q] /\ inv'[q] = inv[q]
      BY <2>5 DEF Handoff, Goto, TypeInv, TypeOK
    <3>. QED BY <2>5, <3>1, HolderFrame DEF Handoff
  <2>6. CASE Key(p)        BY <2>6, HolderStays DEF Key, LockedSteps
  <2>7. CASE Disk(p)       BY <2>7, HolderStays DEF Disk, LockedSteps
  <2>8. CASE SaveNew(p)    BY <2>8, HolderStays DEF SaveNew, LockedSteps
  <2>9. CASE Spawn(p)      BY <2>9, HolderStays DEF Spawn, LockedSteps
  <2>10. CASE RecordPid(p) BY <2>10, HolderStays DEF RecordPid, LockedSteps
  <2>11. CASE Ready(p)     BY <2>11, HolderStays DEF Ready, LockedSteps
  <2>12. CASE StopCheck(p)
    <3>1. PICK s \in {"clear", "kill", "powerdown"} : Goto(p, s)
      BY <2>12 DEF StopCheck
    <3>. QED BY <2>12, <3>1, HolderStays DEF StopCheck, LockedSteps
  <2>13. CASE Powerdown(p) BY <2>13, HolderStays DEF Powerdown, Ask, LockedSteps
  <2>14. CASE Quit(p)      BY <2>14, HolderStays DEF Quit, Ask, LockedSteps
  <2>15. CASE Kill(p)      BY <2>15, HolderStays DEF Kill, LockedSteps
  <2>16. CASE Wait(p)
    <3>1. PICK s \in {"unlock", "clear"} : Goto(p, s)
      BY <2>16 DEF Wait
    <3>. QED BY <2>16, <3>1, HolderStays DEF Wait, LockedSteps
  <2>17. CASE Clear(p)
    <3>1. PICK s \in {"handoff", "unlock"} : Goto(p, s)
      BY <2>17 DEF Clear
    <3>. QED BY <2>17, <3>1, HolderStays DEF Clear, LockedSteps
  <2>18. CASE RmGet(p)  BY <2>18, <1>b, <1>d DEF RmGet, LockedSteps
  <2>19. CASE RmScan(p)
    <3>1. PICK w : inv' = [inv EXCEPT ![p] = [@ EXCEPT !.todo = w]]
      BY <2>19, Zenon DEF RmScan
    <3>. QED BY <2>19, <3>1, <1>c DEF RmScan, LockedSteps
  <2>20. CASE RmUnlink(p)
    <3>1. pc[p] \notin LockedSteps /\ holder' = holder
      BY <2>20 DEF RmUnlink, LockedSteps
    <3>2. \A q \in Procs \ {p} : pc'[q] = pc[q] /\ inv'[q] = inv[q]
      BY <2>20, <1>a DEF RmUnlink, TypeInv, TypeOK
    <3>. QED BY <3>1, <3>2, HolderFrame
  <2>21. CASE RmDir(p)  BY <2>21, <1>b DEF RmDir, LockedSteps
  <2>. QED BY <1>3, <2>1, <2>2, <2>3, <2>4, <2>5, <2>6, <2>7, <2>8, <2>9, <2>10, <2>11,
              <2>12, <2>13, <2>14, <2>15, <2>16, <2>17, <2>18, <2>19, <2>20, <2>21 DEF Step, Bounded
<1>4. ASSUME NEW p \in Procs, Fail(p) PROVE HoldersWork'
  <2>1. CASE pc[p] \in {"open", "flock", "rmscan", "rmunlink"} /\ Leave(p)
    BY <1>4, <2>1, <1>b DEF Fail, LockedSteps
  <2>2. CASE Goto(p, "unlock") /\ inv' = inv
    BY <1>4, <2>2, HolderStays DEF Fail, LockedSteps
  <2>. QED BY <1>4, <2>1, <2>2 DEF Fail
<1>5. ASSUME NEW p \in Procs, Crash(p) PROVE HoldersWork'
  BY <1>5, <1>b DEF Crash
<1>6. CASE UNCHANGED <<holder, pc, inv>>
  BY <1>6 DEF HoldersWork
<1>. QED BY <1>1, <1>2, <1>3, <1>4, <1>5, <1>6
         DEF Next, vars, QemuExit, ProgramStart, ProgramExit

\* An invocation that waits for a VM's lock waits for a live one that is through its
\* own wait and has only locked steps before its release, none of them guarded by what
\* another invocation does: there is no circle of waiters, and no lock whose holder is
\* gone.  With InvocationsCountDown, the wait for a holder is one for at most 17 steps of
\* its, which end in time unless it is at Disk, where a mirror can keep it.
THEOREM HoldersDoNotWait ==
  Spec => []\A i \in Inodes : holder[i] # None =>
              /\ holder[i] \in Procs /\ pc[holder[i]] \in LockedSteps
              /\ inv[holder[i]].lock = i
              /\ Left(holder[i]) \in 1 .. 17
<1> DEFINE W == \A i \in Inodes : holder[i] # None =>
                  /\ holder[i] \in Procs /\ pc[holder[i]] \in LockedSteps
                  /\ inv[holder[i]].lock = i
                  /\ Left(holder[i]) \in 1 .. 17
<1>1. Init => HoldersWork
  BY DEF Init, HoldersWork
<1>2. HoldersWork => W
  <2>1. ASSUME NEW s \in LockedSteps, NEW o, NEW t PROVE StepsLeft(s, o, t) \in 1 .. 17
    BY DEF StepsLeft, LockedSteps
  <2>. QED BY <2>1 DEF HoldersWork, Left
<1> HIDE DEF W
<1>3. Spec => []W
  BY InitTypeInv, StepTypeInv, <1>1, StepHoldersWork, <1>2, PTL DEF Spec
<1>. QED BY <1>3 DEF W

=============================================================================
