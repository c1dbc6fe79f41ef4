---------------------------- MODULE VMStopProofs ----------------------------
(***************************************************************************)
(* Stop, for any number of VMs, invocations and pids: what it clears is    *)
(* dead, and what it kills is its own, as long as no QEMU is given the pid *)
(* that the record of another VM still names.                              *)
(***************************************************************************)
EXTENDS VMLifecycleProofs

QemuPidsAreFresh == "qemu" \notin PidReuse

\* A QEMU that a record of VM n names is n's.
Own(n, r) == (r # None /\ IsRunning(r.pid)) => os[r.pid].vm = n

\* This goes for the records on disk and for those that invocations have in memory,
\* which they read before they took the lock and may save again.
OwnInv ==
  /\ \A n \in Names : Own(n, fs[n].rec)
  /\ \A p \in Procs : Own(VM(p), inv[p].rec)

StopInv == OwnInv /\ ClearOnlyDead

\* No record names a pid.
LEMMA InitStopInv == Init => StopInv
  BY DEF Init, StopInv, OwnInv, Own, ClearOnlyDead, NoInvocation, Fresh

-----------------------------------------------------------------------------
(* What the kinds of steps do to it.                                       *)

\* No process comes or goes.
LEMMA StopKept ==
  ASSUME TypeInv, StopInv, NEW p \in Procs, NEW s, NEW r,
         pc' = [pc EXCEPT ![p] = s], inv' = [inv EXCEPT ![p] = r], os' = os,
         \A n \in Names : Own(n, fs'[n].rec),
         Own(r.vm, r.rec), s = "clear" => ~IsRunning(r.rec.pid)
  PROVE  StopInv'
<1>1. /\ \A q \in Procs : pc'[q] = (IF q = p THEN s ELSE pc[q])
      /\ \A q \in Procs : inv'[q] = (IF q = p THEN r ELSE inv[q])
  BY DEF TypeInv, TypeOK
<1>2. OwnInv'
  BY <1>1 DEF StopInv, OwnInv, Own, VM, IsRunning
<1>3. ClearOnlyDead'
  BY <1>1 DEF StopInv, ClearOnlyDead, IsRunning, Pid
<1>. QED BY <1>2, <1>3 DEF StopInv

\* A step that moves an invocation and touches no process keeps StopInv.
LEMMA StopMoveOn ==
  ASSUME TypeInv, StopInv, NEW p \in Procs, NEW s, Goto(p, s), inv' = inv, os' = os,
         \A n \in Names : Own(n, fs'[n].rec), s = "clear" => ~IsRunning(Pid(p))
  PROVE  StopInv'
<1>1. inv' = [inv EXCEPT ![p] = inv[p]] /\ Own(inv[p].vm, inv[p].rec)
  BY DEF TypeInv, TypeOK, StopInv, OwnInv, VM
<1>. QED BY <1>1, StopKept DEF Goto, Pid

\* So does the end of an invocation.
LEMMA StopLeave ==
  ASSUME TypeInv, StopInv, NEW p \in Procs, Leave(p), os' = os,
         \A n \in Names : Own(n, fs'[n].rec)
  PROVE  StopInv'
<1>1. Own(NoInvocation.vm, NoInvocation.rec)
  BY DEF NoInvocation, Fresh, Own
<1>. QED BY <1>1, StopKept DEF Leave, Goto

\* A QEMU goes, and none comes.
LEMMA StopGone ==
  ASSUME TypeInv, StopInv, fs' = fs, inv' = inv,
         \A q \in Procs : pc'[q] = "clear" => pc[q] = "clear",
         \A q \in Pids : os'[q] \in Qemu => os'[q] = os[q]
  PROVE  StopInv'
<1>1. \A n \in Names : fs[n].rec # None => fs[n].rec.pid \in Pids \union {None}
  BY DEF TypeInv, TypeOK, Dir, Record
<1>2. \A q \in Procs : /\ inv[q].rec # None => Pid(q) \in Pids \union {None}
                       /\ pc[q] = "clear" => inv[q].rec # None
  BY NoneAssumption
  DEF TypeInv, TypeOK, Invocation, Record, Pid, Locals, LocalsOK, HasRecord, LockedSteps
<1>3. OwnInv'
  BY <1>1, <1>2 DEF StopInv, OwnInv, Own, VM, IsRunning, Pid
<1>4. ClearOnlyDead'
  BY <1>2 DEF StopInv, ClearOnlyDead, IsRunning, Pid
<1>. QED BY <1>3, <1>4 DEF StopInv

-----------------------------------------------------------------------------
\* While no QEMU is given a recorded pid, every step keeps StopInv.
LEMMA StepStopInv ==
  ASSUME QemuPidsAreFresh
  PROVE  TypeInv /\ StopInv /\ [Next]_vars => StopInv'
<1> SUFFICES ASSUME TypeInv, StopInv, [Next]_vars PROVE StopInv'
  OBVIOUS
<1>a. /\ \A n \in Names : fs[n] \in Dir /\ Own(n, fs[n].rec)
      /\ fs \in [Names -> Dir]
      /\ \A p \in Procs : /\ inv[p] \in Invocation /\ Own(VM(p), inv[p].rec)
                          /\ LocalsOK(pc[p], inv[p])
  BY DEF TypeInv, TypeOK, Locals, StopInv, OwnInv
<1>b. ASSUME NEW p \in Procs, pc[p] \in LockedSteps
      PROVE  inv[p].rec \in Record /\ VM(p) \in Names
  BY <1>a, <1>b DEF LocalsOK, HasRecord, VM, LockedSteps
<1>c. fs' = fs => \A n \in Names : Own(n, fs'[n].rec)
  BY <1>a
<1>1. ASSUME NEW p \in Procs, Invoke(p) PROVE StopInv'
  <2>1. PICK o \in Ops, n \in Names :
          /\ \E r \in IF o = "create" THEN [inst : FreshInsts, pid : {None}] ELSE {None} :
               inv' = [inv EXCEPT ![p] = Fresh(o, n, r)]
          /\ Goto(p, CASE o = "create"        -> "exists"
                       [] o \in {"rm", "rmf"} -> "rmget"
                       [] OTHER               -> "get")
    BY <1>1 DEF Invoke
  <2>2. PICK r \in IF o = "create" THEN [inst : FreshInsts, pid : {None}] ELSE {None} :
          inv' = [inv EXCEPT ![p] = Fresh(o, n, r)]
    BY <2>1
  <2>3. r # None => r.pid = None
    BY <2>2
  <2>4. Own(Fresh(o, n, r).vm, Fresh(o, n, r).rec)
    BY <2>3 DEF Own, Fresh, IsRunning
  <2>5. PICK s \in {"exists", "rmget", "get"} : Goto(p, s)
    BY <2>1
  <2>. QED BY <1>1, <1>c, <2>2, <2>4, <2>5, StopKept DEF Invoke, Goto
<1>2. ASSUME NEW p \in Procs, Flock(p) PROVE StopInv'
  <2>1. \E s \in {"key", "spawn", "stop"} : Goto(p, s)
    BY <1>2 DEF Flock
  <2>. QED BY <1>2, <1>c, <2>1, StopMoveOn DEF Flock
<1>3. ASSUME NEW p \in Procs, Step(p) PROVE StopInv'
  <2>a. ASSUME NEW s \in Steps \ {"clear"}, Goto(p, s), inv' = inv, os' = os, fs' = fs
        PROVE  StopInv'
    BY <2>a, <1>c, StopMoveOn
  <2>b. ASSUME Leave(p), os' = os, fs' = fs PROVE StopInv'
    BY <2>b, <1>c, StopLeave
  <2>c. ASSUME pc[p] \in LockedSteps, NEW s \in Steps \ {"clear"}, NEW r,
               Goto(p, s), inv' = inv, os' = os, Save(VM(p), r), Own(VM(p), r)
        PROVE  StopInv'
    <3>1. VM(p) \in Names /\ fs[VM(p)] \in Dir
      BY <2>c, <1>a, <1>b
    <3>2. [fs[VM(p)] EXCEPT !.dir = TRUE, !.rec = r].rec = r
      BY <3>1 DEF Dir
    <3>3. \A n \in Names : Own(n, fs'[n].rec)
      BY <2>c, <3>1, <3>2, <1>a DEF Save
    <3>. QED BY <2>c, <3>3, StopMoveOn
  <2>1. CASE Exists(p)    BY <2>1, <2>a, <2>b DEF Exists, Steps
  <2>2. CASE Get(p)
    <3>1. CASE SetRec(p, fs[VM(p)].rec) /\ Goto(p, "open")
      <4>1. VM(p) \in Names
        BY <2>2, <1>a DEF Get, LocalsOK, VM
      <4>2. /\ [inv[p] EXCEPT !.rec = fs[VM(p)].rec].vm = VM(p)
            /\ [inv[p] EXCEPT !.rec = fs[VM(p)].rec].rec = fs[VM(p)].rec
        BY <1>a DEF Invocation, VM
      <4>3. inv' = [inv EXCEPT ![p] = [inv[p] EXCEPT !.rec = fs[VM(p)].rec]]
        BY <3>1 DEF SetRec
      <4>. QED BY <2>2, <3>1, <4>1, <4>2, <4>3, <1>a, <1>c, StopKept DEF Get, Goto
    <3>. QED BY <2>2, <2>b, <3>1 DEF Get
  <2>3. CASE Open(p)
    <3>1. PICK i \in IF fs[VM(p)].lock = None THEN FreshInodes ELSE {fs[VM(p)].lock} :
            /\ fs' = [fs EXCEPT ![VM(p)] = [@ EXCEPT !.dir = TRUE, !.lock = i]]
            /\ inv' = [inv EXCEPT ![p] = [@ EXCEPT !.lock = i]]
      BY <2>3 DEF Open
    <3>2. /\ [inv[p] EXCEPT !.lock = i].vm = VM(p)
          /\ [inv[p] EXCEPT !.lock = i].rec = inv[p].rec
      BY <1>a DEF Invocation, VM
    <3>3. ASSUME NEW n \in Names PROVE [fs[n] EXCEPT !.dir = TRUE, !.lock = i].rec = fs[n].rec
      BY <1>a DEF Dir
    <3>4. \A n \in Names : fs'[n].rec = fs[n].rec
      BY <3>1, <3>3, <1>a
    <3>5. \A n \in Names : Own(n, fs'[n].rec)
      BY <3>4, <1>a
    <3>6. /\ inv' = [inv EXCEPT ![p] = [inv[p] EXCEPT !.lock = i]]
          /\ pc' = [pc EXCEPT ![p] = "flock"] /\ os' = os
      BY <2>3, <3>1 DEF Open, Goto
    <3>7. Own([inv[p] EXCEPT !.lock = i].vm, [inv[p] EXCEPT !.lock = i].rec)
      BY <3>2, <1>a
    <3>. QED BY <3>5, <3>6, <3>7, StopKept
  <2>4. CASE Unlock(p)    BY <2>4, <2>b DEF Unlock
  <2>5. CASE Handoff(p)
    <3>1. PICK o \in {"start", "rmf"}, s \in {"get", "rmscan"} :
            inv' = [inv EXCEPT ![p] = Fresh(o, VM(p), None)] /\ Goto(p, s)
      BY <2>5 DEF Handoff
    <3>2. Own(Fresh(o, VM(p), None).vm, Fresh(o, VM(p), None).rec)
      BY DEF Own, Fresh
    <3>. QED BY <2>5, <3>1, <3>2, <1>c, StopKept DEF Handoff, Goto
  <2>6. CASE Key(p)
    <3>1. ASSUME NEW n \in Names, NEW c
          PROVE  [fs[n] EXCEPT !.dir = TRUE, !.key = c].rec = fs[n].rec
      BY <1>a DEF Dir
    <3>2. \A n \in Names : Own(n, fs'[n].rec)
      BY <2>6, <3>1, <1>a DEF Key
    <3>. QED BY <2>6, <3>2, StopMoveOn DEF Key
  <2>7. CASE Disk(p)
    <3>1. ASSUME NEW n \in Names, NEW c PROVE [fs[n] EXCEPT !.disk = c].rec = fs[n].rec
      BY <1>a DEF Dir
    <3>2. \A n \in Names : fs'[n].rec = fs[n].rec
      <4>1. CASE fs' = fs  BY <4>1
      <4>2. CASE fs' = [fs EXCEPT ![VM(p)] = [@ EXCEPT !.disk = inv[p].rec.inst]]
        BY <3>1, <4>2, <1>a
      <4>. QED BY <2>7, <4>1, <4>2 DEF Disk
    <3>3. PICK s \in {"save", "unlock"} : Goto(p, s)
      BY <2>7 DEF Disk
    <3>4. \A n \in Names : Own(n, fs'[n].rec)
      BY <3>2, <1>a
    <3>5. inv' = inv /\ os' = os
      BY <2>7 DEF Disk
    <3>. QED BY <3>3, <3>4, <3>5, StopMoveOn
  <2>8. CASE SaveNew(p)
    BY <2>8, <2>c, <1>a DEF SaveNew, Steps, LockedSteps
  <2>9. CASE Spawn(p)
    <3>1. CASE Goto(p, "unlock") /\ UNCHANGED <<os, inv>>
      BY <2>9, <3>1, <2>a DEF Spawn, Steps, LockedSteps
    <3>2. CASE \E q \in FreePids("qemu") :
                 /\ os' = [os EXCEPT ![q] = [vm |-> VM(p), disk |-> fs[VM(p)].disk]]
                 /\ SetRec(p, [inst |-> inv[p].rec.inst, pid |-> q])
                 /\ Goto(p, "record")
      <4>1. PICK q \in FreePids("qemu") :
              /\ os' = [os EXCEPT ![q] = [vm |-> VM(p), disk |-> fs[VM(p)].disk]]
              /\ inv' = [inv EXCEPT
                          ![p] = [@ EXCEPT !.rec = [inst |-> inv[p].rec.inst, pid |-> q]]]
              /\ pc' = [pc EXCEPT ![p] = "record"]
        BY <3>2 DEF SetRec, Goto
      <4>2. q \in Pids /\ \A r \in Records : r.pid # q
        BY <4>1 DEF FreePids, QemuPidsAreFresh
      <4>3. /\ \A x \in Pids \ {q} : os'[x] = os[x]
            /\ os'[q].vm = VM(p)
        BY <4>1, <4>2 DEF TypeInv, TypeOK
      <4>4. /\ \A x \in Procs \ {p} : inv'[x] = inv[x] /\ pc'[x] = pc[x]
            /\ inv'[p].vm = VM(p) /\ inv'[p].rec.pid = q /\ pc'[p] = "record"
        BY <4>1, <1>a DEF TypeInv, TypeOK, Invocation, VM
      <4>5. ASSUME NEW r \in Records PROVE r.pid = None \/ os'[r.pid] = os[r.pid]
        <5>1. r \in Record
          BY <4>5, <1>a DEF Records, Dir, Invocation
        <5>. QED BY <5>1, <4>2, <4>3 DEF Record
      <4>6. /\ \A n \in Names : fs[n].rec # None => fs[n].rec \in Records
            /\ \A x \in Procs : inv[x].rec # None => inv[x].rec \in Records
        BY DEF Records
      <4>7. \A n \in Names : Own(n, fs[n].rec)'
        BY <2>9, <4>5, <4>6, <1>a DEF Spawn, Own, IsRunning
      <4>8. \A x \in Procs : Own(VM(x), inv[x].rec)'
        BY <4>3, <4>4, <4>5, <4>6, <1>a DEF Own, IsRunning, VM
      <4>9. ASSUME NEW x \in Procs, pc'[x] = "clear" PROVE ~IsRunning(Pid(x))'
        <5>1. x # p /\ pc[x] = "clear" /\ ~IsRunning(Pid(x))
          BY <4>4, <4>9 DEF StopInv, ClearOnlyDead
        <5>2. inv[x].rec # None
          BY <5>1, <1>b, NoneAssumption DEF LockedSteps
        <5>. QED BY <4>4, <4>5, <4>6, <5>1, <5>2 DEF IsRunning, Pid
      <4>. QED BY <4>7, <4>8, <4>9 DEF StopInv, OwnInv, ClearOnlyDead
    <3>. QED BY <2>9, <3>1, <3>2 DEF Spawn
  <2>10. CASE RecordPid(p)
    <3>1. CASE Save(VM(p), inv[p].rec) /\ Goto(p, "ready")
      BY <2>10, <3>1, <2>c, <1>a DEF RecordPid, Steps, LockedSteps
    <3>. QED BY <2>10, <3>1, <2>a DEF RecordPid, Steps, LockedSteps
  <2>11. CASE Ready(p)    BY <2>11, <2>a DEF Ready, Steps, LockedSteps
  <2>12. CASE StopCheck(p)
    <3>1. CASE ~IsRunning(Pid(p)) /\ Goto(p, "clear")
      BY <2>12, <3>1, <1>c, StopMoveOn DEF StopCheck
    <3>2. CASE \E s \in {"kill", "powerdown"} : Goto(p, s)
      BY <2>12, <3>2, <2>a DEF StopCheck, Steps, LockedSteps
    <3>. QED BY <2>12, <3>1, <3>2 DEF StopCheck
  <2>13. CASE Powerdown(p) \/ Quit(p)
    <3>1. CASE ~IsRunning(Pid(p)) /\ Goto(p, "clear")
      BY <2>13, <3>1, <1>c, StopMoveOn DEF Powerdown, Quit, Ask
    <3>. QED BY <2>13, <3>1, <2>a DEF Powerdown, Quit, Ask, Steps, LockedSteps
  <2>15. CASE Kill(p)
    <3>1. \A q \in Pids : os'[q] \in Qemu => os'[q] = os[q]
      BY <2>15, NoneAssumption DEF Kill, TypeInv, TypeOK
    <3>2. \A q \in Procs : pc'[q] = "clear" => pc[q] = "clear"
      BY <2>15 DEF Kill, Goto, TypeInv, TypeOK
    <3>. QED BY <2>15, <3>1, <3>2, StopGone DEF Kill
  <2>16. CASE Wait(p)
    <3>1. CASE ~IsRunning(Pid(p)) /\ Goto(p, "clear")
      BY <2>16, <3>1, <1>c, StopMoveOn DEF Wait
    <3>. QED BY <2>16, <3>1, <2>a DEF Wait, Steps, LockedSteps
  <2>17. CASE Clear(p)
    <3> DEFINE r == [inv[p].rec EXCEPT !.pid = None]
    <3>1. inv[p].rec \in Record /\ VM(p) \in Names /\ fs[VM(p)] \in Dir
      BY <2>17, <1>a, <1>b DEF Clear, LockedSteps
    <3>2. r.pid = None
      BY <3>1 DEF Record
    <3>3. /\ fs' = [fs EXCEPT ![VM(p)] = [@ EXCEPT !.dir = TRUE, !.rec = r]]
          /\ inv' = [inv EXCEPT ![p] = [@ EXCEPT !.rec = r]]
      BY <2>17 DEF Clear, Save, SetRec
    <3>4. PICK s \in {"handoff", "unlock"} : pc' = [pc EXCEPT ![p] = s]
      BY <2>17 DEF Clear, Goto
    <3> HIDE DEF r
    <3>5. \A n \in Names : Own(n, r)
      BY <3>2 DEF Own, IsRunning
    <3>6. [fs[VM(p)] EXCEPT !.dir = TRUE, !.rec = r].rec = r
      BY <3>1 DEF Dir
    <3>7. \A n \in Names : Own(n, fs'[n].rec)
      BY <3>1, <3>3, <3>5, <3>6, <1>a
    <3>8. /\ [inv[p] EXCEPT !.rec = r].rec = r
          /\ [inv[p] EXCEPT !.rec = r].vm = VM(p)
      BY <1>a DEF Invocation, VM
    <3>. QED BY <2>17, <3>1, <3>3, <3>4, <3>5, <3>7, <3>8, StopKept DEF Clear
  <2>18. CASE RmGet(p)
    <3>1. CASE Leave(p)  BY <2>18, <3>1, <2>b DEF RmGet
    <3>2. CASE \E s \in {"get", "rmscan"} : Goto(p, s) /\ inv' = inv
      BY <2>18, <3>2, <2>a DEF RmGet, Steps
    <3>. QED BY <2>18, <3>1, <3>2 DEF RmGet
  <2>19. CASE RmScan(p)
    <3> DEFINE t == {f \in Entries : fs[VM(p)][f] # None}
    <3>1. /\ [inv[p] EXCEPT !.todo = t].rec = inv[p].rec
          /\ [inv[p] EXCEPT !.todo = t].vm = VM(p)
      BY <1>a DEF Invocation, VM
    <3>2. inv' = [inv EXCEPT ![p] = [inv[p] EXCEPT !.todo = t]]
      BY <2>19 DEF RmScan
    <3> HIDE DEF t
    <3>. QED BY <2>19, <3>1, <3>2, <1>a, <1>c, StopKept DEF RmScan, Goto
  <2>20. CASE RmUnlink(p)
    <3>1. PICK f \in inv[p].todo :
            /\ inv' = [inv EXCEPT ![p] = [@ EXCEPT !.todo = inv[p].todo \ {f}]]
            /\ \/ fs' = [fs EXCEPT ![VM(p)] = [@ EXCEPT ![f] = None]]
               \/ fs' = fs
      BY <2>20 DEF RmUnlink
    <3>2. f \in Entries
      BY <3>1, <1>a DEF Invocation
    <3>3. ASSUME NEW n \in Names
          PROVE  [fs[n] EXCEPT ![f] = None].rec \in {fs[n].rec, None}
      BY <3>2, <1>a DEF Entries, Dir
    <3>4. \A n \in Names : fs'[n].rec \in {fs[n].rec, None}
      BY <3>1, <3>3, <1>a
    <3>5. \A n \in Names : Own(n, fs'[n].rec)
      BY <3>4, <1>a DEF Own
    <3>6. /\ [inv[p] EXCEPT !.todo = inv[p].todo \ {f}].rec = inv[p].rec
          /\ [inv[p] EXCEPT !.todo = inv[p].todo \ {f}].vm = VM(p)
      BY <1>a DEF Invocation, VM
    <3>7. pc' = [pc EXCEPT ![p] = "rmunlink"]
      BY <2>20 DEF RmUnlink, TypeInv, TypeOK
    <3> DEFINE r == [inv[p] EXCEPT !.todo = inv[p].todo \ {f}]
    <3>8. inv' = [inv EXCEPT ![p] = r] /\ os' = os /\ Own(r.vm, r.rec)
      BY <2>20, <3>1, <3>6, <1>a DEF RmUnlink
    <3> HIDE DEF r
    <3>. QED BY <3>5, <3>7, <3>8, StopKept
  <2>21. CASE RmDir(p)
    <3>1. ASSUME NEW n \in Names, NEW b PROVE [fs[n] EXCEPT !.dir = b].rec = fs[n].rec
      BY <1>a DEF Dir
    <3>2. \A n \in Names : Own(n, fs'[n].rec)
      BY <2>21, <3>1, <1>a DEF RmDir
    <3>. QED BY <2>21, <3>2, StopLeave DEF RmDir
  <2>. QED BY <1>3, <2>1, <2>2, <2>3, <2>4, <2>5, <2>6, <2>7, <2>8, <2>9, <2>10, <2>11,
              <2>12, <2>13, <2>15, <2>16, <2>17, <2>18, <2>19, <2>20, <2>21 DEF Step, Bounded
<1>4. ASSUME NEW p \in Procs, Fail(p) PROVE StopInv'
  <2>1. CASE Leave(p)
    BY <1>4, <2>1, <1>c, StopLeave DEF Fail
  <2>2. CASE Goto(p, "unlock") /\ UNCHANGED inv
    <3>1. os' = os /\ fs' = fs
      BY <1>4 DEF Fail
    <3>. QED BY <2>2, <3>1, <1>c, StopMoveOn
  <2>. QED BY <1>4, <2>1, <2>2 DEF Fail
<1>5. ASSUME NEW p \in Procs, Crash(p) PROVE StopInv'
  BY <1>5, <1>c, StopLeave DEF Crash
<1>6. ASSUME NEW q \in Pids, QemuExit(q) \/ ProgramStart(q) \/ ProgramExit(q)
      PROVE  StopInv'
  <2>1. \A x \in Pids : os'[x] \in Qemu => os'[x] = os[x]
    BY <1>6, NoneAssumption DEF QemuExit, ProgramStart, ProgramExit, TypeInv, TypeOK
  <2>. QED BY <1>6, <2>1, StopGone DEF QemuExit, ProgramStart, ProgramExit
<1>7. CASE UNCHANGED vars
  BY <1>7, StopGone DEF vars
<1>. QED BY <1>1, <1>2, <1>3, <1>4, <1>5, <1>6, <1>7 DEF Next

-----------------------------------------------------------------------------
\* Every reachable state satisfies both invariants.
LEMMA StopInvariant ==
  ASSUME QemuPidsAreFresh
  PROVE  Spec => [](TypeInv /\ StopInv)
BY InitTypeInv, StepTypeInv, InitStopInv, StepStopInv, PTL DEF Spec

\* Stop reports success only when the QEMU it set out to stop is gone: when the run
\* state of a record is about to be cleared its pid is no QEMU's, whatever other
\* invocations, or the guest, did since the record was read.
THEOREM StopClearsOnlyDead ==
  ASSUME QemuPidsAreFresh
  PROVE  Spec => []ClearOnlyDead
<1>1. TypeInv /\ StopInv => ClearOnlyDead
  BY DEF StopInv
<1>. QED BY <1>1, StopInvariant, PTL

\* A step that takes an invocation from its kill is its own.
LEMMA LeavesKill ==
  ASSUME TypeInv, [Next]_vars, NEW p \in Procs, pc[p] = "kill", pc'[p] # "kill"
  PROVE  Kill(p) \/ os' = os
<1>1. ASSUME NEW x \in Procs, Step(x), x # p PROVE FALSE
  <2>1. \E s : pc' = [pc EXCEPT ![x] = s] \/ pc' = pc
    BY <1>1
    DEF Step, Bounded, Exists, Get, Open, Unlock, Handoff, Key, Disk, SaveNew, Spawn, RecordPid,
        Ready, StopCheck, Powerdown, Quit, Ask, Kill, Wait, Clear, RmGet, RmScan, RmUnlink,
        RmDir, Leave, Goto
  <2>. QED BY <1>1, <2>1 DEF TypeInv, TypeOK
<1>2. ASSUME Step(p) PROVE Kill(p) \/ os' = os
  BY <1>2
  DEF Step, Bounded, Exists, Get, Open, Unlock, Handoff, Key, Disk, SaveNew, Spawn, RecordPid,
      Ready, StopCheck, Powerdown, Quit, Ask, Wait, Clear, RmGet, RmScan, RmUnlink, RmDir
<1>3. ASSUME NEW x \in Procs, Invoke(x) \/ Flock(x) \/ Fail(x) \/ Crash(x) PROVE os' = os
  BY <1>3 DEF Invoke, Flock, Fail, Crash
<1>4. ASSUME NEW q \in Pids, QemuExit(q) \/ ProgramStart(q) \/ ProgramExit(q) PROVE FALSE
  BY <1>4 DEF QemuExit, ProgramStart, ProgramExit
<1>. QED BY <1>1, <1>2, <1>3, <1>4 DEF Next, vars

\* A kill ends a QEMU of the VM that was to be stopped or nothing, as long as no QEMU
\* is given a pid that a record still names.  Without that assumption it is false: the
\* run lifecycle_pid_reuse shows how.
THEOREM StopKillsOnlyItsOwn ==
  ASSUME QemuPidsAreFresh
  PROVE  Spec => KillsOnlyOwnQemu
<1> DEFINE A == \A p \in Procs, q \in Pids :
                  (pc[p] = "kill" /\ pc'[p] # "kill" /\ os'[q] # os[q])
                    => os[q] \in Qemu /\ os[q].vm = VM(p)
<1>1. TypeInv /\ StopInv /\ [Next]_vars => A
  <2> SUFFICES ASSUME TypeInv, StopInv, [Next]_vars, NEW p \in Procs, NEW q \in Pids,
                      pc[p] = "kill", pc'[p] # "kill", os'[q] # os[q]
               PROVE  os[q] \in Qemu /\ os[q].vm = VM(p)
    OBVIOUS
  <2>1. Kill(p)
    BY LeavesKill
  <2>2. q = Pid(p) /\ IsRunning(Pid(p))
    BY <2>1 DEF Kill, TypeInv, TypeOK
  <2>3. inv[p].rec # None
    BY <2>1, NoneAssumption
    DEF Kill, TypeInv, Locals, LocalsOK, HasRecord, LockedSteps
  <2>. QED BY <2>2, <2>3 DEF StopInv, OwnInv, Own, Pid, IsRunning
<1>. QED BY <1>1, StopInvariant, PTL DEF Spec, KillsOnlyOwnQemu

=============================================================================
