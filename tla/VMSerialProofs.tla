--------------------------- MODULE VMSerialProofs ---------------------------
(***************************************************************************)
(* What holds when no two invocations are at work on one VM at a time,     *)
(* with any number of them at work on different VMs: a VM's files belong   *)
(* together wherever an invocation dies; a running VM is not forgotten;    *)
(* and, if no invocation dies between starting a QEMU and recording it,    *)
(* the files and processes implement VMPromise.                            *)
(***************************************************************************)
EXTENDS VMStopProofs, VMRefinement

-----------------------------------------------------------------------------
(* The inductive invariant.                                                *)

\* No two invocations are at work on one VM.
Alone == \A p, q \in Procs : (VM(p) = VM(q) /\ VM(p) # None) => p = q

\* The steps at which the record in memory is the one on disk.
OnRecord == {"spawn", "stop", "powerdown", "quit", "kill", "wait", "clear", "handoff"}

\* What an invocation at step s, with locals r, knows of the directory d of its VM:
\* of a record that is not there, ...
KnowsAbsent(s, r, d) ==
  /\ s \in {"exists", "key", "disk", "save"} => r.op = "create"
  /\ (s \in {"key", "disk", "save"} \/ (s \in {"open", "flock"} /\ r.op = "create"))
       => d.rec = None
  /\ s \in {"disk", "save"} => d.key = r.rec.inst
  /\ s = "save" => d.disk = r.rec.inst

\* ... of the record it has read or written, ...
KnowsRecord(s, r, d) ==
  /\ s \in {"get", "rmget"} => r.op # "create"
  /\ (s \in OnRecord \/ (s \in {"open", "flock"} /\ r.op # "create")) => d.rec = r.rec
  /\ s = "record" => d.rec # None /\ d.rec.inst = r.rec.inst
  /\ s = "handoff" => r.rec.pid = None

\* ... and of the lock file it has open.
KnowsLock(s, r, d) ==
  /\ r.lock # None => r.lock = d.lock
  /\ s \notin HasLock => r.lock = None

Knows(s, r, d) == KnowsAbsent(s, r, d) /\ KnowsRecord(s, r, d) /\ KnowsLock(s, r, d)

\* A record lies in a directory, beside files of its own creation or none.
Together(d) == d.rec # None => d.dir /\ {d.key, d.disk} \subseteq {d.rec.inst, None}

\* Two VMs do not share a lock file.
LocksDiffer == \A m, n \in Names : (fs[m].lock = fs[n].lock /\ fs[m].lock # None) => m = n

FilesInv ==
  /\ Alone /\ LocksDiffer
  /\ \A n \in Names : Together(fs[n])
  /\ \A p \in Procs : pc[p] = "idle" => inv[p] = NoInvocation
  /\ \A p \in Procs : pc[p] # "idle" => Knows(pc[p], inv[p], fs[VM(p)])

\* Nobody is at work, and no VM exists.
LEMMA InitFilesInv == Init => FilesInv
  BY DEF Init, FilesInv, Alone, LocksDiffer, Together, VM, NoInvocation, Fresh

-----------------------------------------------------------------------------
(* What the kinds of steps do to it.                                       *)

\* A step of p concerns p's VM, and so no other invocation: it keeps FilesInv if p
\* knows what it must at the step it gets to.
LEMMA FilesMove ==
  ASSUME TypeInv, FilesInv, NEW p \in Procs, pc[p] # "idle", NEW s, NEW r, NEW d,
         pc' = [pc EXCEPT ![p] = s], inv' = [inv EXCEPT ![p] = r],
         fs' = [fs EXCEPT ![VM(p)] = d],
         s # "idle", r.vm = VM(p), Knows(s, r, d), Together(d),
         d.lock \in {fs[VM(p)].lock, None} \union FreshInodes
  PROVE  FilesInv'
<1>1. VM(p) \in Names /\ VM(p) # None
  BY NoneAssumption DEF TypeInv, Locals, LocalsOK, VM
<1>2. /\ pc'[p] = s /\ inv'[p] = r /\ fs'[VM(p)] = d
      /\ \A q \in Procs \ {p} : pc'[q] = pc[q] /\ inv'[q] = inv[q]
      /\ \A n \in Names \ {VM(p)} : fs'[n] = fs[n]
  BY <1>1 DEF TypeInv, TypeOK
<1>3. \A q \in Procs : VM(q)' = VM(q)
  BY <1>2 DEF VM
<1>4. Alone'
  BY <1>3 DEF FilesInv, Alone
<1>5. \A n \in Names : Together(fs[n])'
  BY <1>1, <1>2 DEF FilesInv
<1>6. ASSUME NEW q \in Procs
      PROVE  /\ pc'[q] = "idle" => inv'[q] = NoInvocation
             /\ pc'[q] # "idle" => Knows(pc'[q], inv'[q], fs'[VM(q)'])
  <2>1. CASE q = p  BY <2>1, <1>2, <1>3
  <2>2. CASE q # p
    <3>1. pc[q] # "idle" => VM(q) \in Names \ {VM(p)}
      BY <2>2, <1>1 DEF FilesInv, Alone, TypeInv, Locals, LocalsOK, VM
    <3>. QED BY <2>2, <3>1, <1>2, <1>3 DEF FilesInv
  <2>. QED BY <2>1, <2>2
<1>7. LocksDiffer'
  <2>1. \A n \in Names : d.lock \in FreshInodes => fs[n].lock # d.lock
    BY DEF FreshInodes
  <2>. QED BY <1>1, <1>2, <2>1 DEF FilesInv, LocksDiffer
<1>. QED BY <1>4, <1>5, <1>6, <1>7 DEF FilesInv, Knows

\* p only goes on.
LEMMA FilesGoto ==
  ASSUME TypeInv, FilesInv, NEW p \in Procs, pc[p] # "idle", NEW s,
         Goto(p, s), inv' = inv, fs' = fs, s # "idle", Knows(s, inv[p], fs[VM(p)])
  PROVE  FilesInv'
<1>1. VM(p) \in Names
  BY DEF TypeInv, Locals, LocalsOK, VM
<1>2. inv' = [inv EXCEPT ![p] = inv[p]] /\ fs' = [fs EXCEPT ![VM(p)] = fs[VM(p)]]
  BY <1>1 DEF TypeInv, TypeOK
<1>. QED BY <1>1, <1>2, FilesMove DEF Goto, FilesInv, VM

\* p writes to its VM's directory, and goes on.
LEMMA FilesWrite ==
  ASSUME TypeInv, FilesInv, NEW p \in Procs, pc[p] # "idle", NEW s, NEW d,
         Goto(p, s), inv' = inv, fs' = [fs EXCEPT ![VM(p)] = d], s # "idle",
         Knows(s, inv[p], d), Together(d), d.lock = fs[VM(p)].lock
  PROVE  FilesInv'
<1>1. inv' = [inv EXCEPT ![p] = inv[p]]
  BY DEF TypeInv, TypeOK
<1>. QED BY <1>1, FilesMove DEF Goto, VM

\* p changes its locals, and goes on.
LEMMA FilesAssign ==
  ASSUME TypeInv, FilesInv, NEW p \in Procs, pc[p] # "idle", NEW s, NEW r,
         pc' = [pc EXCEPT ![p] = s], inv' = [inv EXCEPT ![p] = r], fs' = fs, s # "idle",
         r.vm = VM(p), Knows(s, r, fs[VM(p)])
  PROVE  FilesInv'
<1>1. VM(p) \in Names
  BY DEF TypeInv, Locals, LocalsOK, VM
<1>2. fs' = [fs EXCEPT ![VM(p)] = fs[VM(p)]]
  BY <1>1 DEF TypeInv, TypeOK
<1>. QED BY <1>1, <1>2, FilesMove DEF FilesInv

\* p ends, having done to its VM's directory what leaves the files together.
LEMMA FilesLeave ==
  ASSUME TypeInv, FilesInv, NEW p \in Procs, pc[p] # "idle", Leave(p), NEW d,
         fs' = [fs EXCEPT ![VM(p)] = d], Together(d), d.lock \in {fs[VM(p)].lock, None}
  PROVE  FilesInv'
<1>1. VM(p) \in Names /\ VM(p) # None
  BY NoneAssumption DEF TypeInv, Locals, LocalsOK, VM
<1>2. /\ pc'[p] = "idle" /\ inv'[p] = NoInvocation /\ fs'[VM(p)] = d
      /\ \A q \in Procs \ {p} : pc'[q] = pc[q] /\ inv'[q] = inv[q]
      /\ \A n \in Names \ {VM(p)} : fs'[n] = fs[n]
  BY <1>1 DEF TypeInv, TypeOK, Leave, Goto
<1>3. \A q \in Procs : VM(q)' = (IF q = p THEN None ELSE VM(q))
  BY <1>2 DEF VM, NoInvocation, Fresh
<1>4. Alone'
  BY <1>3 DEF FilesInv, Alone
<1>5. \A n \in Names : Together(fs[n])'
  BY <1>1, <1>2 DEF FilesInv
<1>6. ASSUME NEW q \in Procs
      PROVE  /\ pc'[q] = "idle" => inv'[q] = NoInvocation
             /\ pc'[q] # "idle" => Knows(pc'[q], inv'[q], fs'[VM(q)'])
  <2>1. CASE q = p  BY <2>1, <1>2
  <2>2. CASE q # p
    <3>1. pc[q] # "idle" => VM(q) \in Names \ {VM(p)}
      BY <2>2, <1>1 DEF FilesInv, Alone, TypeInv, Locals, LocalsOK, VM
    <3>. QED BY <2>2, <3>1, <1>2, <1>3 DEF FilesInv
  <2>. QED BY <2>1, <2>2
<1>7. LocksDiffer'
  BY <1>1, <1>2 DEF FilesInv, LocksDiffer
<1>. QED BY <1>4, <1>5, <1>6, <1>7 DEF FilesInv, Knows

\* Every step keeps FilesInv, whatever fails and wherever an invocation dies.
LEMMA StepFilesInv ==
  ASSUME ~Overlap
  PROVE  TypeInv /\ FilesInv /\ [Next]_vars => FilesInv'
<1> SUFFICES ASSUME TypeInv, FilesInv, [Next]_vars PROVE FilesInv'
  OBVIOUS
<1> USE NoneAssumption
<1>a. ASSUME NEW p \in Procs, pc[p] # "idle"
      PROVE  /\ VM(p) \in Names /\ fs[VM(p)] \in Dir /\ inv[p] \in Invocation
             /\ Knows(pc[p], inv[p], fs[VM(p)]) /\ Together(fs[VM(p)])
             /\ pc[p] \in HasRecord => inv[p].rec \in Record
             /\ fs' = fs => fs' = [fs EXCEPT ![VM(p)] = fs[VM(p)]]
  BY <1>a DEF TypeInv, TypeOK, Locals, LocalsOK, FilesInv, VM
<1>b. ASSUME NEW p \in Procs, pc[p] # "idle", Leave(p), fs' = fs PROVE FilesInv'
  BY <1>a, <1>b, FilesLeave
<1>1. ASSUME NEW p \in Procs, Invoke(p) PROVE FilesInv'
  <2>1. PICK o \in Ops, n \in Names :
          /\ \A q \in Procs : VM(q) # n
          /\ \E r \in IF o = "create" THEN [inst : FreshInsts, pid : {None}] ELSE {None} :
               inv' = [inv EXCEPT ![p] = Fresh(o, n, r)]
          /\ Goto(p, CASE o = "create"        -> "exists"
                       [] o \in {"rm", "rmf"} -> "rmget"
                       [] OTHER               -> "get")
    BY <1>1 DEF Invoke
  <2>2. PICK r : inv' = [inv EXCEPT ![p] = Fresh(o, n, r)]
    BY <2>1
  <2>3. PICK s \in {"exists", "rmget", "get"} :
          Goto(p, s) /\ (s = "exists" <=> o = "create")
    BY <2>1
  <2>4. /\ pc'[p] = s /\ inv'[p] = Fresh(o, n, r) /\ fs' = fs
        /\ \A q \in Procs \ {p} : pc'[q] = pc[q] /\ inv'[q] = inv[q]
    BY <1>1, <2>2, <2>3 DEF Invoke, Goto, TypeInv, TypeOK
  <2>5. \A q \in Procs : VM(q)' = (IF q = p THEN n ELSE VM(q))
    BY <2>4 DEF VM, Fresh
  <2>6. Knows(s, Fresh(o, n, r), fs[n])
    BY <2>3 DEF Knows, KnowsAbsent, KnowsRecord, KnowsLock, OnRecord, Fresh
  <2>7. Alone'
    BY <2>1, <2>5 DEF FilesInv, Alone
  <2>. QED BY <2>3, <2>4, <2>5, <2>6, <2>7 DEF FilesInv, LocksDiffer, Together
<1>2. ASSUME NEW p \in Procs, Flock(p) PROVE FilesInv'
  <2>1. pc[p] = "flock" /\ inv' = inv /\ fs' = fs
    BY <1>2 DEF Flock
  <2>2. PICK s \in {"key", "spawn", "stop"} :
          Goto(p, s) /\ (s = "key" <=> inv[p].op = "create")
    BY <1>2 DEF Flock
  <2>3. Knows(s, inv[p], fs[VM(p)])
    BY <1>a, <2>1, <2>2
    DEF Knows, KnowsAbsent, KnowsRecord, KnowsLock, OnRecord, HasLock, LockedSteps
  <2>. QED BY <2>1, <2>2, <2>3, FilesGoto
<1>3. ASSUME NEW p \in Procs, Step(p) PROVE FilesInv'
  <2> DEFINE d == fs[VM(p)]
             r == inv[p]
  <2> USE DEF Knows, KnowsAbsent, KnowsRecord, KnowsLock, OnRecord, HasLock, LockedSteps
  <2>0. pc[p] # "idle"
    BY <1>3
    DEF Step, Bounded, Exists, Get, Open, Unlock, Handoff, Key, Disk, SaveNew, Spawn, RecordPid,
        Ready, StopCheck, Powerdown, Quit, Ask, Kill, Wait, Clear, RmGet, RmScan, RmUnlink,
        RmDir
  <2>a. /\ VM(p) \in Names /\ d \in Dir /\ r \in Invocation
        /\ Knows(pc[p], r, d) /\ Together(d)
        /\ pc[p] \in HasRecord => r.rec \in Record
    BY <2>0, <1>a
  <2>b. ASSUME Leave(p), fs' = fs PROVE FilesInv'
    BY <2>0, <2>b, <1>b
  <2>c. ASSUME NEW s, Goto(p, s), inv' = inv, fs' = fs, s # "idle", Knows(s, r, d)
        PROVE  FilesInv'
    BY <2>0, <2>c, FilesGoto
  <2>d. ASSUME NEW s, NEW e, Goto(p, s), inv' = inv, fs' = [fs EXCEPT ![VM(p)] = e],
               s # "idle", Knows(s, r, e), Together(e), e.lock = d.lock
        PROVE  FilesInv'
    BY <2>0, <2>d, FilesWrite
  <2>e. ASSUME NEW s, NEW x, Goto(p, s), inv' = [inv EXCEPT ![p] = x], fs' = fs,
               s # "idle", x.vm = VM(p), Knows(s, x, d)
        PROVE  FilesInv'
    BY <2>0, <2>e, FilesAssign DEF Goto
  <2>f. ASSUME NEW e, Leave(p), fs' = [fs EXCEPT ![VM(p)] = e], Together(e),
               e.lock \in {d.lock, None}
        PROVE  FilesInv'
    BY <2>0, <2>f, FilesLeave
  <2> HIDE DEF d, r
  <2>1. CASE Exists(p)
    BY <2>1, <2>a, <2>b, <2>c DEF Exists, d
  <2>2. CASE Get(p)
    <3>1. CASE d.rec # None /\ Goto(p, "open") /\ inv' = [inv EXCEPT ![p] = [r EXCEPT !.rec = d.rec]]
      <4>1. Knows("open", [r EXCEPT !.rec = d.rec], d) /\ [r EXCEPT !.rec = d.rec].vm = VM(p)
        BY <2>2, <2>a DEF Get, Invocation, VM, r
      <4>. QED BY <2>2, <3>1, <4>1, <2>e DEF Get
    <3>. QED BY <2>2, <2>b, <3>1 DEF Get, SetRec, d, r
  <2>3. CASE Open(p)
    <3>1. PICK i \in IF d.lock = None THEN FreshInodes ELSE {d.lock} :
            /\ fs' = [fs EXCEPT ![VM(p)] = [d EXCEPT !.dir = TRUE, !.lock = i]]
            /\ inv' = [inv EXCEPT ![p] = [r EXCEPT !.lock = i]]
      BY <2>3 DEF Open, d, r
    <3> DEFINE e == [d EXCEPT !.dir = TRUE, !.lock = i]
               x == [r EXCEPT !.lock = i]
    <3>2. e.dir /\ e.lock = i /\ e.rec = d.rec /\ e.key = d.key /\ e.disk = d.disk
      BY <2>a DEF Dir
    <3>3. x.lock = i /\ x.vm = VM(p) /\ x.rec = r.rec /\ x.op = r.op /\ x.todo = r.todo
      BY <2>a DEF Invocation, VM, r
    <3>4. pc[p] = "open" /\ pc' = [pc EXCEPT ![p] = "flock"]
      BY <2>3 DEF Open, Goto
    <3>5. fs' = [fs EXCEPT ![VM(p)] = e] /\ inv' = [inv EXCEPT ![p] = x]
      BY <3>1
    <3> HIDE DEF e, x
    <3>6. Knows("flock", x, e) /\ Together(e)
      BY <3>2, <3>3, <3>4, <2>a DEF Together
    <3>7. i \in {d.lock, None} \union FreshInodes
      BY <3>1
    <3>. QED BY <2>0, <3>2, <3>3, <3>4, <3>5, <3>6, <3>7, FilesMove DEF d
  <2>4. CASE Unlock(p)    BY <2>4, <2>b DEF Unlock
  <2>5. CASE Handoff(p)
    <3>1. PICK o \in {"start", "rmf"}, s \in {"get", "rmscan"} :
            /\ inv' = [inv EXCEPT ![p] = Fresh(o, VM(p), None)]
            /\ Goto(p, s)
      BY <2>5 DEF Handoff
    <3>2. Knows(s, Fresh(o, VM(p), None), d) /\ Fresh(o, VM(p), None).vm = VM(p)
      BY DEF Fresh
    <3>. QED BY <2>5, <3>1, <3>2, <2>e DEF Handoff
  <2>6. CASE Key(p)
    <3> DEFINE e == [d EXCEPT !.dir = TRUE, !.key = r.rec.inst]
    <3>1. e.lock = d.lock /\ e.rec = d.rec /\ e.key = r.rec.inst
      BY <2>a DEF Dir
    <3>2. Knows("disk", r, e) /\ Together(e)
      BY <2>6, <2>a, <3>1 DEF Key, Together
    <3>. QED BY <2>6, <3>1, <3>2, <2>d DEF Key, d, r
  <2>7. CASE Disk(p)
    <3>1. CASE fs' = fs /\ Goto(p, "unlock")
      BY <2>7, <3>1, <2>a, <2>c DEF Disk
    <3>2. CASE fs' = [fs EXCEPT ![VM(p)] = [d EXCEPT !.disk = r.rec.inst]] /\ Goto(p, "save")
      <4> DEFINE e == [d EXCEPT !.disk = r.rec.inst]
      <4>1. e.lock = d.lock /\ e.rec = d.rec /\ e.key = d.key /\ e.disk = r.rec.inst
        BY <2>a DEF Dir
      <4>2. Knows("save", r, e) /\ Together(e)
        BY <2>7, <2>a, <4>1 DEF Disk, Together
      <4>. QED BY <2>7, <3>2, <4>1, <4>2, <2>d DEF Disk
    <3>. QED BY <2>7, <3>1, <3>2 DEF Disk, d, r
  <2>g. ASSUME NEW x
        PROVE  LET e == [d EXCEPT !.dir = TRUE, !.rec = x]
               IN  e.rec = x /\ e.dir /\ e.lock = d.lock /\ e.key = d.key /\ e.disk = d.disk
    BY <2>a DEF Dir
  <2>8. CASE SaveNew(p)
    <3> DEFINE e == [d EXCEPT !.dir = TRUE, !.rec = r.rec]
    <3>1. Knows("spawn", r, e) /\ Together(e)
      BY <2>8, <2>a, <2>g DEF SaveNew, Together
    <3>. QED BY <2>8, <3>1, <2>g, <2>d DEF SaveNew, Save, d, r
  <2>9. CASE Spawn(p)
    <3>1. CASE Goto(p, "unlock") /\ inv' = inv
      BY <2>9, <3>1, <2>a, <2>c DEF Spawn
    <3>2. CASE \E q \in FreePids("qemu") :
                 /\ SetRec(p, [inst |-> r.rec.inst, pid |-> q])
                 /\ Goto(p, "record")
      <4>1. PICK q : inv' = [inv EXCEPT ![p] = [r EXCEPT !.rec = [inst |-> r.rec.inst, pid |-> q]]]
        BY <3>2 DEF SetRec, r
      <4> DEFINE x == [r EXCEPT !.rec = [inst |-> r.rec.inst, pid |-> q]]
      <4>2. x.vm = VM(p) /\ x.lock = r.lock /\ x.rec.inst = r.rec.inst
        BY <2>a DEF Invocation, VM, r
      <4>3. Knows("record", x, d)
        BY <2>9, <2>a, <4>2 DEF Spawn, HasRecord
      <4>. QED BY <2>9, <3>2, <4>1, <4>2, <4>3, <2>e DEF Spawn
    <3>. QED BY <2>9, <3>1, <3>2 DEF Spawn, r
  <2>10. CASE RecordPid(p)
    <3> DEFINE e == [d EXCEPT !.dir = TRUE, !.rec = r.rec]
    <3>1. Knows("ready", r, e) /\ Together(e)
      BY <2>10, <2>a, <2>g DEF RecordPid, Together
    <3>2. Knows("unlock", r, d)
      BY <2>10, <2>a DEF RecordPid
    <3>. QED BY <2>10, <3>1, <3>2, <2>c, <2>g, <2>d DEF RecordPid, Save, d, r
  <2>11. CASE Ready(p)    BY <2>11, <2>a, <2>c DEF Ready
  <2>12. CASE StopCheck(p)
    <3>1. \E s \in {"clear", "kill", "powerdown"} : Goto(p, s)
      BY <2>12 DEF StopCheck
    <3>. QED BY <2>12, <3>1, <2>a, <2>c DEF StopCheck
  <2>13. CASE Powerdown(p) BY <2>13, <2>a, <2>c DEF Powerdown, Ask
  <2>14. CASE Quit(p)     BY <2>14, <2>a, <2>c DEF Quit, Ask
  <2>15. CASE Kill(p)     BY <2>15, <2>a, <2>c DEF Kill
  <2>16. CASE Wait(p)
    <3>1. \E s \in {"unlock", "clear"} : Goto(p, s)
      BY <2>16 DEF Wait
    <3>. QED BY <2>16, <3>1, <2>a, <2>c DEF Wait
  <2>17. CASE Clear(p)
    <3> DEFINE y == [r.rec EXCEPT !.pid = None]
               x == [r EXCEPT !.rec = y]
               e == [d EXCEPT !.dir = TRUE, !.rec = y]
    <3>1. fs' = [fs EXCEPT ![VM(p)] = e] /\ inv' = [inv EXCEPT ![p] = x]
      BY <2>17 DEF Clear, Save, SetRec, d, r
    <3>2. PICK s \in {"handoff", "unlock"} : pc' = [pc EXCEPT ![p] = s]
      BY <2>17 DEF Clear, Goto
    <3>3. y.pid = None /\ y.inst = r.rec.inst /\ pc[p] = "clear" /\ d.rec = r.rec
      BY <2>17, <2>a DEF Clear, HasRecord, Record
    <3> HIDE DEF y
    <3>4. x.rec = y /\ x.vm = VM(p) /\ x.lock = r.lock
      BY <2>a DEF Invocation, VM, r
    <3>5. e.rec = y /\ e.dir /\ e.lock = d.lock /\ e.key = d.key /\ e.disk = d.disk
      BY <2>g
    <3> HIDE DEF x, e
    <3>6. d.rec # None
      BY <2>17, <2>a, <3>3 DEF Clear, HasRecord
    <3>7. Knows(s, x, e) /\ Together(e)
      BY <2>a, <3>2, <3>3, <3>4, <3>5, <3>6 DEF Together
    <3>. QED BY <2>0, <3>1, <3>2, <3>4, <3>5, <3>7, FilesMove DEF d
  <2>18. CASE RmGet(p)
    <3>1. CASE \E s \in {"get", "rmscan"} : Goto(p, s) /\ inv' = inv
      BY <2>18, <3>1, <2>a, <2>c DEF RmGet
    <3>. QED BY <2>18, <3>1, <2>b DEF RmGet
  <2>19. CASE RmScan(p)
    <3> DEFINE t == {f \in Entries : d[f] # None}
               x == [r EXCEPT !.todo = t]
    <3>1. x.todo = t /\ x.vm = VM(p) /\ x.lock = r.lock
      BY <2>a DEF Invocation, VM, r
    <3>2. Knows("rmunlink", x, d)
      BY <2>19, <2>a, <3>1 DEF RmScan
    <3>. QED BY <2>19, <3>1, <3>2, <2>e DEF RmScan, d, r
  <2>20. CASE RmUnlink(p)
    <3>1. PICK f \in r.todo :
            /\ inv' = [inv EXCEPT ![p] = [r EXCEPT !.todo = r.todo \ {f}]]
            /\ fs' = [fs EXCEPT ![VM(p)] = [d EXCEPT ![f] = None]] \/ fs' = fs
      BY <2>20 DEF RmUnlink, d, r
    <3> DEFINE x == [r EXCEPT !.todo = r.todo \ {f}]
    <3>2. x.vm = VM(p) /\ x.lock = None
      BY <2>20, <2>a DEF RmUnlink, Invocation, VM, r
    <3>3. f \in Entries /\ pc' = [pc EXCEPT ![p] = "rmunlink"]
      BY <2>20, <2>a, <3>1 DEF RmUnlink, Invocation, TypeInv, TypeOK
    <3>4. PICK e : /\ e \in {d, [d EXCEPT ![f] = None]}
                   /\ fs' = [fs EXCEPT ![VM(p)] = e]
      <4>1. CASE fs' = fs
        BY <2>0, <1>a, <4>1 DEF d
      <4>2. CASE fs' = [fs EXCEPT ![VM(p)] = [d EXCEPT ![f] = None]]
        BY <4>2
      <4>. QED BY <3>1, <4>1, <4>2
    <3>5. e.dir = d.dir /\ \A g \in Entries : e[g] \in {d[g], None}
      BY <2>a, <3>3, <3>4 DEF Dir, Entries
    <3>6. e.rec = d.rec \/ e.rec = None
      BY <3>5 DEF Entries
    <3>7. inv' = [inv EXCEPT ![p] = x]
      BY <3>1
    <3> HIDE DEF x
    <3>8. Knows("rmunlink", x, e)
      BY <2>20, <2>a, <3>2 DEF RmUnlink
    <3>9. Together(e) /\ e.lock \in {d.lock, None}
      BY <2>a, <3>5, <3>6 DEF Together, Entries
    <3>. QED BY <2>0, <3>2, <3>3, <3>4, <3>7, <3>8, <3>9, FilesMove DEF d
  <2>21. CASE RmDir(p)
    <3> DEFINE b == \E f \in Entries : d[f] # None
               e == [d EXCEPT !.dir = b]
    <3>1. fs' = [fs EXCEPT ![VM(p)] = e]
      BY <2>21 DEF RmDir, d
    <3>2. e.dir = b /\ e.lock = d.lock /\ e.rec = d.rec /\ e.key = d.key /\ e.disk = d.disk
      BY <2>a DEF Dir
    <3>3. d.rec # None => b
      BY DEF Entries
    <3> HIDE DEF b
    <3>4. Together(e)
      BY <2>a, <3>2, <3>3 DEF Together
    <3>. QED BY <2>21, <3>1, <3>2, <3>4, <2>f DEF RmDir
  <2>. QED BY <1>3, <2>1, <2>2, <2>3, <2>4, <2>5, <2>6, <2>7, <2>8, <2>9, <2>10, <2>11,
              <2>12, <2>13, <2>14, <2>15, <2>16, <2>17, <2>18, <2>19, <2>20, <2>21 DEF Step, Bounded
<1>4. ASSUME NEW p \in Procs, Fail(p) PROVE FilesInv'
  <2>1. fs' = fs /\ pc[p] # "idle"
    BY <1>4 DEF Fail
  <2>2. CASE Leave(p)  BY <2>1, <2>2, <1>b
  <2>3. CASE pc[p] \in LockedSteps /\ Goto(p, "unlock") /\ inv' = inv
    <3>1. Knows("unlock", inv[p], fs[VM(p)])
      BY <1>a, <2>1
      DEF Knows, KnowsAbsent, KnowsRecord, KnowsLock, OnRecord, HasLock, LockedSteps
    <3>. QED BY <2>1, <2>3, <3>1, FilesGoto
  <2>. QED BY <1>4, <2>2, <2>3 DEF Fail, LockedSteps
<1>5. ASSUME NEW p \in Procs, Crash(p) PROVE FilesInv'
  BY <1>5, <1>b DEF Crash
<1>6. CASE UNCHANGED <<fs, pc, inv>>
  BY <1>6 DEF FilesInv, Alone, LocksDiffer, VM
<1>. QED BY <1>1, <1>2, <1>3, <1>4, <1>5, <1>6
         DEF Next, vars, QemuExit, ProgramStart, ProgramExit

\* Every reachable state satisfies it.
LEMMA FilesInvariant ==
  ASSUME ~Overlap
  PROVE  Spec => [](TypeInv /\ FilesInv)
BY InitTypeInv, StepTypeInv, InitFilesInv, StepFilesInv, PTL DEF Spec

\* A VM's key and disk are the ones its record was created with, or are missing, wherever
\* an invocation dies or fails (create.go, lifecycle.go): Create writes the record last,
\* and Remove never leaves one beside the files of a later creation.
THEOREM FilesAreTheRecords ==
  ASSUME ~Overlap
  PROVE  Spec => []RecordOwnsFiles
<1>1. FilesInv => RecordOwnsFiles
  BY DEF FilesInv, Together, RecordOwnsFiles
<1>. QED BY <1>1, FilesInvariant, PTL

\* What an invocation read before it took the lock still holds once it has it, as long as
\* nobody else is at work on the VM.  The run lifecycle_stale_read shows that the lock
\* alone does not make it so.
THEOREM ReadsStayCurrent ==
  ASSUME ~Overlap
  PROVE  Spec => []LockedReadIsCurrent
<1>1. FilesInv => LockedReadIsCurrent
  BY DEF FilesInv, LockedReadIsCurrent, Knows, KnowsAbsent, KnowsRecord, OnRecord
<1>. QED BY <1>1, FilesInvariant, PTL

-----------------------------------------------------------------------------
(* Who does what: the steps that write a VM's record or its disk, that     *)
(* start a QEMU, and that reach or leave the steps the next invariants are *)
(* about.                                                                  *)

Acts(p) == Invoke(p) \/ Flock(p) \/ Step(p) \/ Fail(p) \/ Crash(p)

\* Whatever happens, one invocation acts, or files and invocations stay as they are.
LEMMA OneActs ==
  ASSUME [Next]_vars
  PROVE  (\E p \in Procs : Acts(p)) \/ UNCHANGED <<fs, pc, inv>>
  BY DEF Next, Acts, vars, QemuExit, ProgramStart, ProgramExit

\* An invocation moves itself, and writes to its own VM's directory.
LEMMA ActsAlone ==
  ASSUME TypeInv, NEW p \in Procs, Acts(p)
  PROVE  /\ \A q \in Procs \ {p} : pc'[q] = pc[q] /\ inv'[q] = inv[q]
         /\ \A n \in Names \ {VM(p)} : fs'[n] = fs[n]
<1>1. /\ \E s : pc' = [pc EXCEPT ![p] = s] \/ pc' = pc
      /\ \E r : inv' = [inv EXCEPT ![p] = r] \/ inv' = inv
      /\ \E d : fs' = [fs EXCEPT ![VM(p)] = d] \/ fs' = fs
  <2>1. CASE Invoke(p)  BY <2>1 DEF Invoke, Goto
  <2>2. CASE Flock(p) \/ Crash(p)  BY <2>2 DEF Flock, Crash, Leave, Goto
  <2>3. CASE Fail(p)  BY <2>3 DEF Fail, Leave, Goto
  <2>4. CASE Exists(p) \/ Get(p) \/ Open(p) \/ Unlock(p) \/ Handoff(p)
    BY <2>4 DEF Exists, Get, Open, Unlock, Handoff, SetRec, Leave, Goto
  <2>5. CASE Key(p) \/ Disk(p) \/ SaveNew(p) \/ Spawn(p) \/ RecordPid(p) \/ Ready(p)
    BY <2>5 DEF Key, Disk, SaveNew, Spawn, RecordPid, Ready, Save, SetRec, Goto
  <2>6. CASE StopCheck(p) \/ Powerdown(p) \/ Quit(p) \/ Kill(p) \/ Wait(p) \/ Clear(p)
    BY <2>6 DEF StopCheck, Powerdown, Quit, Ask, Kill, Wait, Clear, Save, SetRec, Goto
  <2>7. CASE RmGet(p) \/ RmScan(p) \/ RmUnlink(p) \/ RmDir(p)
    BY <2>7 DEF RmGet, RmScan, RmUnlink, RmDir, Leave, Goto
  <2>. QED BY <2>1, <2>2, <2>3, <2>4, <2>5, <2>6, <2>7 DEF Acts, Step, Bounded
<1>. QED BY <1>1 DEF TypeInv, TypeOK

\* What each write to a directory leaves of the record and of the disk in it.
LEMMA RecordAndDisk ==
  ASSUME NEW d \in Dir
  PROVE  /\ \A i : [d EXCEPT !.dir = TRUE, !.lock = i].rec = d.rec
         /\ \A i : [d EXCEPT !.dir = TRUE, !.lock = i].disk = d.disk
         /\ \A c : [d EXCEPT !.dir = TRUE, !.key = c].rec = d.rec
         /\ \A c : [d EXCEPT !.dir = TRUE, !.key = c].disk = d.disk
         /\ \A c : [d EXCEPT !.disk = c].rec = d.rec
         /\ \A r : [d EXCEPT !.dir = TRUE, !.rec = r].rec = r
         /\ \A r : [d EXCEPT !.dir = TRUE, !.rec = r].disk = d.disk
         /\ \A b : [d EXCEPT !.dir = b].rec = d.rec
         /\ \A b : [d EXCEPT !.dir = b].disk = d.disk
  BY DEF Dir

\* How an invocation may come to write a VM's record.
LEMMA WritesRecord ==
  ASSUME TypeInv, NEW p \in Procs, Acts(p)
  PROVE  \/ fs'[VM(p)].rec = fs[VM(p)].rec
         \/ pc[p] = "save" /\ pc'[p] = "spawn" /\ fs'[VM(p)].rec = inv[p].rec
         \/ pc[p] = "record" /\ fs'[VM(p)].rec = inv[p].rec
         \/ pc[p] = "clear" /\ fs'[VM(p)].rec = [inv[p].rec EXCEPT !.pid = None]
         \/ pc[p] = "rmunlink" /\ fs'[VM(p)].rec = None
<1>1. CASE fs' = fs
  BY <1>1
<1>2. ASSUME pc[p] # "idle", NEW d, fs' = [fs EXCEPT ![VM(p)] = d]
      PROVE  fs'[VM(p)] = d /\ fs[VM(p)] \in Dir
  BY <1>2 DEF TypeInv, TypeOK, Locals, LocalsOK, VM
<1>3. CASE Open(p) \/ Key(p) \/ Disk(p) \/ RmDir(p)
  <2>1. CASE Open(p)    BY <2>1, <1>2, RecordAndDisk DEF Open
  <2>2. CASE Key(p)     BY <2>2, <1>2, RecordAndDisk DEF Key
  <2>3. CASE Disk(p)
    <3>1. CASE fs' = [fs EXCEPT ![VM(p)] = [@ EXCEPT !.disk = inv[p].rec.inst]]
      BY <2>3, <3>1, <1>2, RecordAndDisk DEF Disk
    <3>. QED BY <2>3, <3>1, <1>1 DEF Disk
  <2>4. CASE RmDir(p)   BY <2>4, <1>2, RecordAndDisk DEF RmDir
  <2>. QED BY <1>3, <2>1, <2>2, <2>3, <2>4
<1>4. CASE SaveNew(p) \/ RecordPid(p)
  <2>1. CASE Save(VM(p), inv[p].rec)
    BY <1>2, <1>4, <2>1, RecordAndDisk DEF SaveNew, RecordPid, Save, Goto, TypeInv, TypeOK
  <2>. QED BY <1>1, <1>4, <2>1 DEF SaveNew, RecordPid
<1>5. CASE Clear(p)
  BY <1>2, <1>5, RecordAndDisk DEF Clear, Save
<1>6. CASE RmUnlink(p)
  <2>1. PICK f \in inv[p].todo : fs' = [fs EXCEPT ![VM(p)] = [fs[VM(p)] EXCEPT ![f] = None]]
                                 \/ fs' = fs
    BY <1>6 DEF RmUnlink
  <2>2. f \in Entries
    BY DEF TypeInv, TypeOK, Invocation
  <2>. QED BY <1>6, <2>1, <2>2, <1>2 DEF RmUnlink, Entries, Dir
<1>. QED BY <1>1, <1>3, <1>4, <1>5, <1>6
         DEF Acts, Invoke, Flock, Fail, Crash, Step, Bounded, Exists, Get, Unlock, Handoff, Spawn,
             Ready, StopCheck, Powerdown, Quit, Ask, Kill, Wait, RmGet, RmScan

\* ... and its disk.
LEMMA WritesDisk ==
  ASSUME TypeInv, NEW p \in Procs, Acts(p)
  PROVE  \/ fs'[VM(p)].disk = fs[VM(p)].disk
         \/ pc[p] = "disk" /\ fs'[VM(p)].rec = fs[VM(p)].rec
         \/ pc[p] = "rmunlink" /\ pc'[p] = "rmunlink"
<1>1. CASE fs' = fs
  BY <1>1
<1>2. ASSUME pc[p] # "idle", NEW d, fs' = [fs EXCEPT ![VM(p)] = d]
      PROVE  fs'[VM(p)] = d /\ fs[VM(p)] \in Dir
  BY <1>2 DEF TypeInv, TypeOK, Locals, LocalsOK, VM
<1>3. CASE Open(p) \/ Key(p) \/ RmDir(p)
  <2>1. CASE Open(p)    BY <2>1, <1>2, RecordAndDisk DEF Open
  <2>2. CASE Key(p)     BY <2>2, <1>2, RecordAndDisk DEF Key
  <2>3. CASE RmDir(p)   BY <2>3, <1>2, RecordAndDisk DEF RmDir
  <2>. QED BY <1>3, <2>1, <2>2, <2>3
<1>4. CASE Disk(p)
  <2>1. CASE fs' = [fs EXCEPT ![VM(p)] = [@ EXCEPT !.disk = inv[p].rec.inst]]
    BY <2>1, <1>2, <1>4, RecordAndDisk DEF Disk
  <2>. QED BY <2>1, <1>1, <1>4 DEF Disk
<1>5. CASE SaveNew(p) \/ RecordPid(p) \/ Clear(p)
  <2>1. CASE SaveNew(p)    BY <2>1, <1>2, RecordAndDisk DEF SaveNew, Save
  <2>2. CASE RecordPid(p)
    <3>1. CASE Save(VM(p), inv[p].rec)
      BY <2>2, <3>1, <1>2, RecordAndDisk DEF RecordPid, Save
    <3>. QED BY <2>2, <3>1, <1>1 DEF RecordPid
  <2>3. CASE Clear(p)      BY <2>3, <1>2, RecordAndDisk DEF Clear, Save
  <2>. QED BY <1>5, <2>1, <2>2, <2>3
<1>6. CASE RmUnlink(p)
  BY <1>6, <1>1 DEF RmUnlink
<1>. QED BY <1>1, <1>3, <1>4, <1>5, <1>6
         DEF Acts, Invoke, Flock, Fail, Crash, Step, Bounded, Exists, Get, Unlock, Handoff, Spawn,
             Ready, StopCheck, Powerdown, Quit, Ask, Kill, Wait, RmGet, RmScan

\* A QEMU comes by a Spawn, which notes its pid, a free one, and touches no file.
LEMMA ComesBySpawn ==
  ASSUME TypeInv, [Next]_vars, NEW q \in Pids, os'[q] \in Qemu, os'[q] # os[q]
  PROVE  \E p \in Procs :
           /\ pc[p] = "spawn" /\ pc'[p] = "record" /\ ~IsRunning(Pid(p)) /\ fs' = fs
           /\ q \in FreePids("qemu") /\ os'[q] = [vm |-> VM(p), disk |-> fs[VM(p)].disk]
           /\ inv'[p].vm = VM(p) /\ inv'[p].rec.pid = q
<1>1. ASSUME NEW p \in Procs, Acts(p), ~Spawn(p), ~Kill(p) PROVE os' = os
  BY <1>1
  DEF Acts, Invoke, Flock, Fail, Crash, Step, Bounded, Exists, Get, Open, Unlock, Handoff, Key, Disk,
      SaveNew, RecordPid, Ready, StopCheck, Powerdown, Quit, Ask, Wait, Clear, RmGet, RmScan,
      RmUnlink, RmDir
<1>2. ASSUME NEW p \in Procs, Kill(p) PROVE FALSE
  BY <1>2, NoneAssumption DEF Kill, TypeInv, TypeOK
<1>3. ASSUME NEW x \in Pids, QemuExit(x) \/ ProgramStart(x) \/ ProgramExit(x) PROVE FALSE
  BY <1>3, NoneAssumption DEF QemuExit, ProgramStart, ProgramExit, TypeInv, TypeOK
<1>4. PICK p \in Procs : Spawn(p)
  BY <1>1, <1>2, <1>3 DEF Next, vars, Acts
<1>5. PICK x \in FreePids("qemu") :
        /\ os' = [os EXCEPT ![x] = [vm |-> VM(p), disk |-> fs[VM(p)].disk]]
        /\ inv' = [inv EXCEPT ![p] = [@ EXCEPT !.rec = [inst |-> inv[p].rec.inst, pid |-> x]]]
        /\ pc' = [pc EXCEPT ![p] = "record"]
        /\ ~IsRunning(Pid(p)) /\ fs' = fs
  BY <1>4 DEF Spawn, SetRec, Goto
<1>6. x = q /\ pc'[p] = "record" /\ os'[q] = [vm |-> VM(p), disk |-> fs[VM(p)].disk]
  BY <1>5 DEF TypeInv, TypeOK
<1>7. inv'[p].vm = VM(p) /\ inv'[p].rec.pid = x
  BY <1>5 DEF TypeInv, TypeOK, Invocation, VM
<1>. QED BY <1>4, <1>5, <1>6, <1>7 DEF Spawn

-----------------------------------------------------------------------------
(* A running VM is not forgotten.                                          *)

\* The steps from a look at the process table, which saw that the VM does not run, to
\* the last use of what was seen.
AtRest == {"record", "rmscan", "rmunlink"}

Halted(r) == r = None \/ ~IsRunning(r.pid)

PidInv == \A p \in Procs : pc[p] \in AtRest => Halted(fs[VM(p)].rec)

\* How an invocation gets to such a step.
LEMMA ComesToRest ==
  ASSUME TypeInv, NEW p \in Procs, Acts(p), pc'[p] \in AtRest
  PROVE  /\ inv'[p].vm = VM(p)
         /\ \/ pc[p] = "spawn" /\ ~IsRunning(Pid(p))
            \/ pc[p] = "rmget" /\ (inv[p].op \in {"rm", "rmf"} => Halted(fs[VM(p)].rec))
            \/ pc[p] \in {"handoff", "rmscan", "rmunlink"}
<1>1. ASSUME NEW s, Goto(p, s) PROVE pc'[p] = s
  BY <1>1 DEF Goto, TypeInv, TypeOK
<1>2. inv' = inv => inv'[p].vm = VM(p)
  BY DEF VM
<1>3. ASSUME NEW s, s \notin AtRest, Goto(p, s) PROVE FALSE
  BY <1>1, <1>3
<1>4. ~Leave(p)
  BY <1>3 DEF Leave, AtRest
<1>5. CASE Spawn(p)
  <2>1. PICK q : SetRec(p, [inst |-> inv[p].rec.inst, pid |-> q])
    BY <1>3, <1>5 DEF Spawn, AtRest
  <2>2. inv'[p].vm = VM(p)
    BY <2>1 DEF SetRec, TypeInv, TypeOK, Invocation, VM
  <2>. QED BY <1>3, <1>5, <2>2 DEF Spawn, AtRest
<1>6. CASE Handoff(p)
  <2>1. \E o : inv' = [inv EXCEPT ![p] = Fresh(o, VM(p), None)]
    BY <1>6 DEF Handoff
  <2>2. inv'[p].vm = VM(p)
    BY <2>1 DEF TypeInv, TypeOK, Fresh
  <2>. QED BY <1>6, <2>2 DEF Handoff
<1>7. CASE RmGet(p)
  BY <1>2, <1>3, <1>4, <1>7 DEF RmGet, AtRest, Halted
<1>8. CASE RmScan(p)
  BY <1>8 DEF RmScan, TypeInv, TypeOK, Invocation, VM
<1>9. CASE RmUnlink(p)
  <2>1. PICK t : inv' = [inv EXCEPT ![p] = [inv[p] EXCEPT !.todo = t]]
    BY <1>4, <1>9 DEF RmUnlink
  <2>2. inv'[p].vm = VM(p)
    BY <2>1 DEF TypeInv, TypeOK, Invocation, VM
  <2>. QED BY <1>9, <2>2 DEF RmUnlink
<1>10. ASSUME Invoke(p) \/ Flock(p) PROVE FALSE
  <2>1. \E s \in {"exists", "rmget", "get", "key", "spawn", "stop"} : Goto(p, s)
    BY <1>10 DEF Invoke, Flock
  <2>. QED BY <1>3, <2>1 DEF AtRest
<1>11. ASSUME Fail(p) \/ Crash(p) PROVE FALSE
  BY <1>3, <1>4, <1>11 DEF Fail, Crash, AtRest
<1>12. ASSUME Exists(p) \/ Get(p) \/ Open(p) \/ Unlock(p) \/ RmDir(p) PROVE FALSE
  BY <1>3, <1>4, <1>12 DEF Exists, Get, Open, Unlock, RmDir, AtRest
<1>13. ASSUME Key(p) \/ Disk(p) \/ SaveNew(p) \/ RecordPid(p) \/ Ready(p) PROVE FALSE
  BY <1>3, <1>13 DEF Key, Disk, SaveNew, RecordPid, Ready, AtRest
<1>14. ASSUME StopCheck(p) \/ Powerdown(p) \/ Quit(p) \/ Kill(p) \/ Wait(p) \/ Clear(p)
       PROVE  FALSE
  <2>1. \E s \in {"clear", "kill", "powerdown", "quit", "wait", "unlock", "handoff"} :
          Goto(p, s)
    BY <1>14 DEF StopCheck, Powerdown, Quit, Ask, Kill, Wait, Clear
  <2>. QED BY <1>3, <2>1 DEF AtRest
<1>. QED BY <1>5, <1>6, <1>7, <1>8, <1>9, <1>10, <1>11, <1>12, <1>13, <1>14 DEF Acts, Step, Bounded

\* No QEMU is given the pid of a record, so what was seen dead stays so.
LEMMA StaysHalted ==
  ASSUME QemuPidsAreFresh, TypeInv, [Next]_vars, NEW r \in Records, Halted(r)
  PROVE  Halted(r)'
<1> SUFFICES ASSUME IsRunning(r.pid)' PROVE FALSE
  BY DEF Halted, Records
<1> USE NoneAssumption
<1>1. r \in Record /\ r.pid \in Pids /\ ~IsRunning(r.pid)
  BY DEF Records, Halted, IsRunning, TypeInv, TypeOK, Dir, Invocation, Record
<1>2. r.pid \in FreePids("qemu")
  BY <1>1, ComesBySpawn DEF IsRunning
<1>. QED BY <1>2 DEF FreePids, QemuPidsAreFresh

\* Nobody is at any step.
LEMMA InitPidInv == Init => PidInv
  BY DEF Init, PidInv, AtRest

\* Every step keeps PidInv.
LEMMA StepPidInv ==
  ASSUME ~Overlap, QemuPidsAreFresh
  PROVE  TypeInv /\ OpInv /\ FilesInv /\ PidInv /\ [Next]_vars => PidInv'
<1> SUFFICES ASSUME TypeInv, OpInv, FilesInv, PidInv, [Next]_vars,
                    NEW x \in Procs, pc'[x] \in AtRest
             PROVE  Halted(fs[VM(x)].rec)'
  BY DEF PidInv
<1> USE NoneAssumption
<1>1. ASSUME NEW n \in Names, Halted(fs[n].rec) PROVE Halted(fs[n].rec)' \/ fs'[n].rec # fs[n].rec
  <2>1. CASE fs[n].rec = None  BY <2>1 DEF Halted
  <2>2. CASE fs[n].rec # None
    <3>1. fs[n].rec \in Records
      BY <2>2 DEF Records
    <3>. QED BY <1>1, <3>1, StaysHalted DEF Halted
  <2>. QED BY <2>1, <2>2
<1>2. ASSUME pc[x] = pc'[x], inv[x] = inv'[x], fs[VM(x)] = fs'[VM(x)]
      PROVE  Halted(fs[VM(x)].rec)'
  BY <1>1, <1>2 DEF PidInv, TypeInv, Locals, LocalsOK, VM, AtRest
<1>3. CASE UNCHANGED <<fs, pc, inv>>
  BY <1>2, <1>3
<1>4. ASSUME NEW p \in Procs, Acts(p), p # x PROVE Halted(fs[VM(x)].rec)'
  <2>1. pc[x] = pc'[x] /\ inv[x] = inv'[x]
    BY <1>4, ActsAlone
  <2>2. VM(x) \in Names \ {VM(p)}
    BY <1>4, <2>1 DEF FilesInv, Alone, TypeInv, Locals, LocalsOK, VM, AtRest
  <2>. QED BY <1>2, <1>4, <2>1, <2>2, ActsAlone
<1>5. ASSUME Acts(x) PROVE Halted(fs[VM(x)].rec)'
  <2> DEFINE d == fs[VM(x)]
  <2>1. /\ inv'[x].vm = VM(x)
        /\ \/ pc[x] = "spawn" /\ ~IsRunning(Pid(x))
           \/ pc[x] = "rmget" /\ (inv[x].op \in {"rm", "rmf"} => Halted(d.rec))
           \/ pc[x] \in {"handoff", "rmscan", "rmunlink"}
    BY <1>5, ComesToRest
  <2>2. VM(x) \in Names
    BY <2>1 DEF TypeInv, Locals, LocalsOK, VM
  <2>3. Halted(d.rec)
    <3>1. CASE pc[x] = "spawn" /\ ~IsRunning(Pid(x))
      BY <3>1 DEF FilesInv, Knows, KnowsRecord, OnRecord, Halted, Pid
    <3>2. CASE pc[x] = "handoff"
      BY <3>2 DEF FilesInv, Knows, KnowsRecord, OnRecord, Halted, IsRunning
    <3>3. CASE pc[x] = "rmget" /\ (inv[x].op \in {"rm", "rmf"} => Halted(d.rec))
      BY <3>3 DEF OpInv, OpOK
    <3>4. CASE pc[x] \in {"rmscan", "rmunlink"}
      BY <3>4 DEF PidInv, AtRest
    <3>. QED BY <2>1, <3>1, <3>2, <3>3, <3>4
  <2>4. fs'[VM(x)].rec \in {d.rec, None}
    BY <1>5, <2>1, WritesRecord
  <2>5. PICK n \in Names : n = VM(x)
    BY <2>2
  <2>6. Halted(fs[n].rec)'
    BY <1>1, <2>3, <2>4, <2>5 DEF Halted
  <2>. QED BY <2>1, <2>5, <2>6 DEF VM
<1>. QED BY <1>3, <1>4, <1>5, OneActs

\* Every reachable state satisfies what has been shown so far.
LEMMA PidInvariant ==
  ASSUME ~Overlap, QemuPidsAreFresh
  PROVE  Spec => [](TypeInv /\ OpInv /\ StopInv /\ FilesInv /\ PidInv)
BY InitTypeInv, StepTypeInv, InitOpInv, StepOpInv, InitStopInv, StepStopInv,
   InitFilesInv, StepFilesInv, InitPidInv, StepPidInv, PTL DEF Spec

\* Whose record changes does not run.
LEMMA ChangesAtRest ==
  ASSUME TypeInv, StopInv, FilesInv, PidInv, [Next]_vars,
         NEW n \in Names, fs'[n].rec # fs[n].rec
  PROVE  /\ Halted(fs[n].rec)
         /\ \E p \in Procs : VM(p) = n /\ pc[p] \in {"save", "record", "clear", "rmunlink"}
<1>1. PICK p \in Procs : Acts(p)
  BY OneActs
<1>2. n = VM(p)
  BY <1>1, ActsAlone
<1>3. CASE pc[p] = "save"
  BY <1>2, <1>3 DEF FilesInv, Knows, KnowsAbsent, Halted
<1>4. CASE pc[p] \in {"record", "rmunlink"}
  BY <1>2, <1>4 DEF PidInv, AtRest
<1>5. CASE pc[p] = "clear"
  BY <1>2, <1>5 DEF FilesInv, Knows, KnowsRecord, OnRecord, StopInv, ClearOnlyDead, Halted, Pid
<1>. QED BY <1>1, <1>2, <1>3, <1>4, <1>5, WritesRecord

\* No step rewrites or deletes the record of a running VM, wherever invocations die or
\* fail: Create finds none, Stop saves one when its QEMU is dead, Start one when it had
\* none, and Remove looks first.
THEOREM RunningIsNotForgotten ==
  ASSUME ~Overlap, QemuPidsAreFresh
  PROVE  Spec => NeverForgetsRunning
<1>1. /\ TypeInv /\ StopInv /\ FilesInv /\ PidInv /\ [Next]_vars
      => \A n \in Names : (fs[n].rec # None /\ IsRunning(fs[n].rec.pid)) => fs'[n].rec = fs[n].rec
  BY ChangesAtRest DEF Halted
<1>2. /\ TypeInv /\ StopInv /\ FilesInv /\ PidInv /\ [Next]_vars
      => [\A n \in Names : (fs[n].rec # None /\ IsRunning(fs[n].rec.pid))
                             => fs'[n].rec = fs[n].rec]_vars
  BY <1>1
<1>. QED BY <1>2, PidInvariant, PTL DEF Spec, NeverForgetsRunning

-----------------------------------------------------------------------------
(* A QEMU is lost before its pid is saved, or never: whatever fails or     *)
(* dies, and even if pids are used again.                                  *)

Runs(q, n) == os[q] \in Qemu /\ os[q].vm = n

\* No QEMU of the VM has the pid that its record names.
NamesNone(n) == fs[n].rec # None => \A q \in Pids : fs[n].rec.pid = q => ~Runs(q, n)

\* So it is from where an invocation saw that the VM does not run to where it rewrites or
\* deletes the record, unless a QEMU it has just started was given the old one's pid.
RestInv ==
  \A p \in Procs : pc[p] \in AtRest \union {"clear"} =>
    NamesNone(VM(p)) \/ (pc[p] = "record" /\ fs[VM(p)].rec.pid = Pid(p))

\* Stop goes to clear the run state where it saw its QEMU dead.
LEMMA ComesToClear ==
  ASSUME TypeInv, NEW p \in Procs, Acts(p), pc'[p] = "clear"
  PROVE  /\ pc[p] \in {"stop", "powerdown", "quit", "wait"} /\ ~IsRunning(Pid(p))
         /\ fs' = fs /\ os' = os /\ inv' = inv
<1>1. ASSUME NEW s, Goto(p, s) PROVE s = "clear"
  BY <1>1 DEF Goto, TypeInv, TypeOK
<1>2. ~Leave(p)
  BY <1>1 DEF Leave
<1>3. CASE StopCheck(p)
  BY <1>1, <1>3 DEF StopCheck
<1>4. CASE Powerdown(p) \/ Quit(p)
  BY <1>1, <1>4 DEF Powerdown, Quit, Ask
<1>5. CASE Wait(p)
  BY <1>1, <1>5 DEF Wait
<1>6. ASSUME Invoke(p) \/ Flock(p) \/ Fail(p) \/ Crash(p) PROVE FALSE
  <2>1. ASSUME Invoke(p) \/ Flock(p) PROVE FALSE
    <3>1. \E s \in {"exists", "rmget", "get", "key", "spawn", "stop"} : Goto(p, s)
      BY <2>1 DEF Invoke, Flock
    <3>. QED BY <1>1, <3>1
  <2>. QED BY <1>1, <1>2, <1>6, <2>1 DEF Fail, Crash
<1>7. ASSUME Exists(p) \/ Get(p) \/ Open(p) \/ Unlock(p) \/ Handoff(p) PROVE FALSE
  BY <1>1, <1>2, <1>7 DEF Exists, Get, Open, Unlock, Handoff
<1>8. ASSUME Key(p) \/ Disk(p) \/ SaveNew(p) \/ Spawn(p) \/ RecordPid(p) \/ Ready(p) PROVE FALSE
  BY <1>1, <1>8 DEF Key, Disk, SaveNew, Spawn, RecordPid, Ready
<1>9. ASSUME Kill(p) \/ Clear(p) PROVE FALSE
  <2>1. \E s \in {"wait", "unlock", "handoff"} : Goto(p, s)
    BY <1>9 DEF Kill, Clear
  <2>. QED BY <1>1, <2>1
<1>10. ASSUME RmGet(p) \/ RmScan(p) \/ RmDir(p) PROVE FALSE
  BY <1>1, <1>2, <1>10 DEF RmGet, RmScan, RmDir
<1>11. ASSUME RmUnlink(p) PROVE FALSE
  <2>1. pc' = pc /\ pc[p] = "rmunlink"
    BY <1>2, <1>11 DEF RmUnlink
  <2>. QED BY <2>1
<1>. QED BY <1>3, <1>4, <1>5, <1>6, <1>7, <1>8, <1>9, <1>10, <1>11 DEF Acts, Step, Bounded

\* A VM has a new QEMU only by an invocation that is at work on it.
LEMMA RunsBySpawn ==
  ASSUME TypeInv, [Next]_vars, NEW q \in Pids, NEW n, Runs(q, n)', ~Runs(q, n)
  PROVE  \E p \in Procs :
           /\ pc[p] = "spawn" /\ pc'[p] = "record" /\ VM(p) = n /\ ~IsRunning(Pid(p))
           /\ fs' = fs /\ inv'[p].vm = n /\ inv'[p].rec.pid = q
<1>1. os'[q] \in Qemu /\ os'[q] # os[q] /\ os'[q].vm = n
  BY DEF Runs
<1>2. PICK p \in Procs :
        /\ pc[p] = "spawn" /\ pc'[p] = "record" /\ ~IsRunning(Pid(p)) /\ fs' = fs
        /\ os'[q] = [vm |-> VM(p), disk |-> fs[VM(p)].disk]
        /\ inv'[p].vm = VM(p) /\ inv'[p].rec.pid = q
  BY <1>1, ComesBySpawn
<1>3. VM(p) = n
  BY <1>1, <1>2
<1>. QED BY <1>2, <1>3

\* Nobody is at any step.
LEMMA InitRestInv == Init => RestInv
  BY DEF Init, RestInv, AtRest

\* Every step keeps RestInv.
LEMMA StepRestInv ==
  ASSUME ~Overlap
  PROVE  TypeInv /\ OpInv /\ FilesInv /\ RestInv /\ [Next]_vars => RestInv'
<1> SUFFICES ASSUME TypeInv, OpInv, FilesInv, RestInv, [Next]_vars,
                    NEW x \in Procs, pc'[x] \in AtRest \union {"clear"},
                    NEW n, n = inv'[x].vm
             PROVE  \/ NamesNone(n)'
                    \/ pc'[x] = "record" /\ fs'[n].rec.pid = inv'[x].rec.pid
  BY DEF RestInv, VM, Pid, NamesNone, Runs
<1> USE NoneAssumption
<1>1. ASSUME NamesNone(n), \A q \in Pids : Runs(q, n)' => Runs(q, n),
             fs'[n].rec \in {fs[n].rec, None}
      PROVE  NamesNone(n)'
  BY <1>1 DEF NamesNone
<1>2. ASSUME pc[x] = pc'[x], inv[x] = inv'[x], fs[VM(x)] = fs'[VM(x)]
      PROVE  NamesNone(n)' \/ (pc'[x] = "record" /\ fs'[n].rec.pid = inv'[x].rec.pid)
  <2>1. n = VM(x) /\ n # None /\ fs'[n].rec = fs[n].rec
    BY <1>2 DEF TypeInv, Locals, LocalsOK, VM, AtRest
  <2>2. ASSUME NEW q \in Pids, Runs(q, n)', ~Runs(q, n) PROVE FALSE
    <3>1. PICK p \in Procs : pc[p] = "spawn" /\ pc'[p] = "record" /\ VM(p) = n
      BY <2>2, RunsBySpawn
    <3>2. p = x
      BY <2>1, <3>1 DEF FilesInv, Alone
    <3>. QED BY <1>2, <3>1, <3>2
  <2>3. CASE NamesNone(n)
    BY <1>1, <2>1, <2>2, <2>3
  <2>4. CASE pc[x] = "record" /\ fs[n].rec.pid = Pid(x)
    BY <1>2, <2>1, <2>4 DEF Pid
  <2>. QED BY <1>2, <2>1, <2>3, <2>4 DEF RestInv
<1>3. CASE UNCHANGED <<fs, pc, inv>>
  BY <1>2, <1>3
<1>4. ASSUME NEW p \in Procs, Acts(p), p # x
      PROVE  NamesNone(n)' \/ (pc'[x] = "record" /\ fs'[n].rec.pid = inv'[x].rec.pid)
  <2>1. pc[x] = pc'[x] /\ inv[x] = inv'[x]
    BY <1>4, ActsAlone
  <2>2. VM(x) \in Names \ {VM(p)}
    BY <1>4, <2>1 DEF FilesInv, Alone, TypeInv, Locals, LocalsOK, VM, AtRest
  <2>. QED BY <1>2, <1>4, <2>1, <2>2, ActsAlone
<1>5. ASSUME Acts(x), pc'[x] = "clear" PROVE NamesNone(n)'
  <2>1. /\ pc[x] \in {"stop", "powerdown", "quit", "wait"} /\ ~IsRunning(Pid(x))
        /\ fs' = fs /\ os' = os /\ inv' = inv
    BY <1>5, ComesToClear
  <2>2. fs[VM(x)].rec = inv[x].rec
    BY <2>1 DEF FilesInv, Knows, KnowsRecord, OnRecord
  <2>. QED BY <2>1, <2>2 DEF NamesNone, Runs, IsRunning, Pid, VM
<1>6. ASSUME Acts(x), pc'[x] \in AtRest
      PROVE  NamesNone(n)' \/ (pc'[x] = "record" /\ fs'[n].rec.pid = inv'[x].rec.pid)
  <2>1. /\ inv'[x].vm = VM(x)
        /\ \/ pc[x] = "spawn" /\ ~IsRunning(Pid(x))
           \/ pc[x] = "rmget" /\ (inv[x].op \in {"rm", "rmf"} => Halted(fs[VM(x)].rec))
           \/ pc[x] \in {"handoff", "rmscan", "rmunlink"}
    BY <1>6, ComesToRest
  <2>2. n = VM(x) /\ n # None
    BY <2>1 DEF TypeInv, Locals, LocalsOK, VM
  <2>3. NamesNone(n)
    <3>1. CASE pc[x] = "spawn" /\ ~IsRunning(Pid(x))
      BY <2>2, <3>1
      DEF FilesInv, Knows, KnowsRecord, OnRecord, NamesNone, Runs, IsRunning, Pid
    <3>2. CASE pc[x] = "handoff"
      BY <2>2, <3>2 DEF FilesInv, Knows, KnowsRecord, OnRecord, NamesNone
    <3>3. CASE pc[x] = "rmget" /\ (inv[x].op \in {"rm", "rmf"} => Halted(fs[VM(x)].rec))
      BY <2>2, <3>3 DEF OpInv, OpOK, Halted, NamesNone, Runs, IsRunning
    <3>4. CASE pc[x] \in {"rmscan", "rmunlink"}
      BY <2>2, <3>4 DEF RestInv, AtRest
    <3>. QED BY <2>1, <3>1, <3>2, <3>3, <3>4
  <2>4. fs'[n].rec \in {fs[n].rec, None}
    BY <1>6, <2>1, <2>2, WritesRecord
  <2>5. CASE \A q \in Pids : Runs(q, n)' => Runs(q, n)
    BY <1>1, <2>3, <2>4, <2>5
  <2>6. ASSUME NEW q \in Pids, Runs(q, n)', ~Runs(q, n)
        PROVE  NamesNone(n)' \/ (pc'[x] = "record" /\ fs'[n].rec.pid = inv'[x].rec.pid)
    <3>1. PICK p \in Procs :
            /\ pc[p] = "spawn" /\ pc'[p] = "record" /\ VM(p) = n
            /\ fs' = fs /\ inv'[p].rec.pid = q
      BY <2>6, RunsBySpawn
    <3>2. p = x
      BY <2>2, <3>1 DEF FilesInv, Alone
    <3>3. CASE fs[n].rec.pid = q
      BY <2>1, <2>2, <3>1, <3>2, <3>3
    <3>4. CASE fs[n].rec.pid # q
      <4>1. ASSUME NEW y \in Pids, fs[n].rec # None, fs[n].rec.pid = y, Runs(y, n)' PROVE FALSE
        <5>1. ~Runs(y, n)
          BY <2>3, <4>1 DEF NamesNone
        <5>2. PICK z \in Procs : pc[z] = "spawn" /\ VM(z) = n /\ inv'[z].rec.pid = y
          BY <4>1, <5>1, RunsBySpawn
        <5>3. z = x
          BY <2>2, <5>2 DEF FilesInv, Alone
        <5>. QED BY <3>1, <3>2, <3>4, <4>1, <5>2, <5>3
      <4>2. NamesNone(n)'
        BY <3>1, <4>1 DEF NamesNone
      <4>. QED BY <4>2
    <3>. QED BY <3>3, <3>4
  <2>. QED BY <2>5, <2>6
<1>. QED BY <1>3, <1>4, <1>5, <1>6, OneActs

\* Every reachable state satisfies it.
LEMMA RestInvariant ==
  ASSUME ~Overlap
  PROVE  Spec => [](TypeInv /\ OpInv /\ FilesInv /\ RestInv)
BY InitTypeInv, StepTypeInv, InitOpInv, StepOpInv, InitFilesInv, StepFilesInv,
   InitRestInv, StepRestInv, PTL DEF Spec

\* An invocation that has started a QEMU saves its pid, or ends.
LEMMA SavesOrEnds ==
  ASSUME TypeInv, NEW p \in Procs, Acts(p), pc[p] = "record"
  PROVE  pc'[p] \in {"unlock", "idle"} \/ fs'[VM(p)].rec = inv[p].rec
<1>1. RecordPid(p) \/ Fail(p) \/ Crash(p)
  BY DEF Acts, Invoke, Flock, Step, Bounded, Exists, Get, Open, Unlock, Handoff,
         Key, Disk, SaveNew, Spawn, Ready, StopCheck, Powerdown, Quit, Ask, Kill, Wait, Clear,
         RmGet, RmScan, RmUnlink, RmDir
<1>2. VM(p) \in Names /\ fs[VM(p)] \in Dir
  BY DEF TypeInv, TypeOK, Locals, LocalsOK, VM
<1>3. CASE Fail(p) \/ Crash(p)
  BY <1>3 DEF Fail, Crash, Leave, Goto, TypeInv, TypeOK
<1>4. CASE RecordPid(p)
  <2>1. CASE Goto(p, "unlock")
    BY <2>1 DEF Goto, TypeInv, TypeOK
  <2>2. CASE fs' = [fs EXCEPT ![VM(p)] = [@ EXCEPT !.dir = TRUE, !.rec = inv[p].rec]]
    BY <1>2, <2>2, RecordAndDisk DEF TypeInv, TypeOK
  <2>. QED BY <1>4, <2>1, <2>2 DEF RecordPid, Save
<1>. QED BY <1>1, <1>3, <1>4

\* What LostOnlyBeforeTheSave says of one step.
LosesEarly ==
  \A q \in Pids, n \in Names :
    (os'[q] \in Qemu /\ os'[q].vm = n /\ ~Named(q, n)')
      => \/ os[q] = os'[q] /\ ~Named(q, n)
         \/ \E p \in Procs : /\ pc[p] = "record" /\ pc'[p] \in {"unlock", "idle"}
                             /\ VM(p) = n /\ Pid(p) = q

\* Every step satisfies it.
LEMMA StepLosesEarly ==
  ASSUME TypeInv, FilesInv, RestInv, [Next]_vars
  PROVE  LosesEarly
<1> SUFFICES ASSUME NEW q \in Pids, NEW n \in Names, os'[q] \in Qemu, os'[q].vm = n,
                    ~Named(q, n)', os[q] = os'[q] => Named(q, n)
             PROVE  \E p \in Procs : /\ pc[p] = "record" /\ pc'[p] \in {"unlock", "idle"}
                                     /\ VM(p) = n /\ Pid(p) = q
  BY DEF LosesEarly
<1> USE NoneAssumption
<1>0. /\ fs'[n].rec # None => fs'[n].rec.pid # q
      /\ \A p \in Procs : ~(pc'[p] = "record" /\ inv'[p].vm = n /\ inv'[p].rec.pid = q)
  BY DEF Named, VM, Pid
<1>1. os[q] = os'[q] /\ Named(q, n)
  <2> SUFFICES ASSUME os'[q] # os[q] PROVE FALSE
    OBVIOUS
  <2>1. PICK p \in Procs : /\ pc'[p] = "record" /\ os'[q] = [vm |-> VM(p), disk |-> fs[VM(p)].disk]
                           /\ inv'[p].vm = VM(p) /\ inv'[p].rec.pid = q
    BY ComesBySpawn
  <2>2. VM(p) = n
    BY <2>1
  <2>. QED BY <1>0, <2>1, <2>2
<1>2. Runs(q, n)
  BY <1>1 DEF Runs
<1>3. ASSUME NEW p \in Procs, Acts(p), VM(p) = n, pc[p] = "record", Pid(p) = q
      PROVE  pc'[p] \in {"unlock", "idle"}
  <2>1. inv[p].rec # None
    BY <1>3 DEF TypeInv, Locals, LocalsOK, HasRecord, LockedSteps
  <2>2. fs'[n].rec # inv[p].rec
    BY <1>0, <1>3, <2>1 DEF Pid
  <2>. QED BY <1>3, <2>2, SavesOrEnds
<1>4. CASE fs[n].rec # None /\ fs[n].rec.pid = q
  <2>1. fs'[n].rec # fs[n].rec
    BY <1>0, <1>4
  <2>2. PICK p \in Procs : Acts(p) /\ VM(p) = n
    BY <2>1, OneActs, ActsAlone
  <2>3. ~NamesNone(n)
    BY <1>2, <1>4 DEF NamesNone
  <2>4. pc[p] \notin {"rmunlink", "clear"}
    BY <2>2, <2>3 DEF RestInv, AtRest
  <2>5. pc[p] # "save"
    BY <1>4, <2>2 DEF FilesInv, Knows, KnowsAbsent
  <2>6. pc[p] = "record"
    BY <2>1, <2>2, <2>4, <2>5, WritesRecord
  <2>7. Pid(p) = q
    BY <1>4, <2>2, <2>3, <2>6 DEF RestInv, AtRest
  <2>. QED BY <1>3, <2>2, <2>6, <2>7
<1>5. ASSUME NEW p \in Procs, pc[p] = "record", VM(p) = n, Pid(p) = q
      PROVE  pc'[p] \in {"unlock", "idle"}
  <2>1. ~(pc'[p] = pc[p] /\ inv'[p] = inv[p])
    BY <1>0, <1>5 DEF VM, Pid
  <2>2. Acts(p)
    BY <2>1, OneActs, ActsAlone
  <2>. QED BY <1>3, <1>5, <2>2
<1>. QED BY <1>1, <1>4, <1>5 DEF Named

\* A QEMU is lost only where the invocation that started it ends before it saves the pid
\* (lifecycle.go: between qemu.Start and Save): for one invocation at a time on a VM, and
\* any number on others, whatever fails, wherever they die, whichever pids return.
THEOREM LostBeforeTheSave ==
  ASSUME ~Overlap
  PROVE  Spec => LostOnlyBeforeTheSave
<1> DEFINE A == \A q \in Pids, n \in Names :
                  (os'[q] \in Qemu /\ os'[q].vm = n /\ ~Named(q, n)')
                    => \/ os[q] = os'[q] /\ ~Named(q, n)
                       \/ \E p \in Procs : /\ pc[p] = "record" /\ pc'[p] \in {"unlock", "idle"}
                                           /\ VM(p) = n /\ Pid(p) = q
<1>1. TypeInv /\ FilesInv /\ RestInv /\ [Next]_vars => [A]_vars
  BY StepLosesEarly DEF LosesEarly
<1>. QED BY <1>1, RestInvariant, PTL DEF Spec, LostOnlyBeforeTheSave

\* No invocation ends between the start of a QEMU and the save of its pid.
SavesPid == \A p \in Procs : pc[p] = "record" => pc'[p] \notin {"unlock", "idle"}

\* If none ends there, every QEMU is recorded, though invocations fail and die anywhere
\* else and pids are used again (lifecycle.go).
THEOREM RecordedIfSaved ==
  ASSUME ~Overlap
  PROVE  Spec /\ [][SavesPid]_vars => []RunningIsRecorded
<1>1. Init => RunningIsRecorded
  BY NoneAssumption DEF Init, RunningIsRecorded
<1>2. LosesEarly /\ [SavesPid]_vars /\ RunningIsRecorded => RunningIsRecorded'
  <2> SUFFICES ASSUME LosesEarly, [SavesPid]_vars, RunningIsRecorded,
                      NEW q \in Pids, NEW n \in Names, os'[q] \in Qemu, os'[q].vm = n,
                      ~Named(q, n)'
               PROVE  FALSE
    BY DEF RunningIsRecorded
  <2>1. ~(os[q] = os'[q] /\ ~Named(q, n))
    BY DEF RunningIsRecorded
  <2>2. PICK p \in Procs : pc[p] = "record" /\ pc'[p] \in {"unlock", "idle"}
    BY <2>1 DEF LosesEarly
  <2>. QED BY <2>2 DEF SavesPid, vars
<1>3. TypeInv /\ FilesInv /\ RestInv /\ [Next]_vars => LosesEarly
  BY StepLosesEarly
<1>. QED BY <1>1, <1>2, <1>3, RestInvariant, PTL DEF Spec

\* Nor is a VM deleted then while a QEMU of it runs (delete.go).
THEOREM DeletedOnlyIfHalted ==
  ASSUME ~Overlap
  PROVE  Spec /\ [][SavesPid]_vars => RunningNeverDeleted
<1> DEFINE A == \A n \in Names : (fs[n].rec # None /\ fs'[n].rec = None) =>
                  \A q \in Pids : ~(os[q] \in Qemu /\ os[q].vm = n)
<1>1. TypeInv /\ FilesInv /\ RestInv /\ RunningIsRecorded /\ [Next]_vars => A
  <2> SUFFICES ASSUME TypeInv, FilesInv, RestInv, RunningIsRecorded, [Next]_vars,
                      NEW n \in Names, fs[n].rec # None, fs'[n].rec = None,
                      NEW q \in Pids, os[q] \in Qemu, os[q].vm = n
               PROVE  FALSE
    OBVIOUS
  <2>1. PICK p \in Procs : Acts(p) /\ VM(p) = n
    BY OneActs, ActsAlone
  <2>2. pc[p] \in {"save", "record", "clear"} => inv[p].rec \in Record
    BY DEF TypeInv, Locals, LocalsOK, HasRecord, LockedSteps
  <2>3. [inv[p].rec EXCEPT !.pid = None] \in Record \/ inv[p].rec \notin Record
    BY DEF Record
  <2>4. pc[p] = "rmunlink"
    BY <2>1, <2>2, <2>3, WritesRecord, NoneAssumption
  <2>5. NamesNone(n)
    BY <2>1, <2>4 DEF RestInv, AtRest
  <2>6. fs[n].rec.pid # q
    BY <2>5 DEF NamesNone, Runs
  <2>7. PICK x \in Procs : pc[x] = "record" /\ VM(x) = n
    BY <2>6 DEF RunningIsRecorded, Named
  <2>8. x = p
    BY <2>1, <2>7, NoneAssumption DEF FilesInv, Alone
  <2>. QED BY <2>4, <2>7, <2>8
<1>2. TypeInv /\ FilesInv /\ RestInv /\ RunningIsRecorded /\ [Next]_vars => [A]_vars
  BY <1>1
<1>. QED BY <1>2, RestInvariant, RecordedIfSaved, PTL DEF Spec, RunningNeverDeleted

-----------------------------------------------------------------------------
(* A creation's token is its own until its record is saved.                *)

Creating(p) ==
  inv[p].op = "create" /\ pc[p] \in {"exists", "open", "flock", "key", "disk", "save"}

TokenInv ==
  \A p \in Procs : Creating(p) =>
    /\ \A n \in Names : fs[n].rec # None => fs[n].rec.inst # inv[p].rec.inst
    /\ \A q \in Procs \ {p} : inv[q].rec # None => inv[q].rec.inst # inv[p].rec.inst

\* Where the record that an invocation has in memory comes from.
LEMMA AssignsRecord ==
  ASSUME TypeInv, NEW p \in Procs, Acts(p), inv'[p].rec # None
  PROVE  \/ inv[p].rec # None /\ inv'[p].rec.inst = inv[p].rec.inst
         \/ pc[p] = "get" /\ fs[VM(p)].rec # None /\ inv'[p].rec = fs[VM(p)].rec
         \/ pc[p] = "idle" /\ inv'[p].rec.inst \in FreshInsts
<1> USE NoneAssumption
<1>1. inv[p] \in Invocation /\ inv \in [Procs -> Invocation]
  BY DEF TypeInv, TypeOK
<1>2. CASE inv' = inv
  BY <1>2
<1>3. CASE Leave(p)
  BY <1>1, <1>3 DEF Leave, NoInvocation, Fresh
<1>4. CASE Invoke(p)
  <2>1. PICK o \in Ops, n \in Names :
          \E r \in IF o = "create" THEN [inst : FreshInsts, pid : {None}] ELSE {None} :
             inv' = [inv EXCEPT ![p] = Fresh(o, n, r)]
    BY <1>4 DEF Invoke
  <2>2. PICK r \in IF o = "create" THEN [inst : FreshInsts, pid : {None}] ELSE {None} :
          inv' = [inv EXCEPT ![p] = Fresh(o, n, r)]
    BY <2>1
  <2>3. inv'[p].rec = r
    BY <1>1, <2>2 DEF Fresh
  <2>. QED BY <1>4, <2>2, <2>3 DEF Invoke
<1>5. CASE Get(p) /\ ~Leave(p)
  BY <1>1, <1>5 DEF Get, SetRec, Invocation
<1>6. CASE Open(p) \/ RmScan(p) \/ RmUnlink(p)
  <2>1. PICK i, t : \/ inv' = [inv EXCEPT ![p] = [inv[p] EXCEPT !.lock = i]]
                    \/ inv' = [inv EXCEPT ![p] = [inv[p] EXCEPT !.todo = t]]
    BY <1>6 DEF Open, RmScan, RmUnlink
  <2>2. /\ [inv[p] EXCEPT !.lock = i].rec = inv[p].rec
        /\ [inv[p] EXCEPT !.todo = t].rec = inv[p].rec
    BY <1>1 DEF Invocation
  <2>3. inv'[p].rec = inv[p].rec
    BY <1>1, <2>1, <2>2
  <2>. QED BY <2>3
<1>7. CASE Handoff(p)
  <2>1. \E o : inv' = [inv EXCEPT ![p] = Fresh(o, VM(p), None)]
    BY <1>7 DEF Handoff
  <2>. QED BY <1>1, <2>1 DEF Fresh
<1>8. CASE Spawn(p) /\ inv' # inv
  <2>1. PICK q : inv' = [inv EXCEPT ![p] = [@ EXCEPT !.rec = [inst |-> inv[p].rec.inst, pid |-> q]]]
    BY <1>8 DEF Spawn, SetRec
  <2>2. inv[p].rec # None
    BY <1>8 DEF Spawn, TypeInv, Locals, LocalsOK, HasRecord, LockedSteps
  <2>3. [inv[p] EXCEPT !.rec = [inst |-> inv[p].rec.inst, pid |-> q]].rec.inst = inv[p].rec.inst
    BY <1>1 DEF Invocation
  <2>. QED BY <1>1, <2>1, <2>2, <2>3
<1>9. CASE Clear(p)
  <2> DEFINE y == [inv[p].rec EXCEPT !.pid = None]
  <2>1. inv' = [inv EXCEPT ![p] = [inv[p] EXCEPT !.rec = y]]
    BY <1>9 DEF Clear, SetRec
  <2>2. inv[p].rec \in Record
    BY <1>9 DEF Clear, TypeInv, Locals, LocalsOK, HasRecord, LockedSteps
  <2>3. y.inst = inv[p].rec.inst
    BY <2>2 DEF Record
  <2> HIDE DEF y
  <2>4. [inv[p] EXCEPT !.rec = y].rec = y
    BY <1>1 DEF Invocation
  <2>. QED BY <1>1, <2>1, <2>2, <2>3, <2>4
<1>10. CASE Unlock(p) \/ Crash(p) \/ RmDir(p)
  BY <1>3, <1>10 DEF Unlock, Crash, RmDir
<1>11. CASE Exists(p) \/ Fail(p) \/ RmGet(p)
  BY <1>2, <1>3, <1>11 DEF Exists, Fail, RmGet
<1>12. CASE Flock(p) \/ Key(p) \/ Disk(p) \/ SaveNew(p) \/ RecordPid(p) \/ Ready(p)
  BY <1>2, <1>12 DEF Flock, Key, Disk, SaveNew, RecordPid, Ready
<1>13. CASE StopCheck(p) \/ Powerdown(p) \/ Quit(p) \/ Kill(p) \/ Wait(p)
  BY <1>2, <1>13 DEF StopCheck, Powerdown, Quit, Ask, Kill, Wait
<1>. QED BY <1>2, <1>3, <1>4, <1>5, <1>6, <1>7, <1>8, <1>9, <1>10, <1>11, <1>12, <1>13
         DEF Acts, Step, Bounded

\* An invocation is creating a VM because it has begun to, or was already.
LEMMA GoesOnCreating ==
  ASSUME TypeInv, FilesInv, NEW p \in Procs, Acts(p), Creating(p)'
  PROVE  \/ Creating(p) /\ inv'[p].rec = inv[p].rec
         \/ pc[p] = "idle" /\ inv'[p].rec.inst \in FreshInsts
<1> DEFINE Early == {"exists", "open", "flock", "key", "disk", "save"}
<1> USE NoneAssumption
<1>1. inv[p] \in Invocation /\ inv \in [Procs -> Invocation] /\ pc \in [Procs -> Steps]
  BY DEF TypeInv, TypeOK
<1>2. pc'[p] \in Early /\ inv'[p].op = "create"
  BY DEF Creating
<1>3. ASSUME NEW s, s \notin Early, Goto(p, s) PROVE FALSE
  BY <1>1, <1>2, <1>3 DEF Goto
<1>4. ~Leave(p)
  BY <1>3 DEF Leave
<1> HIDE DEF Early
<1>5. CASE inv' = inv /\ pc[p] \in Early
  BY <1>2, <1>5 DEF Creating, Early
<1>6. CASE Invoke(p)
  <2>1. PICK o \in Ops, n \in Names :
          \E r \in IF o = "create" THEN [inst : FreshInsts, pid : {None}] ELSE {None} :
             inv' = [inv EXCEPT ![p] = Fresh(o, n, r)]
    BY <1>6 DEF Invoke
  <2>2. PICK r \in IF o = "create" THEN [inst : FreshInsts, pid : {None}] ELSE {None} :
          inv' = [inv EXCEPT ![p] = Fresh(o, n, r)]
    BY <2>1
  <2>3. inv'[p].rec = r /\ inv'[p].op = o
    BY <1>1, <2>2 DEF Fresh
  <2>. QED BY <1>2, <1>6, <2>2, <2>3 DEF Invoke
<1>7. CASE Exists(p) \/ Flock(p) \/ Key(p) \/ Disk(p)
  BY <1>4, <1>5, <1>7 DEF Exists, Flock, Key, Disk, Early
<1>8. CASE Open(p)
  <2>1. PICK i : inv' = [inv EXCEPT ![p] = [inv[p] EXCEPT !.lock = i]]
    BY <1>8 DEF Open
  <2>2. inv'[p].rec = inv[p].rec /\ inv'[p].op = inv[p].op
    BY <1>1, <2>1 DEF Invocation
  <2>. QED BY <1>2, <1>8, <2>2 DEF Open, Creating
<1>9. ASSUME Get(p) PROVE FALSE
  <2>1. inv'[p].op = inv[p].op
    BY <1>1, <1>4, <1>9 DEF Get, SetRec, Invocation
  <2>. QED BY <1>2, <1>9, <2>1 DEF Get, FilesInv, Knows, KnowsRecord
<1>10. ASSUME SaveNew(p) \/ RecordPid(p) \/ Ready(p) PROVE FALSE
  BY <1>3, <1>10 DEF SaveNew, RecordPid, Ready, Early
<1>11. ASSUME Spawn(p) \/ Handoff(p) PROVE FALSE
  <2>1. \E s \in {"unlock", "record", "get", "rmscan"} : Goto(p, s)
    BY <1>11 DEF Spawn, Handoff
  <2>. QED BY <1>3, <2>1 DEF Early
<1>12. ASSUME StopCheck(p) \/ Powerdown(p) \/ Quit(p) \/ Kill(p) \/ Wait(p) \/ Clear(p)
       PROVE  FALSE
  <2>1. \E s \in {"clear", "kill", "powerdown", "quit", "wait", "unlock", "handoff"} :
          Goto(p, s)
    BY <1>12 DEF StopCheck, Powerdown, Quit, Ask, Kill, Wait, Clear
  <2>. QED BY <1>3, <2>1 DEF Early
<1>13. ASSUME Unlock(p) \/ RmDir(p) \/ Crash(p) PROVE FALSE
  BY <1>4, <1>13 DEF Unlock, RmDir, Crash
<1>14. ASSUME RmGet(p) \/ RmScan(p) PROVE FALSE
  BY <1>3, <1>4, <1>14 DEF RmGet, RmScan, Early
<1>15. ASSUME RmUnlink(p) PROVE FALSE
  BY <1>2, <1>4, <1>15 DEF RmUnlink, Early
<1>16. ASSUME Fail(p) PROVE FALSE
  BY <1>3, <1>4, <1>16 DEF Fail, Early
<1>. QED BY <1>6, <1>7, <1>8, <1>9, <1>10, <1>11, <1>12, <1>13, <1>14, <1>15, <1>16
         DEF Acts, Step, Bounded

\* No record names a token.
LEMMA InitTokenInv == Init => TokenInv
  BY DEF Init, TokenInv, Creating

\* Every step keeps TokenInv: a copy of a record has the token of the record it is of.
LEMMA StepTokenInv == TypeInv /\ FilesInv /\ TokenInv /\ [Next]_vars => TokenInv'
<1> SUFFICES ASSUME TypeInv, FilesInv, TokenInv, [Next]_vars, NEW x \in Procs, Creating(x)'
             PROVE  /\ \A n \in Names : fs'[n].rec # None => fs'[n].rec.inst # inv'[x].rec.inst
                    /\ \A q \in Procs \ {x} :
                         inv'[q].rec # None => inv'[q].rec.inst # inv'[x].rec.inst
  BY DEF TokenInv
<1> USE NoneAssumption
<1>1. CASE UNCHANGED <<fs, pc, inv>>
  BY <1>1 DEF TokenInv, Creating
<1>2. ASSUME NEW p \in Procs, Acts(p), pc[p] # "idle"
      PROVE  \/ fs'[VM(p)].rec \in {fs[VM(p)].rec, None}
             \/ /\ inv[p].rec # None /\ fs'[VM(p)].rec.inst = inv[p].rec.inst
                /\ pc[p] = "save" => pc'[p] = "spawn"
  <2>1. pc[p] \in {"save", "record", "clear"} => inv[p].rec \in Record
    BY DEF TypeInv, Locals, LocalsOK, HasRecord, LockedSteps
  <2>2. pc[p] = "clear" => [inv[p].rec EXCEPT !.pid = None].inst = inv[p].rec.inst
    BY <2>1 DEF Record
  <2>. QED BY <1>2, <2>1, <2>2, WritesRecord
<1>3. ASSUME NEW p \in Procs, Acts(p), pc[p] = "idle" PROVE fs' = fs
  BY <1>3
  DEF Acts, Invoke, Flock, Fail, Crash, Step, Bounded, Exists, Get, Open, Unlock, Handoff, Key, Disk,
      SaveNew, Spawn, RecordPid, Ready, StopCheck, Powerdown, Quit, Ask, Kill, Wait, Clear,
      RmGet, RmScan, RmUnlink, RmDir
<1>4. ASSUME Acts(x), Creating(x), inv'[x].rec = inv[x].rec
      PROVE  /\ \A n \in Names : fs'[n].rec # None => fs'[n].rec.inst # inv'[x].rec.inst
             /\ \A q \in Procs \ {x} :
                  inv'[q].rec # None => inv'[q].rec.inst # inv'[x].rec.inst
  <2>1. \A q \in Procs \ {x} : inv'[q] = inv[q]
    BY <1>4, ActsAlone
  <2>2. fs'[VM(x)].rec \in {fs[VM(x)].rec, None}
    BY <1>4, WritesRecord DEF Creating
  <2>3. \A n \in Names \ {VM(x)} : fs'[n] = fs[n]
    BY <1>4, ActsAlone
  <2>. QED BY <1>4, <2>1, <2>2, <2>3 DEF TokenInv
<1>5. ASSUME Acts(x), pc[x] = "idle", inv'[x].rec.inst \in FreshInsts
      PROVE  /\ \A n \in Names : fs'[n].rec # None => fs'[n].rec.inst # inv'[x].rec.inst
             /\ \A q \in Procs \ {x} :
                  inv'[q].rec # None => inv'[q].rec.inst # inv'[x].rec.inst
  <2>1. \A q \in Procs \ {x} : inv'[q] = inv[q]
    BY <1>5, ActsAlone
  <2>2. fs' = fs
    BY <1>3, <1>5
  <2>3. \A r \in Records : r.inst # inv'[x].rec.inst
    BY <1>5 DEF FreshInsts
  <2>. QED BY <2>1, <2>2, <2>3 DEF Records
<1>6. ASSUME NEW p \in Procs, Acts(p), p # x
      PROVE  /\ \A n \in Names : fs'[n].rec # None => fs'[n].rec.inst # inv'[x].rec.inst
             /\ \A q \in Procs \ {x} :
                  inv'[q].rec # None => inv'[q].rec.inst # inv'[x].rec.inst
  <2>1. /\ \A q \in Procs \ {p} : pc'[q] = pc[q] /\ inv'[q] = inv[q]
        /\ \A n \in Names \ {VM(p)} : fs'[n] = fs[n]
    BY <1>6, ActsAlone
  <2>2. Creating(x) /\ inv[x].rec # None
    BY <1>6, <2>1 DEF Creating, TypeInv, Locals, LocalsOK, HasRecord, LockedSteps
  <2>3. \A n \in Names : fs'[n].rec # None => fs'[n].rec.inst # inv'[x].rec.inst
    BY <1>2, <1>3, <1>6, <2>1, <2>2 DEF TokenInv
  <2>4. inv'[p].rec # None => inv'[p].rec.inst # inv'[x].rec.inst
    <3>1. \A i \in FreshInsts : i # inv[x].rec.inst
      BY <2>2 DEF FreshInsts, Records
    <3>2. pc[p] = "get" => VM(p) \in Names
      BY DEF TypeInv, Locals, LocalsOK, VM
    <3>. QED BY <1>6, <2>1, <2>2, <3>1, <3>2, AssignsRecord DEF TokenInv
  <2>. QED BY <1>6, <2>1, <2>2, <2>3, <2>4 DEF TokenInv
<1>. QED BY <1>1, <1>4, <1>5, <1>6, OneActs, GoesOnCreating

-----------------------------------------------------------------------------
(* Every QEMU is recorded, when nothing comes between its start and the    *)
(* record: no invocation dies, and none fails.                             *)

SerialWorld == ~Overlap /\ ~Crashes /\ ~IOFaults /\ QemuPidsAreFresh

\* A QEMU runs on the disk its VM's record was created with, and is the one that the
\* record names, or that an invocation is about to write there.
Recorded(q, n) ==
  /\ fs[n].rec # None /\ os[q].disk = fs[n].rec.inst
  /\ \/ fs[n].rec.pid = q
     \/ \E p \in Procs : pc[p] = "record" /\ VM(p) = n /\ Pid(p) = q

\* A record has its disk beside it, but while Remove is at work on the directory.
Whole(n) ==
  fs[n].rec # None =>
    fs[n].disk = fs[n].rec.inst \/ \E p \in Procs : pc[p] = "rmunlink" /\ VM(p) = n

\* What Remove has been at is gone: nothing keeps it from deleting.
Cleared ==
  \A p \in Procs : pc[p] = "rmunlink" =>
    \A f \in Entries \ inv[p].todo : fs[VM(p)][f] = None

QemuInv ==
  /\ \A q \in Pids, n \in Names : q \in QemusOf(n) => Recorded(q, n)
  /\ \A n \in Names : Whole(n)
  /\ Cleared

SafetyInv == TypeInv /\ OpInv /\ StopInv /\ FilesInv /\ PidInv /\ TokenInv /\ QemuInv

\* There is no QEMU and no record.
LEMMA InitQemuInv == Init => QemuInv
  BY NoneAssumption DEF Init, QemuInv, QemusOf, Whole, Cleared

\* A VM whose record names no QEMU has none, unless one has just been started.
LEMMA NoQemu ==
  ASSUME FilesInv, QemuInv, NEW p \in Procs, VM(p) \in Names, VM(p) # None,
         pc[p] # "record", Halted(fs[VM(p)].rec)
  PROVE  QemusOf(VM(p)) = {}
<1> SUFFICES ASSUME NEW q \in QemusOf(VM(p)) PROVE FALSE
  OBVIOUS
<1>1. q \in Pids /\ os[q] \in Qemu /\ Recorded(q, VM(p))
  BY DEF QemuInv, QemusOf
<1>2. fs[VM(p)].rec.pid # q
  BY <1>1, NoneAssumption DEF Recorded, Halted, IsRunning, Qemu
<1>. QED BY <1>1, <1>2 DEF Recorded, FilesInv, Alone

\* An invocation that has started a QEMU records it.
LEMMA RecordsPid ==
  ASSUME SerialWorld, TypeInv, FilesInv, NEW p \in Procs, Acts(p), pc[p] = "record"
  PROVE  fs'[VM(p)].rec = inv[p].rec
<1>1. RecordPid(p)
  BY DEF SerialWorld, Acts, Invoke, Flock, Fail, Crash, Step, Bounded, Exists, Get, Open, Unlock, Handoff,
         Key, Disk, SaveNew, Spawn, Ready, StopCheck, Powerdown, Quit, Ask, Kill, Wait, Clear,
         RmGet, RmScan, RmUnlink, RmDir
<1>2. VM(p) \in Names /\ fs[VM(p)] \in Dir
  BY DEF TypeInv, TypeOK, Locals, LocalsOK, VM
<1>3. fs[VM(p)].dir
  BY <1>2 DEF FilesInv, Knows, KnowsRecord, Together
<1>4. fs' = [fs EXCEPT ![VM(p)] = [@ EXCEPT !.dir = TRUE, !.rec = inv[p].rec]]
  BY <1>1, <1>3 DEF RecordPid, Save
<1>. QED BY <1>2, <1>4, RecordAndDisk DEF TypeInv, TypeOK

\* Remove comes to the entries of a directory by reading it.
LEMMA ComesToUnlink ==
  ASSUME TypeInv, NEW p \in Procs, Acts(p), pc'[p] = "rmunlink"
  PROVE  RmScan(p) \/ RmUnlink(p)
<1>1. ASSUME NEW s, Goto(p, s) PROVE s = "rmunlink"
  BY <1>1 DEF Goto, TypeInv, TypeOK
<1>2. ~Leave(p)
  BY <1>1 DEF Leave
<1>3. ASSUME Invoke(p) \/ Flock(p) \/ Fail(p) \/ Crash(p) PROVE FALSE
  <2>1. ASSUME Invoke(p) \/ Flock(p) PROVE FALSE
    <3>1. \E s \in {"exists", "rmget", "get", "key", "spawn", "stop"} : Goto(p, s)
      BY <2>1 DEF Invoke, Flock
    <3>. QED BY <1>1, <3>1
  <2>. QED BY <1>1, <1>2, <1>3, <2>1 DEF Fail, Crash
<1>4. ASSUME Exists(p) \/ Get(p) \/ Open(p) \/ Unlock(p) \/ Handoff(p) PROVE FALSE
  BY <1>1, <1>2, <1>4 DEF Exists, Get, Open, Unlock, Handoff
<1>5. ASSUME Key(p) \/ Disk(p) \/ SaveNew(p) \/ Spawn(p) \/ RecordPid(p) \/ Ready(p) PROVE FALSE
  BY <1>1, <1>5 DEF Key, Disk, SaveNew, Spawn, RecordPid, Ready
<1>6. ASSUME \/ StopCheck(p) \/ Powerdown(p) \/ Quit(p) \/ Kill(p) \/ Wait(p) \/ Clear(p)
      PROVE  FALSE
  <2>1. \E s \in {"clear", "kill", "powerdown", "quit", "wait", "unlock", "handoff"} :
          Goto(p, s)
    BY <1>6 DEF StopCheck, Powerdown, Quit, Ask, Kill, Wait, Clear
  <2>. QED BY <1>1, <2>1
<1>7. ASSUME RmGet(p) \/ RmDir(p) PROVE FALSE
  BY <1>1, <1>2, <1>7 DEF RmGet, RmDir
<1>. QED BY <1>3, <1>4, <1>5, <1>6, <1>7 DEF Acts, Step, Bounded

\* Nobody has the lock file of a VM that is being removed open, or its disk.
LEMMA NothingUndeletable ==
  ASSUME TypeInv, FilesInv, PidInv, QemuInv, NEW p \in Procs, pc[p] = "rmunlink"
  PROVE  \A f : ~Undeletable(f, VM(p))
<1> USE NoneAssumption
<1>1. VM(p) \in Names /\ VM(p) # None /\ fs[VM(p)] \in Dir
  BY DEF TypeInv, TypeOK, Locals, LocalsOK, VM
<1>2. ~DiskInUse(VM(p))
  <2>1. QemusOf(VM(p)) = {}
    BY <1>1, NoQemu DEF PidInv, AtRest
  <2>2. ASSUME fs[VM(p)].disk # None
        PROVE  [vm |-> VM(p), disk |-> fs[VM(p)].disk] \in Qemu
    BY <1>1 DEF Qemu, Dir
  <2>. QED BY <2>1, <2>2 DEF DiskInUse, QemusOf
<1>3. ASSUME NEW q \in Procs, inv[q].lock # None, inv[q].lock = fs[VM(p)].lock PROVE FALSE
  <2>1. pc[q] # "idle"
    BY <1>3 DEF FilesInv, NoInvocation, Fresh
  <2>2. VM(q) \in Names /\ fs[VM(q)].lock = inv[q].lock
    BY <1>3, <2>1 DEF FilesInv, Knows, KnowsLock, TypeInv, Locals, LocalsOK, VM
  <2>3. q = p
    BY <1>1, <1>3, <2>2 DEF FilesInv, LocksDiffer, Alone
  <2>4. inv[p].lock = None
    BY DEF FilesInv, Knows, KnowsLock, HasLock, LockedSteps
  <2>. QED BY <1>3, <2>3, <2>4
<1>. QED BY <1>2, <1>3 DEF Undeletable

\* An invocation that removes entries goes on until all are gone.
LEMMA RemovesAll ==
  ASSUME SerialWorld, TypeInv, FilesInv, QemuInv,
         NEW p \in Procs, Acts(p), pc[p] = "rmunlink", pc'[p] # "rmunlink"
  PROVE  fs'[VM(p)].rec = None
<1>1. RmUnlink(p) \/ RmDir(p)
  BY DEF SerialWorld, Acts, Invoke, Flock, Fail, Crash, Step, Bounded, Exists, Get, Open, Unlock,
         Handoff, Key, Disk, SaveNew, Spawn, RecordPid, Ready, StopCheck, Powerdown, Quit, Ask,
         Kill, Wait, Clear, RmGet, RmScan
<1>2. RmDir(p)
  BY <1>1 DEF RmUnlink
<1>3. fs[VM(p)].rec = None
  BY <1>2 DEF RmDir, QemuInv, Cleared, Entries
<1>. QED BY <1>3, WritesRecord

\* Every step keeps QemuInv: first the QEMUs, ...
LEMMA StepRecorded ==
  ASSUME SerialWorld
  PROVE  SafetyInv /\ [Next]_vars => \A q \in Pids, n \in Names : q \in QemusOf(n)' => Recorded(q, n)'
<1> SUFFICES ASSUME SafetyInv, [Next]_vars, NEW q \in Pids, NEW n \in Names, q \in QemusOf(n)'
             PROVE  Recorded(q, n)'
  OBVIOUS
<1> USE NoneAssumption
<1>1. TypeInv /\ StopInv /\ FilesInv /\ PidInv /\ QemuInv
  BY DEF SafetyInv
<1>2. os'[q] \in Qemu /\ os'[q].vm = n
  BY DEF QemusOf
<1>3. CASE os'[q] # os[q]
  <2>1. PICK p \in Procs :
          /\ pc[p] = "spawn" /\ pc'[p] = "record" /\ fs' = fs
          /\ os'[q] = [vm |-> VM(p), disk |-> fs[VM(p)].disk]
          /\ inv'[p].vm = VM(p) /\ inv'[p].rec.pid = q
    BY <1>1, <1>2, <1>3, ComesBySpawn
  <2>2. VM(p) = n /\ os'[q].disk = fs[n].disk
    BY <1>2, <2>1
  <2>3. fs[n].rec = inv[p].rec /\ inv[p].rec # None
    BY <1>1, <2>1, <2>2
    DEF FilesInv, Knows, KnowsRecord, OnRecord, TypeInv, Locals, LocalsOK, HasRecord, LockedSteps
  <2>4. fs[n].disk = fs[n].rec.inst
    BY <1>1, <2>1, <2>2, <2>3 DEF QemuInv, Whole, FilesInv, Alone
  <2>. QED BY <2>1, <2>2, <2>3, <2>4 DEF Recorded, VM, Pid
<1>4. CASE os'[q] = os[q]
  <2>1. Recorded(q, n) /\ os[q] \in Qemu
    BY <1>1, <1>2, <1>4 DEF QemuInv, QemusOf
  <2>2. CASE fs[n].rec.pid = q
    <3>1. ~Halted(fs[n].rec)
      BY <2>1, <2>2 DEF Recorded, Halted, IsRunning
    <3>2. fs'[n].rec = fs[n].rec
      BY <1>1, <3>1, ChangesAtRest
    <3>. QED BY <1>4, <2>1, <2>2, <3>2 DEF Recorded
  <2>3. ASSUME NEW p \in Procs, pc[p] = "record", VM(p) = n, Pid(p) = q PROVE Recorded(q, n)'
    <3>1. inv[p].rec # None /\ inv[p].rec.inst = fs[n].rec.inst
      BY <1>1, <2>3
      DEF FilesInv, Knows, KnowsRecord, TypeInv, Locals, LocalsOK, HasRecord, LockedSteps
    <3>2. CASE Acts(p)
      <4>1. fs'[n].rec = inv[p].rec
        BY <1>1, <2>3, <3>2, RecordsPid
      <4>. QED BY <1>4, <2>1, <2>3, <3>1, <4>1 DEF Recorded, Pid
    <3>3. CASE ~Acts(p)
      <4>1. pc'[p] = pc[p] /\ inv'[p] = inv[p] /\ fs'[n] = fs[n]
        <5>1. CASE UNCHANGED <<fs, pc, inv>>  BY <5>1
        <5>2. ASSUME NEW x \in Procs, Acts(x)
              PROVE  pc'[p] = pc[p] /\ inv'[p] = inv[p] /\ fs'[n] = fs[n]
          <6>1. x # p /\ VM(x) # n
            BY <1>1, <2>3, <3>3, <5>2 DEF FilesInv, Alone
          <6>. QED BY <1>1, <5>2, <6>1, ActsAlone
        <5>. QED BY <5>1, <5>2, OneActs
      <4>. QED BY <1>4, <2>1, <2>3, <4>1 DEF Recorded, VM, Pid
    <3>. QED BY <3>2, <3>3
  <2>. QED BY <2>1, <2>2, <2>3 DEF Recorded
<1>. QED BY <1>3, <1>4

\* ... then the disks.
LEMMA StepWhole ==
  ASSUME SerialWorld
  PROVE  SafetyInv /\ [Next]_vars => \A n \in Names : Whole(n)'
<1> SUFFICES ASSUME SafetyInv, [Next]_vars, NEW n \in Names, fs'[n].rec # None
             PROVE  \/ fs'[n].disk = fs'[n].rec.inst
                    \/ \E p \in Procs : pc'[p] = "rmunlink" /\ inv'[p].vm = n
  BY DEF Whole, VM
<1> USE NoneAssumption
<1>1. TypeInv /\ FilesInv /\ PidInv /\ QemuInv
  BY DEF SafetyInv
<1>2. CASE UNCHANGED <<fs, pc, inv>>
  BY <1>1, <1>2 DEF QemuInv, Whole, VM
<1>3. ASSUME NEW p \in Procs, Acts(p), VM(p) # n
      PROVE  \/ fs'[n].disk = fs'[n].rec.inst
             \/ \E x \in Procs : pc'[x] = "rmunlink" /\ inv'[x].vm = n
  <2>1. fs'[n] = fs[n] /\ \A x \in Procs \ {p} : pc'[x] = pc[x] /\ inv'[x] = inv[x]
    BY <1>1, <1>3, ActsAlone
  <2>. QED BY <1>1, <1>3, <2>1 DEF QemuInv, Whole, VM
<1>4. ASSUME NEW p \in Procs, Acts(p), VM(p) = n, pc[p] = "rmunlink"
      PROVE  pc'[p] = "rmunlink" /\ inv'[p].vm = n
  BY <1>1, <1>4, RemovesAll, ComesToRest DEF AtRest
<1>5. ASSUME NEW p \in Procs, Acts(p), VM(p) = n, pc[p] # "rmunlink"
      PROVE  fs'[n].disk = fs'[n].rec.inst
  <2>1. pc[p] # "idle"
    BY <1>1, <1>5 DEF FilesInv, NoInvocation, Fresh, VM
  <2>2. Knows(pc[p], inv[p], fs[n])
    BY <1>1, <1>5, <2>1 DEF FilesInv
  <2>3. pc[p] \in {"record", "clear"} => inv[p].rec \in Record
    BY <1>1 DEF TypeInv, Locals, LocalsOK, HasRecord, LockedSteps
  <2>4. CASE fs[n].rec # None
    <3>1. fs[n].disk = fs[n].rec.inst
      BY <1>1, <1>5, <2>4 DEF QemuInv, Whole, FilesInv, Alone
    <3>2. pc[p] # "disk" /\ pc[p] # "save"
      BY <2>2, <2>4 DEF Knows, KnowsAbsent
    <3>3. fs'[n].disk = fs[n].disk
      BY <1>1, <1>5, <3>2, WritesDisk
    <3>4. pc[p] = "clear" => [inv[p].rec EXCEPT !.pid = None].inst = fs[n].rec.inst
      BY <2>2, <2>3 DEF Knows, KnowsRecord, OnRecord, Record
    <3>5. pc[p] = "record" => inv[p].rec.inst = fs[n].rec.inst
      BY <2>2 DEF Knows, KnowsRecord
    <3>6. fs'[n].rec.inst = fs[n].rec.inst
      BY <1>1, <1>5, <3>2, <3>4, <3>5, WritesRecord
    <3>. QED BY <3>1, <3>3, <3>6
  <2>5. CASE fs[n].rec = None
    <3>1. pc[p] # "record" /\ pc[p] # "clear"
      BY <2>2, <2>3, <2>5 DEF Knows, KnowsRecord, OnRecord
    <3>2. pc[p] = "save" /\ fs'[n].rec = inv[p].rec
      BY <1>1, <1>5, <2>5, <3>1, WritesRecord
    <3>3. fs'[n].disk = fs[n].disk
      BY <1>1, <1>5, <3>2, WritesDisk
    <3>. QED BY <2>2, <3>2, <3>3 DEF Knows, KnowsAbsent
  <2>. QED BY <2>4, <2>5
<1>. QED BY <1>2, <1>3, <1>4, <1>5, OneActs

\* ... and what Remove does.
LEMMA StepCleared ==
  ASSUME SerialWorld
  PROVE  SafetyInv /\ [Next]_vars => Cleared'
<1> SUFFICES ASSUME SafetyInv, [Next]_vars, NEW x \in Procs, pc'[x] = "rmunlink",
                    NEW f \in Entries \ inv'[x].todo
             PROVE  fs'[inv'[x].vm][f] = None
  BY DEF Cleared, VM
<1>1. TypeInv /\ FilesInv /\ PidInv /\ QemuInv
  BY DEF SafetyInv
<1>2. CASE UNCHANGED <<fs, pc, inv>>
  BY <1>1, <1>2 DEF QemuInv, Cleared, VM
<1>3. ASSUME NEW p \in Procs \ {x}, Acts(p) PROVE fs'[inv'[x].vm][f] = None
  <2>1. pc'[x] = pc[x] /\ inv'[x] = inv[x]
    BY <1>1, <1>3, ActsAlone
  <2>2. VM(x) \in Names /\ VM(x) # None
    BY <1>1, <2>1, NoneAssumption DEF TypeInv, Locals, LocalsOK, VM
  <2>3. fs'[VM(x)] = fs[VM(x)]
    BY <1>1, <1>3, <2>2, ActsAlone DEF FilesInv, Alone
  <2>. QED BY <1>1, <2>1, <2>3 DEF QemuInv, Cleared, VM
<1>4. ASSUME Acts(x) PROVE fs'[inv'[x].vm][f] = None
  <2>1. RmScan(x) \/ RmUnlink(x)
    BY <1>4, ComesToUnlink, <1>1
  <2>2. CASE RmScan(x)
    <3>1. inv' = [inv EXCEPT ![x] = [inv[x] EXCEPT !.todo = {g \in Entries : fs[VM(x)][g] # None}]]
      BY <2>2 DEF RmScan
    <3>2. inv'[x].vm = VM(x) /\ inv'[x].todo = {g \in Entries : fs[VM(x)][g] # None}
      BY <1>1, <3>1 DEF TypeInv, TypeOK, Invocation, VM
    <3>. QED BY <2>2, <3>2 DEF RmScan
  <2>3. CASE RmUnlink(x)
    <3>1. PICK g \in inv[x].todo :
            /\ inv' = [inv EXCEPT ![x] = [inv[x] EXCEPT !.todo = inv[x].todo \ {g}]]
            /\ fs' = [fs EXCEPT ![VM(x)] = [fs[VM(x)] EXCEPT ![g] = None]]
      BY <1>1, <2>3, NothingUndeletable DEF RmUnlink, SerialWorld
    <3>2. inv'[x].vm = VM(x) /\ inv'[x].todo = inv[x].todo \ {g} /\ g \in Entries
      BY <1>1, <3>1 DEF TypeInv, TypeOK, Invocation, VM
    <3>3. VM(x) \in Names /\ fs[VM(x)] \in Dir
      BY <1>1, <2>3 DEF RmUnlink, TypeInv, TypeOK, Locals, LocalsOK, VM
    <3>4. fs'[VM(x)] = [fs[VM(x)] EXCEPT ![g] = None]
      BY <1>1, <3>1, <3>3 DEF TypeInv, TypeOK
    <3>5. f # g => fs[VM(x)][f] = None
      BY <1>1, <2>3, <3>2 DEF RmUnlink, QemuInv, Cleared
    <3>6. fs'[VM(x)][f] = None
      BY <3>2, <3>3, <3>4, <3>5 DEF Dir, Entries
    <3>. QED BY <3>2, <3>6
  <2>. QED BY <2>1, <2>2, <2>3
<1>. QED BY <1>2, <1>3, <1>4, OneActs

\* Every reachable state satisfies all the invariants.
LEMMA SafetyInvariant ==
  ASSUME SerialWorld
  PROVE  Spec => []SafetyInv
<1>1. Init => SafetyInv
  BY InitTypeInv, InitOpInv, InitStopInv, InitFilesInv, InitPidInv, InitTokenInv, InitQemuInv
  DEF SafetyInv
<1>2. SafetyInv /\ [Next]_vars => QemuInv'
  BY StepRecorded, StepWhole, StepCleared DEF QemuInv
<1>3. SafetyInv /\ [Next]_vars => SafetyInv'
  BY <1>2, StepTypeInv, StepOpInv, StepStopInv, StepFilesInv, StepPidInv, StepTokenInv
  DEF SafetyInv, SerialWorld
<1>. QED BY <1>1, <1>3, PTL DEF Spec

\* Every QEMU of a VM is the one its record names, but for the moment between its start
\* and the save of its pid (lifecycle.go): a later stop or rm can reach it.
THEOREM EveryQemuIsRecorded ==
  ASSUME SerialWorld
  PROVE  Spec => []RunningIsRecorded
<1>1. SafetyInv => RunningIsRecorded
  BY DEF SafetyInv, QemuInv, QemusOf, Recorded, RunningIsRecorded, Named
<1>. QED BY <1>1, SafetyInvariant, PTL

\* Remove deletes a VM's record only when no QEMU runs for the VM.  The run
\* lifecycle_rm_race shows that a start in between breaks it.
THEOREM OnlyHaltedAreDeleted ==
  ASSUME SerialWorld
  PROVE  Spec => RunningNeverDeleted
<1> DEFINE A == \A n \in Names : (fs[n].rec # None /\ fs'[n].rec = None) =>
                  \A q \in Pids : ~(os[q] \in Qemu /\ os[q].vm = n)
<1>1. SafetyInv /\ [Next]_vars => A
  <2> SUFFICES ASSUME SafetyInv, [Next]_vars, NEW n \in Names,
                      fs[n].rec # None, fs'[n].rec = None
               PROVE  QemusOf(n) = {}
    BY DEF QemusOf
  <2>1. TypeInv /\ StopInv /\ FilesInv /\ PidInv /\ QemuInv /\ n # None
    BY NoneAssumption DEF SafetyInv
  <2>2. PICK p \in Procs : Acts(p) /\ VM(p) = n
    BY <2>1, OneActs, ActsAlone
  <2>3. pc[p] # "record"
    <3>1. pc[p] = "record" => inv[p].rec # None
      BY <2>1, NoneAssumption DEF TypeInv, Locals, LocalsOK, HasRecord, LockedSteps
    <3>. QED BY <2>1, <2>2, <3>1, RecordsPid
  <2>4. Halted(fs[n].rec)
    BY <2>1, ChangesAtRest
  <2>. QED BY <2>1, <2>2, <2>3, <2>4, NoQemu
<1>2. SafetyInv /\ [Next]_vars => [A]_vars
  BY <1>1
<1>. QED BY <1>2, SafetyInvariant, PTL DEF Spec, RunningNeverDeleted

-----------------------------------------------------------------------------
(* The refinement of VMPromise.  Create is the save of a new record, Boot  *)
(* the start of a QEMU, Halt its end, Delete the removal of the record;    *)
(* every other step is a stutter.                                          *)

\* What the files and processes of a VM say of it, in a state that satisfies QemuInv.
LEMMA WhatAVMIs ==
  QemuInv => \A n \in Names :
    /\ Data(n) = IF fs[n].rec # None THEN fs[n].rec.inst ELSE None
    /\ QemusOf(n) # {} => fs[n].rec # None
<1> SUFFICES ASSUME QemuInv, NEW n \in Names
             PROVE  /\ Data(n) = IF fs[n].rec # None THEN fs[n].rec.inst ELSE None
                    /\ QemusOf(n) # {} => fs[n].rec # None
  OBVIOUS
<1>1. \A q \in QemusOf(n) : Recorded(q, n)
  BY DEF QemuInv, QemusOf
<1>2. CASE QemusOf(n) # {}
  <2>1. (CHOOSE q \in QemusOf(n) : TRUE) \in QemusOf(n)
    BY <1>2
  <2>. QED BY <1>1, <1>2, <2>1 DEF Data, Recorded
<1>3. CASE QemusOf(n) = {}
  BY <1>3 DEF Data
<1>. QED BY <1>1, <1>2, <1>3

\* A VM has one QEMU at most.
LEMMA OneQemu ==
  ASSUME FilesInv, PidInv, QemuInv, NEW n \in Names, n # None,
         NEW q1 \in QemusOf(n), NEW q2 \in QemusOf(n)
  PROVE  q1 = q2
<1>1. Recorded(q1, n) /\ Recorded(q2, n)
  BY DEF QemuInv, QemusOf
<1>2. \A p \in Procs : (pc[p] = "record" /\ VM(p) = n) => fs[n].rec.pid \notin {q1, q2}
  <2>1. IsRunning(q1) /\ IsRunning(q2)
    BY <1>1, NoneAssumption DEF QemusOf, IsRunning, Recorded
  <2>. QED BY <1>1, <2>1 DEF PidInv, AtRest, Halted, Recorded
<1>. QED BY <1>1, <1>2 DEF Recorded, FilesInv, Alone

\* What a step does to the QEMUs there are: none comes or goes, one ends, or one is
\* started by an invocation that is at work on its VM.
LEMMA QemusChange ==
  ASSUME TypeInv, [Next]_vars
  PROVE  \/ \A n \in Names : QemusOf(n)' = QemusOf(n)
         \/ /\ fs' = fs
            /\ \E q \in Pids : os[q] \in Qemu /\ os' = [os EXCEPT ![q] = None]
         \/ /\ fs' = fs
            /\ \E p \in Procs, q \in Pids :
                 /\ pc[p] = "spawn" /\ ~IsRunning(Pid(p)) /\ os[q] = None
                 /\ os' = [os EXCEPT ![q] = [vm |-> VM(p), disk |-> fs[VM(p)].disk]]
<1> USE NoneAssumption
<1>1. CASE os' = os
  BY <1>1 DEF QemusOf
<1>2. ASSUME NEW p \in Procs, Acts(p), ~Spawn(p), ~Kill(p) PROVE os' = os
  BY <1>2
  DEF Acts, Invoke, Flock, Fail, Crash, Step, Bounded, Exists, Get, Open, Unlock, Handoff, Key, Disk,
      SaveNew, RecordPid, Ready, StopCheck, Powerdown, Quit, Ask, Wait, Clear, RmGet, RmScan,
      RmUnlink, RmDir
<1>3. ASSUME NEW p \in Procs, Kill(p)
      PROVE  \/ os' = os
             \/ fs' = fs /\ \E q \in Pids : os[q] \in Qemu /\ os' = [os EXCEPT ![q] = None]
  <2>1. Pid(p) \in Pids \union {None}
    BY <1>3 DEF Kill, Pid, TypeInv, Locals, LocalsOK, HasRecord, LockedSteps, Record
  <2>. QED BY <1>3, <2>1 DEF Kill, IsRunning
<1>4. ASSUME NEW p \in Procs, Spawn(p), os' # os
      PROVE  /\ fs' = fs
             /\ \E q \in Pids :
                  /\ pc[p] = "spawn" /\ ~IsRunning(Pid(p)) /\ os[q] = None
                  /\ os' = [os EXCEPT ![q] = [vm |-> VM(p), disk |-> fs[VM(p)].disk]]
  BY <1>4 DEF Spawn, FreePids
<1>5. ASSUME NEW q \in Pids, QemuExit(q)
      PROVE  fs' = fs /\ os[q] \in Qemu /\ os' = [os EXCEPT ![q] = None]
  BY <1>5 DEF QemuExit
<1>6. ASSUME NEW q \in Pids, ProgramStart(q) \/ ProgramExit(q)
      PROVE  \A n \in Names : QemusOf(n)' = QemusOf(n)
  <2>1. \A x \in Pids : os'[x] = os[x] \/ (os[x] \notin Qemu /\ os'[x] \notin Qemu)
    BY <1>6 DEF ProgramStart, ProgramExit, FreePids, TypeInv, TypeOK
  <2>. QED BY <2>1 DEF QemusOf
<1>. QED BY <1>1, <1>2, <1>3, <1>4, <1>5, <1>6 DEF Next, vars, Acts

\* A step that takes one VM through one of the promise's actions, or nowhere, and leaves
\* the others as they are.
LEMMA OneVMMoves ==
  ASSUME NEW n \in Names,
         \A m \in Names \ {n} : Life(m)' = Life(m) /\ Data(m)' = Data(m),
         \/ Life(n)' = Life(n) /\ Data(n)' = Data(n)
         \/ /\ Life(n) = "absent" /\ Life(n)' = "stopped"
            /\ Data(n)' \in Insts /\ \A m \in Names : Data(m) # Data(n)'
         \/ Life(n) = "stopped" /\ Life(n)' = "running" /\ Data(n)' = Data(n)
         \/ Life(n) = "running" /\ Life(n)' = "stopped" /\ Data(n)' = Data(n)
         \/ Life(n) = "stopped" /\ Life(n)' = "absent" /\ Data(n)' = None
  PROVE  [Promise!Next]_(Promise!vars)
<1> DEFINE life == [m \in Names |-> Life(m)]
           data == [m \in Names |-> Data(m)]
<1>1. /\ life' = [life EXCEPT ![n] = Life(n)']
      /\ data' = [data EXCEPT ![n] = Data(n)']
  OBVIOUS
<1>2. /\ life[n] = Life(n) /\ life = [life EXCEPT ![n] = Life(n)]
      /\ data = [data EXCEPT ![n] = Data(n)] /\ \A m \in Names : data[m] = Data(m)
  OBVIOUS
<1>3. CASE Life(n)' = Life(n) /\ Data(n)' = Data(n)
  BY <1>1, <1>2, <1>3 DEF Promise!vars
<1>4. CASE /\ Life(n) = "absent" /\ Life(n)' = "stopped"
           /\ Data(n)' \in Insts /\ \A m \in Names : Data(m) # Data(n)'
  BY <1>1, <1>2, <1>4 DEF Promise!Next, Promise!Create
<1>5. CASE Life(n) = "stopped" /\ Life(n)' = "running" /\ Data(n)' = Data(n)
  BY <1>1, <1>2, <1>5 DEF Promise!Next, Promise!Boot
<1>6. CASE Life(n) = "running" /\ Life(n)' = "stopped" /\ Data(n)' = Data(n)
  BY <1>1, <1>2, <1>6 DEF Promise!Next, Promise!Halt
<1>7. CASE Life(n) = "stopped" /\ Life(n)' = "absent" /\ Data(n)' = None
  BY <1>1, <1>2, <1>7 DEF Promise!Next, Promise!Delete
<1>. QED BY <1>3, <1>4, <1>5, <1>6, <1>7

\* Every step maps to a step of the promise or to a stutter.
LEMMA StepRefines ==
  ASSUME SerialWorld
  PROVE  SafetyInv /\ SafetyInv' /\ [Next]_vars => [Promise!Next]_(Promise!vars)
<1> SUFFICES ASSUME SafetyInv, SafetyInv', [Next]_vars PROVE [Promise!Next]_(Promise!vars)
  OBVIOUS
<1> USE NoneAssumption
<1>1. TypeInv /\ StopInv /\ FilesInv /\ PidInv /\ TokenInv /\ QemuInv /\ QemuInv'
  BY DEF SafetyInv
<1>2. (QemuInv => \A n \in Names :
         /\ Data(n) = IF fs[n].rec # None THEN fs[n].rec.inst ELSE None
         /\ QemusOf(n) # {} => fs[n].rec # None)'
  BY WhatAVMIs, PTL
<1>3. ASSUME NEW n \in Names
      PROVE  /\ Data(n) = IF fs[n].rec # None THEN fs[n].rec.inst ELSE None
             /\ Data(n)' = IF fs'[n].rec # None THEN fs'[n].rec.inst ELSE None
             /\ QemusOf(n) # {} => fs[n].rec # None
  BY <1>1, <1>2, WhatAVMIs
<1>4. ASSUME NEW n \in Names, QemusOf(n)' = QemusOf(n), fs'[n].rec = None <=> fs[n].rec = None,
             fs[n].rec # None => fs'[n].rec.inst = fs[n].rec.inst
      PROVE  Life(n)' = Life(n) /\ Data(n)' = Data(n)
  BY <1>3, <1>4 DEF Life
<1>5. CASE \A n \in Names : QemusOf(n)' = QemusOf(n)
  <2>1. CASE fs' = fs
    <3>1. \A n \in Names : Life(n)' = Life(n) /\ Data(n)' = Data(n)
      BY <1>4, <1>5, <2>1
    <3>. QED BY <3>1 DEF Promise!vars
  <2>2. CASE fs' # fs
    <3>1. PICK p \in Procs : Acts(p)
      BY <2>2, OneActs
    <3>2. VM(p) \in Names /\ pc[p] # "idle"
      BY <1>1, <2>2, <3>1, ActsAlone
      DEF Acts, Invoke, Flock, Fail, Crash, Step, Bounded, Exists, Get, Open, Unlock, Handoff, Key, Disk,
          SaveNew, Spawn, RecordPid, Ready, StopCheck, Powerdown, Quit, Ask, Kill, Wait, Clear,
          RmGet, RmScan, RmUnlink, RmDir, TypeInv, Locals, LocalsOK, VM
    <3>3. PICK n \in Names : n = VM(p)
      BY <3>2
    <3>4. \A m \in Names \ {n} : Life(m)' = Life(m) /\ Data(m)' = Data(m)
      BY <1>1, <1>4, <1>5, <3>1, <3>3, ActsAlone
    <3>5. Knows(pc[p], inv[p], fs[n]) /\ (pc[p] \in HasRecord => inv[p].rec \in Record)
      BY <1>1, <3>2, <3>3 DEF FilesInv, TypeInv, Locals, LocalsOK
    <3>6. CASE fs'[n].rec = fs[n].rec
      BY <1>4, <1>5, <3>4, <3>6, OneVMMoves
    <3>7. CASE pc[p] = "save" /\ fs'[n].rec = inv[p].rec
      <4>1. fs[n].rec = None /\ Creating(p) /\ inv[p].rec \in Record
        BY <3>5, <3>7 DEF Knows, KnowsAbsent, Creating, HasRecord, LockedSteps
      <4>2. inv[p].rec # None /\ inv[p].rec.inst \in Insts
        BY <4>1 DEF Record
      <4>3. Life(n) = "absent" /\ Life(n)' = "stopped" /\ Data(n)' = inv[p].rec.inst
        BY <1>3, <1>5, <3>7, <4>1, <4>2 DEF Life
      <4>4. \A m \in Names : Data(m) # inv[p].rec.inst
        BY <1>1, <1>3, <4>1, <4>2 DEF TokenInv
      <4>. QED BY <3>4, <4>2, <4>3, <4>4, OneVMMoves
    <3>8. CASE pc[p] \in {"record", "clear"}
      <4>1. fs[n].rec # None /\ inv[p].rec # None /\ inv[p].rec.inst = fs[n].rec.inst
            /\ inv[p].rec \in Record
        BY <3>5, <3>8 DEF Knows, KnowsRecord, OnRecord, HasRecord, LockedSteps
      <4>2. /\ [inv[p].rec EXCEPT !.pid = None].inst = inv[p].rec.inst
            /\ [inv[p].rec EXCEPT !.pid = None] # None
        BY <4>1 DEF Record
      <4>3. fs'[n].rec # None /\ fs'[n].rec.inst = fs[n].rec.inst
        BY <1>1, <3>1, <3>3, <3>8, <4>1, <4>2, WritesRecord
      <4>. QED BY <1>4, <1>5, <3>4, <4>1, <4>3, OneVMMoves
    <3>9. CASE pc[p] = "rmunlink" /\ fs'[n].rec = None /\ fs[n].rec # None
      <4>1. QemusOf(n) = {}
        BY <1>1, <3>3, <3>9, NoQemu DEF PidInv, AtRest
      <4>2. Life(n) = "stopped" /\ Life(n)' = "absent" /\ Data(n)' = None
        BY <1>3, <1>5, <3>9, <4>1 DEF Life
      <4>. QED BY <3>4, <4>2, OneVMMoves
    <3>. QED BY <1>1, <3>1, <3>3, <3>6, <3>7, <3>8, <3>9, WritesRecord
  <2>. QED BY <2>1, <2>2
<1>6. ASSUME fs' = fs, NEW q \in Pids, os[q] \in Qemu, os' = [os EXCEPT ![q] = None]
      PROVE  [Promise!Next]_(Promise!vars)
  <2>1. PICK n \in Names : n = os[q].vm
    BY <1>6 DEF Qemu
  <2>2. QemusOf(n) = {q}
    <3>1. q \in QemusOf(n)
      BY <1>6, <2>1 DEF QemusOf
    <3>. QED BY <1>1, <3>1, OneQemu
  <2>3. \A x \in Pids : os'[x] = (IF x = q THEN None ELSE os[x])
    BY <1>1, <1>6 DEF TypeInv, TypeOK
  <2>4. QemusOf(n)' = {} /\ \A m \in Names \ {n} : QemusOf(m)' = QemusOf(m)
    BY <2>1, <2>2, <2>3 DEF QemusOf
  <2>5. \A m \in Names \ {n} : Life(m)' = Life(m) /\ Data(m)' = Data(m)
    BY <1>4, <1>6, <2>4
  <2>6. Life(n) = "running" /\ Life(n)' = "stopped" /\ Data(n)' = Data(n)
    BY <1>3, <1>6, <2>2, <2>4 DEF Life
  <2>. QED BY <2>5, <2>6, OneVMMoves
<1>7. ASSUME fs' = fs, NEW p \in Procs, NEW q \in Pids,
             pc[p] = "spawn", ~IsRunning(Pid(p)), os[q] = None,
             os' = [os EXCEPT ![q] = [vm |-> VM(p), disk |-> fs[VM(p)].disk]]
      PROVE  [Promise!Next]_(Promise!vars)
  <2>1. PICK n \in Names : n = VM(p)
    BY <1>1, <1>7 DEF TypeInv, Locals, LocalsOK, VM
  <2>2. fs[n].rec # None /\ ~IsRunning(fs[n].rec.pid)
    BY <1>1, <1>7, <2>1
    DEF FilesInv, Knows, KnowsRecord, OnRecord, TypeInv, Locals, LocalsOK, HasRecord,
        LockedSteps, Pid
  <2>3. QemusOf(n) = {}
    BY <1>1, <1>7, <2>1, <2>2, NoQemu DEF Halted
  <2>4. [vm |-> VM(p), disk |-> fs[VM(p)].disk] \in Qemu
    BY <1>1, <2>1 DEF Qemu, TypeInv, TypeOK, Dir
  <2>5. /\ \A x \in Pids \ {q} : os'[x] = os[x]
        /\ os'[q] \in Qemu /\ os'[q].vm = n
    BY <1>1, <1>7, <2>1, <2>4 DEF TypeInv, TypeOK
  <2>6. q \in QemusOf(n)' /\ \A m \in Names \ {n} : QemusOf(m)' = QemusOf(m)
    BY <1>7, <2>5 DEF QemusOf
  <2>7. \A m \in Names \ {n} : Life(m)' = Life(m) /\ Data(m)' = Data(m)
    BY <1>4, <1>7, <2>6
  <2>8. Life(n) = "stopped" /\ Life(n)' = "running" /\ Data(n)' = Data(n)
    BY <1>3, <1>7, <2>2, <2>3, <2>6 DEF Life
  <2>. QED BY <2>7, <2>8, OneVMMoves
<1>. QED BY <1>1, <1>5, <1>6, <1>7, QemusChange

\* An empty data directory promises nothing.
LEMMA InitRefines == Init => Promise!Init
<1> SUFFICES ASSUME Init PROVE Promise!Init
  OBVIOUS
<1>1. \A n \in Names : QemusOf(n) = {} /\ fs[n].rec = None
  BY NoneAssumption DEF Init, QemusOf
<1>. QED BY <1>1 DEF Promise!Init, Life, Data

\* The manager, its files and the processes it starts implement the promise, for any
\* number of VMs and of invocations at work on different ones: a VM boots on the disk it
\* was created with, one QEMU at a time, and is deleted only when it does not run.
THEOREM ManagerKeepsPromise ==
  ASSUME SerialWorld
  PROVE  Spec => KeepsPromise
<1>. QED BY InitRefines, StepRefines, SafetyInvariant, PTL DEF Spec, KeepsPromise, Promise!Spec

=============================================================================
