----------------------------- MODULE SyncProofs -----------------------------
(***************************************************************************)
(* Runs of sync that the users do not disturb, for any number of paths,    *)
(* any versions and sizes, any tolerance and any end of any run: a         *)
(* complete run leaves both sides the same, no copy destroys the only copy *)
(* of an edit, and nothing new is deleted.                                 *)
(***************************************************************************)
EXTENDS SyncEngine, TLAPS

-----------------------------------------------------------------------------
(* Types.                                                                  *)

Sided == [Paths -> File \union {None}]

\* TypeOK, and what the open copy has read.
TypeInv == TypeOK /\ (pc = "copy" => copying \in Versions \union {Partial})

\* Before the first run everything is well typed.
LEMMA InitTypeInv == Init => TypeInv
  BY PlanAssumption, EngineAssumption
     DEF Init, TypeInv, TypeOK, NoEntries, NoActions, Actions, Times, Kept

\* A decision is one of the planner's actions.
LEMMA DecideType == \A l, r, base : Decide(l, r, base) \in Actions
<1>1. \A o \in {"upload", "download", "delete-local", "delete-remote"} : Action(o, o) \in Actions
  BY DEF Actions
<1>2. \A o \in {"upload", "download"} : Action("conflict", o) \in Actions
  BY DEF Actions, Action
<1>3. Nothing \in Actions
  BY DEF Actions
<1>. HIDE DEF Actions, Action, Nothing
<1>. QED BY <1>1, <1>2, <1>3 DEF Decide

\* A planned action, and a conflict turned into a copy, is an action.
LEMMA ActionType ==
  /\ Nothing \in Actions
  /\ \A t \in Actions : t.op = "conflict" => Action(t.res, t.res) \in Actions
  BY DEF Actions, Action, Nothing

\* A scan of typed sides is typed, and sees a file exactly where there is one.
LEMMA EntryType ==
  ASSUME NEW f \in File
  PROVE  EntryOf(f) \in FileEntry /\ EntryOf(f) # None /\ f # None
  BY NoneAssumption DEF EntryOf, File, FileEntry

\* A scan gives an entry or none for each path.
LEMMA ScanType ==
  ASSUME NEW side \in Sided PROVE Scan(side) \in [Paths -> FileEntry \union {None}]
<1>1. ASSUME NEW p \in Paths PROVE EntryOf(side[p]) \in FileEntry \union {None}
  <2>1. CASE side[p] = None BY <2>1 DEF EntryOf
  <2>2. CASE side[p] \in File BY <2>2, EntryType
  <2>. QED BY <2>1, <2>2 DEF Sided
<1>. QED BY <1>1 DEF Scan

\* What Sides assigns is typed if what it is given is.
LEMMA SidesType ==
  ASSUME NEW l \in Sided, NEW r \in Sided, Sides(l, r), kept' \subseteq Kept,
         shared \subseteq Paths
  PROVE  /\ local' \in Sided /\ remote' \in Sided
         /\ met' \subseteq Versions /\ shared' \subseteq Paths
<1>1. local' = l /\ remote' = r /\ met' \subseteq Alive' /\ shared' \subseteq Paths
  BY DEF Sides
<1>2. \A side \in Sided : Held(side) \subseteq Versions \union {Partial}
  BY NoneAssumption DEF Sided, Held, File
<1>3. {k.data : k \in kept'} \subseteq Versions \union {Partial}
  BY DEF Kept
<1>4. Alive' = (Held(l) \union Held(r) \union {k.data : k \in kept'}) \ {Partial}
  BY <1>1 DEF Alive, Held
<1>. QED BY <1>1, <1>2, <1>3, <1>4

\* Writing or deleting a file leaves a side well typed.
LEMMA SideUpdate ==
  ASSUME NEW side \in Sided, NEW p \in Paths, NEW f \in File \union {None}
  PROVE  [side EXCEPT ![p] = f] \in Sided
  BY DEF Sided

\* Every step keeps TypeInv.
LEMMA StepTypeInv == TypeInv /\ [Next]_vars => TypeInv'
<1> SUFFICES ASSUME TypeInv, [Next]_vars PROVE TypeInv'
  OBVIOUS
<1>a. /\ local \in Sided /\ remote \in Sided /\ now \in Times /\ kept \subseteq Kept
      /\ shared \subseteq Paths
      /\ todo \in [Paths -> Actions]
      /\ pc = "copy" => copying \in Versions \union {Partial}
      /\ 0 \in Times
  BY EngineAssumption DEF TypeInv, TypeOK, Sided, Times
<1>b. \A d \in Versions \union {Partial} : [data |-> d, mod |-> now] \in File
  BY <1>a DEF File
<1>c. Truncated \in File
  BY <1>b DEF Truncated
<1>d. ASSUME NEW p \in Paths PROVE /\ local[p] \in File \union {None}
                                   /\ remote[p] \in File \union {None}
                                   /\ todo[p] \in Actions
  BY <1>a DEF Sided
<1>e. \A f \in File : f.data \in Versions \union {Partial}
  BY DEF File
<1>1. ASSUME NEW p \in Paths, EditHost(p) PROVE TypeInv'
  <2>1. PICK f \in Edits(local[p]) : Sides([local EXCEPT ![p] = f], remote)
    BY <1>1 DEF EditHost
  <2>2. f \in File \union {None}
    BY <2>1, <1>b DEF Edits, File
  <2>3. UNCHANGED <<manifest, kept, now, pc, scanned, todo, stamp, copying>>
    BY <1>1 DEF EditHost, run
  <2>. QED BY <1>a, <2>1, <2>2, <2>3, SideUpdate, SidesType DEF TypeInv, TypeOK, Sided
<1>2. ASSUME NEW p \in Paths, EditGuest(p) PROVE TypeInv'
  <2>1. PICK f \in Edits(remote[p]) : Sides(local, [remote EXCEPT ![p] = f])
    BY <1>2 DEF EditGuest
  <2>2. f \in File \union {None}
    BY <2>1, <1>b DEF Edits, File
  <2>3. UNCHANGED <<manifest, kept, now, pc, scanned, todo, stamp, copying>>
    BY <1>2 DEF EditGuest, run
  <2>. QED BY <1>a, <2>1, <2>2, <2>3, SideUpdate, SidesType DEF TypeInv, TypeOK, Sided
<1>3. CASE LoseManifest
  BY <1>3 DEF LoseManifest, NoEntries, TypeInv, TypeOK, run
<1>4. CASE Tick
  BY <1>4, EngineAssumption DEF Tick, Times, TypeInv, TypeOK, world, run
<1>5. CASE ScanHost
  BY <1>5, <1>a, ScanType DEF ScanHost, TypeInv, TypeOK, world
<1>6. CASE MakePlan
  <2>1. todo' \in [Paths -> Actions]
    BY <1>6, DecideType DEF MakePlan, Plan
  <2>. QED BY <1>6, <2>1 DEF MakePlan, NoEntries, TypeInv, TypeOK, world
<1>7. ASSUME NEW p \in Paths, BackupLoser(p) PROVE TypeInv'
  <2>1. PICK loser \in {"guest", "host"}, f \in {local[p], remote[p]} : Keep(p, loser, f)
    BY <1>7 DEF BackupLoser
  <2>2. kept' \subseteq Kept
    <3>1. CASE f = None  BY <3>1, <2>1, <1>a DEF Keep
    <3>2. CASE f # None
      <4>1. f.data \in Versions \union {Partial} /\ stamp \in Times
        BY <3>2, <1>d, <1>e DEF TypeInv, TypeOK
      <4>2. [path |-> p, loser |-> loser, stamp |-> stamp, data |-> f.data] \in Kept
        BY <4>1 DEF Kept
      <4>. QED BY <2>1, <3>2, <4>2, <1>a DEF Keep
    <3>. QED BY <3>1, <3>2
  <2>3. todo' \in [Paths -> Actions]
    BY <1>7, <1>a, <1>d, ActionType DEF BackupLoser
  <2>4. /\ UNCHANGED <<manifest, now, pc, scanned, stamp, copying>>
        /\ Sides(local, remote)
    BY <1>7 DEF BackupLoser
  <2>. QED BY <1>a, <2>2, <2>3, <2>4, SidesType DEF TypeInv, TypeOK, Sided
<1>8. ASSUME NEW p \in Paths, Truncate(p) PROVE TypeInv'
  <2>1. /\ UNCHANGED <<manifest, kept, now, scanned, todo, stamp>> /\ pc' = "copy"
    BY <1>8 DEF Truncate
  <2>2. PICK f \in {local[p], remote[p]} : f # None /\ copying' = f.data
    BY <1>8 DEF Truncate
  <2>3. copying' \in Versions \union {Partial}
    BY <2>2, <1>d, <1>e
  <2>4. PICK l \in Sided, r \in Sided : Sides(l, r)
    BY <1>8, <1>a, <1>c, SideUpdate DEF Truncate
  <2>. QED BY <1>a, <2>1, <2>3, <2>4, SidesType DEF TypeInv, TypeOK, Sided
<1>9. ASSUME NEW p \in Paths, Fill(p) PROVE TypeInv'
  <2>1. /\ UNCHANGED <<manifest, kept, now, scanned, stamp>>
        /\ pc' = "act" /\ copying' = None /\ todo' = [todo EXCEPT ![p] = Nothing]
    BY <1>9 DEF Fill
  <2>2. Copied \in File
    BY <1>9, <1>a, <1>b DEF Fill, Copied
  <2>3. PICK l \in Sided, r \in Sided : Sides(l, r)
    BY <1>9, <1>a, <2>2, SideUpdate DEF Fill
  <2>4. todo' \in [Paths -> Actions]
    BY <2>1, <1>a, ActionType
  <2>. QED BY <1>a, <2>1, <2>3, <2>4, SidesType DEF TypeInv, TypeOK, Sided
<1>10. ASSUME NEW p \in Paths, Delete(p) PROVE TypeInv'
  <2>1. /\ UNCHANGED <<manifest, kept, now, pc, scanned, stamp, copying>>
        /\ todo' = [todo EXCEPT ![p] = Nothing]
    BY <1>10 DEF Delete
  <2>2. PICK l \in Sided, r \in Sided : Sides(l, r)
    BY <1>10, <1>a, SideUpdate DEF Delete
  <2>3. todo' \in [Paths -> Actions]
    BY <2>1, <1>a, ActionType
  <2>. QED BY <1>a, <2>1, <2>2, <2>3, SidesType DEF TypeInv, TypeOK, Sided
<1>11. CASE Remember
  BY <1>11, <1>a, ScanType DEF Remember, TypeInv, TypeOK
<1>12. CASE Return
  BY <1>12 DEF Return, TypeInv, TypeOK, world
<1>13. CASE Abort
  BY <1>13, <1>a, ActionType DEF Abort, NoEntries, NoActions, TypeInv, TypeOK, world
<1>14. CASE UNCHANGED vars
  BY <1>14 DEF vars, world, run, TypeInv, TypeOK
<1>. QED BY <1>1, <1>2, <1>3, <1>4, <1>5, <1>6, <1>7, <1>8, <1>9, <1>10, <1>11, <1>12,
            <1>13, <1>14 DEF Next

\* The state of a run stays typed, whoever edits and however the runs end.
THEOREM SyncTypeCorrect == Spec => []TypeOK
<1>1. TypeInv => TypeOK
  BY DEF TypeInv
<1>. QED BY <1>1, InitTypeInv, StepTypeInv, PTL DEF Spec

-----------------------------------------------------------------------------
(* What a plan still holds, at each of its actions, while nobody edits.    *)

Upload   == Action("upload", "upload")
Download == Action("download", "download")

PlanHolds(p) ==
  /\ todo[p] = Nothing => Alike(local[p], remote[p])
  /\ todo[p] \in {Upload, Action("conflict", "upload")}     => local[p] # None
  /\ todo[p] \in {Download, Action("conflict", "download")} => remote[p] # None
  /\ todo[p].op = "delete-local"  => remote[p] = None
  /\ todo[p].op = "delete-remote" => local[p] = None

\* The open copy has read all of the file it is a copy of.
CopyHolds(p) ==
  \/ todo[p] = Upload   /\ local[p] # None  /\ copying = local[p].data
  \/ todo[p] = Download /\ remote[p] # None /\ copying = remote[p].data

\* What the action at p is about to overwrite is nothing, or is in a conflict file, or
\* is the file of the last run.
Harmless(p, f) ==
  \/ f = None
  \/ \E k \in kept : k.path = p /\ k.data = f.data
  \/ ~Changed(EntryOf(f), manifest[p])

Spared(p) ==
  /\ todo[p] = Upload   => Harmless(p, remote[p])
  /\ todo[p] = Download => Harmless(p, local[p])

PlanInv ==
  /\ pc = "remote" => scanned = Scan(local)
  /\ pc \in {"act", "copy"} => \A p \in Paths : PlanHolds(p)
  /\ pc = "act" => \A p \in Paths : Spared(p)
  /\ pc = "copy" => \A p \in Paths : IF First(p) THEN CopyHolds(p) ELSE Spared(p)
  /\ pc = "done" => Mirrored

\* No plan is outstanding at first.
LEMMA InitPlanInv == Init => PlanInv
  BY DEF Init, PlanInv

\* The planner's outcomes, and what each tells of the entries it was given.
LEMMA DecideCases ==
  ASSUME NEW l, NEW r, NEW base
  PROVE  LET d == Decide(l, r, base) IN
         \/ d = Nothing /\ l = None /\ r = None
         \/ d = Nothing /\ l # None /\ r # None /\ EntriesEqual(l, r)
         \/ d = Nothing /\ l # None /\ r # None /\ ~Changed(l, base) /\ ~Changed(r, base)
         \/ d \in {Action("conflict", "upload"), Action("conflict", "download")}
              /\ l # None /\ r # None
         \/ d = Upload /\ l # None /\ (r = None \/ ~Changed(r, base))
         \/ d = Download /\ r # None /\ (l = None \/ ~Changed(l, base))
         \/ d = Action("delete-local", "delete-local") /\ r = None
         \/ d = Action("delete-remote", "delete-remote") /\ l = None
  BY Zenon DEF Decide, Upload, Download

\* A scan has no entry exactly for the files that are not there.
LEMMA EntryNone ==
  ASSUME NEW f \in File \union {None} PROVE EntryOf(f) = None <=> f = None
  BY EntryType DEF EntryOf

\* The planner takes two files for one only if they are alike: one time within the
\* tolerance of the other, or both of the manifest's.
LEMMA EqualAlike ==
  ASSUME NEW f \in File, NEW g \in File, EntriesEqual(EntryOf(f), EntryOf(g))
  PROVE  Alike(f, g)
<1>1. f # None /\ g # None /\ f.mod \in Int /\ g.mod \in Int /\ Tol \in Nat
  BY EntryType, PlanAssumption, EngineAssumption DEF File, Times
<1>. QED BY <1>1 DEF EntriesEqual, Near, EntryOf, Alike

\* Two copies that look unchanged since the last run look alike.
LEMMA UnchangedAlike ==
  ASSUME NEW f \in File, NEW g \in File, NEW base \in FileEntry \union {None},
         ~Changed(EntryOf(f), base), ~Changed(EntryOf(g), base)
  PROVE  Alike(f, g)
<1>1. f # None /\ g # None /\ f.mod \in Int /\ g.mod \in Int /\ Tol \in Nat
  BY EntryType, PlanAssumption, EngineAssumption DEF File, Times
<1>2. base # None /\ base.mod \in Int
  BY EngineAssumption DEF Changed, FileEntry, Times
<1>. QED BY <1>1, <1>2 DEF Changed, EntriesEqual, Near, EntryOf, Alike

\* The path at the head of the plan is one.
LEMMA FirstUnique == \A p, q \in Paths : First(p) /\ First(q) => p = q
  BY PlanAssumption DEF First, Pending

\* Operations are told apart by their names.
LEMMA ActionsDiffer ==
  /\ Upload # Nothing /\ Download # Nothing /\ Upload # Download
  /\ Upload.op = "upload" /\ Download.op = "download" /\ Nothing.op = "none"
  /\ \A r : /\ Action("conflict", r).op = "conflict" /\ Action("conflict", r).res = r
            /\ Action("conflict", r) \notin {Upload, Download, Nothing}
  /\ \A o : o \notin {"upload", "download", "none"} =>
              Action(o, o) \notin {Upload, Download, Nothing} /\ Action(o, o).op = o
  /\ \A t \in Actions : /\ t.op = "upload" => t = Upload
                        /\ t.op = "download" => t = Download
                        /\ t.op = "conflict" => t = Action("conflict", t.res)
                                                  /\ t.res \in {"upload", "download"}
  BY DEF Actions, Action, Nothing, Upload, Download

\* A fresh plan is right about the two sides it was made from.
LEMMA FreshPlan ==
  ASSUME TypeInv, PlanInv, MakePlan, NEW p \in Paths
  PROVE  PlanHolds(p)' /\ Spared(p)'
<1> DEFINE l == EntryOf(local[p])
           r == EntryOf(remote[p])
<1>1. todo'[p] = Decide(l, r, manifest[p])
  BY DEF MakePlan, Plan, Scan, PlanInv
<1>2. local'[p] = local[p] /\ remote'[p] = remote[p] /\ manifest'[p] = manifest[p]
  BY DEF MakePlan, world
<1>3. /\ local[p] \in File \union {None} /\ remote[p] \in File \union {None}
      /\ manifest[p] \in FileEntry \union {None}
  BY DEF TypeInv, TypeOK
<1>4. (l = None <=> local[p] = None) /\ (r = None <=> remote[p] = None)
  BY <1>3, EntryNone
<1>5. ASSUME Alike(local[p], remote[p]), todo'[p] = Nothing
      PROVE  PlanHolds(p)' /\ Spared(p)'
  BY <1>2, <1>5, ActionsDiffer DEF PlanHolds, Spared, Alike
<1>6. CASE todo'[p] = Nothing /\ l = None /\ r = None
  BY <1>4, <1>5, <1>6 DEF Alike
<1>7. CASE todo'[p] = Nothing /\ l # None /\ r # None /\ EntriesEqual(l, r)
  BY <1>3, <1>4, <1>5, <1>7, EqualAlike
<1>8. CASE /\ todo'[p] = Nothing /\ l # None /\ r # None
           /\ ~Changed(l, manifest[p]) /\ ~Changed(r, manifest[p])
  BY <1>3, <1>4, <1>5, <1>8, UnchangedAlike
<1>9. CASE /\ todo'[p] \in {Action("conflict", "upload"), Action("conflict", "download")}
           /\ l # None /\ r # None
  BY <1>2, <1>4, <1>9, ActionsDiffer DEF PlanHolds, Spared
<1>10. CASE todo'[p] = Upload /\ l # None /\ (r = None \/ ~Changed(r, manifest[p]))
  <2>1. Harmless(p, remote[p])'
    BY <1>2, <1>4, <1>10 DEF Harmless, EntryOf
  <2>. QED BY <1>2, <1>4, <1>10, <2>1, ActionsDiffer DEF PlanHolds, Spared
<1>11. CASE todo'[p] = Download /\ r # None /\ (l = None \/ ~Changed(l, manifest[p]))
  <2>1. Harmless(p, local[p])'
    BY <1>2, <1>4, <1>11 DEF Harmless, EntryOf
  <2>. QED BY <1>2, <1>4, <1>11, <2>1, ActionsDiffer DEF PlanHolds, Spared
<1>12. CASE todo'[p] = Action("delete-local", "delete-local") /\ r = None
  BY <1>2, <1>4, <1>12, ActionsDiffer DEF PlanHolds, Spared
<1>13. CASE todo'[p] = Action("delete-remote", "delete-remote") /\ l = None
  BY <1>2, <1>4, <1>13, ActionsDiffer DEF PlanHolds, Spared
<1>. HIDE DEF l, r
<1>. QED BY <1>1, <1>6, <1>7, <1>8, <1>9, <1>10, <1>11, <1>12, <1>13, DecideCases

\* Carrying out one path leaves what is known of the others.
LEMMA Elsewhere ==
  ASSUME NEW q \in Paths, todo'[q] = todo[q], manifest' = manifest,
         local'[q] = local[q], remote'[q] = remote[q],
         \A k \in kept : k.path = q => k \in kept'
  PROVE  (PlanHolds(q) => PlanHolds(q)') /\ (Spared(q) => Spared(q)')
  BY DEF PlanHolds, Spared, Harmless

\* Keep drops conflict files of its own path only, and then has the new one.
LEMMA KeepKeeps ==
  ASSUME NEW p \in Paths, NEW loser, NEW f, Keep(p, loser, f)
  PROVE  /\ \A k \in kept : k.path # p => k \in kept'
         /\ f = None \/ \E k \in kept' : k.path = p /\ k.data = f.data
<1>1. CASE f = None  BY <1>1 DEF Keep
<1>2. CASE f # None
  <2> DEFINE new == [path |-> p, loser |-> loser, stamp |-> stamp, data |-> f.data]
  <2>1. kept' = {k \in kept : <<k.path, k.loser, k.stamp>> # <<p, loser, stamp>>} \union {new}
    BY <1>2 DEF Keep
  <2>2. new.path = p /\ new.data = f.data
    OBVIOUS
  <2>. HIDE DEF new
  <2>. QED BY <2>1, <2>2
<1>. QED BY <1>1, <1>2

\* When nobody edits during a run every step keeps PlanInv.
LEMMA StepPlanInv ==
  ASSUME ~Watched
  PROVE  TypeInv /\ PlanInv /\ [Next]_vars => PlanInv'
<1> SUFFICES ASSUME TypeInv, PlanInv, [Next]_vars PROVE PlanInv'
  OBVIOUS
<1>a. /\ local \in Sided /\ remote \in Sided /\ todo \in [Paths -> Actions]
      /\ \A p \in Paths : todo[p] \in Actions
  BY DEF TypeInv, TypeOK, Sided
<1>1. ASSUME NEW p \in Paths, EditHost(p) \/ EditGuest(p) PROVE PlanInv'
  BY <1>1 DEF EditHost, EditGuest, run, PlanInv
<1>2. CASE LoseManifest
  BY <1>2 DEF LoseManifest, run, PlanInv
<1>3. CASE Tick \/ UNCHANGED vars
  <2>1. UNCHANGED <<world, run>>
    BY <1>3 DEF Tick, vars
  <2>. QED BY <2>1 DEF world, run, PlanInv, Scan, PlanHolds, CopyHolds, Spared, Harmless,
                       First, Pending, Mirrored
<1>4. CASE ScanHost
  BY <1>4 DEF ScanHost, world, PlanInv, Scan
<1>5. CASE MakePlan
  <2>1. pc' = "act"
    BY <1>5 DEF MakePlan
  <2>. QED BY <1>5, <2>1, FreshPlan DEF PlanInv
<1>6. ASSUME NEW p \in Paths, BackupLoser(p) PROVE PlanInv'
  <2>1. /\ local' = local /\ remote' = remote /\ manifest' = manifest
        /\ pc = "act" /\ pc' = "act"
        /\ \A q \in Paths \ {p} : todo'[q] = todo[q]
        /\ todo[p].op = "conflict" /\ todo'[p] = Action(todo[p].res, todo[p].res)
    BY <1>6, <1>a DEF BackupLoser, Sides
  <2>2. \A q \in Paths : PlanHolds(q) /\ Spared(q)
    BY <2>1 DEF PlanInv
  <2>3. PICK loser \in {"guest", "host"}, f \in {local[p], remote[p]} :
          /\ Keep(p, loser, f)
          /\ \/ todo[p].res = "upload" /\ f = remote[p]
             \/ todo[p].res = "download" /\ f = local[p]
    BY <1>6 DEF BackupLoser
  <2>4. ASSUME NEW q \in Paths \ {p} PROVE PlanHolds(q)' /\ Spared(q)'
    BY <2>1, <2>2, <2>3, KeepKeeps, Elsewhere
  <2>5. /\ f = None \/ \E k \in kept' : k.path = p /\ k.data = f.data
        /\ todo[p] = Action("conflict", todo[p].res)
    BY <2>1, <2>3, <1>a, KeepKeeps, ActionsDiffer
  <2>6. ASSUME todo[p].res = "upload" PROVE PlanHolds(p)' /\ Spared(p)'
    BY <2>1, <2>2, <2>3, <2>5, <2>6, ActionsDiffer
       DEF PlanHolds, Spared, Harmless, Upload, Download
  <2>7. ASSUME todo[p].res = "download" PROVE PlanHolds(p)' /\ Spared(p)'
    BY <2>1, <2>2, <2>3, <2>5, <2>7, ActionsDiffer
       DEF PlanHolds, Spared, Harmless, Upload, Download
  <2>. QED BY <2>1, <2>3, <2>4, <2>6, <2>7 DEF PlanInv
<1>7. ASSUME NEW p \in Paths, Truncate(p) PROVE PlanInv'
  <2>1. /\ pc = "act" /\ pc' = "copy" /\ First(p) /\ \A q \in Paths : First(q)' <=> First(q)
        /\ todo' = todo /\ manifest' = manifest /\ kept' = kept
        /\ \A q \in Paths \ {p} : local'[q] = local[q] /\ remote'[q] = remote[q]
    BY <1>7, <1>a DEF Truncate, Sides, First, Pending, Sided
  <2>2. \A q \in Paths : PlanHolds(q) /\ Spared(q)
    BY <2>1 DEF PlanInv
  <2>3. \A q \in Paths \ {p} : PlanHolds(q)' /\ Spared(q)'
    BY <2>1, <2>2, Elsewhere
  <2>4. \/ /\ todo[p] = Upload /\ local[p] # None /\ local'[p] = local[p]
           /\ copying' = local[p].data
        \/ /\ todo[p] = Download /\ remote[p] # None /\ remote'[p] = remote[p]
           /\ copying' = remote[p].data
    BY <1>7, <1>a, ActionsDiffer DEF Truncate, Sides
  <2>5. CopyHolds(p)' /\ PlanHolds(p)'
    BY <2>1, <2>4, ActionsDiffer DEF CopyHolds, PlanHolds
  <2>. QED BY <2>1, <2>3, <2>5, FirstUnique DEF PlanInv
<1>8. ASSUME NEW p \in Paths, Fill(p) PROVE PlanInv'
  <2>1. /\ pc = "copy" /\ pc' = "act" /\ First(p) /\ todo'[p] = Nothing
        /\ manifest' = manifest /\ kept' = kept
        /\ \A q \in Paths \ {p} :
             todo'[q] = todo[q] /\ local'[q] = local[q] /\ remote'[q] = remote[q]
    BY <1>8, <1>a DEF Fill, Sides, Sided
  <2>2. ASSUME NEW q \in Paths \ {p} PROVE PlanHolds(q)' /\ Spared(q)'
    BY <2>1, FirstUnique, Elsewhere DEF PlanInv
  <2>3. CopyHolds(p)
    BY <2>1 DEF PlanInv
  <2>4. Alike(local'[p], remote'[p])
    <3>1. Copied # None /\ Copied.data = copying
      <4>1. Copied \in File
        BY <2>1 DEF TypeInv, TypeOK, Copied, File
      <4>. QED BY <4>1, EntryType DEF Copied
    <3>2. CASE todo[p] = Upload
      <4>1. local'[p] = local[p] /\ remote'[p] = Copied
        BY <1>8, <3>2, <1>a, ActionsDiffer DEF Fill, Sides, Sided
      <4>. QED BY <2>3, <3>1, <3>2, <4>1, ActionsDiffer DEF CopyHolds, Alike
    <3>3. CASE todo[p] = Download
      <4>1. remote'[p] = remote[p] /\ local'[p] = Copied
        BY <1>8, <3>3, <1>a, ActionsDiffer DEF Fill, Sides, Sided
      <4>. QED BY <2>3, <3>1, <3>3, <4>1, ActionsDiffer DEF CopyHolds, Alike
    <3>. QED BY <2>3, <3>2, <3>3 DEF CopyHolds
  <2>5. PlanHolds(p)' /\ Spared(p)'
    BY <2>1, <2>4, ActionsDiffer DEF PlanHolds, Spared
  <2>. QED BY <2>1, <2>2, <2>5 DEF PlanInv
<1>9. ASSUME NEW p \in Paths, Delete(p) PROVE PlanInv'
  <2>1. /\ pc = "act" /\ pc' = "act" /\ todo'[p] = Nothing
        /\ manifest' = manifest /\ kept' = kept
        /\ \A q \in Paths \ {p} :
             todo'[q] = todo[q] /\ local'[q] = local[q] /\ remote'[q] = remote[q]
    BY <1>9, <1>a DEF Delete, Sides, Sided
  <2>2. \A q \in Paths : PlanHolds(q) /\ Spared(q)
    BY <2>1 DEF PlanInv
  <2>3. \A q \in Paths \ {p} : PlanHolds(q)' /\ Spared(q)'
    BY <2>1, <2>2, Elsewhere
  <2>4. local'[p] = None /\ remote'[p] = None
    BY <1>9, <1>a, <2>2 DEF Delete, Sides, Sided, PlanHolds
  <2>5. PlanHolds(p)' /\ Spared(p)'
    BY <2>1, <2>4, ActionsDiffer DEF PlanHolds, Spared, Alike
  <2>. QED BY <2>1, <2>3, <2>5 DEF PlanInv
<1>10. CASE Remember
  <2>1. \A p \in Paths : todo[p] = Nothing /\ PlanHolds(p)
    BY <1>10 DEF Remember, Pending, PlanInv
  <2>2. Mirrored'
    BY <1>10, <2>1 DEF Remember, PlanHolds, Mirrored
  <2>. QED BY <1>10, <2>2 DEF Remember, PlanInv
<1>11. CASE Return \/ Abort
  BY <1>11 DEF Return, Abort, PlanInv
<1>. QED BY <1>1, <1>2, <1>3, <1>4, <1>5, <1>6, <1>7, <1>8, <1>9, <1>10, <1>11 DEF Next

\* A run that is complete has left both sides the same, if the users were quiet:
\* whatever runs came before it, and wherever they ended.
THEOREM QuietRunMirrors ==
  ASSUME ~Watched
  PROVE  Spec => []Mirrored
<1>1. PlanInv => Mirrored
  BY DEF PlanInv, Mirrored
<1>. QED BY InitTypeInv, StepTypeInv, InitPlanInv, StepPlanInv, <1>1, PTL DEF Spec

-----------------------------------------------------------------------------
(* A copy destroys nothing.                                                *)

\* The file at p is the only thing a step loses, and it was harmless to lose it.
LEMMA TruncateSpares ==
  ASSUME TypeInv, NEW p \in Paths, Spared(p), Truncate(p),
         NEW q \in Paths, NEW f \in {local[q], remote[q]}, f # None, f.data \in Lost
  PROVE  ~Changed(EntryOf(f), manifest[q])
<1>a. /\ local \in Sided /\ remote \in Sided /\ todo[p] \in Actions
      /\ f.data # Partial /\ f.data \notin Alive'
  BY DEF TypeInv, TypeOK, Sided, Lost, Alive
<1>b. kept' = kept
  BY DEF Truncate
<1>c. \A k \in kept : k.data # f.data
  BY <1>a, <1>b DEF Alive
<1>d. f # local'[q] /\ f # remote'[q]
  <2>1. \A side \in {local', remote'} : f = side[q] => f.data \in Held(side)
    BY DEF Held
  <2>2. Held(local)' = Held(local') /\ Held(remote)' = Held(remote')
    BY DEF Held
  <2>. QED BY <1>a, <2>1, <2>2 DEF Alive
<1>1. CASE todo[p].op = "upload"
  <2>1. todo[p] = Upload /\ local' = local /\ remote' = [remote EXCEPT ![p] = Truncated]
    BY <1>1, <1>a, ActionsDiffer DEF Truncate, Sides
  <2>2. q = p /\ f = remote[p]
    BY <2>1, <1>a, <1>d DEF Sided
  <2>. QED BY <2>1, <2>2, <1>c DEF Spared, Harmless
<1>2. CASE todo[p].op = "download"
  <2>1. todo[p] = Download /\ remote' = remote /\ local' = [local EXCEPT ![p] = Truncated]
    BY <1>2, <1>a, ActionsDiffer DEF Truncate, Sides
  <2>2. q = p /\ f = local[p]
    BY <2>1, <1>a, <1>d DEF Sided
  <2>. QED BY <2>1, <2>2, <1>c DEF Spared, Harmless
<1>. QED BY <1>1, <1>2 DEF Truncate

\* No copy destroys the only copy of an edit that the scan could see, if the users are
\* quiet while a run is under way: whatever the runs before it did or left undone.
THEOREM CopyLosesNothing ==
  ASSUME ~Watched
  PROVE  Spec => OverwriteLosesNothing
<1> DEFINE Spares == (pc = "act" /\ pc' = "copy") =>
             \A p \in Paths : \A f \in {local[p], remote[p]} :
               (f # None /\ f.data \in Lost) => ~Changed(EntryOf(f), manifest[p])
<1>1. TypeInv /\ PlanInv /\ [Next]_vars => [Spares]_vars
  <2> SUFFICES ASSUME TypeInv, PlanInv, [Next]_vars, pc = "act", pc' = "copy",
                      NEW q \in Paths, NEW f \in {local[q], remote[q]},
                      f # None, f.data \in Lost
               PROVE  ~Changed(EntryOf(f), manifest[q])
    OBVIOUS
  <2>1. PICK p \in Paths : Truncate(p)
    BY DEF Next, EditHost, EditGuest, LoseManifest, Tick, ScanHost, MakePlan, BackupLoser,
           Fill, Delete, Remember, Return, Abort, vars, world, run
  <2>2. Spared(p)
    BY DEF PlanInv
  <2>. QED BY <2>1, <2>2, TruncateSpares
<1>. QED BY InitTypeInv, StepTypeInv, InitPlanInv, StepPlanInv, <1>1, PTL
         DEF Spec, OverwriteLosesNothing

-----------------------------------------------------------------------------
(* Nothing new is deleted.                                                 *)

\* A path that the manifest does not list, where one side at most has a file and the run
\* has no deletion to carry out.
Unlisted(p) ==
  /\ local[p] = None \/ remote[p] = None
  /\ manifest[p] = None
  /\ pc \in {"act", "copy"} => todo[p].op \notin {"delete-local", "delete-remote"}

\* So it is with every path at which both sides have never had a file.
SharedInv == \A p \in Paths : p \in shared \/ Unlisted(p)

\* Nothing is there, and nothing planned.
LEMMA InitSharedInv == Init => SharedInv
  BY DEF Init, SharedInv, Unlisted, NoEntries, NoActions, Nothing, Action

\* What both sides are given at one path is in `shared`.
LEMMA SidesShare ==
  ASSUME NEW l, NEW r, Sides(l, r)
  PROVE  /\ shared \subseteq shared'
         /\ \A p \in Paths : p \in shared' \/ local'[p] = None \/ remote'[p] = None
  BY DEF Sides

\* Every step keeps SharedInv if nobody edits during a run.  The new manifest is the
\* host's files, and it is PlanInv that the guest has them too.
LEMMA StepSharedInv ==
  ASSUME ~Watched
  PROVE  TypeInv /\ PlanInv /\ SharedInv /\ [Next]_vars => SharedInv'
<1> SUFFICES ASSUME TypeInv, PlanInv, SharedInv, [Next]_vars, NEW x \in Paths,
                    x \notin shared'
             PROVE  Unlisted(x)'
  BY DEF SharedInv, Unlisted
<1>a. todo \in [Paths -> Actions]
  BY DEF TypeInv, TypeOK
<1>1. ASSUME NEW l, NEW r, Sides(l, r), manifest' = manifest,
             \/ pc' \notin {"act", "copy"}
             \/ todo'[x].op \notin {"delete-local", "delete-remote"}
             \/ pc \in {"act", "copy"} /\ todo'[x] = todo[x]
      PROVE  Unlisted(x)'
  BY <1>1, SidesShare DEF SharedInv, Unlisted
<1>2. ASSUME NEW p \in Paths, EditHost(p) \/ EditGuest(p) PROVE Unlisted(x)'
  <2>1. PICK l, r : Sides(l, r)
    BY <1>2 DEF EditHost, EditGuest
  <2>2. manifest' = manifest /\ pc' \notin {"act", "copy"}
    BY <1>2 DEF EditHost, EditGuest, run
  <2>. QED BY <1>1, <2>1, <2>2
<1>3. CASE LoseManifest
  BY <1>3 DEF LoseManifest, NoEntries, run, SharedInv, Unlisted
<1>4. CASE Tick \/ UNCHANGED vars
  BY <1>4 DEF Tick, vars, world, run, SharedInv, Unlisted
<1>5. CASE ScanHost
  BY <1>5 DEF ScanHost, world, SharedInv, Unlisted
<1>6. CASE MakePlan
  <2>1. manifest[x] = None /\ UNCHANGED world
    BY <1>6 DEF MakePlan, world, SharedInv, Unlisted
  <2>2. todo'[x] = Decide(scanned[x], Scan(remote)[x], None)
    BY <1>6, <2>1 DEF MakePlan, Plan
  <2>3. todo'[x] \in {Nothing, Upload, Download, Action("conflict", "upload"),
                      Action("conflict", "download")}
    BY <2>2, Zenon DEF Decide, Upload, Download
  <2>4. todo'[x].op \notin {"delete-local", "delete-remote"}
    BY <2>3, ActionsDiffer
  <2>. QED BY <2>1, <2>4 DEF world, SharedInv, Unlisted
<1>7. ASSUME NEW p \in Paths, BackupLoser(p) PROVE Unlisted(x)'
  <2>1. /\ Sides(local, remote) /\ manifest' = manifest /\ pc = "act"
        /\ todo[p].op = "conflict"
        /\ todo' = [todo EXCEPT ![p] = Action(todo[p].res, todo[p].res)]
    BY <1>7 DEF BackupLoser
  <2>2. todo[p].res \in {"upload", "download"}
    BY <2>1, <1>a, ActionsDiffer
  <2>3. CASE x = p
    BY <2>1, <2>2, <2>3, <1>1, <1>a DEF Action
  <2>4. CASE x # p
    BY <2>1, <2>4, <1>1, <1>a
  <2>. QED BY <2>3, <2>4
<1>8. ASSUME NEW p \in Paths, Truncate(p) PROVE Unlisted(x)'
  <2>1. PICK l, r : Sides(l, r)
    BY <1>8 DEF Truncate
  <2>2. manifest' = manifest /\ pc = "act" /\ todo' = todo
    BY <1>8 DEF Truncate
  <2>. QED BY <1>1, <2>1, <2>2
<1>9. ASSUME NEW p \in Paths, Fill(p) PROVE Unlisted(x)'
  <2>1. PICK l, r : Sides(l, r)
    BY <1>9 DEF Fill
  <2>2. /\ manifest' = manifest /\ pc = "copy"
        /\ todo' = [todo EXCEPT ![p] = Nothing]
    BY <1>9 DEF Fill
  <2>3. todo'[x] = Nothing \/ todo'[x] = todo[x]
    BY <2>2, <1>a
  <2>. QED BY <1>1, <2>1, <2>2, <2>3, ActionsDiffer
<1>10. ASSUME NEW p \in Paths, Delete(p) PROVE Unlisted(x)'
  <2>1. PICK l, r : Sides(l, r)
    BY <1>10 DEF Delete
  <2>2. /\ manifest' = manifest /\ pc = "act"
        /\ todo' = [todo EXCEPT ![p] = Nothing]
    BY <1>10 DEF Delete
  <2>3. todo'[x] = Nothing \/ todo'[x] = todo[x]
    BY <2>2, <1>a
  <2>. QED BY <1>1, <2>1, <2>2, <2>3, ActionsDiffer
<1>11. CASE Remember
  <2>1. /\ todo[x] = Nothing /\ PlanHolds(x) /\ local' = local /\ remote' = remote
        /\ pc' = "done" /\ manifest' = Scan(local) /\ shared' = shared
    BY <1>11 DEF Remember, Pending, PlanInv
  <2>2. local[x] = None
    BY <2>1 DEF PlanHolds, Alike, SharedInv, Unlisted
  <2>. QED BY <2>1, <2>2 DEF Scan, EntryOf, Unlisted
<1>12. CASE Return \/ Abort
  BY <1>12 DEF Return, Abort, world, SharedInv, Unlisted
<1>. QED BY <1>2, <1>3, <1>4, <1>5, <1>6, <1>7, <1>8, <1>9, <1>10, <1>11, <1>12 DEF Next

\* Sync deletes nothing but what both sides have had, if the users are quiet while a run
\* is under way: wherever runs end, and even if the manifest is lost (share.Plan, Sync).
THEOREM DeletesOnlyShared ==
  ASSUME ~Watched
  PROVE  Spec => NewFilesStay
<1> DEFINE Stay == (pc = "act" /\ todo' # todo) => \A p \in Paths :
                     \/ local[p] # None /\ local'[p] = None
                     \/ remote[p] # None /\ remote'[p] = None
                     => p \in shared
<1>1. TypeInv /\ SharedInv /\ [Next]_vars => [Stay]_vars
  <2> SUFFICES ASSUME TypeInv, SharedInv, [Next]_vars, pc = "act", todo' # todo,
                      NEW q \in Paths,
                      \/ local[q] # None /\ local'[q] = None
                      \/ remote[q] # None /\ remote'[q] = None
               PROVE  q \in shared
    OBVIOUS
  <2>1. PICK p \in Paths : BackupLoser(p) \/ Delete(p)
    BY DEF Next, EditHost, EditGuest, LoseManifest, Tick, ScanHost, MakePlan, Truncate,
           Fill, Remember, Return, Abort, vars, world, run
  <2>2. Delete(p)
    BY <2>1 DEF BackupLoser, Sides
  <2>3. p = q /\ todo[p].op \in {"delete-local", "delete-remote"}
    BY <2>2 DEF Delete, Sides, TypeInv, TypeOK
  <2>. QED BY <2>3 DEF SharedInv, Unlisted
<1>. QED BY InitTypeInv, StepTypeInv, InitPlanInv, StepPlanInv, InitSharedInv,
            StepSharedInv, <1>1, PTL DEF Spec, NewFilesStay

=============================================================================
