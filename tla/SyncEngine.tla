------------------------------ MODULE SyncEngine ------------------------------
(***************************************************************************)
(* share.Sync: runs of `vc sync` over a workspace that a user on the host  *)
(* and a user in the guest also write to.  A run scans both sides, plans,  *)
(* carries the plan out path by path, and remembers the host's side in the *)
(* manifest.  It may end at any point: an error, Ctrl-C, a dropped         *)
(* connection, a crash; it holds no lock, and the next run starts from     *)
(* what the last one left.                                                 *)
(*                                                                         *)
(* A file is a version, the token of the edit that wrote it, and the time  *)
(* it was written.  An edit takes a version that is nowhere to be found.   *)
(***************************************************************************)
EXTENDS SyncPlan

CONSTANTS
  Versions,   \* what an edit may write into a file
  Partial,    \* a file a copy has truncated and not filled yet
  SizeOf,     \* the size of a version
  MaxTime,    \* the bound on the clock
  Watched,    \* TRUE: users edit while a run is under way
  Aborts      \* TRUE: a run may end before it is done

ASSUME EngineAssumption ==
  /\ SizeOf \in [Versions \union {Partial} -> Nat]
  /\ Partial \notin Versions /\ None \notin Versions \union {Partial}
  /\ MaxTime \in Nat /\ {Watched, Aborts} \subseteq BOOLEAN

VARIABLES
  local,      \* per path: the file on the host, or None
  remote,     \* per path: the file in the guest, or None
  manifest,   \* per path: the entry of the last complete run, or None
  kept,       \* the .vc-conflict-* files on the host
  now,        \* the clock of both sides, in seconds
  pc,         \* where the run is
  scanned,    \* its snapshot of the host
  todo,       \* per path: what of the plan is still to be carried out
  stamp,      \* the second the plan was made in
  copying,    \* what the open copy has read
  met,        \* history: the versions that have been on both sides of a path
  shared      \* history: the paths at which both sides have had a file

world == <<local, remote, manifest, kept, met, shared>>
run   == <<pc, scanned, todo, stamp, copying>>
vars  == <<world, run, now>>

Times == 0..MaxTime
File  == [data : Versions \union {Partial}, mod : Times]
Kept  == [path : Paths, loser : {"guest", "host"}, stamp : Times, data : Versions \union {Partial}]
FileEntry == [size : {SizeOf[v] : v \in Versions \union {Partial}}, mod : Times]

ASSUME NoneAssumption == None \notin File \union FileEntry

TypeOK ==
  /\ local \in [Paths -> File \union {None}]
  /\ remote \in [Paths -> File \union {None}]
  /\ manifest \in [Paths -> FileEntry \union {None}]
  /\ kept \subseteq Kept
  /\ now \in Times
  /\ pc \in {"idle", "remote", "act", "copy", "done"}
  /\ scanned \in [Paths -> FileEntry \union {None}]
  /\ todo \in [Paths -> Actions]
  /\ stamp \in Times
  /\ copying \in Versions \union {Partial, None}
  /\ met \subseteq Versions /\ shared \subseteq Paths

NoEntries == [p \in Paths |-> None]
NoActions == [p \in Paths |-> Nothing]

Init ==
  /\ local = NoEntries /\ remote = NoEntries /\ manifest = NoEntries
  /\ kept = {} /\ met = {} /\ shared = {}
  /\ now = 0
  /\ pc = "idle" /\ scanned = NoEntries /\ todo = NoActions /\ stamp = 0 /\ copying = None

-----------------------------------------------------------------------------
EntryOf(f) == IF f = None THEN None ELSE [size |-> SizeOf[f.data], mod |-> f.mod]

\* scanLocal and scanRemote, which do not see the conflict files.
Scan(side) == [p \in Paths |-> EntryOf(side[p])]

Held(side) == {side[p].data : p \in {q \in Paths : side[q] # None}}

\* The versions that can still be found: on a side, or in a conflict file.
Alive == (Held(local) \union Held(remote) \union {k.data : k \in kept}) \ {Partial}

\* Every change of a side goes through here, so that the histories are kept up.
Sides(l, r) ==
  /\ local' = l /\ remote' = r
  /\ met' = Alive' \intersect
       (met \union {l[p].data : p \in {q \in Paths : /\ l[q] # None /\ r[q] # None
                                                     /\ l[q].data = r[q].data}})
  /\ shared' = shared \union {p \in Paths : l[p] # None /\ r[p] # None}

Pending == {p \in Paths : todo[p] # Nothing}

\* The next to be carried out: the actions are sorted by path.
First(p) == p \in Pending /\ \A q \in Pending : p <= q

-----------------------------------------------------------------------------
(* The users.                                                              *)

\* What a user makes of a file: a new version of it, or nothing.
Edits(f) ==
  [data : Versions \ (Alive \union {copying}), mod : {now}] \union ({None} \ {f})

EditHost(p) ==
  /\ Watched \/ pc = "idle"
  /\ UNCHANGED <<manifest, kept, now, run>>
  /\ \E f \in Edits(local[p]) : Sides([local EXCEPT ![p] = f], remote)

EditGuest(p) ==
  /\ Watched \/ pc = "idle"
  /\ UNCHANGED <<manifest, kept, now, run>>
  /\ \E f \in Edits(remote[p]) : Sides(local, [remote EXCEPT ![p] = f])

\* The manifest is lost or unreadable, which loadManifest takes for empty.
LoseManifest ==
  /\ pc = "idle"
  /\ manifest' = NoEntries
  /\ UNCHANGED <<local, remote, kept, met, shared, now, run>>

Tick ==
  /\ now < MaxTime
  /\ now' = now + 1
  /\ UNCHANGED <<world, run>>

-----------------------------------------------------------------------------
(* A run of Sync.                                                          *)

ScanHost ==
  /\ pc = "idle"
  /\ scanned' = Scan(local)
  /\ pc' = "remote"
  /\ UNCHANGED <<world, now, todo, stamp, copying>>

\* The scan of the guest, and all that depends on nothing else.
MakePlan ==
  /\ pc = "remote"
  /\ todo' = Plan(scanned, Scan(remote), manifest)
  /\ stamp' = now
  /\ scanned' = NoEntries
  /\ pc' = "act"
  /\ UNCHANGED <<world, now, copying>>

\* backupConflictLoser: a copy on the host of the side that is about to be
\* overwritten, under a name that tells the second and the loser.  A guest's file
\* that is gone is an error (Abort); a host's file that is gone is not.
Keep(p, loser, f) ==
  kept' = IF f = None THEN kept
          ELSE {k \in kept : <<k.path, k.loser, k.stamp>> # <<p, loser, stamp>>} \union
                 {[path |-> p, loser |-> loser, stamp |-> stamp, data |-> f.data]}

BackupLoser(p) ==
  /\ pc = "act" /\ First(p) /\ todo[p].op = "conflict"
  /\ \/ todo[p].res = "upload" /\ remote[p] # None /\ Keep(p, "guest", remote[p])
     \/ todo[p].res = "download" /\ Keep(p, "host", local[p])
  /\ todo' = [todo EXCEPT ![p] = Action(todo[p].res, todo[p].res)]
  /\ UNCHANGED <<manifest, now, pc, scanned, stamp, copying>>
  /\ Sides(local, remote)

Truncated == [data |-> Partial, mod |-> now]
Copied    == [data |-> copying, mod |-> now]

\* Mutant of Truncate: the source is opened after the destination.
TruncateUnread(p) ==
  /\ pc = "act" /\ First(p)
  /\ UNCHANGED <<manifest, kept, now, scanned, todo, stamp, copying>>
  /\ \/ todo[p].op = "upload" /\ Sides(local, [remote EXCEPT ![p] = Truncated])
     \/ todo[p].op = "download" /\ Sides([local EXCEPT ![p] = Truncated], remote)
  /\ pc' = "copy"

\* UploadFile and DownloadFile: open the source (it must be there), then create,
\* and so truncate, the destination ...
Truncate(p) ==
  /\ pc = "act" /\ First(p)
  /\ UNCHANGED <<manifest, kept, now, scanned, todo, stamp>>
  /\ \/ /\ todo[p].op = "upload" /\ local[p] # None
        /\ copying' = local[p].data
        /\ Sides(local, [remote EXCEPT ![p] = Truncated])
     \/ /\ todo[p].op = "download" /\ remote[p] # None
        /\ copying' = remote[p].data
        /\ Sides([local EXCEPT ![p] = Truncated], remote)
  /\ pc' = "copy"

\* ... and copy into it.  The copy is as old as the copying.
Fill(p) ==
  /\ pc = "copy" /\ First(p)
  /\ UNCHANGED <<manifest, kept, now, scanned, stamp>>
  /\ IF todo[p].op = "upload" THEN Sides(local, [remote EXCEPT ![p] = Copied])
                              ELSE Sides([local EXCEPT ![p] = Copied], remote)
  /\ todo' = [todo EXCEPT ![p] = Nothing]
  /\ copying' = None
  /\ pc' = "act"

\* os.Remove and sftp Remove; a file that is gone already is fine.
Delete(p) ==
  /\ pc = "act" /\ First(p)
  /\ UNCHANGED <<manifest, kept, now, pc, scanned, stamp, copying>>
  /\ \/ todo[p].op = "delete-local"  /\ Sides([local EXCEPT ![p] = None], remote)
     \/ todo[p].op = "delete-remote" /\ Sides(local, [remote EXCEPT ![p] = None])
  /\ todo' = [todo EXCEPT ![p] = Nothing]

\* Mutant of Remember: the manifest is saved by a run that skipped some of its plan.
RememberEarly ==
  /\ pc = "act"
  /\ manifest' = Scan(local)
  /\ pc' = "done"
  /\ stamp' = 0
  /\ UNCHANGED <<local, remote, kept, met, shared, now, scanned, todo, copying>>

\* The host as it is now becomes the manifest (written aside, then renamed).
Remember ==
  /\ pc = "act" /\ Pending = {}
  /\ manifest' = Scan(local)
  /\ pc' = "done"
  /\ stamp' = 0
  /\ UNCHANGED <<local, remote, kept, met, shared, now, scanned, todo, copying>>

Return ==
  /\ pc = "done"
  /\ pc' = "idle"
  /\ UNCHANGED <<world, now, scanned, todo, stamp, copying>>

\* A source that is not there any more is an error.
SourceGone(p) ==
  /\ pc = "act" /\ First(p)
  /\ \/ todo[p].op = "upload" /\ local[p] = None
     \/ todo[p] \in {Action("download", "download"), Action("conflict", "upload")}
          /\ remote[p] = None

\* The run ends early, with what it has done done: an error, a cancelled context, a
\* crash.  A copy that was under way leaves its destination truncated.
Abort ==
  /\ pc \in {"remote", "act", "copy"}
  /\ Aborts \/ \E p \in Paths : SourceGone(p)
  /\ pc' = "idle"
  /\ scanned' = NoEntries /\ todo' = NoActions /\ stamp' = 0 /\ copying' = None
  /\ UNCHANGED <<world, now>>

-----------------------------------------------------------------------------
Next ==
  \/ \E p \in Paths : EditHost(p) \/ EditGuest(p)
  \/ LoseManifest \/ Tick
  \/ ScanHost \/ MakePlan
  \/ \E p \in Paths : BackupLoser(p) \/ Truncate(p) \/ Fill(p) \/ Delete(p)
  \/ Remember \/ Return \/ Abort

Spec == Init /\ [][Next]_vars

-----------------------------------------------------------------------------
(* Safety.                                                                 *)

\* The last copies this step destroys of versions that only one side has ever had.
Lost == Alive \ (met \union Alive')

\* A copy never destroys the only copy of a version the other side has not seen: it
\* is in a conflict file before the copy opens its destination.  The one exception
\* is an edit the scan cannot tell from the last run, with the size of the entry in
\* the manifest and a time within the tolerance.
OverwriteLosesNothing ==
  [][(pc = "act" /\ pc' = "copy") =>
       \A p \in Paths : \A f \in {local[p], remote[p]} :
         (f # None /\ f.data \in Lost) => ~Changed(EntryOf(f), manifest[p])]_vars

\* Sync deletes a file only if the other side has had the version that is deleted.
DeleteLosesNothing ==
  [][(pc = "act" /\ todo' # todo) => \A p \in Paths : \A f \in {local[p], remote[p]} :
       (f # None /\ f.data \in Lost) => ~Changed(EntryOf(f), manifest[p])]_vars

\* Sync deletes a file only where both sides have had one: a file that is new on its side
\* is sent to the other, never taken for one that the other has deleted.
NewFilesStay ==
  [][(pc = "act" /\ todo' # todo) => \A p \in Paths :
       \/ local[p] # None /\ local'[p] = None
       \/ remote[p] # None /\ remote'[p] = None
       => p \in shared]_vars

\* Nothing to tell them apart by: one version, or one size and times that are both
\* within the tolerance of a third.
Alike(f, g) ==
  \/ f = None /\ g = None
  \/ /\ f # None /\ g # None
     /\ \/ f.data = g.data
        \/ /\ SizeOf[f.data] = SizeOf[g.data]
           /\ f.mod - g.mod \in -(2 * Tol)..(2 * Tol)

\* When a run is complete both sides hold the same files with the same versions, but
\* for edits that the tolerance hides.
Mirrored == pc = "done" => \A p \in Paths : Alike(local[p], remote[p])

\* After a run that nothing disturbed there is nothing left to do: the manifest is an
\* accurate baseline for the next run, whenever it comes.
BaselineIsAccurate ==
  pc = "done" => Plan(Scan(local), Scan(remote), manifest) = NoActions

=============================================================================
