------------------------------- MODULE SyncPlan -------------------------------
(***************************************************************************)
(* share.Plan: what one run of `vc sync` sets out to do about a path, from *)
(* what it saw on the host, what it saw in the guest and what the manifest *)
(* remembers of the last run.  A pure function of the three snapshots, and *)
(* of each path by itself.                                                 *)
(***************************************************************************)
EXTENDS Integers

CONSTANTS
  Paths,   \* paths relative to the workspace, in their order
  Tol,     \* the slack between two modification times that are still one
  None     \* no such file, no entry

ASSUME PlanAssumption == Paths \subseteq Nat /\ Tol \in Nat

Entry == [size : Nat, mod : Int]

\* An operation, and what a conflict is resolved to.
Action(op, res) == [op |-> op, res |-> res]
Nothing   == Action("none", "none")
Actions   == {Nothing} \union [op : {"conflict"}, res : {"upload", "download"}]
               \union {Action(o, o) : o \in {"upload", "download", "delete-local", "delete-remote"}}

Near(s, t) == s - t <= Tol /\ t - s <= Tol

EntriesEqual(a, b) == a.size = b.size /\ Near(a.mod, b.mod)

Changed(a, base) == base = None \/ ~EntriesEqual(a, base)

\* Mutant of Decide: a conflict the host wins is an upload like any other.
DecideUnkept(l, r, base) ==
  CASE l # None /\ r # None /\ ~EntriesEqual(l, r) ->
         IF l.mod >= r.mod THEN Action("upload", "upload") ELSE Action("download", "download")
    [] l # None /\ r = None -> Action("upload", "upload")
    [] l = None /\ r # None -> Action("download", "download")
    [] OTHER -> Nothing

\* Mutant of Decide: what one side has deleted stays on the other.
DecideUndeleted(l, r, base) ==
  CASE l # None /\ r = None /\ base = None -> Action("upload", "upload")
    [] l = None /\ r # None /\ base = None -> Action("download", "download")
    [] OTHER -> Nothing

\* One path: l and r as scanned, base from the manifest.
Decide(l, r, base) ==
  CASE l # None /\ r # None ->
         (CASE Changed(l, base) /\ Changed(r, base) ->
                 IF EntriesEqual(l, r) THEN Nothing
                 ELSE Action("conflict", IF l.mod >= r.mod THEN "upload" ELSE "download")
            [] Changed(l, base) /\ ~Changed(r, base) -> Action("upload", "upload")
            [] Changed(r, base) /\ ~Changed(l, base) -> Action("download", "download")
            [] OTHER -> Nothing)
    [] l # None /\ r = None ->
         IF base # None THEN Action("delete-local", "delete-local") ELSE Action("upload", "upload")
    [] l = None /\ r # None ->
         IF base # None THEN Action("delete-remote", "delete-remote")
                        ELSE Action("download", "download")
    [] OTHER -> Nothing

Plan(local, remote, manifest) ==
  [p \in Paths |-> Decide(local[p], remote[p], manifest[p])]

=============================================================================
