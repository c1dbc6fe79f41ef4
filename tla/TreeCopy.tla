------------------------------ MODULE TreeCopy ------------------------------
(***************************************************************************)
(* `vc cp` (cli/cp.go, share/copy.go and the tree copies of sshx/sftp.go): *)
(* a walk of the source in pre-order that makes each directory and copies  *)
(* each file as it comes to it, while the user goes on working there.  The *)
(* first error ends the copy; what was copied stays.                       *)
(*                                                                         *)
(* A path is the sequence of names below the root of the copy.             *)
(***************************************************************************)
EXTENDS Naturals, Sequences, FiniteSets

CONSTANTS Paths  \* of the source: finitely many, closed under prefixes

ASSUME PathsAssumption ==
  /\ <<>> \in Paths /\ IsFiniteSet(Paths)
  /\ \A p \in Paths : p \in Seq({p[i] : i \in DOMAIN p})
  /\ \A p \in Paths : \A k \in 0 .. Len(p) : SubSeq(p, 1, k) \in Paths

Kinds == {"dir", "closed", "file", "link"}  \* "closed": not writable; "link": to a directory

VARIABLES
  source,  \* per path: its kind, or "none"
  target,  \* per path: what the copy has made of it; "partial" is a truncated file
  copy,    \* the walk: its direction, step, paths to come, and outcome
  steady   \* no code has it: what has been in the source since the copy began

copyVars == <<source, target, copy, steady>>

CopyTypeOK ==
  /\ source \in [Paths -> Kinds \union {"none"}]
  /\ target \in [Paths -> {"none", "dir", "closed", "partial", "file"}]
  /\ copy.way \in {"up", "down"} /\ copy.at \in {"idle", "walk", "fill"}
  /\ copy.todo \in Seq(Paths) /\ copy.out \in {"none", "ok", "failed"}
  /\ steady \subseteq Paths

IsDir(kind) == kind \in {"dir", "closed"}
Parent(p)   == SubSeq(p, 1, Len(p) - 1)

\* A tree: what is there has directories above it.
IsTree(tree) ==
  \A p \in Paths : tree[p] # "none" =>
    \A k \in 0 .. Len(p) - 1 : IsDir(tree[SubSeq(p, 1, k)])

CopyInit ==
  /\ source \in {t \in [Paths -> Kinds \union {"none"}] : t[<<>>] # "none" /\ IsTree(t)}
  /\ target = [p \in Paths |-> "none"]
  /\ copy = [way |-> "up", at |-> "idle", todo |-> <<>>, out |-> "none"]
  /\ steady = {}

\* What a directory is seen to hold, in some order.
Listings(p) ==
  LET below == {q \in Paths \ {<<>>} : Parent(q) = p /\ source[q] # "none"}
  IN  {s \in [1 .. Cardinality(below) -> below] : \A q \in below : \E i \in DOMAIN s : s[i] = q}

Next1 == Head(copy.todo)
CopyEnds(out) == copy' = [copy EXCEPT !.at = "idle", !.todo = <<>>, !.out = out]

\* Upload or Download: a stat of the root, which follows a link, then the walk, which
\* does not.
CopyStarts ==
  /\ copy.at = "idle"
  /\ \E w \in {"up", "down"} :
       copy' = [way |-> w, at |-> "walk", todo |-> <<<<>>>>, out |-> "none"]
  /\ target' = [p \in Paths |-> "none"]
  /\ steady' = {p \in Paths : source[p] # "none"}
  /\ UNCHANGED source

\* A directory: made, on the guest with its mode, and read.
CopyDir ==
  /\ copy.at = "walk" /\ copy.todo # <<>> /\ IsDir(source[Next1])
  /\ target' = [target EXCEPT ![Next1] = IF copy.way = "up" THEN source[Next1] ELSE "dir"]
  /\ \E s \in Listings(Next1) : copy' = [copy EXCEPT !.todo = s \o Tail(@)]
  /\ UNCHANGED <<source, steady>>

SkipLink ==
  /\ copy.at = "walk" /\ copy.todo # <<>> /\ source[Next1] = "link"
  /\ copy' = [copy EXCEPT !.todo = Tail(@)]
  /\ UNCHANGED <<source, target, steady>>

\* Whether a file can be made at p: its directory must let it.
Writable(p) == p = <<>> \/ target[Parent(p)] = "dir"

\* UploadFile, DownloadFile: the file is opened, its copy made or truncated, ...
CopyFile ==
  /\ copy.at = "walk" /\ copy.todo # <<>> /\ source[Next1] = "file" /\ Writable(Next1)
  /\ target' = [target EXCEPT ![Next1] = "partial"]
  /\ copy' = [copy EXCEPT !.at = "fill"]
  /\ UNCHANGED <<source, steady>>

\* ... and filled from the open file, whatever becomes of its name.
FillFile ==
  /\ copy.at = "fill"
  /\ target' = [target EXCEPT ![Next1] = "file"]
  /\ copy' = [copy EXCEPT !.at = "walk", !.todo = Tail(@)]
  /\ UNCHANGED <<source, steady>>

\* Mutant of CopyFails: the walk goes on with the next file.
CopyFailsOn ==
  /\ copy.at \in {"walk", "fill"} /\ copy.todo # <<>>
  /\ copy' = [copy EXCEPT !.at = "walk", !.todo = Tail(@)]
  /\ UNCHANGED <<source, target, steady>>

\* Any of the steps fails: a name that has gone, a directory that is closed, a full
\* disk, a lost connection.
CopyFails ==
  /\ copy.at \in {"walk", "fill"} /\ copy.todo # <<>>
  /\ CopyEnds("failed")
  /\ UNCHANGED <<source, target, steady>>

CopyDone ==
  /\ copy.at = "walk" /\ copy.todo = <<>>
  /\ CopyEnds("ok")
  /\ UNCHANGED <<source, target, steady>>

\* The user, while the copy is under way.
Vanishes(p) ==
  /\ copy.at # "idle" /\ p # <<>> /\ source[p] # "none"
  /\ source' = [q \in Paths |->
       IF Len(q) >= Len(p) /\ SubSeq(q, 1, Len(p)) = p THEN "none" ELSE source[q]]
  /\ steady' = {q \in steady : source'[q] # "none"}
  /\ UNCHANGED <<target, copy>>

Emerges(p) ==
  /\ copy.at # "idle" /\ p # <<>> /\ source[p] = "none" /\ IsDir(source[Parent(p)])
  /\ source' = [source EXCEPT ![p] = "file"]
  /\ UNCHANGED <<target, copy, steady>>

CopyNext ==
  \/ CopyStarts \/ CopyDir \/ SkipLink \/ CopyFile \/ FillFile \/ CopyFails \/ CopyDone
  \/ \E p \in Paths : Vanishes(p) \/ Emerges(p)

CopySpec == CopyInit /\ [][CopyNext]_copyVars

-----------------------------------------------------------------------------
\* A copy that reports success has copied every file that was in the source all the
\* while, whole, if the root of the source is not itself a link; and has left no file
\* half copied, one that the user removed meanwhile included.
CopyIsComplete ==
  (copy.at = "idle" /\ copy.out = "ok" /\ source[<<>>] # "link") =>
    /\ \A p \in steady : source[p] = "file" => target[p] = "file"
    /\ \A p \in Paths : target[p] # "partial"

=============================================================================
