----------------------------- MODULE ImageCache -----------------------------
(***************************************************************************)
(* The cache of cloud images (internal/image): EnsureBaseImage, as the     *)
(* launches of several VMs of one release call it, over the two paths it   *)
(* uses: the cached image and the .part file it is downloaded to.          *)
(*                                                                         *)
(* The cache is in no VM's directory and no lock is taken for it.  A path  *)
(* names an inode, and a writer goes on writing to the inode it opened,    *)
(* at its own offset, wherever that inode is linked by then.  An image is  *)
(* `Blocks` blocks, each of which holds what its writer received: a        *)
(* version the mirror publishes, or the body that came in its place.       *)
(***************************************************************************)
EXTENDS Naturals

CONSTANTS
  Launches,     \* the invocations that need the image
  Files,        \* inodes
  Versions,     \* what the mirror may publish under "current"
  Blocks,       \* the size of an image
  NetFaults,    \* what may happen to a request: a subset of FaultKinds
  Concurrent,   \* TRUE: two launches may be in EnsureBaseImage at a time
  UnlinkOpen,   \* TRUE: an open file can be removed and renamed (FALSE: Windows)
  NoFile,       \* no inode
  Hole,         \* a block that was never written
  Altered       \* a body that the mirror did not publish, and a block of it

\* "nosums": SHA256SUMS may be unobtainable, or be something without the image's line.
\* "altered": a 200 may come with a body that is not the mirror's (a captive portal's
\* page, a damaged mirror).  Each request may meet its own, whatever the last one met.
FaultKinds == {"nosums", "altered"}

ASSUME CacheAssumption ==
  /\ Blocks \in Nat \ {0}
  /\ NoFile \notin Files
  /\ Altered \notin Versions /\ Hole \notin Versions /\ Hole # Altered
  /\ NetFaults \subseteq FaultKinds
  /\ {Concurrent, UnlinkOpen} \subseteq BOOLEAN

VARIABLES
  path,       \* the inode at "dest" and at "part"
  file,       \* per inode: its blocks
  launch,     \* per launch: where it is in EnsureBaseImage, and its locals
  published,  \* the version under "current"
  unchecked,  \* TRUE: the cached image was put there without sums (a history variable)
  backing     \* TRUE: a VM's disk is an overlay over the cached image

cacheVars == <<path, file, launch, published, unchecked, backing>>

Content == [1 .. Blocks -> Versions \union {Hole, Altered}]
Empty   == [b \in 1 .. Blocks |-> Hole]

(* wantSum is the version whose hash SHA256SUMS gave, or Hole for none;    *)
(* body the one being received, fd the open .part file, off the next block.*)
Local == [at : {"idle", "stat", "sums", "clean", "request", "create", "copy",
                "discard", "rename", "overlay"},
          wantSum : Versions \union {Hole}, body : Versions \union {Hole, Altered},
          fd : Files \union {NoFile}, off : 1 .. Blocks + 1]
Idle == [at |-> "idle", wantSum |-> Hole, body |-> Hole, fd |-> NoFile, off |-> 1]

CacheTypeOK ==
  /\ path \in [{"dest", "part"} -> Files \union {NoFile}]
  /\ file \in [Files -> Content]
  /\ launch \in [Launches -> Local]
  /\ published \in Versions
  /\ unchecked \in BOOLEAN
  /\ backing \in BOOLEAN

CacheInit ==
  /\ path = [x \in {"dest", "part"} |-> NoFile]
  /\ file = [i \in Files |-> Empty]
  /\ launch = [p \in Launches |-> Idle]
  /\ published \in Versions
  /\ unchecked = FALSE
  /\ backing = FALSE

-----------------------------------------------------------------------------
At(p, step)   == launch[p].at = step
Goto(p, step) == launch' = [launch EXCEPT ![p] = [@ EXCEPT !.at = step]]
Done(p)       == launch' = [launch EXCEPT ![p] = Idle]

IsOpen(i)  == i # NoFile /\ \E p \in Launches : launch[p].fd = i
FreeFiles  == {i \in Files : i \notin {path["dest"], path["part"]} /\ ~IsOpen(i)}

\* os.Remove of the .part file: its error, if any, is ignored wherever it is called.
RemovePart ==
  path' = IF UnlinkOpen \/ ~IsOpen(path["part"])
          THEN [path EXCEPT !["part"] = NoFile] ELSE path

\* EnsureBaseImage is called.
Ensure(p) ==
  /\ At(p, "idle")
  /\ Concurrent \/ \A q \in Launches : At(q, "idle")
  /\ Goto(p, "stat")
  /\ UNCHANGED <<path, file, published, unchecked, backing>>

\* Mutant of Stat: a cached image is fetched again.
StatRefreshing(p) ==
  /\ At(p, "stat")
  /\ Goto(p, "sums")
  /\ UNCHANGED <<path, file, published, unchecked, backing>>

\* A cached image that is not empty is used as it is.
Stat(p) ==
  /\ At(p, "stat")
  /\ Goto(p, IF path["dest"] # NoFile /\ file[path["dest"]] # Empty
             THEN "overlay" ELSE "sums")
  /\ UNCHANGED <<path, file, published, unchecked, backing>>

\* fetchSHA256: an error of any kind, a status, a timeout or a page without the image's
\* line, means no verification.
FetchSums(p) ==
  /\ At(p, "sums")
  /\ \E s \in {published} \union (IF "nosums" \in NetFaults THEN {Hole} ELSE {}) :
       launch' = [launch EXCEPT ![p] = [@ EXCEPT !.at = "clean", !.wantSum = s]]
  /\ UNCHANGED <<path, file, published, unchecked, backing>>

\* What an earlier download left is removed.
Clean(p) ==
  /\ At(p, "clean")
  /\ RemovePart
  /\ Goto(p, "request")
  /\ UNCHANGED <<file, published, unchecked, backing>>

\* downloadTo: the response begins, whose body is what is published by now.
Request(p) ==
  /\ At(p, "request")
  /\ \E c \in {published} \union (IF "altered" \in NetFaults THEN {Altered} ELSE {}) :
       launch' = [launch EXCEPT ![p] = [@ EXCEPT !.at = "create", !.body = c]]
  /\ UNCHANGED <<path, file, published, unchecked, backing>>

\* os.Create: an existing .part file is truncated, whoever is writing to it.
Create(p) ==
  /\ At(p, "create")
  /\ \E i \in IF path["part"] = NoFile THEN FreeFiles ELSE {path["part"]} :
       /\ path' = [path EXCEPT !["part"] = i]
       /\ file' = [file EXCEPT ![i] = Empty]
       /\ launch' = [launch EXCEPT ![p] = [@ EXCEPT !.at = "copy", !.fd = i, !.off = 1]]
  /\ UNCHANGED <<published, unchecked, backing>>

\* io.Copy: one block of the body.
Copy(p) ==
  /\ At(p, "copy") /\ launch[p].off <= Blocks
  /\ file' = [file EXCEPT ![launch[p].fd] = [@ EXCEPT ![launch[p].off] = launch[p].body]]
  /\ launch' = [launch EXCEPT ![p] = [@ EXCEPT !.off = launch[p].off + 1]]
  /\ UNCHANGED <<path, published, unchecked, backing>>

\* Mutant of Finish: the checksum is fetched and not compared.
FinishUnverified(p) ==
  /\ At(p, "copy") /\ launch[p].off = Blocks + 1
  /\ launch' = [launch EXCEPT ![p] = [@ EXCEPT !.at = "rename", !.fd = NoFile]]
  /\ UNCHANGED <<path, file, published, unchecked, backing>>

\* The body has ended: close, and compare the hash of what was received, which is
\* not read back from the file.
Finish(p) ==
  /\ At(p, "copy") /\ launch[p].off = Blocks + 1
  /\ launch' = [launch EXCEPT ![p] =
       [@ EXCEPT !.fd = NoFile,
                 !.at = IF launch[p].wantSum \in {Hole, launch[p].body}
                        THEN "rename" ELSE "discard"]]
  /\ UNCHANGED <<path, file, published, unchecked, backing>>

\* The request, the copy, the sync or the close fails, or Ctrl-C ends it.
Interrupt(p) ==
  /\ launch[p].at \in {"request", "create", "copy"}
  /\ launch' = [launch EXCEPT ![p] = [@ EXCEPT !.at = "discard", !.fd = NoFile]]
  /\ UNCHANGED <<path, file, published, unchecked, backing>>

\* The .part file is removed on the way out of an error.
Discard(p) ==
  /\ At(p, "discard")
  /\ RemovePart
  /\ Done(p)
  /\ UNCHANGED <<file, published, unchecked, backing>>

\* os.Rename of whatever is at .part by now.
Rename(p) ==
  /\ At(p, "rename")
  /\ IF path["part"] # NoFile /\ (UnlinkOpen \/ ~IsOpen(path["part"]))
     THEN /\ path' = [x \in {"dest", "part"} |->
                        IF x = "dest" THEN path["part"] ELSE NoFile]
          /\ unchecked' = (launch[p].wantSum = Hole)
          /\ Goto(p, "overlay")
     ELSE Goto(p, "discard") /\ UNCHANGED <<path, unchecked>>
  /\ UNCHANGED <<file, published, backing>>

\* The caller makes its disk an overlay over the path it was given.
CreateOverlay(p) ==
  /\ At(p, "overlay")
  /\ backing' = (backing \/ path["dest"] # NoFile)
  /\ Done(p)
  /\ UNCHANGED <<path, file, published, unchecked>>

\* The process dies: the kernel closes its files.
Die(p) ==
  /\ ~At(p, "idle")
  /\ Done(p)
  /\ UNCHANGED <<path, file, published, unchecked, backing>>

\* The mirror moves "current" to another build.
Publish ==
  /\ published' \in Versions
  /\ UNCHANGED <<path, file, launch, unchecked, backing>>

CacheNext ==
  \/ \E p \in Launches :
       \/ Ensure(p) \/ Stat(p) \/ FetchSums(p) \/ Clean(p) \/ Request(p) \/ Create(p)
       \/ Copy(p) \/ Finish(p) \/ Interrupt(p) \/ Discard(p) \/ Rename(p)
       \/ CreateOverlay(p) \/ Die(p)
  \/ Publish

CacheSpec == CacheInit /\ [][CacheNext]_cacheVars

-----------------------------------------------------------------------------
AllOf(c) == [b \in 1 .. Blocks |-> c]
Whole(i) == \E v \in Versions : file[i] = AllOf(v)

\* A cached image is one body from its first block to its last, and a build of the
\* release unless its sums could not be had: no launch that was interrupted, died,
\* failed its checksum or met another one has left anything else at the path that later
\* launches take on trust.
CachedIsWhole ==
  path["dest"] # NoFile =>
    Whole(path["dest"]) \/ (unchecked /\ file[path["dest"]] = AllOf(Altered))

\* What the path of a cached image names does not change once a VM's disk is an
\* overlay over it: the overlay's blocks mean nothing over another image.
BackingNeverChanges ==
  [][backing => /\ path'["dest"] = path["dest"]
                /\ file'[path["dest"]] = file[path["dest"]]]_cacheVars

=============================================================================
