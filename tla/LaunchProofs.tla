---------------------------- MODULE LaunchProofs ----------------------------
(***************************************************************************)
(* What a launch puts beside a new VM.                                     *)
(*                                                                         *)
(* The image it is based on, when one launch at a time is in               *)
(* EnsureBaseImage, for any number of launches, any sizes and whatever may *)
(* happen to each request: whatever interrupts a download, what is cached  *)
(* is one body, the mirror's unless its sums were missing, and a backing   *)
(* file stays as it is.  (Two launches at a time can break both: see the   *)
(* run image_race.)                                                        *)
(*                                                                         *)
(* Its seed, for any key pairs, proxies and documents: however often       *)
(* creating the VM was tried, its seed is whole, authorises the key in its *)
(* directory, and fits its image; and a guest looks for a proxy on its own *)
(* loopback only if its endpoint is one that vc cannot take apart.         *)
(***************************************************************************)
EXTENDS ImageCache, GuestSeed, WellFoundedInduction, TLAPS

-----------------------------------------------------------------------------
(* The image cache.                                                        *)

\* The steps before which a launch has found nothing cached.
Fetching == {"sums", "clean", "request", "create", "copy", "rename"}

\* File i holds one body; the mirror's, if there were sums to compare it with.
OneBody(i, nosums) == Whole(i) \/ (nosums /\ file[i] = AllOf(Altered))

\* What a launch with the locals r knows.
LocalOK(r) ==
  /\ r.at # "copy" => r.fd = NoFile
  /\ r.at \in {"create", "copy"} => r.body # Hole
  /\ r.at = "copy" => /\ r.fd # NoFile /\ r.fd = path["part"]
                      /\ \A b \in 1 .. Blocks : b < r.off => file[r.fd][b] = r.body
  /\ (r.at = "rename" /\ path["part"] # NoFile)
        => OneBody(path["part"], r.wantSum = Hole)
  /\ r.at \in Fetching => ~backing

OneAtWork(p) == \A q \in Launches \ {p} : launch[q].at = "idle"

PathsOK ==
  /\ path["part"] # NoFile => path["part"] # path["dest"]
  /\ backing => path["dest"] # NoFile

CacheInv ==
  /\ CacheTypeOK
  /\ \A p \in Launches : LocalOK(launch[p]) /\ (launch[p].at # "idle" => OneAtWork(p))
  /\ PathsOK
  /\ CachedIsWhole

\* The locals of a launch that is not in EnsureBaseImage.
LEMMA IdleOK == Idle \in Local /\ Idle.at = "idle" /\ LocalOK(Idle)
  BY CacheAssumption DEF Idle, Local, LocalOK, Fetching

\* Nothing is cached and nobody is at work.
LEMMA InitCacheInv == CacheInit => CacheInv
<1> SUFFICES ASSUME CacheInit PROVE CacheInv
  OBVIOUS
<1>1. Empty \in Content
  BY DEF Empty, Content
<1>2. CacheTypeOK
  BY <1>1, IdleOK DEF CacheInit, CacheTypeOK
<1>3. \A p \in Launches : launch[p] = Idle
  BY DEF CacheInit
<1>. QED BY <1>2, <1>3, IdleOK DEF CacheInit, CacheInv, OneAtWork, PathsOK, CachedIsWhole

-----------------------------------------------------------------------------
\* What the updates of the model do to the locals of a launch.
Steps == {"stat", "sums", "request", "rename", "discard", "overlay"}

\* A launch's locals after a step that moves it on and does nothing else.
LEMMA Going ==
  ASSUME NEW r \in Local, NEW s \in Steps
  PROVE  \E n \in Local : /\ n = [r EXCEPT !.at = s]
                          /\ n.at = s /\ n.fd = r.fd /\ n.wantSum = r.wantSum
<1> DEFINE m == [r EXCEPT !.at = s]
<1>0. m = [r EXCEPT !.at = s]
  OBVIOUS
<1>2. /\ m \in Local
      /\ m.at = s /\ m.fd = r.fd /\ m.wantSum = r.wantSum
  BY DEF Local, Steps
<1> HIDE DEF m
<1>. QED BY <1>0, <1>2

\* After the checksum is obtained, or is not.
LEMMA GivingSum ==
  ASSUME NEW r \in Local, NEW c \in Versions \union {Hole}
  PROVE  \E n \in Local : /\ n = [r EXCEPT !.at = "clean", !.wantSum = c]
                          /\ n.at = "clean" /\ n.fd = r.fd /\ n.wantSum = c
<1> DEFINE m == [r EXCEPT !.at = "clean", !.wantSum = c]
<1>0. m = [r EXCEPT !.at = "clean", !.wantSum = c]
  OBVIOUS
<1>2. /\ m \in Local
      /\ m.at = "clean" /\ m.fd = r.fd /\ m.wantSum = c
  BY DEF Local
<1> HIDE DEF m
<1>. QED BY <1>0, <1>2

\* After the response begins.
LEMMA GivingBody ==
  ASSUME NEW r \in Local, NEW c \in Versions \union {Altered}
  PROVE  \E n \in Local : /\ n = [r EXCEPT !.at = "create", !.body = c]
                          /\ n.at = "create" /\ n.fd = r.fd
                          /\ n.wantSum = r.wantSum /\ n.body = c
<1> DEFINE m == [r EXCEPT !.at = "create", !.body = c]
<1>0. m = [r EXCEPT !.at = "create", !.body = c]
  OBVIOUS
<1>2. /\ m \in Local
      /\ m.at = "create" /\ m.fd = r.fd
      /\ m.wantSum = r.wantSum /\ m.body = c
  BY DEF Local
<1> HIDE DEF m
<1>. QED BY <1>0, <1>2

\* After the .part file is created.
LEMMA Opening ==
  ASSUME NEW r \in Local, NEW i \in Files
  PROVE  \E n \in Local : /\ n = [r EXCEPT !.at = "copy", !.fd = i, !.off = 1]
                          /\ n.at = "copy" /\ n.fd = i /\ n.off = 1
                          /\ n.wantSum = r.wantSum /\ n.body = r.body
<1> DEFINE m == [r EXCEPT !.at = "copy", !.fd = i, !.off = 1]
<1>0. m = [r EXCEPT !.at = "copy", !.fd = i, !.off = 1]
  OBVIOUS
<1>1. 1 \in 1 .. Blocks + 1
  BY CacheAssumption
<1>2. /\ m \in Local
      /\ m.at = "copy" /\ m.fd = i /\ m.off = 1
      /\ m.wantSum = r.wantSum /\ m.body = r.body
  BY <1>1 DEF Local
<1> HIDE DEF m
<1>. QED BY <1>0, <1>2

\* After a block is written.
LEMMA Advancing ==
  ASSUME NEW r \in Local, NEW o \in 1 .. Blocks + 1
  PROVE  \E n \in Local : /\ n = [r EXCEPT !.off = o]
                          /\ n.at = r.at /\ n.fd = r.fd /\ n.off = o
                          /\ n.wantSum = r.wantSum /\ n.body = r.body
<1> DEFINE m == [r EXCEPT !.off = o]
<1>0. m = [r EXCEPT !.off = o]
  OBVIOUS
<1>2. /\ m \in Local
      /\ m.at = r.at /\ m.fd = r.fd /\ m.off = o
      /\ m.wantSum = r.wantSum /\ m.body = r.body
  BY DEF Local
<1> HIDE DEF m
<1>. QED BY <1>0, <1>2

\* After the .part file is closed.
LEMMA Closing ==
  ASSUME NEW r \in Local, NEW s \in Steps
  PROVE  \E n \in Local : /\ n = [r EXCEPT !.fd = NoFile, !.at = s]
                          /\ n = [r EXCEPT !.at = s, !.fd = NoFile]
                          /\ n.at = s /\ n.fd = NoFile /\ n.wantSum = r.wantSum
<1> DEFINE m == [r EXCEPT !.fd = NoFile, !.at = s]
<1>0. m = [r EXCEPT !.fd = NoFile, !.at = s]
  OBVIOUS
<1>2. /\ m \in Local
      /\ m = [r EXCEPT !.at = s, !.fd = NoFile]
      /\ m.at = s /\ m.fd = NoFile /\ m.wantSum = r.wantSum
  BY DEF Local, Steps
<1> HIDE DEF m
<1>. QED BY <1>0, <1>2

\* The launch at work takes a step.
LEMMA Turn ==
  ASSUME CacheInv, NEW p \in Launches, OneAtWork(p), NEW r \in Local,
         launch' = [launch EXCEPT ![p] = r], LocalOK(r)',
         path' \in [{"dest", "part"} -> Files \union {NoFile}], file' \in [Files -> Content],
         published' \in Versions, unchecked' \in BOOLEAN, backing' \in BOOLEAN,
         PathsOK', CachedIsWhole'
  PROVE  CacheInv'
<1>1. CacheTypeOK'
  BY DEF CacheInv, CacheTypeOK
<1>2. \A q \in Launches : launch'[q] = IF q = p THEN r ELSE launch[q]
  BY DEF CacheInv, CacheTypeOK
<1>3. ASSUME NEW q \in Launches, q # p
      PROVE  launch'[q].at = "idle" /\ LocalOK(launch[q])'
  BY <1>2, <1>3 DEF OneAtWork, CacheInv, LocalOK, Fetching
<1>4. OneAtWork(p)'
  BY <1>3 DEF OneAtWork
<1>. QED BY <1>1, <1>2, <1>3, <1>4 DEF CacheInv

\* ... and touches neither the paths nor the files.
LEMMA Quiet ==
  ASSUME CacheInv, NEW p \in Launches, OneAtWork(p), NEW r \in Local,
         launch' = [launch EXCEPT ![p] = r], LocalOK(r),
         UNCHANGED <<path, file, published, unchecked, backing>>
  PROVE  CacheInv'
<1>1. LocalOK(r)' /\ PathsOK' /\ CachedIsWhole'
  BY DEF LocalOK, OneBody, CacheInv, PathsOK, CachedIsWhole, Whole, AllOf
<1>. QED BY <1>1, Turn DEF CacheInv, CacheTypeOK

\* The .part file goes, or is still the one it was.
LEMMA PartGone ==
  ASSUME CacheInv, RemovePart
  PROVE  /\ path' \in [{"dest", "part"} -> Files \union {NoFile}]
         /\ path'["dest"] = path["dest"] /\ path'["part"] \in {path["part"], NoFile}
  BY DEF CacheInv, CacheTypeOK, RemovePart

\* With one launch at a time every step keeps CacheInv.
LEMMA StepCacheInv ==
  ASSUME ~Concurrent
  PROVE  CacheInv /\ [CacheNext]_cacheVars => CacheInv'
<1> SUFFICES ASSUME CacheInv, [CacheNext]_cacheVars PROVE CacheInv'
  OBVIOUS
<1>a. CacheTypeOK
  BY DEF CacheInv
<1>b. ASSUME NEW p \in Launches
      PROVE  /\ launch[p] \in Local /\ LocalOK(launch[p])
             /\ launch[p].at # "idle" => OneAtWork(p)
  BY DEF CacheInv, CacheTypeOK
<1>c. ASSUME NEW p \in Launches, launch' = [launch EXCEPT ![p] = Idle],
             launch[p].at # "idle", UNCHANGED <<path, file, published, unchecked, backing>>
      PROVE  CacheInv'
  BY <1>b, <1>c, IdleOK, Quiet
<1>d. /\ "stat" \in Steps /\ "sums" \in Steps /\ "request" \in Steps
      /\ "rename" \in Steps /\ "discard" \in Steps /\ "overlay" \in Steps
  BY DEF Steps
<1>1. ASSUME NEW p \in Launches, Ensure(p) PROVE CacheInv'
  <2>1. OneAtWork(p) /\ launch[p].fd = NoFile /\ launch[p].at = "idle"
    BY <1>1, <1>b DEF Ensure, At, OneAtWork, LocalOK
  <2>2. PICK r \in Local : /\ r = [launch[p] EXCEPT !.at = "stat"]
                           /\ r.at = "stat" /\ r.fd = launch[p].fd
                           /\ r.wantSum = launch[p].wantSum
    BY <1>b, <1>d, Going, Zenon
  <2>3. LocalOK(r)
    BY <2>1, <2>2 DEF LocalOK, Fetching
  <2>4. launch' = [launch EXCEPT ![p] = r]
    BY <1>1, <2>2 DEF Ensure, Goto
  <2>. QED BY <1>1, <2>1, <2>3, <2>4, Quiet DEF Ensure
<1>2. ASSUME NEW p \in Launches, Stat(p) PROVE CacheInv'
  <2>1. OneAtWork(p) /\ launch[p].fd = NoFile /\ launch[p].at = "stat"
    BY <1>2, <1>b DEF Stat, At, LocalOK
  <2>2. ASSUME NEW i \in Files, OneBody(i, unchecked) PROVE file[i] # Empty
    <3>1. 1 \in 1 .. Blocks
      BY CacheAssumption
    <3>2. Empty[1] = Hole /\ \A c : AllOf(c)[1] = c
      BY <3>1 DEF Empty, AllOf
    <3>3. PICK c \in Versions \union {Altered} : file[i] = AllOf(c)
      BY <2>2 DEF OneBody, Whole
    <3>. QED BY <3>2, <3>3, CacheAssumption
  <2>3. backing => path["dest"] # NoFile /\ file[path["dest"]] # Empty
    BY <2>2, <1>a DEF CacheInv, CacheTypeOK, CachedIsWhole, PathsOK, OneBody
  <2>4. PICK s \in {"overlay", "sums"} : Goto(p, s) /\ (s = "sums" => ~backing)
    BY <1>2, <2>3 DEF Stat
  <2>5. PICK r \in Local : /\ r = [launch[p] EXCEPT !.at = s]
                           /\ r.at = s /\ r.fd = launch[p].fd
                           /\ r.wantSum = launch[p].wantSum
    <3>1. s \in Steps
      BY <1>d
    <3>. QED BY <3>1, <1>b, Going, Zenon
  <2>6. LocalOK(r)
    BY <2>1, <2>4, <2>5 DEF LocalOK, Fetching
  <2>7. launch' = [launch EXCEPT ![p] = r]
    BY <2>4, <2>5 DEF Goto
  <2>. QED BY <1>2, <2>1, <2>6, <2>7, Quiet DEF Stat
<1>3. ASSUME NEW p \in Launches, FetchSums(p) PROVE CacheInv'
  <2>1. /\ OneAtWork(p) /\ LocalOK(launch[p]) /\ launch[p].fd = NoFile
        /\ launch[p].at = "sums"
    BY <1>3, <1>b DEF FetchSums, At, LocalOK
  <2>2. PICK c \in {published} \union (IF "nosums" \in NetFaults THEN {Hole} ELSE {}) :
          launch' = [launch EXCEPT ![p] = [launch[p] EXCEPT !.at = "clean", !.wantSum = c]]
    BY <1>3 DEF FetchSums
  <2>3. c \in Versions \union {Hole}
    BY <2>2, <1>a, CacheAssumption DEF CacheTypeOK
  <2>0. PICK l \in Local : l = launch[p]
    BY <1>b
  <2>4. PICK r \in Local : /\ r = [l EXCEPT !.at = "clean", !.wantSum = c]
                           /\ r.at = "clean" /\ r.fd = l.fd /\ r.wantSum = c
    BY <2>3, GivingSum
  <2>5. LocalOK(r)
    BY <2>0, <2>1, <2>3, <2>4 DEF LocalOK, Fetching
  <2>6. launch' = [launch EXCEPT ![p] = r]
    BY <2>0, <2>2, <2>4
  <2>. QED BY <1>3, <2>1, <2>5, <2>6, Quiet DEF FetchSums
<1>4. ASSUME NEW p \in Launches, Clean(p) PROVE CacheInv'
  <2>1. /\ OneAtWork(p) /\ LocalOK(launch[p]) /\ launch[p].fd = NoFile
        /\ launch[p].at = "clean"
    BY <1>4, <1>b DEF Clean, At, LocalOK
  <2>2. PICK r \in Local : /\ r = [launch[p] EXCEPT !.at = "request"]
                           /\ r.at = "request" /\ r.fd = launch[p].fd
                           /\ r.wantSum = launch[p].wantSum
    BY <1>b, <1>d, Going, Zenon
  <2>3. RemovePart /\ UNCHANGED <<file, published, unchecked, backing>>
    BY <1>4 DEF Clean
  <2>4. LocalOK(r)'
    BY <2>1, <2>2, <2>3 DEF LocalOK, Fetching
  <2>5. launch' = [launch EXCEPT ![p] = r]
    BY <1>4, <2>2 DEF Clean, Goto
  <2>6. PathsOK' /\ CachedIsWhole'
    BY <2>3, PartGone DEF CacheInv, PathsOK, CachedIsWhole, Whole, AllOf
  <2>. QED BY <1>a, <2>1, <2>3, <2>4, <2>5, <2>6, PartGone, Turn DEF CacheTypeOK
<1>5. ASSUME NEW p \in Launches, Request(p) PROVE CacheInv'
  <2>1. /\ OneAtWork(p) /\ LocalOK(launch[p]) /\ launch[p].fd = NoFile
        /\ launch[p].at = "request"
    BY <1>5, <1>b DEF Request, At, LocalOK
  <2>2. PICK c \in {published} \union (IF "altered" \in NetFaults THEN {Altered} ELSE {}) :
          launch' = [launch EXCEPT ![p] = [launch[p] EXCEPT !.at = "create", !.body = c]]
    BY <1>5 DEF Request
  <2>3. c \in Versions \union {Altered} /\ c # Hole
    BY <2>2, <1>a, CacheAssumption DEF CacheTypeOK
  <2>0. PICK l \in Local : l = launch[p]
    BY <1>b
  <2>4. PICK r \in Local : /\ r = [l EXCEPT !.at = "create", !.body = c]
                           /\ r.at = "create" /\ r.fd = l.fd
                           /\ r.wantSum = l.wantSum /\ r.body = c
    BY <2>3, GivingBody
  <2>5. LocalOK(r)
    BY <2>0, <2>1, <2>3, <2>4 DEF LocalOK, Fetching
  <2>6. launch' = [launch EXCEPT ![p] = r]
    BY <2>0, <2>2, <2>4
  <2>. QED BY <1>5, <2>1, <2>5, <2>6, Quiet DEF Request
<1>6. ASSUME NEW p \in Launches, Create(p) PROVE CacheInv'
  <2>1. PICK i \in IF path["part"] = NoFile THEN FreeFiles ELSE {path["part"]} :
          /\ path' = [path EXCEPT !["part"] = i]
          /\ file' = [file EXCEPT ![i] = Empty]
          /\ launch' = [launch EXCEPT ![p] = [launch[p] EXCEPT !.at = "copy", !.fd = i, !.off = 1]]
    BY <1>6 DEF Create
  <2>2. i \in Files /\ i # path["dest"] /\ i # NoFile
    BY <2>1, <1>a, CacheAssumption DEF FreeFiles, CacheInv, CacheTypeOK, PathsOK
  <2>3. /\ path' \in [{"dest", "part"} -> Files \union {NoFile}]
        /\ path'["dest"] = path["dest"] /\ path'["part"] = i
    BY <2>1, <2>2, <1>a DEF CacheTypeOK
  <2>4. file' \in [Files -> Content] /\ \A j \in Files \ {i} : file'[j] = file[j]
    BY <2>1, <2>2, <1>a DEF CacheTypeOK, Empty, Content
  <2>5. PICK r \in Local : /\ r = [launch[p] EXCEPT !.at = "copy", !.fd = i, !.off = 1]
                           /\ r.at = "copy" /\ r.fd = i /\ r.off = 1
                           /\ r.wantSum = launch[p].wantSum /\ r.body = launch[p].body
    BY <2>2, <1>b, Opening
  <2>6. /\ OneAtWork(p) /\ LocalOK(launch[p]) /\ launch[p].at = "create"
        /\ UNCHANGED <<published, unchecked, backing>>
    BY <1>6, <1>b DEF Create, At
  <2>7. ~ \E b \in 1 .. Blocks : b < r.off
    BY <2>5, CacheAssumption
  <2>8. LocalOK(r)'
    BY <2>2, <2>3, <2>5, <2>6, <2>7 DEF LocalOK, Fetching
  <2>9. launch' = [launch EXCEPT ![p] = r]
    BY <2>1, <2>5
  <2>10. PathsOK' /\ CachedIsWhole'
    BY <2>6, <1>a, <2>2, <2>3, <2>4
    DEF CacheInv, CacheTypeOK, PathsOK, CachedIsWhole, Whole, AllOf
  <2>. QED BY <1>a, <2>3, <2>4, <2>6, <2>8, <2>9, <2>10, Turn DEF CacheTypeOK
<1>7. ASSUME NEW p \in Launches, Copy(p) PROVE CacheInv'
  <2>1. PICK l \in Local : l = launch[p]
    BY <1>b
  <2>2. /\ LocalOK(l) /\ OneAtWork(p) /\ l.at = "copy" /\ l.off <= Blocks
        /\ file' = [file EXCEPT ![l.fd] = [file[l.fd] EXCEPT ![l.off] = l.body]]
        /\ launch' = [launch EXCEPT ![p] = [l EXCEPT !.off = l.off + 1]]
        /\ UNCHANGED <<path, published, unchecked, backing>>
    BY <1>7, <1>b, <2>1 DEF Copy, At
  <2>3. /\ l.fd \in Files /\ l.fd = path["part"] /\ l.fd # path["dest"]
        /\ l.off \in 1 .. Blocks /\ l.body \in Versions \union {Hole, Altered}
    <3>1. l.fd \in Files \union {NoFile} /\ l.off \in 1 .. Blocks + 1
          /\ l.body \in Versions \union {Hole, Altered}
      BY DEF Local
    <3>. QED BY <2>2, <3>1, CacheAssumption DEF LocalOK, CacheInv, PathsOK
  <2>4. l.off + 1 \in 1 .. Blocks + 1
    BY <2>3, CacheAssumption
  <2>5. PICK r \in Local : /\ r = [l EXCEPT !.off = l.off + 1]
                           /\ r.at = l.at /\ r.fd = l.fd /\ r.off = l.off + 1
                           /\ r.wantSum = l.wantSum /\ r.body = l.body
    BY <2>4, Advancing
  <2>6. file[l.fd] \in Content
    BY <1>a, <2>3 DEF CacheTypeOK
  <2>7. /\ file' \in [Files -> Content]
        /\ \A j \in Files \ {l.fd} : file'[j] = file[j]
        /\ file'[l.fd] = [file[l.fd] EXCEPT ![l.off] = l.body]
    BY <1>a, <2>2, <2>3, <2>6 DEF CacheTypeOK, Content
  <2>8. \A b \in 1 .. Blocks : b < r.off => file'[r.fd][b] = r.body
    BY <2>2, <2>3, <2>5, <2>6, <2>7, CacheAssumption DEF LocalOK, Content
  <2>9. LocalOK(r)'
    BY <2>2, <2>3, <2>5, <2>8 DEF LocalOK, Fetching
  <2>10. PathsOK' /\ CachedIsWhole'
    BY <1>a, <2>2, <2>3, <2>7 DEF CacheInv, CacheTypeOK, PathsOK, CachedIsWhole, Whole, AllOf
  <2>11. launch' = [launch EXCEPT ![p] = r]
    BY <2>2, <2>5
  <2>. QED BY <1>a, <2>2, <2>7, <2>9, <2>10, <2>11, Turn DEF CacheTypeOK
<1>8. ASSUME NEW p \in Launches, Finish(p) PROVE CacheInv'
  <2>1. PICK l \in Local : l = launch[p]
    BY <1>b
  <2>2. /\ LocalOK(l) /\ OneAtWork(p) /\ l.at = "copy" /\ l.off = Blocks + 1
        /\ UNCHANGED <<path, file, published, unchecked, backing>>
    BY <1>8, <1>b, <2>1 DEF Finish, At
  <2>3. PICK s \in {"rename", "discard"} :
          /\ launch' = [launch EXCEPT ![p] = [l EXCEPT !.fd = NoFile, !.at = s]]
          /\ s = "rename" => l.wantSum \in {Hole, l.body}
    BY <1>8, <2>1 DEF Finish
  <2>4. s = "rename" => l.body \in Versions \/ (l.wantSum = Hole /\ l.body = Altered)
    BY <2>2, <2>3, CacheAssumption DEF LocalOK, Local
  <2>5. s = "rename" => OneBody(path["part"], l.wantSum = Hole)
    <3>1. l.fd = path["part"] /\ l.fd \in Files
      BY <2>2 DEF LocalOK, Local
    <3>2. file[l.fd] \in [1 .. Blocks -> Versions \union {Hole, Altered}]
      BY <1>a, <3>1 DEF CacheTypeOK, Content
    <3>3. \A b \in 1 .. Blocks : file[l.fd][b] = l.body
      BY <2>2, CacheAssumption DEF LocalOK
    <3>4. file[l.fd] = [b \in 1 .. Blocks |-> l.body]
      BY <3>2, <3>3
    <3>. QED BY <2>4, <3>1, <3>4 DEF OneBody, Whole, AllOf
  <2>6. PICK r \in Local : /\ r = [l EXCEPT !.fd = NoFile, !.at = s]
                           /\ r = [l EXCEPT !.at = s, !.fd = NoFile]
                           /\ r.at = s /\ r.fd = NoFile /\ r.wantSum = l.wantSum
    <3>1. s \in Steps
      BY <1>d
    <3>. QED BY <3>1, Closing
  <2>7. launch' = [launch EXCEPT ![p] = r]
    BY <2>3, <2>6
  <2>8. LocalOK(r)
    BY <2>2, <2>5, <2>6 DEF LocalOK, Fetching
  <2>. QED BY <2>2, <2>7, <2>8, Quiet
<1>9. ASSUME NEW p \in Launches, Interrupt(p) PROVE CacheInv'
  <2>0. PICK l \in Local : l = launch[p]
    BY <1>b
  <2>1. PICK r \in Local : /\ r = [l EXCEPT !.fd = NoFile, !.at = "discard"]
                           /\ r = [l EXCEPT !.at = "discard", !.fd = NoFile]
                           /\ r.at = "discard" /\ r.fd = NoFile
                           /\ r.wantSum = l.wantSum
    BY <1>d, Closing, Zenon
  <2>2. LocalOK(r)
    BY <2>1 DEF LocalOK, Fetching
  <2>3. launch' = [launch EXCEPT ![p] = r] /\ OneAtWork(p)
    BY <1>9, <1>b, <2>0, <2>1 DEF Interrupt
  <2>. QED BY <1>9, <2>2, <2>3, Quiet DEF Interrupt
<1>10. ASSUME NEW p \in Launches, Discard(p) PROVE CacheInv'
  <2>1. LocalOK(Idle)'
    BY IdleOK DEF Idle, LocalOK, Fetching
  <2>2. PathsOK' /\ CachedIsWhole'
    BY <1>10, PartGone DEF Discard, CacheInv, PathsOK, CachedIsWhole, Whole, AllOf
  <2>. QED BY <1>10, <1>a, <1>b, <2>1, <2>2, IdleOK, PartGone, Turn
           DEF Discard, Done, At, CacheTypeOK
<1>11. ASSUME NEW p \in Launches, Rename(p) PROVE CacheInv'
  <2>1. /\ launch[p].at = "rename" /\ OneAtWork(p) /\ LocalOK(launch[p])
        /\ launch[p].fd = NoFile /\ UNCHANGED <<file, published, backing>>
    BY <1>11, <1>b DEF Rename, At, LocalOK
  <2>2. CASE /\ path["part"] # NoFile /\ Goto(p, "overlay")
             /\ unchecked' = (launch[p].wantSum = Hole)
             /\ path' = [x \in {"dest", "part"} |->
                           IF x = "dest" THEN path["part"] ELSE NoFile]
    <3>1. PICK r \in Local : /\ r = [launch[p] EXCEPT !.at = "overlay"]
                             /\ r.at = "overlay" /\ r.fd = launch[p].fd
                             /\ r.wantSum = launch[p].wantSum
      BY <1>b, <1>d, Going, Zenon
    <3>2. LocalOK(r)'
      BY <2>1, <3>1 DEF LocalOK, Fetching
    <3>3. /\ path' \in [{"dest", "part"} -> Files \union {NoFile}]
          /\ path'["dest"] = path["part"] /\ path'["part"] = NoFile
      BY <2>2, <1>a DEF CacheTypeOK
    <3>4. PathsOK' /\ CachedIsWhole'
      BY <2>1, <2>2, <3>3 DEF LocalOK, OneBody, PathsOK, CachedIsWhole, Whole, AllOf
    <3>5. launch' = [launch EXCEPT ![p] = r]
      BY <2>2, <3>1 DEF Goto
    <3>. QED BY <1>a, <2>1, <2>2, <3>2, <3>3, <3>4, <3>5, Turn DEF CacheTypeOK
  <2>3. CASE Goto(p, "discard") /\ UNCHANGED <<path, unchecked>>
    <3>1. PICK r \in Local : /\ r = [launch[p] EXCEPT !.at = "discard"]
                             /\ r.at = "discard" /\ r.fd = launch[p].fd
                             /\ r.wantSum = launch[p].wantSum
      BY <1>b, <1>d, Going, Zenon
    <3>2. LocalOK(r)
      BY <2>1, <3>1 DEF LocalOK, Fetching
    <3>3. launch' = [launch EXCEPT ![p] = r]
      BY <2>3, <3>1 DEF Goto
    <3>. QED BY <2>1, <2>3, <3>2, <3>3, Quiet
  <2>. QED BY <1>11, <2>2, <2>3 DEF Rename
<1>12. ASSUME NEW p \in Launches, CreateOverlay(p) PROVE CacheInv'
  <2>1. LocalOK(Idle)'
    BY IdleOK DEF Idle, LocalOK, Fetching
  <2>2. PathsOK' /\ CachedIsWhole' /\ backing' \in BOOLEAN
    BY <1>12, <1>a
    DEF CreateOverlay, CacheInv, CacheTypeOK, PathsOK, CachedIsWhole, Whole, AllOf
  <2>. QED BY <1>12, <1>a, <1>b, <2>1, <2>2, IdleOK, Turn
           DEF CreateOverlay, Done, At, CacheTypeOK
<1>13. ASSUME NEW p \in Launches, Die(p) PROVE CacheInv'
  BY <1>13, <1>c DEF Die, Done, At
<1>14. ASSUME published' \in Versions, UNCHANGED <<path, file, launch, unchecked, backing>>
       PROVE  CacheInv'
  <2>1. CacheTypeOK' /\ PathsOK' /\ CachedIsWhole'
    BY <1>14 DEF CacheInv, CacheTypeOK, PathsOK, CachedIsWhole, Whole, AllOf
  <2>2. ASSUME NEW p \in Launches
        PROVE  LocalOK(launch[p])' /\ (launch'[p].at # "idle" => OneAtWork(p)')
    BY <1>b, <1>14 DEF LocalOK, OneBody, OneAtWork, Whole
  <2>. QED BY <2>1, <2>2 DEF CacheInv
<1>15. CASE Publish \/ UNCHANGED cacheVars
  BY <1>14, <1>15, <1>a DEF Publish, cacheVars, CacheTypeOK
<1>. QED BY <1>1, <1>2, <1>3, <1>4, <1>5, <1>6, <1>7, <1>8, <1>9, <1>10, <1>11, <1>12,
            <1>13, <1>15 DEF CacheNext

-----------------------------------------------------------------------------
\* Whatever is interrupted, dies, fails its checksum or is altered on the way, each
\* request meeting its own fault: what a later launch finds cached is one body from its
\* first block to its last, and a build of the release unless its sums were missing
\* (image.EnsureBaseImage, when one launch at a time is in it).
THEOREM CacheIsWhole ==
  ASSUME ~Concurrent
  PROVE  CacheSpec => []CachedIsWhole
<1>1. CacheInv => CachedIsWhole
  BY DEF CacheInv
<1>. QED BY <1>1, InitCacheInv, StepCacheInv, PTL DEF CacheSpec

\* An image over which a VM's overlay was made stays at its path, block for block.
THEOREM BackingStays ==
  ASSUME ~Concurrent
  PROVE  CacheSpec => BackingNeverChanges
<1> DEFINE Kept == backing => /\ path'["dest"] = path["dest"]
                              /\ file'[path["dest"]] = file[path["dest"]]
<1>1. CacheInv /\ [CacheNext]_cacheVars => Kept
  <2> SUFFICES ASSUME CacheInv, [CacheNext]_cacheVars, backing
               PROVE  path'["dest"] = path["dest"] /\ file'[path["dest"]] = file[path["dest"]]
    OBVIOUS
  <2>1. ASSUME NEW p \in Launches PROVE launch[p].at \notin Fetching
    BY DEF CacheInv, LocalOK
  <2>2. ASSUME NEW p \in Launches, Create(p) \/ Copy(p) \/ Rename(p) PROVE FALSE
    BY <2>1, <2>2 DEF Create, Copy, Rename, At, Fetching
  <2>3. ASSUME RemovePart PROVE path'["dest"] = path["dest"]
    BY <2>3, PartGone
  <2>4. ASSUME NEW p \in Launches, Clean(p) \/ Discard(p)
        PROVE  path'["dest"] = path["dest"] /\ UNCHANGED file
    BY <2>3, <2>4 DEF Clean, Discard
  <2>5. CASE \/ \E p \in Launches :
                  \/ Ensure(p) \/ Stat(p) \/ FetchSums(p) \/ Request(p) \/ Finish(p)
                  \/ Interrupt(p) \/ CreateOverlay(p) \/ Die(p)
             \/ Publish \/ UNCHANGED cacheVars
    BY <2>5 DEF Ensure, Stat, FetchSums, Request, Finish, Interrupt, CreateOverlay, Die,
                Publish, cacheVars
  <2>. QED BY <2>2, <2>4, <2>5 DEF CacheNext
<1>2. CacheSpec => []CacheInv
  BY InitCacheInv, StepCacheInv, PTL DEF CacheSpec
<1>. QED BY <1>1, <1>2, PTL DEF CacheSpec, BackingNeverChanges

-----------------------------------------------------------------------------
(* Sizes.                                                                  *)

\* Rounding up gives a whole number of sectors, and no less.
LEMMA RoundUpOK ==
  ASSUME NEW n \in Nat
  PROVE  RoundUp(n) \in Nat /\ RoundUp(n) % SectorSize = 0 /\ RoundUp(n) >= n
<1>1. CASE n = 0
  BY <1>1 DEF RoundUp, SectorSize
<1>2. CASE n > 0
  <2>1. PICK q : q = (n + SectorSize - 1) \div SectorSize
    OBVIOUS
  <2>2. q \in Nat /\ q * 2048 >= n /\ (q * 2048) % 2048 = 0
    BY <1>2, <2>1 DEF SectorSize
  <2>3. RoundUp(n) = q * 2048
    BY <1>2, <2>1 DEF RoundUp, SectorSize
  <2>. QED BY <2>2, <2>3 DEF SectorSize
<1>. QED BY <1>1, <1>2

\* The image is sized in sectors, for both documents and the overhead.
LEMMA ImageSizeOK ==
  ASSUME NEW user \in Nat, NEW meta \in Nat
  PROVE  /\ ImageSize(user, meta) \in Nat
         /\ ImageSize(user, meta) % SectorSize = 0
         /\ ImageSize(user, meta) >= user + meta + ImageOverhead
<1> DEFINE t == RoundUp(user) + RoundUp(meta) + ImageOverhead
           m == IF t < MinImageSize THEN MinImageSize ELSE t
<1>1. ImageOverhead \in Nat /\ MinImageSize \in Nat
  BY DEF ImageOverhead, MinImageSize, SectorSize
<1>2. t \in Nat /\ t >= user + meta + ImageOverhead
  BY <1>1, RoundUpOK
<1>3. m \in Nat /\ m >= t
  BY <1>1, <1>2
<1>4. ImageSize(user, meta) = RoundUp(m)
  BY DEF ImageSize
<1> HIDE DEF t, m
<1>5. RoundUp(m) \in Nat /\ RoundUp(m) % SectorSize = 0 /\ RoundUp(m) >= m
  BY <1>3, RoundUpOK
<1>. QED BY <1>1, <1>2, <1>3, <1>4, <1>5

-----------------------------------------------------------------------------
(* Proxies.                                                                *)

\* An endpoint that a guest can use, or one that vc cannot take apart.
Reachable(e) ==
  e.host \in {"localhost", "loopback", "wildcard"} =>
    e.around = "invalid" \/ (e.form = "bare" /\ e.around = "valid")

\* NormalizeServer leaves no other endpoint that means the host itself.
LEMMA NormalizeOK ==
  ASSUME NEW e \in Endpoint
  PROVE  Reachable(NormalizeServer(e))
  BY DEF Endpoint, Absent, Reachable, NormalizeServer, HostSeen, HostIsLocal

\* Nor does buildConfig, for either scheme.
LEMMA BuildConfigOK ==
  ASSUME NEW h \in Endpoint, NEW s \in Endpoint, NEW b
  PROVE  /\ Reachable(BuildConfig(h, s, b).http)
         /\ Reachable(BuildConfig(h, s, b).https)
  BY NormalizeOK DEF BuildConfig

\* Nor does the detection, on either kind of host.
LEMMA DetectOK ==
  ASSUME NEW host \in HostSettings
  PROVE  Reachable(Detect(host).http) /\ Reachable(Detect(host).https)
<1>1. /\ host.http \in Endpoint /\ host.https \in Endpoint /\ host.every \in Endpoint
      /\ host.from \in {"registry", "environment"}
  BY DEF HostSettings
<1>2. \A e, f \in Endpoint : ToHTTPURL(FirstSet(e, f)) \in Endpoint
  BY DEF Endpoint, Absent, ToHTTPURL, FirstSet
<1>3. Reachable(NoProxyConfig.http) /\ Reachable(NoProxyConfig.https)
  BY DEF NoProxyConfig, Absent, Reachable
<1>4. CASE host.from = "environment"
  BY <1>1, <1>4, BuildConfigOK DEF Detect
<1>5. CASE host.from = "registry" /\ ~host.active
  <2>1. Detect(host) = [NoProxyConfig EXCEPT !.noProxy = DefaultNoProxy(host.bypass)]
    BY <1>5 DEF Detect
  <2>. QED BY <1>3, <2>1 DEF NoProxyConfig
<1>6. CASE host.from = "registry" /\ host.active
  <2>1. Detect(host) = BuildConfig(ToHTTPURL(FirstSet(host.http, host.every)),
                                   ToHTTPURL(FirstSet(host.https, host.every)), host.bypass)
    BY <1>6 DEF Detect
  <2>. QED BY <1>1, <1>2, <2>1, BuildConfigOK
<1>. QED BY <1>1, <1>4, <1>5, <1>6

\* Nor does Create, in any mode.
LEMMA BuildProxyOK ==
  ASSUME NEW m, NEW host \in HostSettings
  PROVE  Reachable(BuildProxy(m, host).http) /\ Reachable(BuildProxy(m, host).https)
<1>1. Reachable(NoProxyConfig.http) /\ Reachable(NoProxyConfig.https)
  BY DEF NoProxyConfig, Absent, Reachable
<1>2. DOMAIN Detect(host) = {"enabled", "http", "https", "noProxy"}
  BY DEF Detect, BuildConfig, NoProxyConfig
<1>3. CASE m = "none" \/ ~Detect(host).enabled
  BY <1>1, <1>3 DEF BuildProxy
<1>4. CASE ~(m = "none" \/ ~Detect(host).enabled)
  <2>1. BuildProxy(m, host) = [Detect(host) EXCEPT !.noProxy = DefaultNoProxy(@)]
    BY <1>4 DEF BuildProxy
  <2>2. /\ BuildProxy(m, host).http = Detect(host).http
        /\ BuildProxy(m, host).https = Detect(host).https
    BY <1>2, <2>1
  <2>. QED BY <2>2, DetectOK
<1>. QED BY <1>3, <1>4

-----------------------------------------------------------------------------
(* Create.                                                                 *)

ImageKind == [state : {"none", "partial", "whole"}, size : Nat, docs : Documents \union {Blank}]

\* What Create knows of the key and of the image at each of its steps.
AtWork ==
  /\ setup.at # "idle" => ~recorded
  /\ setup.at = "render" => keypair \in KeyPairs
  /\ setup.at \in {"remove", "create", "files", "finalize", "abort", "save"} =>
       setup.docs \in Documents /\ setup.docs.key = keypair
  /\ setup.at \in {"files", "finalize"} =>
       image.size = ImageSize(setup.docs.user, setup.docs.meta)
  /\ setup.at = "save" => image.state = "whole" /\ image.docs = setup.docs

SetupKind == [at : {"idle", "render", "remove", "create", "files", "finalize", "abort", "save"},
              docs : Documents \union {Blank}]

SeedInv == setup \in SetupKind /\ image \in ImageKind /\ AtWork /\ SeedAuthorisesKey /\ ImageFits

\* Documents have lengths, whatever their text.
LEMMA DocumentLengths ==
  ASSUME NEW d \in Documents \union {Blank}
  PROVE  d.user \in Nat /\ d.meta \in Nat
<1>1. CASE d \in Documents
  <2> DEFINE given == {BuildProxy(m, h) : m \in {"auto", "none"}, h \in HostProxies}
  <2>1. Documents = [key : KeyPairs, proxy : given, user : DocumentSizes, meta : DocumentSizes]
    BY DEF Documents
  <2> HIDE DEF given
  <2>2. d.user \in DocumentSizes /\ d.meta \in DocumentSizes
    BY <1>1, <2>1
  <2>. QED BY <2>2, SeedAssumption
<1>2. CASE d = Blank
  BY <1>2 DEF Blank
<1>. QED BY <1>1, <1>2

\* No image is an image to the type invariant.
LEMMA NoImageOK == NoImage \in ImageKind
  BY DEF NoImage, ImageKind

\* No VM is being set up, and there are no files.
LEMMA InitSeedInv == SeedInit => SeedInv
  BY NoImageOK DEF SeedInit, SeedInv, SetupKind, AtWork, SeedAuthorisesKey, ImageFits

\* Create goes to a step, with its documents.
LEMMA SetupGoes ==
  ASSUME setup \in SetupKind, NEW s, SetupGoto(s),
         s \in {"render", "remove", "create", "files", "finalize", "abort", "save"}
  PROVE  setup' \in SetupKind /\ setup'.at = s /\ setup'.docs = setup.docs
  BY DEF SetupKind, SetupGoto

\* Create ends where it is, having saved no record.
LEMMA EndsUnsaved ==
  ASSUME SeedInv, setup.at # "idle", SetupEnds, image' \in {image, NoImage},
         UNCHANGED <<keypair, recorded>>
  PROVE  SeedInv'
<1>1. setup' \in SetupKind /\ setup'.at = "idle"
  BY DEF SetupEnds, SetupKind
<1>2. ~recorded' /\ image' \in ImageKind
  BY NoImageOK DEF SeedInv, AtWork
<1>3. ImageFits'
  BY DEF SeedInv, ImageFits
<1>. QED BY <1>1, <1>2, <1>3 DEF SeedInv, AtWork, SeedAuthorisesKey

\* Each step of a set-up, its failure, its end and a removal keep SeedInv.
LEMMA StepSeedInv == SeedInv /\ [SeedNext]_seedVars => SeedInv'
<1> SUFFICES ASSUME SeedInv, [SeedNext]_seedVars PROVE SeedInv'
  OBVIOUS
<1>a. setup \in SetupKind /\ image \in ImageKind /\ AtWork /\ ImageFits
  BY DEF SeedInv
<1>1. ASSUME MakeKey PROVE SeedInv'
  <2>1. setup' \in SetupKind /\ setup'.at = "render"
    BY <1>a, <1>1, SetupGoes DEF MakeKey
  <2>. QED BY <1>a, <1>1, <2>1 DEF MakeKey, SeedInv, AtWork, SeedAuthorisesKey, ImageFits
<1>2. ASSUME Render PROVE SeedInv'
  <2>1. CASE SetupEnds
    BY <1>2, <2>1, EndsUnsaved DEF Render, SetupAt
  <2>2. CASE \E m \in {"auto", "none"}, h \in HostProxies, u, n \in DocumentSizes :
               setup' = [at |-> "remove",
                         docs |-> [key |-> keypair, proxy |-> BuildProxy(m, h),
                                   user |-> u, meta |-> n]]
    <3>1. PICK m \in {"auto", "none"}, h \in HostProxies, u \in DocumentSizes,
               n \in DocumentSizes :
                 setup' = [at |-> "remove",
                           docs |-> [key |-> keypair, proxy |-> BuildProxy(m, h),
                                     user |-> u, meta |-> n]]
      BY <2>2
    <3>2. keypair \in KeyPairs /\ ~recorded
      BY <1>a, <1>2 DEF Render, SetupAt, AtWork
    <3>3. PICK x \in {BuildProxy(mode, host) : mode \in {"auto", "none"}, host \in HostProxies} :
            x = BuildProxy(m, h)
      OBVIOUS
    <3>4. PICK k \in KeyPairs : k = keypair
      BY <3>2
    <3> DEFINE d == [key |-> k, proxy |-> x, user |-> u, meta |-> n]
    <3>5. d \in Documents /\ d.key = keypair
      BY <3>4 DEF Documents
    <3>6. setup' = [at |-> "remove", docs |-> d]
      BY <3>1, <3>3, <3>4
    <3> HIDE DEF d
    <3>7. setup' \in SetupKind /\ setup'.at = "remove" /\ setup'.docs = d
      BY <3>5, <3>6 DEF SetupKind
    <3>. QED BY <1>a, <1>2, <3>2, <3>5, <3>7
             DEF Render, SeedInv, AtWork, SeedAuthorisesKey, ImageFits
  <2>. QED BY <1>2, <2>1, <2>2 DEF Render
<1>3. ASSUME RemoveOld PROVE SeedInv'
  <2>1. CASE SetupEnds /\ UNCHANGED image
    BY <1>3, <2>1, EndsUnsaved DEF RemoveOld, SetupAt
  <2>2. CASE SetupGoto("create") /\ image' = NoImage
    <3>1. setup' \in SetupKind /\ setup'.at = "create" /\ setup'.docs = setup.docs
      BY <1>a, <2>2, SetupGoes
    <3>. QED BY <1>a, <1>3, <2>2, <3>1, NoImageOK
             DEF RemoveOld, SetupAt, SeedInv, AtWork, SeedAuthorisesKey, ImageFits
  <2>. QED BY <1>3, <2>1, <2>2 DEF RemoveOld
<1>4. ASSUME CreateImage PROVE SeedInv'
  <2>1. setup' \in SetupKind /\ setup'.at = "files" /\ setup'.docs = setup.docs
    BY <1>a, <1>4, SetupGoes DEF CreateImage
  <2>2. setup.docs \in Documents /\ setup.docs.key = keypair /\ ~recorded
    BY <1>a, <1>4 DEF CreateImage, SetupAt, AtWork
  <2>3. PICK z : z = ImageSize(setup.docs.user, setup.docs.meta)
    OBVIOUS
  <2>4. z \in Nat /\ z % SectorSize = 0 /\ z >= ImageOverhead
    <3>1. PICK u \in Nat, n \in Nat : setup.docs.user = u /\ setup.docs.meta = n
      BY <2>2, DocumentLengths
    <3>2. ImageOverhead \in Nat
      BY DEF ImageOverhead, SectorSize
    <3>3. z \in Nat /\ z % SectorSize = 0 /\ z >= u + n + ImageOverhead
      BY <2>3, <3>1, ImageSizeOK
    <3>. QED BY <3>2, <3>3
  <2>5. /\ image' = [state |-> "partial", size |-> z, docs |-> Blank]
        /\ UNCHANGED <<keypair, recorded>>
    BY <1>4, <2>3 DEF CreateImage
  <2>6. image' \in ImageKind /\ image'.size = z /\ image'.docs = Blank
    BY <2>4, <2>5 DEF ImageKind
  <2>7. ImageFits'
    <3>1. Blank.user + Blank.meta + ImageOverhead = ImageOverhead
      BY DEF Blank, ImageOverhead, SectorSize
    <3>. QED BY <2>4, <2>6, <3>1 DEF ImageFits
  <2>. QED BY <2>1, <2>2, <2>3, <2>5, <2>6, <2>7 DEF SeedInv, AtWork, SeedAuthorisesKey
<1>5. ASSUME WriteFiles PROVE SeedInv'
  <2>1. setup' \in SetupKind /\ setup'.at = "finalize" /\ setup'.docs = setup.docs
    BY <1>a, <1>5, SetupGoes DEF WriteFiles
  <2>. QED BY <1>a, <1>5, <2>1
           DEF WriteFiles, SetupAt, SeedInv, AtWork, SeedAuthorisesKey, ImageFits
<1>6. ASSUME Finalize PROVE SeedInv'
  <2>1. setup' \in SetupKind /\ setup'.at = "save" /\ setup'.docs = setup.docs
    BY <1>a, <1>6, SetupGoes DEF Finalize
  <2>2. /\ setup.docs \in Documents /\ setup.docs.key = keypair /\ ~recorded
        /\ image.size = ImageSize(setup.docs.user, setup.docs.meta)
    BY <1>a, <1>6 DEF Finalize, SetupAt, AtWork
  <2>3. PICK d \in Documents : d = setup.docs
    BY <2>2
  <2>4. image' = [image EXCEPT !.state = "whole", !.docs = d]
    BY <1>6, <2>3 DEF Finalize
  <2>5. /\ image' \in ImageKind /\ image'.size = image.size
        /\ image'.state = "whole" /\ image'.docs = d
    BY <1>a, <2>4 DEF ImageKind
  <2>6. ImageFits'
    <3>1. PICK u \in Nat, n \in Nat : d.user = u /\ d.meta = n
      BY DocumentLengths
    <3>2. image'.size = ImageSize(u, n)
      BY <2>2, <2>3, <2>5, <3>1
    <3>3. image'.size % SectorSize = 0 /\ image'.size >= u + n + ImageOverhead
      BY <3>2, ImageSizeOK
    <3>. QED BY <2>5, <3>1, <3>3 DEF ImageFits
  <2>. QED BY <1>6, <2>1, <2>2, <2>3, <2>5, <2>6 DEF Finalize, SeedInv, AtWork, SeedAuthorisesKey
<1>7. ASSUME SeedFails PROVE SeedInv'
  <2>1. setup' \in SetupKind /\ setup'.at = "abort" /\ setup'.docs = setup.docs
    BY <1>a, <1>7, SetupGoes DEF SeedFails
  <2>. QED BY <1>a, <1>7, <2>1 DEF SeedFails, SeedInv, AtWork, SeedAuthorisesKey, ImageFits
<1>8. ASSUME AbortImage \/ SetupDies PROVE SeedInv'
  BY <1>8, EndsUnsaved DEF AbortImage, SetupDies, SetupAt
<1>9. ASSUME SaveVM PROVE SeedInv'
  <2>1. setup' \in SetupKind /\ setup'.at = "idle"
    BY <1>9 DEF SaveVM, SetupEnds, SetupKind
  <2>. QED BY <1>a, <1>9, <2>1 DEF SaveVM, SetupAt, SeedInv, AtWork, SeedAuthorisesKey, ImageFits
<1>10. ASSUME RemoveVM PROVE SeedInv'
  BY <1>a, <1>10, NoImageOK
  DEF RemoveVM, SetupAt, SeedInv, AtWork, SeedAuthorisesKey, ImageFits
<1>11. CASE UNCHANGED seedVars
  BY <1>11 DEF seedVars, SeedInv, AtWork, SeedAuthorisesKey, ImageFits
<1>. QED BY <1>1, <1>2, <1>3, <1>4, <1>5, <1>6, <1>7, <1>8, <1>9, <1>10, <1>11 DEF SeedNext

\* However often creating a VM failed or died, the seed beside its record is whole and
\* authorises the key beside it (Manager.Create, seed.WriteISO).
THEOREM SeedIsForItsKey == SeedSpec => []SeedAuthorisesKey
<1>1. SeedInv => SeedAuthorisesKey
  BY DEF SeedInv
<1>. QED BY <1>1, InitSeedInv, StepSeedInv, PTL DEF SeedSpec

\* For documents of any lengths the image is large enough, in whole sectors
\* (seed.imageSize).
THEOREM SeedFits == SeedSpec => []ImageFits
<1>1. SeedInv => ImageFits
  BY DEF SeedInv
<1>. QED BY <1>1, InitSeedInv, StepSeedInv, PTL DEF SeedSpec

\* For any proxy settings of the host, an endpoint that a guest is given on its own loopback
\* has more around its host than vc can take apart: every plain endpoint, and every URL
\* that url.Parse accepts, is sent by way of the gateway (proxy.NormalizeServer).
THEOREM ProxyIsReachable == SeedSpec => []GuestReachesProxy
<1>1. \A d \in Documents \union {Blank} : Reachable(d.proxy.http) /\ Reachable(d.proxy.https)
  <2>1. ASSUME NEW d \in Documents
        PROVE  Reachable(d.proxy.http) /\ Reachable(d.proxy.https)
    <3>1. PICK m \in {"auto", "none"}, h \in HostProxies : d.proxy = BuildProxy(m, h)
      BY DEF Documents
    <3>. QED BY <3>1, BuildProxyOK, HostAssumption
  <2>2. Reachable(Blank.proxy.http) /\ Reachable(Blank.proxy.https)
    BY DEF Blank, NoProxyConfig, Absent, Reachable
  <2>. QED BY <2>1, <2>2
<1>2. SeedInv => GuestReachesProxy
  BY <1>1 DEF SeedInv, ImageKind, GuestReachesProxy, Reachable
<1>. QED BY <1>2, InitSeedInv, StepSeedInv, PTL DEF SeedSpec

-----------------------------------------------------------------------------
(* The bypass list.  DefaultNoProxy is a recursive function on the length  *)
(* of the list it merges, so what it returns is proved by induction on     *)
(* that length.                                                            *)

\* Every set of natural numbers has a least: the order is well-founded.
LEMMA MinNat == ASSUME NEW T, T \subseteq Nat, T # {} PROVE \E x \in T : \A y \in T : x <= y
<1> DEFINE R == {s \in Nat \X Nat : s[1] < s[2]}
<1>1. IsWellFoundedOn(R, Nat)
  BY NatLessThanWellFounded DEF OpToRel
<1>2. \A x \in Nat, y \in Nat : y < x => <<y, x>> \in R
  OBVIOUS
<1> HIDE DEF R
<1>3. \E x \in T : \A y \in T : ~ (<<y, x>> \in R)
  BY <1>1, WFMin, Zenon
<1>4. PICK x \in T : \A y \in T : ~ (<<y, x>> \in R)
  BY <1>3
<1>5. \A y \in T : ~(y < x)
  BY <1>2, <1>4
<1>6. x \in Nat /\ \A y \in T : y \in Nat
  OBVIOUS
<1>7. \A y \in T : x <= y
  BY <1>5, <1>6
<1>. QED BY <1>7

\* A set with 0, and with the successor of each of its numbers, has them all: the
\* induction that a provable recursive function asks for.
LEMMA SetInduction ==
  ASSUME NEW S, 0 \in S, \A n \in Nat : n \in S => n + 1 \in S PROVE Nat \subseteq S
<1> DEFINE T == Nat \ S
<1>1. SUFFICES ASSUME T # {} PROVE FALSE
  OBVIOUS
<1>2. T \subseteq Nat
  OBVIOUS
<1> HIDE DEF T
<1>3. PICK x \in T : \A y \in T : x <= y
  BY <1>1, <1>2, MinNat
<1>4. x # 0 /\ x \in Nat
  BY <1>3 DEF T
<1>5. x - 1 \in Nat /\ x - 1 \notin T /\ (x - 1) + 1 = x
  BY <1>3, <1>4
<1>. QED BY <1>3, <1>5 DEF T

\* The entries of a list for a guest.
GuestEntries == Bypasses \union {"slirp"}

\* The function by which DefaultNoProxy is defined exists, for a list of any length.
LEMMA FoldExists ==
  ASSUME NEW extra
  PROVE  \A n \in Nat : \E g : g = [k \in 0 .. n |->
           IF k = 0 THEN AlwaysBypassed ELSE AddEntry(g[k - 1], extra[k])]
<1> DEFINE S == {n \in Nat : \E g : g = [k \in 0 .. n |->
           IF k = 0 THEN AlwaysBypassed ELSE AddEntry(g[k - 1], extra[k])]}
<1>1. 0 \in S
  <2> DEFINE g == [k \in 0 .. 0 |-> AlwaysBypassed]
  <2>1. g = [k \in 0 .. 0 |->
           IF k = 0 THEN AlwaysBypassed ELSE AddEntry(g[k - 1], extra[k])]
    OBVIOUS
  <2>. QED BY <2>1
<1>2. ASSUME NEW n \in Nat, n \in S PROVE n + 1 \in S
  <2>1. PICK g : g = [k \in 0 .. n |->
           IF k = 0 THEN AlwaysBypassed ELSE AddEntry(g[k - 1], extra[k])]
    BY <1>2
  <2> DEFINE h == [k \in 0 .. n + 1 |->
                    IF k = n + 1 THEN AddEntry(g[n], extra[n + 1]) ELSE g[k]]
  <2>2. \A k \in 0 .. n : h[k] = g[k]
    OBVIOUS
  <2>3. \A k \in 0 .. n + 1 : h[k] = IF k = 0 THEN AlwaysBypassed ELSE AddEntry(h[k - 1], extra[k])
    <3> SUFFICES ASSUME NEW k \in 0 .. n + 1
                 PROVE  h[k] = IF k = 0 THEN AlwaysBypassed ELSE AddEntry(h[k - 1], extra[k])
      OBVIOUS
    <3>1. CASE k = n + 1
      <4>1. h[k] = AddEntry(g[n], extra[n + 1])
        BY <3>1
      <4>2. h[k - 1] = g[n] /\ k # 0
        BY <3>1, <2>2
      <4>. QED BY <3>1, <4>1, <4>2
    <3>2. CASE k \in 1 .. n
      <4>1. k - 1 \in 0 .. n /\ k \in 0 .. n /\ k # 0
        BY <3>2
      <4>2. g[k] = AddEntry(g[k - 1], extra[k])
        BY <2>1, <4>1, Zenon
      <4>. QED BY <4>1, <4>2, <2>2, Zenon
    <3>3. CASE k = 0
      <4>1. k \in 0 .. n
        BY <3>3
      <4>2. g[k] = AlwaysBypassed
        BY <2>1, <3>3, <4>1, Zenon
      <4>. QED BY <3>3, <4>1, <4>2, <2>2, Zenon
    <3>. QED BY <3>1, <3>2, <3>3
  <2>4. h = [k \in 0 .. n + 1 |-> h[k]]
    OBVIOUS
  <2> HIDE DEF h
  <2>5. h = [k \in 0 .. n + 1 |->
           IF k = 0 THEN AlwaysBypassed ELSE AddEntry(h[k - 1], extra[k])]
    BY <2>3, <2>4, Zenon
  <2>6. \E f : f = [k \in 0 .. n + 1 |->
           IF k = 0 THEN AlwaysBypassed ELSE AddEntry(f[k - 1], extra[k])]
    BY <2>5, Zenon
  <2>. QED BY <2>6
<1> HIDE DEF S
<1>3. Nat \subseteq S
  BY <1>1, <1>2, SetInduction
<1>. QED BY <1>3 DEF S

\* A list has the entry, in some case.
Listed(list, entry) == \E i \in 1 .. Len(list) : ToLower(list[i]) = ToLower(entry)

\* A list that the defaults lead.
Led(list) ==
  /\ list \in Seq(GuestEntries) /\ Len(list) \in Nat /\ Len(list) >= 2
  /\ list[1] = "localhost" /\ list[2] = "slirp"

\* No entry is there twice, in whatever case.
EachOnce(list) ==
  \A i, j \in 1 .. Len(list) : ToLower(list[i]) = ToLower(list[j]) => i = j

\* Nor an empty one.
NoGaps(list) == \A i \in 1 .. Len(list) : list[i] # ""

\* What DefaultNoProxy makes.
Merged(list) == Led(list) /\ EachOnce(list) /\ NoGaps(list)

\* The defaults alone are such a list.
LEMMA AlwaysMerged == Merged(AlwaysBypassed)
<1>1. PICK l : l = AlwaysBypassed
  OBVIOUS
<1>2. Len(l) = 2 /\ l[1] = "localhost" /\ l[2] = "slirp"
  BY <1>1 DEF AlwaysBypassed
<1>3. l \in Seq(GuestEntries)
  BY <1>1 DEF AlwaysBypassed, GuestEntries, Bypasses
<1>4. ToLower("localhost") = "localhost" /\ ToLower("slirp") = "slirp"
  BY DEF ToLower
<1>5. \A i \in 1 .. Len(l) : i = 1 \/ i = 2
  BY <1>2
<1>6. Led(l)
  BY <1>2, <1>3 DEF Led
<1>7. EachOnce(l)
  BY <1>2, <1>4, <1>5 DEF EachOnce
<1>8. NoGaps(l)
  BY <1>2, <1>5 DEF NoGaps
<1>. QED BY <1>1, <1>6, <1>7, <1>8 DEF Merged

\* add keeps it one, and afterwards the entry, as all that was held, is held.
LEMMA AddKeepsMerged ==
  ASSUME NEW list, Merged(list), NEW e \in GuestEntries
  PROVE  /\ Merged(AddEntry(list, e))
         /\ e # "" => Listed(AddEntry(list, e), e)
         /\ \A d : Listed(list, d) => Listed(AddEntry(list, e), d)
<1>1. CASE e = "" \/ Listed(list, e)
  BY <1>1 DEF AddEntry, Listed
<1>2. CASE e # "" /\ ~Listed(list, e)
  <2>1. PICK l : l = Append(list, e)
    OBVIOUS
  <2>2. AddEntry(list, e) = l
    BY <1>2, <2>1 DEF AddEntry, Listed
  <2>3. list \in Seq(GuestEntries) /\ Len(list) \in Nat /\ Len(list) >= 2
    BY DEF Merged, Led
  <2>4. /\ l \in Seq(GuestEntries) /\ Len(l) = Len(list) + 1
        /\ \A i \in 1 .. Len(list) : l[i] = list[i]
        /\ l[Len(list) + 1] = e
    BY <2>1, <2>3
  <2>5. \A i \in 1 .. Len(l) : i \in 1 .. Len(list) \/ i = Len(list) + 1
    BY <2>3, <2>4
  <2>6. EachOnce(l)
    <3>1. EachOnce(list)
      BY DEF Merged
    <3>. QED BY <1>2, <2>4, <2>5, <3>1 DEF EachOnce, Listed
  <2>7. Led(l)
    <3>1. Led(list)
      BY DEF Merged
    <3>. QED BY <2>3, <2>4, <3>1 DEF Led
  <2>8. NoGaps(l)
    <3>1. NoGaps(list)
      BY DEF Merged
    <3>. QED BY <1>2, <2>4, <2>5, <3>1 DEF NoGaps
  <2>9. \A i \in 1 .. Len(list) : i \in 1 .. Len(l)
    BY <2>3, <2>4
  <2>10. Len(list) + 1 \in 1 .. Len(l)
    BY <2>3, <2>4
  <2>11. Listed(l, e)
    BY <2>4, <2>10 DEF Listed
  <2>12. \A d : Listed(list, d) => Listed(l, d)
    BY <2>4, <2>9 DEF Listed
  <2>. QED BY <2>2, <2>4, <2>6, <2>7, <2>8, <2>11, <2>12 DEF Merged
<1>. QED BY <1>1, <1>2

\* The list that DefaultNoProxy returns is one, whatever list it merges, and holds all
\* entries of that.
LEMMA DefaultsOK ==
  ASSUME NEW extra \in Seq(GuestEntries)
  PROVE  /\ Merged(DefaultNoProxy(extra))
         /\ \A j \in 1 .. Len(extra) : extra[j] # "" => Listed(DefaultNoProxy(extra), extra[j])
<1>1. PICK len \in Nat : len = Len(extra)
  OBVIOUS
<1> DEFINE f == CHOOSE g : g = [k \in 0 .. len |->
                  IF k = 0 THEN AlwaysBypassed ELSE AddEntry(g[k - 1], extra[k])]
<1>2. DefaultNoProxy(extra) = f[len]
  BY <1>1 DEF DefaultNoProxy
<1>3. f = [k \in 0 .. len |-> IF k = 0 THEN AlwaysBypassed ELSE AddEntry(f[k - 1], extra[k])]
  BY FoldExists
<1> HIDE DEF f
<1>4. f[0] = AlwaysBypassed
  BY <1>1, <1>3
<1>5. \A k \in 1 .. len : f[k] = AddEntry(f[k - 1], extra[k])
  <2> SUFFICES ASSUME NEW k \in 1 .. len PROVE f[k] = AddEntry(f[k - 1], extra[k])
    OBVIOUS
  <2>1. k \in 0 .. len /\ k # 0
    BY <1>1
  <2>. QED BY <1>3, <2>1, Zenon
<1> DEFINE P(n) == /\ Merged(f[n])
                   /\ \A j \in 1 .. n : extra[j] # "" => Listed(f[n], extra[j])
           S == {n \in Nat : n <= len => P(n)}
<1>6. 0 \in S
  <2>1. P(0)
    BY <1>4, AlwaysMerged
  <2> HIDE DEF P
  <2>. QED BY <2>1
<1>7. ASSUME NEW n \in Nat, n \in S PROVE n + 1 \in S
  <2> HIDE DEF P
  <2> SUFFICES ASSUME n + 1 <= len PROVE P(n + 1)
    OBVIOUS
  <2>1. n <= len /\ n + 1 \in 1 .. len /\ (n + 1) - 1 = n
    BY <1>1
  <2>2. P(n)
    BY <1>7, <2>1
  <2>3. f[n + 1] = AddEntry(f[n], extra[n + 1])
    BY <1>5, <2>1
  <2>4. extra[n + 1] \in GuestEntries
    BY <1>1, <2>1
  <2>5. /\ Merged(f[n + 1])
        /\ extra[n + 1] # "" => Listed(f[n + 1], extra[n + 1])
        /\ \A d : Listed(f[n], d) => Listed(f[n + 1], d)
    <3>1. Merged(f[n])
      BY <2>2 DEF P
    <3>. QED BY <2>3, <2>4, <3>1, AddKeepsMerged, Zenon
  <2>6. \A j \in 1 .. n + 1 : j \in 1 .. n \/ j = n + 1
    OBVIOUS
  <2>7. ASSUME NEW j \in 1 .. n + 1, extra[j] # "" PROVE Listed(f[n + 1], extra[j])
    BY <2>2, <2>5, <2>6, <2>7, Zenon DEF P
  <2>. QED BY <2>5, <2>7, Zenon DEF P
<1> HIDE DEF S, P
<1>8. Nat \subseteq S
  BY <1>6, <1>7, SetInduction
<1>9. len \in S
  BY <1>8
<1>10. P(len)
  BY <1>9 DEF S
<1>. QED BY <1>1, <1>2, <1>10, Zenon DEF P

\* Merged once more, such a list stays as it is.
LEMMA MergedTwice ==
  ASSUME NEW extra, Merged(extra)
  PROVE  DefaultNoProxy(extra) = extra
<1>0. extra \in Seq(GuestEntries)
  BY DEF Merged, Led
<1>1. PICK len \in Nat : len = Len(extra)
  BY <1>0
<1> DEFINE f == CHOOSE g : g = [k \in 0 .. len |->
                  IF k = 0 THEN AlwaysBypassed ELSE AddEntry(g[k - 1], extra[k])]
<1>2. DefaultNoProxy(extra) = f[len]
  BY <1>1 DEF DefaultNoProxy
<1>3. f = [k \in 0 .. len |-> IF k = 0 THEN AlwaysBypassed ELSE AddEntry(f[k - 1], extra[k])]
  BY FoldExists
<1> HIDE DEF f
<1>4. f[0] = AlwaysBypassed
  BY <1>1, <1>3
<1>5. \A k \in 1 .. len : f[k] = AddEntry(f[k - 1], extra[k])
  <2> SUFFICES ASSUME NEW k \in 1 .. len PROVE f[k] = AddEntry(f[k - 1], extra[k])
    OBVIOUS
  <2>1. k \in 0 .. len /\ k # 0
    BY <1>1
  <2>. QED BY <1>3, <2>1, Zenon
<1>6. len >= 2 /\ extra[1] = "localhost" /\ extra[2] = "slirp"
  BY <1>1 DEF Merged, Led
<1>7. Listed(AlwaysBypassed, "localhost") /\ Listed(AlwaysBypassed, "slirp")
  <2>1. PICK l : l = AlwaysBypassed
    OBVIOUS
  <2>2. 1 \in 1 .. Len(l) /\ 2 \in 1 .. Len(l) /\ l[1] = "localhost" /\ l[2] = "slirp"
    BY <2>1 DEF AlwaysBypassed
  <2>. QED BY <2>1, <2>2 DEF Listed
<1>8. f[1] = AlwaysBypassed /\ f[2] = AlwaysBypassed
  <2>1. f[1] = AddEntry(f[0], "localhost")
    BY <1>1, <1>5, <1>6
  <2>2. f[1] = AlwaysBypassed
    BY <2>1, <1>4, <1>7 DEF AddEntry, Listed
  <2>3. f[2] = AddEntry(f[1], "slirp")
    BY <1>1, <1>5, <1>6
  <2>. QED BY <2>2, <2>3, <1>7 DEF AddEntry, Listed
<1> DEFINE S == {n \in Nat : n + 2 <= len => f[n + 2] = SubSeq(extra, 1, n + 2)}
<1>9. 0 \in S
  <2>1. PICK l : l = SubSeq(extra, 1, 2)
    OBVIOUS
  <2>2. Len(l) = 2 /\ l[1] = extra[1] /\ l[2] = extra[2] /\ l \in Seq(GuestEntries)
    BY <1>0, <1>1, <1>6, <2>1
  <2>3. l = AlwaysBypassed
    BY <1>6, <2>2 DEF AlwaysBypassed
  <2>. QED BY <1>8, <2>1, <2>3
<1>10. ASSUME NEW n \in Nat, n \in S PROVE n + 1 \in S
  <2> SUFFICES ASSUME n + 3 <= len PROVE f[n + 3] = SubSeq(extra, 1, n + 3)
    OBVIOUS
  <2>1. n + 2 <= len /\ n + 3 \in 1 .. len /\ (n + 3) - 1 = n + 2
    BY <1>1
  <2>2. f[n + 3] = AddEntry(SubSeq(extra, 1, n + 2), extra[n + 3])
    BY <1>5, <1>10, <2>1
  <2>3. PICK l : l = SubSeq(extra, 1, n + 2)
    OBVIOUS
  <2>4. /\ l \in Seq(GuestEntries) /\ Len(l) = n + 2
        /\ \A i \in 1 .. n + 2 : l[i] = extra[i]
    BY <1>0, <1>1, <2>1, <2>3
  <2>5. \A i \in 1 .. n + 2 : ToLower(extra[i]) # ToLower(extra[n + 3])
    <3>1. EachOnce(extra)
      BY DEF Merged
    <3>2. \A i \in 1 .. n + 2 : i \in 1 .. len /\ i # n + 3
      BY <1>1, <2>1
    <3>. QED BY <1>1, <2>1, <3>1, <3>2 DEF EachOnce
  <2>6. extra[n + 3] # ""
    <3>1. NoGaps(extra)
      BY DEF Merged
    <3>. QED BY <1>1, <2>1, <3>1 DEF NoGaps
  <2>7. f[n + 3] = Append(l, extra[n + 3])
    BY <2>2, <2>3, <2>4, <2>5, <2>6 DEF AddEntry
  <2>8. Append(l, extra[n + 3]) = SubSeq(extra, 1, n + 3)
    <3>1. PICK a : a = Append(l, extra[n + 3])
      OBVIOUS
    <3>2. PICK b : b = SubSeq(extra, 1, n + 3)
      OBVIOUS
    <3>3. a \in Seq(GuestEntries) /\ Len(a) = n + 3
      BY <1>0, <1>1, <2>1, <2>4, <3>1
    <3>4. b \in Seq(GuestEntries) /\ Len(b) = n + 3 /\ \A i \in 1 .. n + 3 : b[i] = extra[i]
      BY <1>0, <1>1, <2>1, <3>2
    <3>5. \A i \in 1 .. n + 3 : a[i] = extra[i]
      BY <2>4, <3>1
    <3>6. a = b
      BY <3>3, <3>4, <3>5
    <3>. QED BY <3>1, <3>2, <3>6
  <2>. QED BY <2>7, <2>8
<1> HIDE DEF S
<1>11. Nat \subseteq S
  BY <1>9, <1>10, SetInduction
<1>12. len - 2 \in S
  BY <1>1, <1>6, <1>11
<1>13. f[len] = SubSeq(extra, 1, len)
  BY <1>1, <1>6, <1>12 DEF S
<1>14. SubSeq(extra, 1, len) = extra
  BY <1>0, <1>1
<1>. QED BY <1>2, <1>13, <1>14

\* The list of a guest that has a proxy is the host's, merged.
LEMMA GuestList ==
  ASSUME NEW mode, NEW host \in HostSettings
  PROVE  BuildProxy(mode, host).enabled =>
           BuildProxy(mode, host).noProxy = DefaultNoProxy(host.bypass)
<1>1. PICK list : list = DefaultNoProxy(host.bypass)
  OBVIOUS
<1>2. host.bypass \in Seq(GuestEntries)
  <2>1. host.bypass \in Seq(Bypasses)
    BY DEF HostSettings
  <2>. QED BY <2>1 DEF GuestEntries
<1>3. Merged(list)
  BY <1>1, <1>2, DefaultsOK
<1>4. DefaultNoProxy(list) = list
  BY <1>3, MergedTwice
<1>5. Detect(host).noProxy = list
  BY <1>1 DEF Detect, BuildConfig, NoProxyConfig
<1>. QED BY <1>1, <1>4, <1>5 DEF BuildProxy, NoProxyConfig

\* Whatever list the host has, of any length, what it bypasses the guest bypasses too,
\* and the second merge, in buildProxy, changes nothing (proxy.DefaultNoProxy).
THEOREM HostBypassesKept ==
  ASSUME NEW mode \in {"auto", "none"}, NEW host \in HostSettings,
         BuildProxy(mode, host).enabled
  PROVE  /\ \A j \in 1 .. Len(host.bypass) :
              host.bypass[j] # "" => Listed(BuildProxy(mode, host).noProxy, host.bypass[j])
         /\ BuildProxy(mode, host).noProxy = Detect(host).noProxy
<1>1. PICK list : list = DefaultNoProxy(host.bypass)
  OBVIOUS
<1>2. host.bypass \in Seq(GuestEntries)
  <2>1. host.bypass \in Seq(Bypasses)
    BY DEF HostSettings
  <2>. QED BY <2>1 DEF GuestEntries
<1>3. \A j \in 1 .. Len(host.bypass) : host.bypass[j] # "" => Listed(list, host.bypass[j])
  BY <1>1, <1>2, DefaultsOK, Zenon
<1>4. Detect(host).noProxy = list
  BY <1>1 DEF Detect, BuildConfig, NoProxyConfig
<1>5. BuildProxy(mode, host).noProxy = list
  BY <1>1, GuestList
<1>. QED BY <1>3, <1>4, <1>5, Zenon

\* A guest that has a proxy uses it neither for itself nor for the host, and its list,
\* of any length, has no entry twice (proxy.DefaultNoProxy, buildProxy).
THEOREM GuestBypassesItself == SeedSpec => []BypassesLocal
<1>1. ASSUME NEW list, Merged(list)
      PROVE  /\ \A d \in {"localhost", "slirp"} : Listed(list, d)
             /\ EachOnce(list)
  <2>1. /\ Len(list) \in Nat /\ Len(list) >= 2
        /\ list[1] = "localhost" /\ list[2] = "slirp"
    BY <1>1 DEF Merged, Led
  <2>2. 1 \in 1 .. Len(list) /\ 2 \in 1 .. Len(list)
    BY <2>1
  <2>. QED BY <1>1, <2>1, <2>2 DEF Merged, Listed
<1>2. ToLower("localhost") = "localhost" /\ ToLower("slirp") = "slirp"
  BY DEF ToLower
<1>3. ASSUME NEW d \in Documents \union {Blank}, d.proxy.enabled PROVE Merged(d.proxy.noProxy)
  <2>1. d \in Documents
    BY <1>3 DEF Blank, NoProxyConfig
  <2>2. PICK m \in {"auto", "none"}, h \in HostProxies : d.proxy = BuildProxy(m, h)
    BY <2>1 DEF Documents
  <2>3. h \in HostSettings
    BY HostAssumption
  <2>4. h.bypass \in Seq(GuestEntries)
    <3>1. h.bypass \in Seq(Bypasses)
      BY <2>3 DEF HostSettings
    <3>. QED BY <3>1 DEF GuestEntries
  <2>. QED BY <1>3, <2>2, <2>3, <2>4, GuestList, DefaultsOK, Zenon
<1>4. SeedInv => BypassesLocal
  <2> SUFFICES ASSUME SeedInv, image.docs.proxy.enabled
               PROVE  /\ \A d \in {"localhost", "slirp"} : Listed(image.docs.proxy.noProxy, d)
                      /\ EachOnce(image.docs.proxy.noProxy)
    BY <1>2 DEF BypassesLocal, Listed, EachOnce
  <2>1. image.docs \in Documents \union {Blank}
    BY DEF SeedInv, ImageKind
  <2>. QED BY <1>1, <1>3, <2>1, Zenon
<1>. QED BY <1>4, InitSeedInv, StepSeedInv, PTL DEF SeedSpec

=============================================================================
