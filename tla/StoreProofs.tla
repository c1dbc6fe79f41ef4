----------------------------- MODULE StoreProofs -----------------------------
(***************************************************************************)
(* What an invocation decides from files that others may change meanwhile, *)
(* for any number of invocations, keys, VMs and directories: what a saved  *)
(* configuration may change, which VM a command that names none may turn   *)
(* to, what a copy of a tree has copied, and which QEMU boots a VM.        *)
(***************************************************************************)
EXTENDS ConfigStore, NameChoice, TreeCopy, QemuTools, SequenceTheorems,
        FiniteSetTheorems, TLAPS

-----------------------------------------------------------------------------
(* The configuration.                                                      *)

\* What an invocation would write agrees with the file, but for its own key and the
\* keys that others have saved since it read them.
Agrees(p) ==
  /\ \A k \in Keys \ setter[p].raced :
       (setter[p].at = "save" => k # setter[p].key)
         => Merge(setter[p].cfg)[k] = Merge(config)[k]
  /\ setter[p].at = "save" => setter[p].cfg[setter[p].key] = setter[p].val

Asked == [at : {"apply", "save"}, cfg : Config, key : Keys,
          val : Values \union {BadValue, Unset}, raced : SUBSET Keys]

ConfigInv ==
  /\ config \in Config
  /\ DOMAIN setter = Setters
  /\ \A p \in Setters :
       setter[p] = Resting \/ (setter[p] \in Asked /\ Agrees(p))

\* Merging the defaults once more changes nothing; it fills what is unset and only that.
LEMMA MergeTwice ==
  ASSUME NEW c \in Config
  PROVE  /\ Merge(c) \in Config
         /\ \A k \in Keys : Merge(Merge(c))[k] = Merge(c)[k]
         /\ \A k \in Keys : c[k] = Unset => Merge(c)[k] = DefaultOf[k]
         /\ \A k \in Keys : c[k] # Unset => Merge(c)[k] = c[k]
  BY ConfigAssumption DEF Config, Merge

\* An invocation that is not at work has asked for nothing.
LEMMA RestingIdle == Resting.at = "idle" /\ Resting \notin Asked
  BY DEF Resting, Asked

\* Nobody is at work on the file.
LEMMA InitConfigInv == ConfigInit => ConfigInv
  BY ConfigAssumption DEF ConfigInit, ConfigInv, Config

\* An invocation goes back to rest, and the file stays as it is.
LEMMA Rests ==
  ASSUME ConfigInv, NEW p \in Setters, setter' = [setter EXCEPT ![p] = Resting],
         UNCHANGED config
  PROVE  ConfigInv'
<1>1. \A q \in Setters : setter'[q] = IF q = p THEN Resting ELSE setter[q]
  BY DEF ConfigInv
<1>2. config' \in Config /\ DOMAIN setter' = Setters
  BY DEF ConfigInv
<1>3. ASSUME NEW q \in Setters, q # p, setter[q] \in Asked /\ Agrees(q)
      PROVE  setter'[q] \in Asked /\ Agrees(q)'
  <2>1. setter'[q] = setter[q]
    BY <1>1, <1>3
  <2>. QED BY <1>3, <2>1 DEF Agrees
<1>4. ASSUME NEW q \in Setters PROVE setter'[q] = Resting \/ (setter'[q] \in Asked /\ Agrees(q)')
  BY <1>1, <1>3 DEF ConfigInv
<1>. QED BY <1>2, <1>4 DEF ConfigInv

\* An invocation is given other locals, and the file stays as it is.
LEMMA Works ==
  ASSUME ConfigInv, NEW p \in Setters, NEW r \in Asked,
         setter' = [setter EXCEPT ![p] = r], UNCHANGED config,
         Agrees(p)'
  PROVE  ConfigInv'
<1>1. \A q \in Setters : setter'[q] = IF q = p THEN r ELSE setter[q]
  BY DEF ConfigInv
<1>2. config' \in Config /\ DOMAIN setter' = Setters
  BY DEF ConfigInv
<1>3. ASSUME NEW q \in Setters, q # p, setter[q] \in Asked /\ Agrees(q)
      PROVE  setter'[q] \in Asked /\ Agrees(q)'
  <2>1. setter'[q] = setter[q]
    BY <1>1, <1>3
  <2>. QED BY <1>3, <2>1 DEF Agrees
<1>4. ASSUME NEW q \in Setters PROVE setter'[q] = Resting \/ (setter'[q] \in Asked /\ Agrees(q)')
  BY <1>1, <1>3 DEF ConfigInv
<1>. QED BY <1>2, <1>4 DEF ConfigInv

\* Each read, change and save of an invocation keeps ConfigInv.
LEMMA StepConfigInv == ConfigInv /\ [ConfigNext]_configVars => ConfigInv'
<1> SUFFICES ASSUME ConfigInv, [ConfigNext]_configVars PROVE ConfigInv'
  OBVIOUS
<1>1. ASSUME NEW p \in Setters, NEW key \in Keys, NEW val \in Values \union {BadValue, Unset},
             Load(p, key, val)
      PROVE  ConfigInv'
  <2> DEFINE m == Merge(config)
  <2>1. m \in Config /\ \A k \in Keys : Merge(m)[k] = Merge(config)[k]
    BY MergeTwice DEF ConfigInv
  <2>2. PICK r : r = [at |-> "apply", cfg |-> m, key |-> key, val |-> val, raced |-> {}]
    OBVIOUS
  <2>3. r \in Asked /\ r.at = "apply" /\ r.cfg = m
    BY <2>1, <2>2 DEF Asked
  <2>4. setter' = [setter EXCEPT ![p] = r] /\ UNCHANGED config
    BY <1>1, <2>2 DEF Load
  <2>5. setter'[p] = r
    BY <2>4 DEF ConfigInv
  <2> HIDE DEF m
  <2>6. Agrees(p)'
    BY <2>1, <2>3, <2>4, <2>5 DEF Agrees, m, Merge
  <2>. QED BY <2>3, <2>4, <2>6, Works
<1>2. ASSUME NEW p \in Setters, Apply(p) PROVE ConfigInv'
  <2>1. PICK l \in Asked : l = setter[p] /\ Agrees(p) /\ l.at = "apply"
    BY <1>2, RestingIdle DEF Apply, ConfigInv
  <2>2. CASE setter' = [setter EXCEPT ![p] = Resting]
    BY <1>2, <2>2, Rests DEF Apply
  <2>3. CASE setter' = [setter EXCEPT ![p] =
                [l EXCEPT !.at = "save", !.cfg = [l.cfg EXCEPT ![l.key] = l.val]]]
    <3>1. PICK c : c = [l.cfg EXCEPT ![l.key] = l.val]
      OBVIOUS
    <3>2. /\ c \in Config /\ c[l.key] = l.val
          /\ \A k \in Keys : k # l.key => c[k] = l.cfg[k]
      BY <3>1 DEF Asked, Config
    <3>3. PICK r : r = [l EXCEPT !.at = "save", !.cfg = c]
      OBVIOUS
    <3>4. /\ r \in Asked /\ r.at = "save" /\ r.cfg = c /\ r.key = l.key
          /\ r.val = l.val /\ r.raced = l.raced
      BY <3>2, <3>3 DEF Asked
    <3>5. setter' = [setter EXCEPT ![p] = r] /\ UNCHANGED config /\ setter'[p] = r
      BY <1>2, <2>3, <3>1, <3>3 DEF Apply, ConfigInv
    <3>6. \A k \in Keys : k # l.key => Merge(c)[k] = Merge(l.cfg)[k]
      BY <3>2 DEF Merge
    <3>7. Agrees(p)'
      BY <2>1, <3>2, <3>4, <3>5, <3>6 DEF Agrees, Merge
    <3>. QED BY <3>4, <3>5, <3>7, Works
  <2>4. CASE Accepts(l.key, l.val)
    <3>1. setter' = [setter EXCEPT ![p] =
            [setter[p] EXCEPT !.at = "save",
                              !.cfg = [setter[p].cfg EXCEPT ![setter[p].key] = setter[p].val]]]
      BY <1>2, <2>1, <2>4 DEF Apply
    <3>. QED BY <2>1, <2>3, <3>1
  <2>5. CASE ~Accepts(l.key, l.val)
    BY <1>2, <2>1, <2>2, <2>5 DEF Apply
  <2>. QED BY <2>4, <2>5
<1>3. ASSUME NEW p \in Setters, SaveConfig(p) PROVE ConfigInv'
  <2>1. PICK l \in Asked : l = setter[p] /\ Agrees(p) /\ l.at = "save"
    BY <1>3, RestingIdle DEF SaveConfig, ConfigInv
  <2>2. config' = l.cfg /\ config' \in Config
    BY <1>3, <2>1 DEF SaveConfig, Asked
  <2>3. \A k \in Keys \ l.raced : k # l.key => Merge(config')[k] = Merge(config)[k]
    BY <2>1, <2>2 DEF Agrees
  <2>4. DOMAIN setter' = Setters /\ setter'[p] = Resting
    BY <1>3 DEF SaveConfig
  <2>5. ASSUME NEW q \in Setters, q # p
        PROVE  setter'[q] = Resting \/ (setter'[q] \in Asked /\ Agrees(q)')
    <3>1. CASE setter[q] = Resting
      BY <1>3, <2>5, <3>1, RestingIdle DEF SaveConfig
    <3>2. CASE setter[q] \in Asked /\ Agrees(q)
      <4>1. PICK o \in Asked : o = setter[q]
        BY <3>2
      <4>2. PICK x : x = o.raced \union {l.key} \union l.raced
        OBVIOUS
      <4>3. x \subseteq Keys /\ o.at # "idle"
        BY <4>2 DEF Asked
      <4>4. PICK r : r = [o EXCEPT !.raced = x]
        OBVIOUS
      <4>5. /\ r \in Asked /\ r.at = o.at /\ r.cfg = o.cfg /\ r.key = o.key
            /\ r.val = o.val /\ r.raced = x
        BY <4>3, <4>4 DEF Asked
      <4>6. setter'[q] = r
        BY <1>3, <2>1, <2>5, <4>1, <4>2, <4>3, <4>4 DEF SaveConfig
      <4>7. Agrees(q)'
        BY <2>3, <3>2, <4>1, <4>2, <4>5, <4>6 DEF Agrees, Merge
      <4>. QED BY <4>5, <4>6, <4>7
    <3>. QED BY <3>1, <3>2 DEF ConfigInv
  <2>. QED BY <2>2, <2>4, <2>5 DEF ConfigInv
<1>4. ASSUME NEW p \in Setters, GiveUp(p) PROVE ConfigInv'
  BY <1>4, Rests DEF GiveUp
<1>5. CASE UNCHANGED configVars
  BY <1>5 DEF configVars, ConfigInv, Agrees, Merge
<1>. QED BY <1>1, <1>2, <1>3, <1>4, <1>5 DEF ConfigNext

\* A `vc config set` changes its key to what it was told, and no key but those that
\* other invocations have saved since it read the file (config.Load to config.Save).
THEOREM SetChangesOneKey == ConfigSpec => SetsOneKey
<1> DEFINE One(p) ==
      (setter[p].at = "save" /\ setter'[p].at = "idle" /\ config' # config) =>
         LET key == setter[p].key
             val == setter[p].val
         IN  /\ Merge(config')[key] = IF val = Unset THEN DefaultOf[key] ELSE val
             /\ \A k \in Keys \ (setter[p].raced \union {key}) :
                  Merge(config')[k] = Merge(config)[k]
<1>1. ConfigInv /\ [ConfigNext]_configVars => \A p \in Setters : One(p)
  <2> SUFFICES ASSUME ConfigInv, [ConfigNext]_configVars, NEW p \in Setters,
                      setter[p].at = "save", setter'[p].at = "idle", config' # config
               PROVE  One(p)
    OBVIOUS
  <2>1. PICK q \in Setters : SaveConfig(q)
    BY DEF ConfigNext, configVars, Load, Apply, GiveUp
  <2>2. PICK l \in Asked : l = setter[p] /\ Agrees(p) /\ l.at = "save"
    BY RestingIdle DEF ConfigInv
  <2>3. q = p
    <3>1. SUFFICES ASSUME q # p PROVE FALSE
      OBVIOUS
    <3>2. PICK x : setter'[p] = [l EXCEPT !.raced = x]
      BY <2>1, <2>2, <3>1 DEF SaveConfig
    <3>. QED BY <2>2, <3>2 DEF Asked
  <2>4. config' = l.cfg /\ l.cfg \in Config /\ l.key \in Keys
    BY <2>1, <2>2, <2>3 DEF SaveConfig, Asked
  <2>5. Merge(config')[l.key] = IF l.val = Unset THEN DefaultOf[l.key] ELSE l.val
    BY <2>2, <2>4, MergeTwice DEF Agrees
  <2>6. \A k \in Keys \ (l.raced \union {l.key}) : Merge(config')[k] = Merge(config)[k]
    BY <2>2, <2>4 DEF Agrees
  <2>. QED BY <2>2, <2>5, <2>6
<1>2. ConfigSpec => []ConfigInv
  BY InitConfigInv, StepConfigInv, PTL DEF ConfigSpec
<1>. QED BY <1>1, <1>2, PTL DEF ConfigSpec, SetsOneKey

-----------------------------------------------------------------------------
(* Names.                                                                  *)

\* What has been there all the while is there, and List has read its record or will.
Seen ==
  /\ chooser.at # "idle" => \A n \in chooser.lasting : n \in VMNames /\ entry[n] = "vm"
  /\ chooser.at = "read" => chooser.lasting \subseteq chooser.todo \union chooser.found

NameInv == chooser \in Choosing /\ DOMAIN entry = VMNames /\ Seen

\* Nothing has been asked for.
LEMMA InitNameInv == NameInit => NameInv
  BY NameAssumption DEF NameInit, NameInv, Seen, Unasked, Choosing

\* Each step of List, and each VM that comes or goes meanwhile, keeps NameInv.
LEMMA StepNameInv == NameInv /\ [NameNext]_nameVars => NameInv'
<1> SUFFICES ASSUME NameInv, [NameNext]_nameVars PROVE NameInv'
  OBVIOUS
<1>1. ASSUME NEW n \in VMNames \union {NoName}, AskFor(n) PROVE NameInv'
  BY <1>1, NameAssumption
  DEF AskFor, ChooserAt, Unasked, Existing, NameInv, Choosing, Seen
<1>2. ASSUME NEW n \in VMNames, AskExec(n) PROVE NameInv'
  BY <1>2 DEF AskExec, ChooserAt, Unasked, Existing, NameInv, Choosing, Seen
<1>3. ASSUME ExecExists PROVE NameInv'
  BY <1>3 DEF ExecExists, ChooserAt, NameInv, Choosing, Seen
<1>4. ASSUME ReadDir PROVE NameInv'
  BY <1>4 DEF ReadDir, ChooserAt, NameInv, Choosing, Seen
<1>5. ASSUME ReadEntry PROVE NameInv'
  <2>0. PICK n \in chooser.todo :
          chooser' = [chooser EXCEPT !.todo = @ \ {n},
                        !.found = IF entry[n] = "vm" THEN @ \union {n} ELSE @]
    BY <1>5 DEF ReadEntry
  <2>1. PICK f : /\ chooser' = [chooser EXCEPT !.todo = @ \ {n}, !.found = f]
                 /\ f \in {chooser.found, chooser.found \union {n}}
                 /\ entry[n] = "vm" => f = chooser.found \union {n}
    <3>1. CASE entry[n] = "vm"
      BY <2>0, <3>1
    <3>2. CASE entry[n] # "vm"
      BY <2>0, <3>2
    <3>. QED BY <3>1, <3>2
  <2>2. chooser.todo \subseteq VMNames /\ chooser.found \subseteq VMNames
    BY DEF NameInv, Choosing
  <2>3. chooser' \in Choosing
    BY <2>1, <2>2 DEF NameInv, Choosing
  <2>4. Seen'
    BY <1>5, <2>1, <2>2 DEF ReadEntry, ChooserAt, NameInv, Choosing, Seen
  <2>. QED BY <1>5, <2>3, <2>4 DEF ReadEntry, NameInv
<1>6. ASSUME DefaultVM PROVE NameInv'
  <2>1. CASE \E s \in {"error", "get"} : chooser' = [chooser EXCEPT !.at = s]
    BY <1>6, <2>1 DEF DefaultVM, ChooserAt, NameInv, Choosing, Seen
  <2>2. CASE \E n \in chooser.found : chooser' = [chooser EXCEPT !.at = "get", !.arg = n]
    BY <1>6, <2>2 DEF DefaultVM, ChooserAt, NameInv, Choosing, Seen
  <2>. QED BY <1>6, <2>1, <2>2 DEF DefaultVM
<1>7. ASSUME GetRecord PROVE NameInv'
  <2>1. PICK s \in {"acts", "error"} : chooser' = [chooser EXCEPT !.at = s]
    BY <1>7 DEF GetRecord
  <2>. QED BY <1>7, <2>1 DEF GetRecord, ChooserAt, NameInv, Choosing, Seen
<1>8. ASSUME CommandEndsHere PROVE NameInv'
  BY <1>8, NameAssumption DEF CommandEndsHere, Unasked, NameInv, Choosing, Seen
<1>9. ASSUME NEW n \in VMNames, Appears(n) PROVE NameInv'
  BY <1>9 DEF Appears, NameInv, Seen
<1>10. ASSUME NEW n \in VMNames, Disappears(n) PROVE NameInv'
  BY <1>10 DEF Disappears, NameInv, Choosing, Seen
<1>11. CASE UNCHANGED nameVars
  BY <1>11 DEF nameVars, NameInv, Seen
<1>. QED BY <1>1, <1>2, <1>3, <1>4, <1>5, <1>6, <1>7, <1>8, <1>9, <1>10, <1>11
      DEF NameNext

\* A command that turns to a VM it did not name has had no other to choose from all the
\* while: List, which is no snapshot, misses none that lasts (Manager.DefaultVM).
THEOREM NoOtherVM == NameSpec => NeverPicks
<1> DEFINE Only == \A n \in VMNames :
       (ChooserAt("read") /\ chooser'.at = "get" /\ chooser'.arg = n /\ chooser.arg # n)
         => chooser.lasting \subseteq {n}
<1>1. NameInv /\ [NameNext]_nameVars => Only
  <2> SUFFICES ASSUME NameInv, [NameNext]_nameVars, NEW n \in VMNames, ChooserAt("read"),
                      chooser'.at = "get", chooser'.arg = n, chooser.arg # n
               PROVE  chooser.lasting \subseteq {n}
    OBVIOUS
  <2>1. DefaultVM
    <3>1. ~UNCHANGED nameVars
      BY DEF nameVars, ChooserAt
    <3>2. ASSUME NEW m \in VMNames, Appears(m) \/ Disappears(m) PROVE FALSE
      BY <3>2 DEF Appears, Disappears, ChooserAt, NameInv, Choosing
    <3>3. ASSUME ReadEntry PROVE FALSE
      BY <3>3 DEF ReadEntry, ChooserAt, NameInv, Choosing
    <3>. QED
      BY <3>1, <3>2, <3>3
      DEF NameNext, AskFor, AskExec, ExecExists, ReadDir, GetRecord, CommandEndsHere, ChooserAt
  <2>2. chooser.todo = {} /\ chooser.found = {n}
    BY <2>1 DEF DefaultVM, NameInv, Choosing
  <2>. QED BY <2>2 DEF NameInv, Seen, ChooserAt
<1>2. NameSpec => []NameInv
  BY InitNameInv, StepNameInv, PTL DEF NameSpec
<1>. QED BY <1>1, <1>2, PTL DEF NameSpec, NeverPicks

-----------------------------------------------------------------------------
(* Copies.                                                                 *)

Entries(s) == {s[i] : i \in 1 .. Len(s)}

\* The walk will come to p, or to a directory above it.
Ahead(p) == \E k \in 0 .. Len(p) : SubSeq(p, 1, k) \in Entries(copy.todo)

Walks == [way : {"up", "down"}, at : {"idle", "walk", "fill"}, todo : Seq(Paths),
          out : {"none", "ok", "failed"}]

WalkOK ==
  /\ copy \in Walks
  /\ copy.at = "fill" => copy.todo # <<>> /\ source[Next1] \in {"file", "none"}

TreesOK ==
  /\ source \in [Paths -> Kinds \union {"none"}] /\ IsTree(source)
  /\ target \in [Paths -> {"none", "dir", "closed", "partial", "file"}]
  /\ steady \subseteq Paths
  /\ \A p \in steady : /\ source[p] # "none"
                       /\ \A k \in 0 .. Len(p) : SubSeq(p, 1, k) \in steady

\* A file that stays is copied or still ahead; what is half copied is being filled.
Progress ==
  /\ (copy.at # "idle" \/ copy.out = "ok") =>
       \A p \in steady : source[p] = "file" => target[p] = "file" \/ Ahead(p)
  /\ \A p \in Paths : target[p] = "partial" =>
       \/ copy.at = "fill" /\ p = Next1
       \/ copy.at = "idle" /\ copy.out = "failed"
  /\ copy.at = "idle" => copy.todo = <<>>

CopyInv == WalkOK /\ TreesOK /\ Progress

\* What is above a path, and above that.
LEMMA Prefixes ==
  ASSUME NEW p \in Paths, NEW k \in 0 .. Len(p)
  PROVE  /\ Len(p) \in Nat /\ SubSeq(p, 1, Len(p)) = p
         /\ SubSeq(p, 1, k) \in Paths /\ Len(SubSeq(p, 1, k)) = k
         /\ \A j \in 0 .. k : SubSeq(SubSeq(p, 1, k), 1, j) = SubSeq(p, 1, j)
<1> DEFINE S == {p[i] : i \in DOMAIN p}
<1>1. p \in Seq(S)
  BY PathsAssumption
<1> HIDE DEF S
<1>2. Len(p) \in Nat /\ SubSeq(p, 1, Len(p)) = p /\ DOMAIN p = 1 .. Len(p)
  BY <1>1, SubSeqFull, LenProperties
<1>3. \A i \in 1 .. k : p[i] \in S
  BY <1>2 DEF S
<1>4. Len(SubSeq(p, 1, k)) = k
  BY <1>2, <1>3, SubSeqProperties
<1>5. ASSUME NEW j \in 0 .. k PROVE SubSeq(SubSeq(p, 1, k), 1, j) = SubSeq(p, 1, j)
  <2>1. CASE j = 0
    BY <2>1, SubSeqEmpty
  <2>2. CASE j # 0
    <3>1. k \in 1 .. Len(p) /\ 1 \in 1 .. Len(p) /\ 1 \in 1 .. k - 1 + 1 /\ j \in 1 .. k - 1 + 1
      BY <1>2, <1>5, <2>2
    <3>2. SubSeq(SubSeq(p, 1, k), 1, j) = SubSeq(p, 1 + 1 - 1, 1 + j - 1)
      BY <1>1, <3>1, SubSeqOfSubSeq
    <3>. QED BY <3>1, <3>2
  <2>. QED BY <2>1, <2>2
<1>. QED BY <1>2, <1>4, <1>5, PathsAssumption

\* A directory of the walk gives way to what it holds.
LEMMA Descends ==
  ASSUME NEW t \in Seq(Paths), t # <<>>, NEW s \in Seq(Paths), NEW c, c = s \o Tail(t)
  PROVE  /\ Head(t) \in Paths /\ Head(t) \in Entries(t) /\ Entries(t) \subseteq Paths
         /\ c \in Seq(Paths) /\ Entries(s) \subseteq Entries(c)
         /\ Entries(t) \ {Head(t)} \subseteq Entries(c)
<1>1. /\ Head(t) \in Paths /\ Head(t) = t[1] /\ Len(t) \in Nat /\ Len(t) >= 1
      /\ \A i \in 1 .. Len(t) : t[i] \in Paths
  BY HeadTailProperties, LenProperties, EmptySeq
<1>2. PICK r \in Seq(Paths) : /\ r = Tail(t) /\ Len(r) = Len(t) - 1
                              /\ \A i \in 1 .. Len(r) : r[i] = t[i + 1]
  BY HeadTailProperties
<1>3. /\ c \in Seq(Paths) /\ Len(c) = Len(s) + Len(r) /\ Len(s) \in Nat /\ Len(r) \in Nat
      /\ \A i \in 1 .. Len(s) + Len(r) : c[i] = IF i <= Len(s) THEN s[i] ELSE r[i - Len(s)]
  BY <1>2, ConcatProperties, LenProperties
<1>4. ASSUME NEW i \in 1 .. Len(s) PROVE s[i] \in Entries(c)
  <2>1. i \in 1 .. Len(c) /\ c[i] = s[i]
    BY <1>3
  <2>. QED BY <2>1 DEF Entries
<1>5. ASSUME NEW i \in 1 .. Len(t), t[i] # Head(t) PROVE t[i] \in Entries(c)
  <2>1. i # 1 /\ i - 1 \in 1 .. Len(r) /\ r[i - 1] = t[i]
    BY <1>1, <1>2, <1>5
  <2>2. PICK j : j = Len(s) + (i - 1)
    OBVIOUS
  <2>3. j \in 1 .. Len(c) /\ j > Len(s) /\ j - Len(s) = i - 1 /\ c[j] = r[i - 1]
    BY <1>3, <2>1, <2>2
  <2>. QED BY <2>1, <2>3 DEF Entries
<1>6. Head(t) \in Entries(t) /\ Entries(t) \subseteq Paths
  <2>1. 1 \in 1 .. Len(t)
    BY <1>1
  <2>. QED BY <1>1, <2>1 DEF Entries
<1>7. Entries(s) \subseteq Entries(c)
  BY <1>4 DEF Entries
<1>8. Entries(t) \ {Head(t)} \subseteq Entries(c)
  BY <1>5 DEF Entries
<1>. QED BY <1>1, <1>3, <1>6, <1>7, <1>8

\* The walk goes on behind its next path.
LEMMA GoesPast ==
  ASSUME NEW t \in Seq(Paths), t # <<>>
  PROVE  /\ Head(t) \in Paths /\ Head(t) \in Entries(t) /\ Entries(t) \subseteq Paths
         /\ Tail(t) \in Seq(Paths) /\ Entries(t) \ {Head(t)} \subseteq Entries(Tail(t))
<1>1. <<>> \in Seq(Paths) /\ Tail(t) \in Seq(Paths) /\ Tail(t) = <<>> \o Tail(t)
  BY EmptySeq, HeadTailProperties, ConcatEmptySeq
<1>. QED BY <1>1, Descends

\* What a directory holds is listed, as a list of paths.
LEMMA ListsAll ==
  ASSUME NEW d \in Paths, NEW s \in Listings(d)
  PROVE  /\ s \in Seq(Paths)
         /\ \A q \in Paths \ {<<>>} : Parent(q) = d /\ source[q] # "none" => q \in Entries(s)
<1> DEFINE below == {q \in Paths \ {<<>>} : Parent(q) = d /\ source[q] # "none"}
<1>1. Cardinality(below) \in Nat
  BY PathsAssumption, FS_Subset, FS_CardinalityType
<1>2. PICK n \in Nat : n = Cardinality(below)
  BY <1>1
<1>3. s \in [1 .. n -> below] /\ \A q \in below : \E i \in DOMAIN s : s[i] = q
  BY <1>2 DEF Listings
<1>4. s \in Seq(Paths) /\ Len(s) = n
  BY <1>3
<1>. QED BY <1>3, <1>4 DEF Entries

\* What stays below a directory that stays is below one of its entries.
LEMMA AheadBelow ==
  ASSUME TreesOK, NEW p \in steady, source[p] = "file", NEW k \in 0 .. Len(p),
         IsDir(source[SubSeq(p, 1, k)])
  PROVE  /\ k + 1 \in 0 .. Len(p)
         /\ SubSeq(p, 1, k + 1) \in Paths \ {<<>>} /\ source[SubSeq(p, 1, k + 1)] # "none"
         /\ Parent(SubSeq(p, 1, k + 1)) = SubSeq(p, 1, k)
<1>1. p \in Paths /\ Len(p) \in Nat /\ SubSeq(p, 1, Len(p)) = p
  BY Prefixes DEF TreesOK
<1>2. k # Len(p)
  <2>1. ~IsDir(source[p])
    BY DEF IsDir
  <2>. QED BY <1>1, <2>1
<1>3. k + 1 \in 0 .. Len(p) /\ k \in 0 .. k + 1
  <2>1. PICK n \in Nat : n = Len(p)
    BY <1>1, Zenon
  <2>2. k \in 0 .. n /\ k # n
    BY <1>2, <2>1, Zenon
  <2>3. k + 1 \in 0 .. n /\ k \in 0 .. k + 1
    BY <2>2
  <2>. QED BY <2>1, <2>3, Zenon
<1>4. PICK q : q = SubSeq(p, 1, k + 1)
  OBVIOUS
<1>5. q \in Paths /\ Len(q) = k + 1 /\ SubSeq(q, 1, k) = SubSeq(p, 1, k)
  BY <1>1, <1>3, <1>4, Prefixes
<1>6. q # <<>> /\ Parent(q) = SubSeq(p, 1, k)
  BY <1>5, EmptySeq DEF Parent
<1>7. source[q] # "none"
  BY <1>3, <1>4 DEF TreesOK
<1>. QED BY <1>3, <1>4, <1>5, <1>6, <1>7

\* Only a directory has something below it.
LEMMA AboveIsDir ==
  ASSUME TreesOK, NEW p \in steady, NEW k \in 0 .. Len(p)
  PROVE  SubSeq(p, 1, k) = p \/ IsDir(source[SubSeq(p, 1, k)])
<1>1. p \in Paths /\ source[p] # "none" /\ Len(p) \in Nat /\ SubSeq(p, 1, Len(p)) = p
  BY Prefixes DEF TreesOK
<1>2. CASE k = Len(p)
  BY <1>1, <1>2
<1>3. CASE k # Len(p)
  <2>1. k \in 0 .. Len(p) - 1
    <3>1. PICK n \in Nat : n = Len(p)
      BY <1>1, Zenon
    <3>2. k \in 0 .. n /\ k # n
      BY <1>3, <3>1, Zenon
    <3>3. k \in 0 .. n - 1
      BY <3>2
    <3>. QED BY <3>1, <3>3, Zenon
  <2>2. IsTree(source)
    BY DEF TreesOK
  <2>. QED BY <1>1, <2>1, <2>2, Zenon DEF IsTree
<1>. QED BY <1>2, <1>3

\* Nothing is copied yet.
LEMMA InitCopyInv == CopyInit => CopyInv
<1> SUFFICES ASSUME CopyInit PROVE CopyInv
  OBVIOUS
<1>1. <<>> \in Seq(Paths)
  BY EmptySeq
<1>2. WalkOK
  BY <1>1 DEF CopyInit, WalkOK, Walks
<1>3. TreesOK
  BY DEF CopyInit, TreesOK
<1>4. Progress
  BY DEF CopyInit, Progress
<1>. QED BY <1>2, <1>3, <1>4 DEF CopyInv

\* A copy starts: all of the source is ahead.
LEMMA StartsCopyInv == CopyInv /\ CopyStarts => CopyInv'
<1> SUFFICES ASSUME CopyInv, CopyStarts PROVE CopyInv'
  OBVIOUS
<1>1. PICK t : t = <<<<>>>>
  OBVIOUS
<1>2. t \in Seq(Paths) /\ t # <<>> /\ <<>> \in Entries(t)
  <2>1. Len(t) = 1 /\ t[1] = <<>>
    BY <1>1
  <2>. QED BY <1>1, <2>1, PathsAssumption DEF Entries
<1>3. PICK w \in {"up", "down"} : copy' = [way |-> w, at |-> "walk", todo |-> t, out |-> "none"]
  BY <1>1 DEF CopyStarts
<1>4. WalkOK'
  BY <1>2, <1>3 DEF WalkOK, Walks
<1>5. TreesOK'
  <2>1. ASSUME NEW p \in steady', NEW k \in 0 .. Len(p) PROVE SubSeq(p, 1, k) \in steady'
    <3>1. p \in Paths /\ source[p] # "none"
      BY DEF CopyStarts
    <3>2. SubSeq(p, 1, k) \in Paths
      BY <3>1, Prefixes
    <3>3. CASE k = Len(p)
      BY <3>1, <3>3, Prefixes
    <3>4. CASE k # Len(p)
      <4>1. k \in 0 .. Len(p) - 1
        BY <3>1, <3>4, Prefixes
      <4>2. IsDir(source[SubSeq(p, 1, k)])
        BY <3>1, <4>1 DEF CopyInv, TreesOK, IsTree
      <4>. QED BY <3>2, <4>2 DEF CopyStarts, IsDir
    <3>. QED BY <3>3, <3>4
  <2>. QED BY <2>1 DEF CopyInv, TreesOK, CopyStarts, IsTree
<1>6. ASSUME NEW p \in Paths PROVE Ahead(p)'
  <2>1. 0 \in 0 .. Len(p) /\ SubSeq(p, 1, 0) = <<>>
    BY Prefixes, PathsAssumption, SubSeqEmpty
  <2>. QED BY <1>2, <1>3, <2>1 DEF Ahead
<1>7. Progress'
  <2>1. copy'.at = "walk" /\ target' = [p \in Paths |-> "none"] /\ steady' \subseteq Paths
    BY <1>3 DEF CopyStarts
  <2>. QED BY <1>6, <2>1 DEF Progress
<1>. QED BY <1>4, <1>5, <1>7 DEF CopyInv

\* A step of the walk leaves the source alone.
LEMMA SourceStays ==
  ASSUME TreesOK, UNCHANGED <<source, steady>>,
         target' = target \/ \E d \in Paths, x \in {"dir", "closed", "partial", "file"} :
                               target' = [target EXCEPT ![d] = x]
  PROVE  TreesOK'
  BY DEF TreesOK, IsTree

\* The walk goes past its next path, which keeps no other file from being ahead.
LEMMA StaysAhead ==
  ASSUME CopyInv, copy.at # "idle", copy.todo # <<>>, copy'.todo = Tail(copy.todo),
         ~IsDir(source[Next1]), NEW p \in steady, p # Next1, Ahead(p)
  PROVE  Ahead(p)'
<1>1. copy.todo \in Seq(Paths)
  BY DEF CopyInv, WalkOK, Walks
<1>2. PICK k \in 0 .. Len(p) : SubSeq(p, 1, k) \in Entries(copy.todo)
  BY DEF Ahead
<1>3. SubSeq(p, 1, k) # Next1
  BY AboveIsDir DEF CopyInv
<1>4. SubSeq(p, 1, k) \in Entries(copy'.todo)
  BY <1>1, <1>2, <1>3, GoesPast DEF Next1
<1>. QED BY <1>4 DEF Ahead

\* A directory is made and what it holds is ahead.
LEMMA DirCopyInv == CopyInv /\ CopyDir => CopyInv'
<1> SUFFICES ASSUME CopyInv, CopyDir PROVE CopyInv'
  OBVIOUS
<1> DEFINE t == copy.todo
<1>1. t \in Seq(Paths) /\ t # <<>> /\ copy \in Walks /\ Next1 = Head(t)
  BY DEF CopyInv, WalkOK, Walks, CopyDir, Next1
<1>2. PICK d \in Paths : d = Next1
  BY <1>1, GoesPast
<1>3. PICK s \in Listings(d) : copy' = [copy EXCEPT !.todo = s \o Tail(t)]
  BY <1>2 DEF CopyDir
<1>4. PICK c : c = s \o Tail(t)
  OBVIOUS
<1>5. s \in Seq(Paths)
  BY ListsAll
<1>6. c \in Seq(Paths) /\ Entries(s) \subseteq Entries(c) /\ Entries(t) \ {d} \subseteq Entries(c)
  <2> HIDE DEF t
  <2>1. d = Head(t)
    BY <1>1, <1>2
  <2>2. /\ c \in Seq(Paths) /\ Entries(s) \subseteq Entries(c)
        /\ Entries(t) \ {Head(t)} \subseteq Entries(c)
    BY <1>1, <1>4, <1>5, Descends
  <2>. QED BY <2>1, <2>2
<1>7. copy' = [copy EXCEPT !.todo = c]
  BY <1>3, <1>4
<1>8. copy' \in Walks /\ copy'.at = "walk" /\ copy'.todo = c /\ copy'.out = copy.out
  BY <1>1, <1>6, <1>7 DEF Walks, CopyDir
<1>9. PICK x \in {"dir", "closed"} : target' = [target EXCEPT ![d] = x]
  BY <1>2 DEF CopyDir, IsDir
<1>10. IsDir(source[d]) /\ UNCHANGED <<source, steady>>
  BY <1>2 DEF CopyDir
<1>11. ASSUME NEW p \in steady, source[p] = "file", Ahead(p) PROVE Ahead(p)'
  <2>1. PICK k \in 0 .. Len(p) : SubSeq(p, 1, k) \in Entries(t)
    BY <1>11 DEF Ahead
  <2>2. CASE SubSeq(p, 1, k) = d
    <3>1. /\ k + 1 \in 0 .. Len(p) /\ SubSeq(p, 1, k + 1) \in Paths \ {<<>>}
          /\ source[SubSeq(p, 1, k + 1)] # "none" /\ Parent(SubSeq(p, 1, k + 1)) = d
      BY <1>10, <1>11, <2>2, AheadBelow DEF CopyInv
    <3>2. SubSeq(p, 1, k + 1) \in Entries(s)
      BY <3>1, ListsAll
    <3>. QED BY <1>6, <1>8, <3>1, <3>2 DEF Ahead
  <2>3. CASE SubSeq(p, 1, k) # d
    BY <1>6, <1>8, <2>1, <2>3 DEF Ahead
  <2>. QED BY <2>2, <2>3
<1>12. WalkOK'
  BY <1>8 DEF WalkOK
<1>13. TreesOK'
  BY <1>9, <1>10, SourceStays DEF CopyInv
<1>14. Progress'
  <2>1. ASSUME NEW p \in steady', source'[p] = "file" PROVE target'[p] = "file" \/ Ahead(p)'
    <3>1. p \in steady /\ source[p] = "file" /\ p # d
      BY <1>10, <2>1 DEF IsDir
    <3>2. target[p] = "file" \/ Ahead(p)
      BY <3>1 DEF CopyInv, Progress, CopyDir
    <3>. QED BY <1>9, <1>11, <3>1, <3>2 DEF CopyInv, TreesOK
  <2>2. ASSUME NEW p \in Paths PROVE target'[p] # "partial"
    <3>1. target[p] # "partial"
      BY DEF CopyInv, Progress, CopyDir
    <3>. QED BY <1>9, <3>1 DEF CopyInv, TreesOK
  <2>. QED BY <1>8, <2>1, <2>2 DEF Progress
<1>. QED BY <1>12, <1>13, <1>14 DEF CopyInv

\* A link is passed over.
LEMMA LinkCopyInv == CopyInv /\ SkipLink => CopyInv'
<1> SUFFICES ASSUME CopyInv, SkipLink PROVE CopyInv'
  OBVIOUS
<1>1. copy.todo \in Seq(Paths) /\ copy.todo # <<>> /\ copy \in Walks /\ copy.at = "walk"
  BY DEF CopyInv, WalkOK, Walks, SkipLink
<1>2. PICK c \in Seq(Paths) : c = Tail(copy.todo)
  BY <1>1, GoesPast
<1>3. copy' \in Walks /\ copy'.at = "walk" /\ copy'.todo = c
  BY <1>1, <1>2 DEF SkipLink, Walks
<1>4. WalkOK'
  BY <1>3 DEF WalkOK
<1>5. TreesOK'
  BY SourceStays DEF SkipLink, CopyInv
<1>6. Progress'
  <2>1. ASSUME NEW p \in steady', source'[p] = "file" PROVE target'[p] = "file" \/ Ahead(p)'
    <3>1. p \in steady /\ source[p] = "file" /\ p # Next1 /\ ~IsDir(source[Next1])
      BY <2>1 DEF SkipLink, IsDir
    <3>2. target[p] = "file" \/ Ahead(p)
      BY <1>1, <3>1 DEF CopyInv, Progress
    <3>. QED BY <1>1, <1>2, <1>3, <3>1, <3>2, StaysAhead DEF SkipLink
  <2>2. ASSUME NEW p \in Paths PROVE target'[p] # "partial"
    BY <1>1 DEF CopyInv, Progress, SkipLink
  <2>. QED BY <1>3, <2>1, <2>2 DEF Progress
<1>. QED BY <1>4, <1>5, <1>6 DEF CopyInv

\* A file is opened, and stays ahead until it is filled.
LEMMA FileCopyInv == CopyInv /\ CopyFile => CopyInv'
<1> SUFFICES ASSUME CopyInv, CopyFile PROVE CopyInv'
  OBVIOUS
<1>1. copy.todo \in Seq(Paths) /\ copy.todo # <<>> /\ copy \in Walks /\ copy.at = "walk"
  BY DEF CopyInv, WalkOK, Walks, CopyFile
<1>2. copy' \in Walks /\ copy'.at = "fill" /\ copy'.todo = copy.todo
  BY <1>1 DEF CopyFile, Walks
<1>3. PICK d \in Paths : d = Next1 /\ d \in Entries(copy.todo)
  BY <1>1, GoesPast DEF Next1
<1>4. /\ target' = [target EXCEPT ![d] = "partial"] /\ UNCHANGED <<source, steady>>
      /\ Next1' = d /\ source[d] = "file"
  BY <1>2, <1>3 DEF CopyFile, Next1
<1>5. WalkOK'
  BY <1>1, <1>2, <1>4 DEF WalkOK
<1>6. TreesOK'
  BY <1>4, SourceStays DEF CopyInv
<1>7. Progress'
  <2>1. ASSUME NEW p \in steady', source'[p] = "file" PROVE target'[p] = "file" \/ Ahead(p)'
    <3>1. p \in steady /\ source[p] = "file" /\ p \in Paths
      BY <1>4, <2>1 DEF CopyInv, TreesOK
    <3>2. CASE p = d
      <4>1. PICK n \in Nat : n = Len(p) /\ SubSeq(p, 1, n) = p
        BY <3>1, Prefixes
      <4>2. n \in 0 .. n
        BY <4>1
      <4>. QED BY <1>2, <1>3, <3>2, <4>1, <4>2 DEF Ahead
    <3>3. CASE p # d
      <4>1. target[p] = "file" \/ Ahead(p)
        BY <1>1, <3>1 DEF CopyInv, Progress
      <4>. QED BY <1>2, <1>4, <3>1, <3>3, <4>1 DEF Ahead, CopyInv, TreesOK
    <3>. QED BY <3>2, <3>3
  <2>2. ASSUME NEW p \in Paths, target'[p] = "partial" PROVE p = d
    <3>1. target[p] # "partial"
      BY <1>1 DEF CopyInv, Progress
    <3>. QED BY <1>4, <2>2, <3>1 DEF CopyInv, TreesOK
  <2>. QED BY <1>2, <1>4, <2>1, <2>2 DEF Progress
<1>. QED BY <1>5, <1>6, <1>7 DEF CopyInv

\* The file is whole, and the walk goes past it.
LEMMA FillCopyInv == CopyInv /\ FillFile => CopyInv'
<1> SUFFICES ASSUME CopyInv, FillFile PROVE CopyInv'
  OBVIOUS
<1>1. /\ copy.todo \in Seq(Paths) /\ copy.todo # <<>> /\ copy \in Walks /\ copy.at = "fill"
      /\ source[Next1] \in {"file", "none"}
  BY DEF CopyInv, WalkOK, Walks, FillFile
<1>2. PICK c \in Seq(Paths) : c = Tail(copy.todo)
  BY <1>1, GoesPast
<1>3. copy' \in Walks /\ copy'.at = "walk" /\ copy'.todo = c
  BY <1>1, <1>2 DEF FillFile, Walks
<1>4. PICK d \in Paths : d = Next1
  BY <1>1, GoesPast DEF Next1
<1>5. /\ target' = [target EXCEPT ![d] = "file"] /\ UNCHANGED <<source, steady>>
      /\ ~IsDir(source[d])
  BY <1>1, <1>4 DEF FillFile, IsDir
<1>6. target'[d] = "file" /\ \A p \in Paths \ {d} : target'[p] = target[p]
  BY <1>5 DEF CopyInv, TreesOK
<1>7. WalkOK'
  BY <1>3 DEF WalkOK
<1>8. TreesOK'
  BY <1>5, SourceStays DEF CopyInv
<1>9. Progress'
  <2>1. ASSUME NEW p \in steady', source'[p] = "file" PROVE target'[p] = "file" \/ Ahead(p)'
    <3>1. p \in steady /\ source[p] = "file" /\ p \in Paths
      BY <1>5, <2>1 DEF CopyInv, TreesOK
    <3>2. CASE p = d
      BY <1>6, <3>2
    <3>3. CASE p # d
      <4>1. target[p] = "file" \/ Ahead(p)
        BY <1>1, <3>1 DEF CopyInv, Progress
      <4>2. CASE Ahead(p)
        BY <1>1, <1>2, <1>3, <1>4, <1>5, <3>1, <3>3, <4>2, StaysAhead
      <4>. QED BY <1>6, <3>1, <3>3, <4>1, <4>2
    <3>. QED BY <3>2, <3>3
  <2>2. ASSUME NEW p \in Paths PROVE target'[p] # "partial"
    BY <1>1, <1>4, <1>6 DEF CopyInv, Progress
  <2>. QED BY <1>3, <2>1, <2>2 DEF Progress
<1>. QED BY <1>7, <1>8, <1>9 DEF CopyInv

\* The walk ends, with an error or with nothing ahead.
LEMMA EndCopyInv == CopyInv /\ (CopyFails \/ CopyDone) => CopyInv'
<1> SUFFICES ASSUME CopyInv, CopyFails \/ CopyDone PROVE CopyInv'
  OBVIOUS
<1>1. copy \in Walks /\ copy.at # "idle" /\ <<>> \in Seq(Paths)
  BY EmptySeq DEF CopyInv, WalkOK, CopyFails, CopyDone
<1>2. PICK o \in {"ok", "failed"} :
        /\ copy' = [copy EXCEPT !.at = "idle", !.todo = <<>>, !.out = o]
        /\ o = "ok" => copy.at = "walk" /\ copy.todo = <<>>
  BY DEF CopyFails, CopyDone, CopyEnds
<1>3. copy' \in Walks /\ copy'.at = "idle" /\ copy'.todo = <<>> /\ copy'.out = o
  BY <1>1, <1>2 DEF Walks
<1>4. UNCHANGED <<source, target, steady>>
  BY DEF CopyFails, CopyDone
<1>5. WalkOK'
  BY <1>3 DEF WalkOK
<1>6. TreesOK'
  BY <1>4, SourceStays DEF CopyInv
<1>7. Progress'
  <2>1. ASSUME o = "ok", NEW p \in steady, source[p] = "file" PROVE target[p] = "file"
    <3>1. ~Ahead(p)
      <4>1. Entries(copy.todo) = {}
        BY <1>2, <2>1 DEF Entries
      <4>. QED BY <4>1 DEF Ahead
    <3>. QED BY <1>1, <2>1, <3>1 DEF CopyInv, Progress
  <2>2. ASSUME o = "ok", NEW p \in Paths PROVE target[p] # "partial"
    BY <1>2, <2>2 DEF CopyInv, Progress
  <2>. QED BY <1>3, <1>4, <2>1, <2>2 DEF Progress
<1>. QED BY <1>5, <1>6, <1>7 DEF CopyInv

\* What has vanished with p is what has p above it or is p.
LEMMA UnderVanished ==
  ASSUME CopyInv, NEW p \in Paths, Vanishes(p), NEW q \in Paths, source'[q] # "none",
         NEW k \in 0 .. Len(q)
  PROVE  source[q] # "none" /\ source'[q] = source[q]
         /\ source'[SubSeq(q, 1, k)] = source[SubSeq(q, 1, k)]
<1> DEFINE Gone(r) == Len(r) >= Len(p) /\ SubSeq(r, 1, Len(p)) = p
<1>1. \A r \in Paths : source'[r] = IF Gone(r) THEN "none" ELSE source[r]
  BY DEF Vanishes
<1>2. ~Gone(q) /\ source'[q] = source[q]
  BY <1>1
<1>3. PICK x \in Paths : x = SubSeq(q, 1, k)
  BY Prefixes
<1>4. PICK n \in Nat, m \in Nat : n = Len(p) /\ m = Len(q)
  BY Prefixes
<1>5. Len(x) = k /\ \A j \in 0 .. k : SubSeq(x, 1, j) = SubSeq(q, 1, j)
  BY <1>3, Prefixes
<1>6. ~Gone(x)
  <2>1. SUFFICES ASSUME k >= n, SubSeq(x, 1, n) = p PROVE FALSE
    BY <1>4, <1>5
  <2>2. n \in 0 .. k /\ m >= n
    BY <1>4, <2>1
  <2>3. SubSeq(q, 1, n) = p
    BY <1>5, <2>1, <2>2
  <2>. QED BY <1>2, <1>4, <2>2, <2>3
<1>. QED BY <1>1, <1>2, <1>3, <1>6

\* The user removes something: what is left is a tree, and so is what stays.
LEMMA VanishCopyInv == CopyInv /\ (\E p \in Paths : Vanishes(p)) => CopyInv'
<1> SUFFICES ASSUME CopyInv, NEW p \in Paths, Vanishes(p) PROVE CopyInv'
  OBVIOUS
<1>1. ASSUME NEW q \in Paths PROVE source'[q] \in {"none", source[q]}
  BY <1>1 DEF Vanishes
<1>2. UNCHANGED <<target, copy>> /\ copy.at # "idle" /\ DOMAIN source' = Paths
  BY DEF Vanishes
<1>3. \A q \in Paths : source[q] \in Kinds \union {"none"}
  BY DEF CopyInv, TreesOK
<1>4. \A q \in steady' : q \in steady /\ q \in Paths /\ source'[q] # "none"
  BY DEF Vanishes, CopyInv, TreesOK
<1>5. source' \in [Paths -> Kinds \union {"none"}]
  <2>1. source' = [q \in Paths |-> source'[q]]
    BY DEF Vanishes
  <2>. QED BY <1>1, <1>3, <2>1
<1>6. IsTree(source')
  <2>1. ASSUME NEW q \in Paths, source'[q] # "none", NEW k \in 0 .. Len(q) - 1
        PROVE  IsDir(source'[SubSeq(q, 1, k)])
    <3>1. k \in 0 .. Len(q)
      <4>1. PICK m \in Nat : m = Len(q)
        BY Prefixes
      <4>. QED BY <2>1, <4>1
    <3>2. source[q] # "none" /\ source'[SubSeq(q, 1, k)] = source[SubSeq(q, 1, k)]
      BY <2>1, <3>1, UnderVanished
    <3>3. IsDir(source[SubSeq(q, 1, k)])
      BY <2>1, <3>2 DEF CopyInv, TreesOK, IsTree
    <3>. QED BY <3>2, <3>3
  <2>. QED BY <2>1 DEF IsTree
<1>7. ASSUME NEW q \in steady', NEW k \in 0 .. Len(q) PROVE SubSeq(q, 1, k) \in steady'
  <2>1. source'[SubSeq(q, 1, k)] = source[SubSeq(q, 1, k)]
    BY <1>4, UnderVanished
  <2>2. SubSeq(q, 1, k) \in steady /\ source[SubSeq(q, 1, k)] # "none"
    BY <1>4 DEF CopyInv, TreesOK
  <2>. QED BY <2>1, <2>2 DEF Vanishes
<1>8. WalkOK'
  <2>1. copy.at = "fill" => source'[Next1] \in {"file", "none"}
    <3>1. copy.at = "fill" => Next1 \in Paths
      BY GoesPast DEF CopyInv, WalkOK, Walks, Next1
    <3>. QED BY <1>1, <3>1 DEF CopyInv, WalkOK
  <2>. QED BY <1>2, <2>1 DEF CopyInv, WalkOK, Next1
<1>9. TreesOK'
  BY <1>2, <1>4, <1>5, <1>6, <1>7 DEF TreesOK, CopyInv
<1>10. Progress'
  <2>1. ASSUME NEW q \in steady', source'[q] = "file" PROVE target[q] = "file" \/ Ahead(q)
    <3>1. q \in steady /\ source[q] = "file"
      BY <1>1, <1>4, <2>1
    <3>. QED BY <1>2, <3>1 DEF CopyInv, Progress
  <2>. QED BY <1>2, <2>1 DEF Progress, CopyInv, Ahead, Next1
<1>. QED BY <1>8, <1>9, <1>10 DEF CopyInv

\* The user makes a file: it has not been there all the while.
LEMMA EmergeCopyInv == CopyInv /\ (\E p \in Paths : Emerges(p)) => CopyInv'
<1> SUFFICES ASSUME CopyInv, NEW p \in Paths, Emerges(p) PROVE CopyInv'
  OBVIOUS
<1>1. /\ source' = [source EXCEPT ![p] = "file"] /\ UNCHANGED <<target, copy, steady>>
      /\ source[p] = "none" /\ p # <<>> /\ IsDir(source[Parent(p)]) /\ copy.at # "idle"
  BY DEF Emerges
<1>2. source'[p] = "file" /\ \A q \in Paths \ {p} : source'[q] = source[q]
  BY <1>1 DEF CopyInv, TreesOK
<1>3. \A q \in Paths : IsDir(source[q]) => IsDir(source'[q])
  BY <1>1, <1>2 DEF IsDir
<1>4. IsTree(source')
  <2>1. ASSUME NEW q \in Paths, source'[q] # "none", NEW k \in 0 .. Len(q) - 1
        PROVE  IsDir(source'[SubSeq(q, 1, k)])
    <3>1. PICK m \in Nat : m = Len(q)
      BY Prefixes
    <3>2. k \in 0 .. m /\ SubSeq(q, 1, k) \in Paths
      <4>1. k \in 0 .. m
        BY <2>1, <3>1
      <4>. QED BY <3>1, <4>1, Prefixes
    <3>3. IsDir(source[SubSeq(q, 1, k)])
      <4>1. CASE q # p
        BY <1>2, <2>1, <4>1 DEF CopyInv, TreesOK, IsTree
      <4>2. CASE q = p /\ k = m - 1
        BY <1>1, <3>1, <4>2 DEF Parent
      <4>3. CASE q = p /\ k # m - 1
        <5>1. PICK n \in Nat : n = m - 1 /\ k \in 0 .. n - 1 /\ n \in 0 .. m /\ k \in 0 .. n
          BY <2>1, <3>1, <3>2, <4>3
        <5>2. PICK x \in Paths : x = Parent(p) /\ x = SubSeq(p, 1, n)
          BY <3>1, <4>3, <5>1, Prefixes DEF Parent
        <5>3. Len(x) = n /\ SubSeq(x, 1, k) = SubSeq(p, 1, k)
          BY <3>1, <4>3, <5>1, <5>2, Prefixes
        <5>4. source[x] # "none"
          BY <1>1, <5>2 DEF IsDir
        <5>5. k \in 0 .. Len(x) - 1
          BY <5>1, <5>3
        <5>. QED BY <4>3, <5>3, <5>4, <5>5 DEF CopyInv, TreesOK, IsTree
      <4>. QED BY <4>1, <4>2, <4>3
    <3>. QED BY <1>3, <3>2, <3>3
  <2>. QED BY <2>1 DEF IsTree
<1>5. \A q \in steady : q # p /\ source'[q] = source[q]
  BY <1>1, <1>2 DEF CopyInv, TreesOK
<1>6. WalkOK'
  <2>1. copy.at = "fill" => source'[Next1] \in {"file", "none"}
    <3>1. copy.at = "fill" => Next1 \in Paths
      BY GoesPast DEF CopyInv, WalkOK, Walks, Next1
    <3>. QED BY <1>2, <3>1 DEF CopyInv, WalkOK
  <2>. QED BY <1>1, <2>1 DEF CopyInv, WalkOK, Next1
<1>7. TreesOK'
  <2>1. source' \in [Paths -> Kinds \union {"none"}]
    BY <1>1 DEF CopyInv, TreesOK, Kinds
  <2>. QED BY <1>1, <1>4, <1>5, <2>1 DEF CopyInv, TreesOK
<1>8. Progress'
  BY <1>1, <1>5 DEF CopyInv, Progress, Ahead, Next1
<1>. QED BY <1>6, <1>7, <1>8 DEF CopyInv

\* Every step of the walk, and of the user beside it, keeps CopyInv.
LEMMA StepCopyInv == CopyInv /\ [CopyNext]_copyVars => CopyInv'
<1>1. CopyInv /\ UNCHANGED copyVars => CopyInv'
  <2> SUFFICES ASSUME CopyInv, UNCHANGED copyVars PROVE CopyInv'
    OBVIOUS
  <2>1. UNCHANGED <<source, target, copy, steady>>
    BY DEF copyVars
  <2>2. WalkOK'
    BY <2>1 DEF CopyInv, WalkOK, Next1
  <2>3. TreesOK'
    BY <2>1, SourceStays DEF CopyInv
  <2>4. Progress'
    BY <2>1 DEF CopyInv, Progress, Ahead, Next1
  <2>. QED BY <2>2, <2>3, <2>4 DEF CopyInv
<1>. QED
  BY <1>1, StartsCopyInv, DirCopyInv, LinkCopyInv, FileCopyInv, FillCopyInv, EndCopyInv,
     VanishCopyInv, EmergeCopyInv
  DEF CopyNext

\* A copy that reports success has copied, whole, every file that was there all the
\* while, and has left none half copied, for a source of any shape and whatever the
\* user does to it meanwhile (UploadTree, DownloadTree).
THEOREM SuccessIsComplete == CopySpec => []CopyIsComplete
<1>1. CopyInv => CopyIsComplete
  <2> SUFFICES ASSUME CopyInv, copy.at = "idle", copy.out = "ok"
               PROVE  /\ \A p \in steady : source[p] = "file" => target[p] = "file"
                      /\ \A p \in Paths : target[p] # "partial"
    BY DEF CopyIsComplete
  <2>1. ASSUME NEW p \in steady PROVE ~Ahead(p)
    <3>1. Entries(copy.todo) = {}
      BY DEF CopyInv, Progress, Entries
    <3>. QED BY <3>1 DEF Ahead
  <2>. QED BY <2>1 DEF CopyInv, Progress
<1>2. CopySpec => []CopyInv
  BY InitCopyInv, StepCopyInv, PTL DEF CopySpec
<1>. QED BY <1>1, <1>2, PTL

-----------------------------------------------------------------------------
(* QEMU.                                                                   *)

\* The first element of a sequence put together from three.
LEMMA FirstOfThree ==
  ASSUME NEW S, NEW d \in S, NEW s \in Seq(S), NEW t \in Seq(S),
         NEW c, c = (<<d>> \o s) \o t
  PROVE  c \in Seq(S) /\ Len(c) >= 1 /\ c[1] = d
<1>1. <<d>> \in Seq(S) /\ Len(<<d>>) = 1 /\ <<d>>[1] = d /\ Len(s) \in Nat /\ Len(t) \in Nat
  OBVIOUS
<1>2. PICK e : e = <<d>> \o s
  OBVIOUS
<1>3. e \in Seq(S) /\ Len(e) = 1 + Len(s) /\ e[1] = d
  BY <1>1, <1>2, ConcatProperties
<1>4. c = e \o t
  BY <1>2
<1>5. c \in Seq(S) /\ Len(c) = Len(e) + Len(t) /\ c[1] = e[1]
  BY <1>1, <1>3, <1>4, ConcatProperties
<1>. QED BY <1>1, <1>3, <1>5

\* A directory that holds a QEMU is found if it is the first to be looked at.
LEMMA LocateFirst ==
  ASSUME NEW d \in Places, d # NoPlace, installed[d] = Binaries
  PROVE  Locate(d, TRUE).system = d /\ Locate(d, TRUE).img = d
<1> DEFINE c   == Candidates(d, TRUE)
           has == {i \in DOMAIN c : "system" \in installed[c[i]]}
           first == CHOOSE i \in has : \A j \in has : i <= j
<1>1. c = (<<d>> \o <<"bundle", "exe">>) \o <<"data", "PATH">>
  BY DEF Candidates
<1>2. <<"bundle", "exe">> \in Seq(Places) /\ <<"data", "PATH">> \in Seq(Places)
  BY DEF Places
<1>3. c \in Seq(Places) /\ Len(c) >= 1 /\ c[1] = d
  <2> HIDE DEF c
  <2>. QED BY <1>1, <1>2, FirstOfThree
<1>4. DOMAIN c = 1 .. Len(c) /\ Len(c) \in Nat
  <2> HIDE DEF c
  <2>. QED BY <1>3
<1> HIDE DEF c
<1>5. 1 \in has /\ \A j \in has : j \in Nat /\ 1 <= j
  BY <1>3, <1>4 DEF Binaries
<1>6. first = 1
  <2> HIDE DEF has
  <2>1. first \in has /\ \A j \in has : first <= j
    BY <1>5
  <2>. QED BY <1>5, <2>1
<1>7. Locate(d, TRUE) = [system |-> c[first],
                         img |-> IF c[first] # NoPlace /\ "img" \in installed[c[first]]
                                 THEN c[first]
                                 ELSE IF c[first] # NoPlace /\ "img" \in installed["PATH"]
                                      THEN "PATH" ELSE NoPlace]
  BY <1>5 DEF Locate, c
<1> HIDE DEF first
<1>8. Locate(d, TRUE) = [system |-> d, img |-> d]
  BY <1>3, <1>6, <1>7 DEF Binaries
<1>9. PICK r : r = [system |-> d, img |-> d]
  OBVIOUS
<1>10. r.system = d /\ r.img = d
  BY <1>9
<1>11. r = Locate(d, TRUE)
  BY <1>8, <1>9, Zenon
<1>. QED BY <1>10, <1>11, Zenon

PathOK == qemuPath \in GivenDirs \union {NoPlace}

\* The directory that `vc setup` saved is where the QEMU and its qemu-img are taken from,
\* whatever is bundled with vc or on PATH (qemu.Locate).
THEOREM ConfiguredFirst == ToolsSpec => SetupIsHeeded
<1> DEFINE Heeded == (Boot /\ qemuPath # NoPlace /\ installed[qemuPath] = Binaries)
                       => booted'.system = qemuPath /\ booted'.img = qemuPath
<1>1. PathOK => Heeded
  <2> SUFFICES ASSUME PathOK, qemuPath # NoPlace, installed[qemuPath] = Binaries, Boot
               PROVE  booted'.system = qemuPath /\ booted'.img = qemuPath
    OBVIOUS
  <2>0. PICK d \in GivenDirs : d = qemuPath
    BY DEF PathOK
  <2>1. Locate(d, TRUE).system = d /\ Locate(d, TRUE).img = d
    <3>1. d \in Places /\ d # NoPlace /\ installed[d] = Binaries
      BY <2>0 DEF Places
    <3>. QED BY <3>1, LocateFirst
  <2>2. PICK a \in {SelectAccel, <<"tcg">>} :
          booted' = [system |-> Locate(qemuPath, TRUE).system,
                     img |-> Locate(qemuPath, TRUE).img, accels |-> a]
    BY DEF Boot
  <2>3. booted'.system = Locate(qemuPath, TRUE).system /\ booted'.img = Locate(qemuPath, TRUE).img
    BY <2>2
  <2>4. Locate(qemuPath, TRUE).system = qemuPath /\ Locate(qemuPath, TRUE).img = qemuPath
    BY <2>0, <2>1
  <2>. QED BY <2>3, <2>4
<1>2. ToolsInit => PathOK
  BY DEF ToolsInit, PathOK
<1>3. PathOK /\ [ToolsNext]_toolsVars => PathOK'
  BY DEF ToolsNext, toolsVars, SetupDir, Boot, ForgetPath, Reinstall, Retune, PathOK
<1>. QED BY <1>1, <1>2, <1>3, PTL DEF ToolsSpec, SetupIsHeeded

\* What QEMU has been told to try.
Tried ==
  \/ booted = NotBooted
  \/ booted.accels = <<"tcg">>
  \/ \E a \in usable \intersect Hardware : booted.accels = <<a, "tcg">>

\* On any host, whatever it lets QEMU use, TCG is the last resort of every boot
\* (qemu.SelectAccel).
THEOREM BootsWithoutHardware == ToolsSpec => []FallsBackToTCG
<1>1. ToolsInit => Tried
  BY DEF ToolsInit, Tried
<1>2. Tried /\ [ToolsNext]_toolsVars => Tried'
  <2> SUFFICES ASSUME Tried, [ToolsNext]_toolsVars PROVE Tried'
    OBVIOUS
  <2>1. ASSUME Boot PROVE Tried'
    <3>1. booted'.accels \in {SelectAccel, <<"tcg">>} /\ UNCHANGED usable
      BY <2>1 DEF Boot
    <3>2. SelectAccel = <<"tcg">> \/ \E a \in usable \intersect Hardware : SelectAccel = <<a, "tcg">>
      BY DEF SelectAccel
    <3>. QED BY <3>1, <3>2 DEF Tried
  <2>2. ASSUME NEW d \in GivenDirs, SetupDir(d) PROVE Tried'
    BY <2>2 DEF SetupDir, Tried
  <2>3. CASE ForgetPath \/ UNCHANGED toolsVars
    BY <2>3 DEF ForgetPath, toolsVars, Tried
  <2>4. ASSUME booted' = NotBooted PROVE Tried'
    BY <2>4 DEF Tried
  <2>. QED BY <2>1, <2>2, <2>3, <2>4 DEF ToolsNext, Reinstall, Retune
<1>3. Tried => FallsBackToTCG
  <2>1. CASE booted = NotBooted
    BY <2>1 DEF NotBooted, FallsBackToTCG
  <2>2. CASE booted.accels = <<"tcg">>
    <3>1. Len(booted.accels) = 1 /\ booted.accels[1] = "tcg"
      BY <2>2
    <3>. QED BY <3>1 DEF FallsBackToTCG
  <2>3. ASSUME NEW a \in usable \intersect Hardware, booted.accels = <<a, "tcg">>
        PROVE  FallsBackToTCG
    <3>1. /\ Len(booted.accels) = 2 /\ booted.accels[1] = a /\ booted.accels[2] = "tcg"
      BY <2>3
    <3>. QED BY <3>1 DEF FallsBackToTCG
  <2>. QED BY <2>1, <2>2, <2>3 DEF Tried
<1>. QED BY <1>1, <1>2, <1>3, PTL DEF ToolsSpec

=============================================================================
