--------------------------- MODULE ServicesProofs ---------------------------
(***************************************************************************)
(* The parts put together.  Each of them is still itself in the            *)
(* specification that runs them in turn, for any values of the constants:  *)
(* so the states of all are well typed, and what is proved of a part holds *)
(* of the whole.                                                           *)
(***************************************************************************)
EXTENDS MCServices, LaunchProofs, ConnectionProofs, StoreProofs

-----------------------------------------------------------------------------
(* Types, part by part.                                                    *)

\* EnsureBaseImage, of however many launches at a time, keeps the cache well typed.
LEMMA CacheTyped ==
  /\ CacheInit => CacheTypeOK
  /\ CacheTypeOK /\ [CacheNext]_cacheVars => CacheTypeOK'
<1>1. CacheInit => CacheTypeOK
  <2>1. Empty \in Content
    BY DEF Empty, Content
  <2>. QED BY <2>1, IdleOK DEF CacheInit, CacheTypeOK
<1>2. ASSUME CacheTypeOK, [CacheNext]_cacheVars PROVE CacheTypeOK'
  <2>a. ASSUME NEW p \in Launches, NEW r \in Local, launch' = [launch EXCEPT ![p] = r],
               path' \in [{"dest", "part"} -> Files \union {NoFile}],
               file' \in [Files -> Content], UNCHANGED published,
               unchecked' \in BOOLEAN, backing' \in BOOLEAN
        PROVE  CacheTypeOK'
    BY <1>2, <2>a DEF CacheTypeOK
  <2>b. \A p \in Launches : launch[p] \in Local
    BY <1>2 DEF CacheTypeOK
  <2>c. ASSUME RemovePart PROVE path' \in [{"dest", "part"} -> Files \union {NoFile}]
    BY <1>2, <2>c DEF RemovePart, CacheTypeOK
  <2>d. ASSUME NEW p \in Launches, NEW s \in Steps, Goto(p, s),
               path' \in [{"dest", "part"} -> Files \union {NoFile}],
               unchecked' \in BOOLEAN, UNCHANGED <<file, published, backing>>
        PROVE  CacheTypeOK'
    <3>1. PICK n \in Local : n = [launch[p] EXCEPT !.at = s]
      BY <2>b, Going
    <3>2. launch' = [launch EXCEPT ![p] = n]
      BY <2>d, <3>1 DEF Goto
    <3>. QED BY <1>2, <2>a, <2>d, <3>2 DEF CacheTypeOK
  <2>1. ASSUME NEW p \in Launches, Ensure(p) \/ Stat(p) \/ Clean(p) PROVE CacheTypeOK'
    <3>1. PICK s \in Steps : Goto(p, s)
      BY <2>1 DEF Ensure, Stat, Clean, Steps
    <3>. QED BY <1>2, <2>1, <2>c, <2>d, <3>1 DEF Ensure, Stat, Clean, CacheTypeOK
  <2>2. ASSUME NEW p \in Launches, FetchSums(p) PROVE CacheTypeOK'
    <3>1. PICK s \in Versions \union {Hole} :
            launch' = [launch EXCEPT ![p] = [@ EXCEPT !.at = "clean", !.wantSum = s]]
      BY <1>2, <2>2 DEF FetchSums, CacheTypeOK
    <3>2. PICK r \in Local : r = launch[p]
      BY <2>b
    <3>3. PICK n \in Local : /\ n = [r EXCEPT !.at = "clean", !.wantSum = s]
                             /\ n.at = "clean" /\ n.fd = r.fd /\ n.wantSum = s
      BY GivingSum
    <3>4. launch' = [launch EXCEPT ![p] = n]
      BY <3>1, <3>2, <3>3
    <3>. QED BY <1>2, <2>2, <2>a, <3>4 DEF FetchSums, CacheTypeOK
  <2>3. ASSUME NEW p \in Launches, Request(p) PROVE CacheTypeOK'
    <3>1. PICK c \in Versions \union {Altered} :
            launch' = [launch EXCEPT ![p] = [@ EXCEPT !.at = "create", !.body = c]]
      BY <1>2, <2>3 DEF Request, CacheTypeOK
    <3>2. PICK r \in Local : r = launch[p]
      BY <2>b
    <3>3. PICK n \in Local : /\ n = [r EXCEPT !.at = "create", !.body = c]
                             /\ n.at = "create" /\ n.fd = r.fd
                             /\ n.wantSum = r.wantSum /\ n.body = c
      BY GivingBody
    <3>4. launch' = [launch EXCEPT ![p] = n]
      BY <3>1, <3>2, <3>3
    <3>. QED BY <1>2, <2>3, <2>a, <3>4 DEF Request, CacheTypeOK
  <2>4. ASSUME NEW p \in Launches, Create(p) PROVE CacheTypeOK'
    <3>1. PICK i \in IF path["part"] = NoFile THEN FreeFiles ELSE {path["part"]} :
            /\ path' = [path EXCEPT !["part"] = i]
            /\ file' = [file EXCEPT ![i] = Empty]
            /\ launch' = [launch EXCEPT ![p] = [@ EXCEPT !.at = "copy", !.fd = i, !.off = 1]]
      BY <2>4 DEF Create
    <3>2. i \in Files /\ Empty \in Content
      BY <1>2, <3>1 DEF FreeFiles, CacheTypeOK, Empty, Content
    <3>3. PICK r \in Local : r = launch[p]
      BY <2>b
    <3>4. PICK n \in Local : /\ n = [r EXCEPT !.at = "copy", !.fd = i, !.off = 1]
                             /\ n.at = "copy" /\ n.fd = i /\ n.off = 1
                             /\ n.wantSum = r.wantSum /\ n.body = r.body
      BY <3>2, Opening
    <3>5. launch' = [launch EXCEPT ![p] = n]
      BY <3>1, <3>3, <3>4
    <3>. QED BY <1>2, <2>4, <2>a, <3>1, <3>2, <3>5 DEF Create, CacheTypeOK
  <2>5. ASSUME NEW p \in Launches, Copy(p) PROVE CacheTypeOK'
    <3>1. PICK r \in Local : r = launch[p] /\ r.off <= Blocks
      BY <2>5, <2>b DEF Copy
    <3>2. PICK o \in 1 .. Blocks + 1 : o = r.off + 1
      BY <3>1, CacheAssumption DEF Local
    <3>3. PICK n \in Local : n = [r EXCEPT !.off = o]
      BY Advancing
    <3>4. launch' = [launch EXCEPT ![p] = n]
      BY <2>5, <3>1, <3>2, <3>3 DEF Copy
    <3>5. file' \in [Files -> Content]
      <4>1. r.off \in 1 .. Blocks /\ r.body \in Versions \union {Hole, Altered}
        BY <3>1, CacheAssumption DEF Local
      <4>2. \A c \in Content : [c EXCEPT ![r.off] = r.body] \in Content
        BY <4>1 DEF Content
      <4>3. file' = [file EXCEPT ![r.fd] = [file[r.fd] EXCEPT ![r.off] = r.body]]
        BY <2>5, <3>1 DEF Copy
      <4>. QED BY <1>2, <4>2, <4>3 DEF CacheTypeOK
    <3>. QED BY <1>2, <2>5, <2>a, <3>4, <3>5 DEF Copy, CacheTypeOK
  <2>6. ASSUME NEW p \in Launches, Finish(p) \/ Interrupt(p) PROVE CacheTypeOK'
    <3>1. PICK s \in Steps : \/ launch' = [launch EXCEPT ![p] = [@ EXCEPT !.fd = NoFile, !.at = s]]
                             \/ launch' = [launch EXCEPT ![p] = [@ EXCEPT !.at = s, !.fd = NoFile]]
      BY <2>6 DEF Finish, Interrupt, Steps
    <3>2. PICK r \in Local : r = launch[p]
      BY <2>b
    <3>3. PICK n \in Local : /\ n = [r EXCEPT !.fd = NoFile, !.at = s]
                             /\ n = [r EXCEPT !.at = s, !.fd = NoFile]
                             /\ n.at = s /\ n.fd = NoFile /\ n.wantSum = r.wantSum
      BY Closing, Zenon
    <3>4. launch' = [launch EXCEPT ![p] = n]
      BY <3>1, <3>2, <3>3
    <3>. QED BY <1>2, <2>6, <2>a, <3>4 DEF Finish, Interrupt, CacheTypeOK
  <2>7. ASSUME NEW p \in Launches, Discard(p) \/ CreateOverlay(p) \/ Die(p) PROVE CacheTypeOK'
    <3>1. launch' = [launch EXCEPT ![p] = Idle]
      BY <2>7 DEF Discard, CreateOverlay, Die, Done
    <3>. QED BY <1>2, <2>7, <2>a, <2>c, <3>1, IdleOK
             DEF Discard, CreateOverlay, Die, CacheTypeOK
  <2>8. ASSUME NEW p \in Launches, Rename(p) PROVE CacheTypeOK'
    <3>1. PICK s \in Steps : Goto(p, s)
      BY <2>8 DEF Rename, Steps
    <3>2. path' \in [{"dest", "part"} -> Files \union {NoFile}]
      BY <1>2, <2>8 DEF Rename, CacheTypeOK
    <3>3. unchecked' \in BOOLEAN
      BY <1>2, <2>8 DEF Rename, CacheTypeOK
    <3>. QED BY <2>8, <2>d, <3>1, <3>2, <3>3 DEF Rename
  <2>9. CASE Publish \/ UNCHANGED cacheVars
    BY <1>2, <2>9 DEF Publish, cacheVars, CacheTypeOK
  <2>. QED BY <1>2, <2>1, <2>2, <2>3, <2>4, <2>5, <2>6, <2>7, <2>8, <2>9 DEF CacheNext
<1>. QED BY <1>1, <1>2

\* An exchange over QMP never has more unread than it may.
LEMMA QmpTyped ==
  /\ QmpInit => QmpTypeOK
  /\ QmpTypeOK /\ [QmpNext]_qmpVars => QmpTypeOK'
<1>1. QmpInit => QmpTypeOK
  <2>1. PICK e \in Seq(Messages) : e = <<>> /\ Len(e) = 0
    BY EmptySeq
  <2>2. 0 <= MaxUnread
    BY QmpAssumption
  <2>3. QmpInit => inbox \in Seq(Messages) /\ Len(inbox) <= MaxUnread
    <3>1. QmpInit => inbox = e
      BY <2>1, Zenon DEF QmpInit
    <3>. QED BY <2>1, <2>2, <3>1
  <2>4. QmpInit => qmp \in [at : QmpSteps, cmd : QmpCommands \union {"none"}]
    BY DEF QmpInit, QmpSteps
  <2>5. QmpInit => /\ request \in QmpCommands \union {"none", "qmp_capabilities"}
                   /\ monitor \in {"none", "silent", "negotiating", "ready", "closed"}
                   /\ ran \subseteq QmpCommands /\ overdue \in BOOLEAN
    BY DEF QmpInit
  <2>. QED BY <2>3, <2>4, <2>5, Zenon DEF QmpTypeOK
<1>2. ASSUME QmpTypeOK, [QmpNext]_qmpVars PROVE QmpTypeOK'
  <2> DEFINE Held == inbox' \in Seq(Messages) /\ Len(inbox') <= MaxUnread
  <2>a. qmp \in Client /\ inbox \in Seq(Messages) /\ Len(inbox) <= MaxUnread /\ Len(inbox) \in Nat
    BY <1>2, LenProperties DEF QmpTypeOK, Client
  <2>b. inbox # <<>> /\ inbox' = Tail(inbox) => Held
    BY <2>a, HeadTailProperties, QmpAssumption
  <2>c. ASSUME NEW m \in Messages, Send(m) PROVE Held
    BY <2>a, <2>c, AppendProperties, QmpAssumption DEF Send
  <2>d. /\ \A m \in {"greeting", "hello", "return", "error", "event"} : m \in Messages
        /\ \A s \in {"greeting", "capabilities", "reply", "ok", "failed"} :
             QmpGoto(s) => qmp' \in Client
        /\ qmp' = [at |-> "idle", cmd |-> "none"] => qmp' \in Client
    BY <2>a DEF Messages, QmpSteps, QmpGoto, Client
  <2>e. inbox' = <<>> \/ inbox' = inbox => Held
    <3>1. PICK e \in Seq(Messages) : e = <<>> /\ Len(e) = 0
      BY EmptySeq
    <3>2. 0 <= MaxUnread
      BY QmpAssumption
    <3>3. inbox' = e => Held
      BY <3>1, <3>2
    <3>4. inbox' = inbox => Held
      BY <2>a
    <3>5. inbox' = <<>> => inbox' = e
      BY <3>1, Zenon
    <3> HIDE DEF Held
    <3>. QED BY <3>3, <3>4, <3>5, Zenon
  <2> HIDE DEF Held
  <2>1. CASE QmpExec
    <3>1. qmp' \in Client
      BY <2>1 DEF QmpExec, Client, QmpSteps
    <3>. QED BY <1>2, <2>1, <2>e, <3>1 DEF QmpExec, QmpTypeOK, Client, Held
  <2>2. CASE QmpDial
    BY <1>2, <2>2, <2>d, <2>e DEF QmpDial, QmpTypeOK, Client, Held
  <2>3. CASE ReadGreeting
    BY <1>2, <2>3, <2>b, <2>d DEF ReadGreeting, QmpTypeOK, Client, Held
  <2>4. CASE ReadResult
    <3>1. /\ qmp' \in Client
          /\ request' \in QmpCommands \union {"none", "qmp_capabilities"}
      <4>1. CASE Replied
        BY <1>2, <2>a, <2>d, <4>1 DEF Replied, QmpTypeOK, Client
      <4>2. CASE QmpGoto("failed") /\ UNCHANGED request
        BY <1>2, <2>d, <4>2 DEF QmpTypeOK
      <4>3. CASE UNCHANGED <<qmp, request>>
        BY <1>2, <2>a, <4>3 DEF QmpTypeOK
      <4>. QED BY <2>4, <4>1, <4>2, <4>3 DEF ReadResult
    <3>. QED BY <1>2, <2>4, <2>b, <3>1 DEF ReadResult, QmpTypeOK, Client, Held
  <2>5. CASE ReadFails
    BY <1>2, <2>5, <2>d, <2>e DEF ReadFails, QmpTypeOK, Client, Held
  <2>6. CASE QmpReturn
    BY <1>2, <2>6, <2>d, <2>e DEF QmpReturn, QmpTypeOK, Client, Held
  <2>7. CASE Greet \/ Negotiate \/ Event
    <3>1. Held
      BY <2>7, <2>c, <2>d DEF Greet, Negotiate, Event
    <3>. QED BY <1>2, <2>7, <3>1 DEF Greet, Negotiate, Event, QmpTypeOK, Held
  <2>8. CASE Execute
    <3>1. Held
      BY <2>8, <2>c, <2>d DEF Execute
    <3>. QED BY <1>2, <2>8, <3>1 DEF Execute, QmpTypeOK, Held
  <2>9. CASE HangUp \/ Deadline \/ UNCHANGED qmpVars
    BY <1>2, <2>9, <2>e DEF HangUp, Deadline, qmpVars, QmpTypeOK, Held
  <2>. QED BY <1>2, <2>1, <2>2, <2>3, <2>4, <2>5, <2>6, <2>7, <2>8, <2>9 DEF QmpNext, QmpStep
<1>. QED BY <1>1, <1>2

\* A session's variables keep to their values: what the client may have deferred follows
\* from where it is, which is SessionInv.
LEMMA SshTyped ==
  /\ SshInit => SshTypeOK
  /\ SessionInv /\ SshTypeOK /\ [SshNext]_sshVars => SshTypeOK'
<1> DEFINE Rest == /\ guest \in {"booting", "up", "frozen"}
                   /\ link \in {"none", "open", "broken"}
                   /\ remote \in Statuses \union {"none", "running", "killed", "closed"}
                   /\ tty \in {"cooked", "raw"} /\ expired \in BOOLEAN /\ cancelled \in BOOLEAN
<1>1. SshTypeOK <=> ssh \in SshKind /\ Rest
  BY DEF SshTypeOK, SshKind, SshOuts
<1>2. SshTypeOK' <=> ssh' \in SshKind /\ Rest'
  BY DEF SshTypeOK, SshKind, SshOuts
<1>3. SshInit => ssh \in SshKind /\ Rest
  <2>1. SshInit => ssh \in SshKind
    BY InitSessionInv DEF SessionInv
  <2>. QED BY <2>1 DEF SshInit
<1>4. ASSUME SessionInv, Rest, [SshNext]_sshVars PROVE Rest'
  <2>1. CASE SshCall \/ SshDial \/ PauseTick \/ PauseDone
    BY <1>4, <2>1 DEF SshCall, SshDial, PauseTick, PauseDone
  <2>2. CASE NewSession \/ MakeRaw \/ Pty \/ SessionStart \/ Refused
    BY <1>4, <2>2 DEF NewSession, MakeRaw, Pty, SessionStart, Refused
  <2>3. CASE Finished \/ Cancelled \/ Drain
    BY <1>4, <2>3 DEF Finished, Cancelled, Drain
  <2>4. CASE Unwind \/ SshExit
    BY <1>4, <2>4 DEF Unwind, SshExit
  <2>5. CASE CommandEnds \/ ServerCloses
    BY <1>4, <2>5 DEF CommandEnds, ServerCloses
  <2>6. CASE GuestBoots \/ GuestFreezes \/ GuestThaws
    BY <1>4, <2>6 DEF GuestBoots, GuestFreezes, GuestThaws
  <2>7. CASE LinkBreaks \/ Expire \/ Interrupted \/ UNCHANGED sshVars
    BY <1>4, <2>7 DEF LinkBreaks, Expire, Interrupted, sshVars
  <2>. QED BY <1>4, <2>1, <2>2, <2>3, <2>4, <2>5, <2>6, <2>7 DEF SshNext, SshClient
<1>5. SessionInv /\ [SshNext]_sshVars => ssh' \in SshKind
  BY StepSessionInv DEF SessionInv
<1>. QED BY <1>1, <1>2, <1>3, <1>4, <1>5

SeedTypeInv == SeedInv /\ keypair \in KeyPairs \union {Nobody} /\ recorded \in BOOLEAN

\* Beside what SeedInv says, there is a key pair or none, and a record or none.
LEMMA SeedTyped ==
  /\ SeedInit => SeedTypeInv
  /\ SeedTypeInv /\ [SeedNext]_seedVars => SeedTypeInv'
  /\ SeedTypeInv => SeedTypeOK
<1>1. SeedInit => SeedTypeInv
  BY InitSeedInv DEF SeedTypeInv, SeedInit
<1>2. ASSUME SeedTypeInv, [SeedNext]_seedVars PROVE SeedTypeInv'
  <2>1. keypair' \in KeyPairs \union {Nobody}
    BY <1>2 DEF SeedTypeInv, SeedNext, seedVars, MakeKey, Render, RemoveOld, CreateImage,
       WriteFiles, Finalize, SeedFails, AbortImage, SaveVM, SetupDies, RemoveVM
  <2>2. recorded' \in BOOLEAN
    BY <1>2 DEF SeedTypeInv, SeedNext, seedVars, MakeKey, Render, RemoveOld, CreateImage,
       WriteFiles, Finalize, SeedFails, AbortImage, SaveVM, SetupDies, RemoveVM
  <2>. QED BY <1>2, <2>1, <2>2, StepSeedInv DEF SeedTypeInv
<1>3. SeedTypeInv => SeedTypeOK
  BY DEF SeedTypeInv, SeedInv, SetupKind, ImageKind, SeedTypeOK
<1>. QED BY <1>1, <1>2, <1>3

NameTypeInv == NameInv /\ entry \in [VMNames -> {"none", "dir", "vm"}]

\* Beside what NameInv says, every name has an entry of one kind or none.
LEMMA NameTyped ==
  /\ NameInit => NameTypeInv
  /\ NameTypeInv /\ [NameNext]_nameVars => NameTypeInv'
  /\ NameTypeInv => NameTypeOK
<1>1. NameInit => NameTypeInv
  BY InitNameInv DEF NameTypeInv, NameInit
<1>2. ASSUME NameTypeInv, [NameNext]_nameVars PROVE NameTypeInv'
  <2>1. \/ \E n \in VMNames, k \in {"none", "dir", "vm"} : entry' = [entry EXCEPT ![n] = k]
        \/ UNCHANGED entry
    BY <1>2 DEF NameNext, nameVars, AskFor, AskExec, ExecExists, ReadDir, ReadEntry, DefaultVM,
       GetRecord, CommandEndsHere, Appears, Disappears
  <2>. QED BY <1>2, <2>1, StepNameInv DEF NameTypeInv
<1>3. NameTypeInv => NameTypeOK
  BY DEF NameTypeInv, NameInv, NameTypeOK
<1>. QED BY <1>1, <1>2, <1>3

ConfigTypeInv == ConfigInv /\ setter = [p \in Setters |-> setter[p]]

\* Beside what ConfigInv says, every invocation has its locals and there are no others.
LEMMA ConfigTyped ==
  /\ ConfigInit => ConfigTypeInv
  /\ ConfigTypeInv /\ [ConfigNext]_configVars => ConfigTypeInv'
  /\ ConfigTypeInv => ConfigTypeOK
<1> DEFINE Kind == [at : {"idle", "apply", "save"}, cfg : Config, key : Keys \union {Unset},
                    val : Values \union {BadValue, Unset}, raced : SUBSET Keys]
<1>1. ConfigInit => ConfigTypeInv
  BY InitConfigInv DEF ConfigTypeInv, ConfigInit
<1>2. ASSUME ConfigTypeInv, [ConfigNext]_configVars PROVE ConfigTypeInv'
  <2>1. \/ \E p \in Setters : \E r : setter' = [setter EXCEPT ![p] = r]
        \/ \E p \in Setters : SaveConfig(p)
        \/ UNCHANGED setter
    BY <1>2 DEF ConfigNext, configVars, Load, Apply, GiveUp
  <2>2. setter' = [p \in Setters |-> setter'[p]]
    <3>1. CASE \E p \in Setters : \E r : setter' = [setter EXCEPT ![p] = r]
      BY <1>2, <3>1 DEF ConfigTypeInv
    <3>2. CASE \E p \in Setters : SaveConfig(p)
      BY <3>2 DEF SaveConfig
    <3>. QED BY <1>2, <2>1, <3>1, <3>2 DEF ConfigTypeInv
  <2>. QED BY <1>2, <2>2, StepConfigInv DEF ConfigTypeInv
<1>3. Resting \in Kind
  BY ConfigAssumption DEF Resting, Config
<1>4. Asked \subseteq Kind
  BY DEF Asked
<1>5. ASSUME ConfigTypeInv PROVE ConfigTypeOK
  <2>1. \A p \in Setters : setter[p] \in Kind
    BY <1>3, <1>4, <1>5 DEF ConfigTypeInv, ConfigInv
  <2>2. ConfigTypeOK <=> config \in Config /\ setter \in [Setters -> Kind]
    BY DEF ConfigTypeOK
  <2> HIDE DEF Kind
  <2>3. setter \in [Setters -> Kind]
    BY <1>5, <2>1 DEF ConfigTypeInv
  <2>. QED BY <1>5, <2>2, <2>3 DEF ConfigTypeInv, ConfigInv
<1>. QED BY <1>1, <1>2, <1>5

\* The walk of a copy is typed by what is true of it.
LEMMA CopyTyped == CopyInv => CopyTypeOK
  BY DEF CopyInv, WalkOK, Walks, TreesOK, CopyTypeOK

\* What Locate finds, it finds in a place that there is.
LEMMA LocateTyped ==
  ASSUME NEW d \in GivenDirs \union {NoPlace}, NEW e \in BOOLEAN
  PROVE  /\ Locate(d, e).system \in Places \union {NoPlace}
         /\ Locate(d, e).img \in Places \union {NoPlace}
<1> DEFINE c     == Candidates(d, e)
           has   == {i \in DOMAIN c : "system" \in installed[c[i]]}
           first == CHOOSE i \in has : \A j \in has : i <= j
           where == IF has = {} THEN NoPlace ELSE c[first]
<1>1. c \in Seq(Places) /\ DOMAIN c \subseteq 1 .. 5
  <2>0. PICK n \in Seq(Places) : n = <<>> /\ Len(n) = 0
    BY EmptySeq
  <2>1. PICK a : a = IF d = NoPlace THEN n ELSE <<d>>
    OBVIOUS
  <2>2. PICK b : b = IF e THEN <<"bundle", "exe">> ELSE n
    OBVIOUS
  <2>a. a \in Seq(Places) /\ Len(a) <= 1
    <3>1. CASE d = NoPlace
      BY <2>0, <2>1, <3>1
    <3>2. CASE d # NoPlace
      <4>1. a = <<d>> /\ d \in Places
        BY <2>1, <3>2 DEF Places
      <4>2. <<d>> \in Seq(Places)
        BY <4>1
      <4>3. Len(<<d>>) = 1
        OBVIOUS
      <4>4. a \in Seq(Places) /\ Len(a) = 1
        BY <4>1, <4>2, <4>3, Zenon
      <4>. QED BY <4>4
    <3>. QED BY <3>1, <3>2
  <2>b. b \in Seq(Places) /\ Len(b) <= 2
    <3>1. <<"bundle", "exe">> \in Seq(Places)
      BY DEF Places
    <3>2. Len(<<"bundle", "exe">>) = 2
      OBVIOUS
    <3>3. b = <<"bundle", "exe">> \/ b = n
      BY <2>2
    <3>4. CASE b = n
      BY <2>0, <3>4
    <3>5. CASE b = <<"bundle", "exe">>
      <4>1. b \in Seq(Places) /\ Len(b) = 2
        BY <3>1, <3>2, <3>5, Zenon
      <4>. QED BY <4>1
    <3>. QED BY <3>3, <3>4, <3>5
  <2>3. PICK t \in Seq(Places) : t = <<"data", "PATH">> /\ Len(t) = 2
    <3>1. <<"data", "PATH">> \in Seq(Places)
      BY DEF Places
    <3>2. Len(<<"data", "PATH">>) = 2
      OBVIOUS
    <3>. QED BY <3>1, <3>2
  <2>4. PICK ab : ab = a \o b
    OBVIOUS
  <2>5. ab \in Seq(Places) /\ Len(ab) = Len(a) + Len(b)
    BY <2>4, <2>a, <2>b, ConcatProperties
  <2>6. c = ab \o t
    BY <2>0, <2>1, <2>2, <2>3, <2>4 DEF Candidates
  <2> HIDE DEF c
  <2>7. c \in Seq(Places) /\ Len(c) = Len(ab) + Len(t)
    BY <2>5, <2>6, ConcatProperties
  <2>8. Len(c) <= 5 /\ Len(c) \in Nat /\ DOMAIN c = 1 .. Len(c)
    BY <2>a, <2>b, <2>3, <2>5, <2>7, LenProperties
  <2>. QED BY <2>7, <2>8
<1>2. \A i \in DOMAIN c : c[i] \in Places
  BY <1>1
<1>3. Locate(d, e) = [system |-> where,
                      img |-> IF where # NoPlace /\ "img" \in installed[where] THEN where
                              ELSE IF where # NoPlace /\ "img" \in installed["PATH"] THEN "PATH"
                              ELSE NoPlace]
  BY DEF Locate
<1>4. has \subseteq 1 .. 5 /\ has \subseteq DOMAIN c
  BY <1>1
<1> HIDE DEF has, c
<1>5. has # {} => \E i \in has : \A j \in has : i <= j
  <2>1. has \subseteq {1, 2, 3, 4, 5}
    BY <1>4
  <2>2. CASE 1 \in has
    BY <2>1, <2>2
  <2>3. CASE 1 \notin has /\ 2 \in has
    BY <2>1, <2>3
  <2>4. CASE 1 \notin has /\ 2 \notin has /\ 3 \in has
    BY <2>1, <2>4
  <2>5. CASE 1 \notin has /\ 2 \notin has /\ 3 \notin has /\ 4 \in has
    BY <2>1, <2>5
  <2>6. CASE has = {}
    BY <2>6
  <2>7. CASE has # {} /\ 1 \notin has /\ 2 \notin has /\ 3 \notin has /\ 4 \notin has
    <3>1. 5 \in has /\ \A j \in has : j = 5
      BY <2>1, <2>7
    <3>. QED BY <3>1
  <2>. QED BY <2>2, <2>3, <2>4, <2>5, <2>6, <2>7
<1>6. has # {} => first \in has
  BY <1>5
<1> HIDE DEF first
<1>7. where \in Places \union {NoPlace}
  BY <1>2, <1>4, <1>6
<1> HIDE DEF where
<1>. QED BY <1>3, <1>7 DEF Places

\* Where QEMU is looked for and found, and how it is accelerated, keep to their values.
LEMMA ToolsTyped ==
  /\ ToolsInit => ToolsTypeOK
  /\ ToolsTypeOK /\ [ToolsNext]_toolsVars => ToolsTypeOK'
<1> DEFINE Accels == {"whpx", "kvm", "tcg"}
           BootOK == /\ booted.system \in Places \union {NoPlace}
                     /\ booted.img \in Places \union {NoPlace}
                     /\ booted.accels \in Seq(Accels)
           Rest   == /\ installed \in [Places -> SUBSET Binaries]
                     /\ qemuPath \in GivenDirs \union {NoPlace}
                     /\ usable \subseteq {"whpx", "kvm"}
<1>1. NotBooted.system = NoPlace /\ NotBooted.img = NoPlace /\ NotBooted.accels \in Seq(Accels)
  <2>1. PICK n \in Seq(Accels) : n = <<>>
    BY EmptySeq
  <2>. QED BY <2>1 DEF NotBooted
<1>2. booted = NotBooted => BootOK
  BY <1>1
<1>3. booted' = NotBooted => BootOK'
  BY <1>1
<1>4. ToolsTypeOK <=> Rest /\ BootOK
  BY DEF ToolsTypeOK
<1>5. ToolsTypeOK' <=> Rest' /\ BootOK'
  BY DEF ToolsTypeOK
<1>6. ToolsInit => Rest /\ booted = NotBooted
  BY DEF ToolsInit
<1>7. ASSUME Rest, BootOK, [ToolsNext]_toolsVars PROVE Rest' /\ BootOK'
  <2>a. UNCHANGED booted => BootOK'
    BY <1>7
  <2>1. CASE (\E d \in GivenDirs : SetupDir(d)) \/ ForgetPath
    <3>1. UNCHANGED booted /\ Rest'
      BY <1>7, <2>1 DEF SetupDir, ForgetPath
    <3>. QED BY <2>a, <3>1
  <2>2. CASE Boot
    <3>1. PICK a \in {SelectAccel, <<"tcg">>} :
            booted' = [system |-> Locate(qemuPath, TRUE).system,
                       img |-> Locate(qemuPath, TRUE).img, accels |-> a]
      BY <2>2 DEF Boot
    <3>2. <<"tcg">> \in Seq(Accels) /\ SelectAccel \in Seq(Accels)
      <4>1. CASE usable \intersect Hardware = {}
        BY <4>1 DEF SelectAccel
      <4>2. CASE usable \intersect Hardware # {}
        <5>1. PICK x \in usable \intersect Hardware : SelectAccel = <<x, "tcg">>
          BY <4>2 DEF SelectAccel
        <5>. QED BY <1>7, <5>1
      <4>. QED BY <4>1, <4>2
    <3>3. /\ Locate(qemuPath, TRUE).system \in Places \union {NoPlace}
          /\ Locate(qemuPath, TRUE).img \in Places \union {NoPlace}
      BY <1>7, LocateTyped
    <3>4. Rest'
      BY <1>7, <2>2 DEF Boot
    <3>. QED BY <3>1, <3>2, <3>3, <3>4
  <2>3. ASSUME NEW p \in Places, NEW b \in Binaries, Reinstall(p, b) PROVE Rest' /\ BootOK'
    <3>1. Rest' /\ booted' = NotBooted
      BY <1>7, <2>3 DEF Reinstall
    <3>. QED BY <1>3, <3>1
  <2>4. ASSUME NEW a \in {"whpx", "kvm"}, Retune(a) PROVE Rest' /\ BootOK'
    <3>1. Rest' /\ booted' = NotBooted
      BY <1>7, <2>4 DEF Retune
    <3>. QED BY <1>3, <3>1
  <2>5. CASE UNCHANGED toolsVars
    BY <1>7, <2>5, <2>a DEF toolsVars
  <2>. QED BY <1>7, <2>1, <2>2, <2>3, <2>4, <2>5 DEF ToolsNext
<1> HIDE DEF Rest, BootOK
<1>. QED BY <1>2, <1>4, <1>5, <1>6, <1>7

-----------------------------------------------------------------------------
(* The whole.                                                              *)

\* A step of the whole is a step of each part, or leaves it where it is.
LEMMA StepsOfParts ==
  [Next]_services =>
    /\ scene' = scene
    /\ [CacheNext]_cacheVars /\ [QmpNext]_qmpVars /\ [SshNext]_sshVars /\ [NetNext]_netVars
    /\ [ConfigNext]_configVars /\ [SeedNext]_seedVars /\ [NameNext]_nameVars
    /\ [CopyNext]_copyVars /\ [ToolsNext]_toolsVars
  BY DEF Next, services, ImageScene, QmpScene, QmpAlone, SshScene, SshAlone, NetScene,
     ConfigScene, SeedScene, NameScene, CopyScene, ToolsScene

\* Each part of the whole is as it is alone (for the safety of QMP and of SSH: the
\* fairness that their specifications ask for is another matter).
THEOREM PartsAreThemselves ==
  Spec => /\ CacheSpec /\ NetSpec /\ ConfigSpec /\ SeedSpec /\ NameSpec /\ CopySpec /\ ToolsSpec
          /\ QmpInit /\ [][QmpNext]_qmpVars
          /\ SshInit /\ [][SshNext]_sshVars
<1>1. Init => /\ CacheInit /\ QmpInit /\ SshInit /\ NetInit /\ ConfigInit /\ SeedInit
              /\ NameInit /\ CopyInit /\ ToolsInit
  BY DEF Init
<1>. QED BY <1>1, StepsOfParts, PTL DEF Spec, CacheSpec, NetSpec, ConfigSpec, SeedSpec, NameSpec,
            CopySpec, ToolsSpec

\* The states of every part are well typed.
THEOREM ServicesAreTyped == Spec => []ServicesTypeOK
<1>1. Init => scene \in Scenes
  BY DEF Init
<1>2. scene \in Scenes /\ [Next]_services => (scene \in Scenes)'
  BY StepsOfParts
<1>3. Spec => [](scene \in Scenes)
  BY <1>1, <1>2, PTL DEF Spec
<1>4. Spec => []CacheTypeOK
  BY PartsAreThemselves, CacheTyped, PTL DEF CacheSpec
<1>5. Spec => []QmpTypeOK
  BY PartsAreThemselves, QmpTyped, PTL
<1>6. Spec => []SshTypeOK
  BY PartsAreThemselves, SshTyped, InitSessionInv, StepSessionInv, PTL
<1>7. Spec => []NetTypeOK
  <2>1. NetInv => NetTypeOK
    BY DEF NetInv
  <2>. QED BY <2>1, PartsAreThemselves, InitNetInv, StepNetInv, PTL DEF NetSpec
<1>8. Spec => []ConfigTypeOK
  BY PartsAreThemselves, ConfigTyped, PTL DEF ConfigSpec
<1>9. Spec => []SeedTypeOK
  BY PartsAreThemselves, SeedTyped, PTL DEF SeedSpec
<1>10. Spec => []NameTypeOK
  BY PartsAreThemselves, NameTyped, PTL DEF NameSpec
<1>11. Spec => []CopyTypeOK
  BY PartsAreThemselves, CopyTyped, InitCopyInv, StepCopyInv, PTL DEF CopySpec
<1>12. Spec => []ToolsTypeOK
  BY PartsAreThemselves, ToolsTyped, PTL DEF ToolsSpec
<1>13. /\ scene \in Scenes
       /\ CacheTypeOK /\ QmpTypeOK /\ SshTypeOK /\ NetTypeOK /\ ConfigTypeOK /\ SeedTypeOK
       /\ NameTypeOK /\ CopyTypeOK /\ ToolsTypeOK
       => ServicesTypeOK
  BY DEF ServicesTypeOK
<1>. QED BY <1>3, <1>4, <1>5, <1>6, <1>7, <1>8, <1>9, <1>10, <1>11, <1>12, <1>13, PTL

\* What has been proved of each part holds of the whole, if launches do not overlap.
THEOREM ServicesAreSafe ==
  ASSUME ~Concurrent
  PROVE  Spec => /\ []CachedIsWhole /\ BackingNeverChanges
                 /\ []OkMeansDone
                 /\ []StatusIsTheCommands /\ []TerminalRestored
                 /\ []BlockedByOthers /\ AsksOwnQemu
                 /\ SetsOneKey /\ NeverPicks
                 /\ []SeedAuthorisesKey /\ []ImageFits /\ []GuestReachesProxy /\ []BypassesLocal
                 /\ []CopyIsComplete
                 /\ SetupIsHeeded /\ []FallsBackToTCG
<1>1. Spec => []OkMeansDone
  <2>1. QmpInv => OkMeansDone
    BY DEF QmpInv, ReplyOK
  <2>. QED BY <2>1, PartsAreThemselves, InitQmpInv, StepQmpInv, PTL
<1>2. Spec => []StatusIsTheCommands /\ []TerminalRestored
  <2>1. SessionInv => StatusIsTheCommands /\ TerminalRestored
    BY DefersDiffer DEF SessionInv, Told, Deferred, StatusIsTheCommands, TerminalRestored, SshAt
  <2>. QED BY <2>1, PartsAreThemselves, InitSessionInv, StepSessionInv, PTL
<1>3. Spec => []CachedIsWhole /\ BackingNeverChanges
  BY PartsAreThemselves, CacheIsWhole, BackingStays, Zenon
<1>4. Spec => []BlockedByOthers /\ AsksOwnQemu
  BY PartsAreThemselves, PortsDiffer, StopAsksItsOwn, Zenon
<1>5. Spec => SetsOneKey /\ NeverPicks /\ []CopyIsComplete /\ SetupIsHeeded /\ []FallsBackToTCG
  BY PartsAreThemselves, SetChangesOneKey, NoOtherVM, SuccessIsComplete, ConfiguredFirst,
     BootsWithoutHardware, Zenon
<1>6. Spec => []SeedAuthorisesKey /\ []ImageFits /\ []GuestReachesProxy /\ []BypassesLocal
  BY PartsAreThemselves, SeedIsForItsKey, SeedFits, ProxyIsReachable, GuestBypassesItself, Zenon
<1>. QED BY <1>1, <1>2, <1>3, <1>4, <1>5, <1>6, Zenon

=============================================================================
