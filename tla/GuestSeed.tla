------------------------------ MODULE GuestSeed ------------------------------
(***************************************************************************)
(* What a new guest is told (writeSeed and buildProxy in internal/vm,      *)
(* internal/proxy, internal/cloudinit, internal/seed): Create makes a key  *)
(* pair, finds the host's proxy and rewrites it for the guest, renders the *)
(* cloud-init documents, and writes them to an ISO image, before it saves  *)
(* the record.  It may fail or die at any step and be called again.        *)
(***************************************************************************)
EXTENDS Integers, Sequences, FiniteSets

CONSTANTS
  KeyPairs,      \* what WriteKeyPair may make
  HostProxies,   \* what the host may be set to: a subset of HostSettings
  DocumentSizes, \* the lengths that the documents may have, in bytes
  Nobody         \* no key pair

ASSUME SeedAssumption ==
  /\ Nobody \notin KeyPairs
  /\ DocumentSizes \subseteq Nat /\ DocumentSizes # {}

-----------------------------------------------------------------------------
(* Proxies.  An endpoint is a bare host:port or a URL.  There may be more  *)
(* around the host, a user and password before it or a path right after    *)
(* it, which url.Parse takes or not ("p%ss" is no valid password).  Of the *)
(* host only the kind matters.                                             *)

Absent == [form |-> "none", around |-> "nothing", host |-> "none"]
Endpoint ==
  [form : {"bare", "url"}, around : {"nothing", "valid", "invalid"},
   host : {"localhost", "loopback", "wildcard", "gateway", "remote"}] \union {Absent}

\* Entries of a bypass list: one that is always in it, the same in capitals, another
\* in both cases, and nothing between two commas.
Bypasses == {"localhost", "LOCALHOST", "corp", "CORP", ""}

\* The registry ("registry": per scheme, for all schemes, and a switch), or the
\* environment.
HostSettings ==
  [from : {"registry", "environment"}, active : BOOLEAN, http : Endpoint,
   https : Endpoint, every : Endpoint, bypass : Seq(Bypasses)]

ASSUME HostAssumption == HostProxies \subseteq HostSettings

NoProxyConfig == [enabled |-> FALSE, http |-> Absent, https |-> Absent, noProxy |-> <<>>]

\* Mutant of HostIsLocal: only what names the machine itself.
HostIsLocalByName(host) == host \in {"localhost", "loopback"}

HostIsLocal(host) == host \in {"localhost", "loopback", "wildcard"}

\* The host that is looked at: url.Parse finds it in a URL that is one, and everything else
\* (a URL that it refuses, without its scheme) goes through net.SplitHostPort, which leaves
\* a user, a password and a path where they are: no local host is recognised in that.
HostSeen(e) ==
  IF e.around = "nothing" \/ (e.form = "url" /\ e.around = "valid") THEN e.host ELSE "other"

\* A host-local endpoint is given the address that slirp has for the host.
NormalizeServer(e) ==
  IF HostIsLocal(HostSeen(e)) THEN [e EXCEPT !.host = "gateway"] ELSE e

ToHTTPURL(e) == IF e = Absent THEN e ELSE [e EXCEPT !.form = "url"]

AlwaysBypassed == <<"localhost", "slirp">>

ToLower(entry) ==
  CASE entry = "LOCALHOST" -> "localhost" [] entry = "CORP" -> "corp" [] OTHER -> entry

\* Mutant of DefaultNoProxy: the defaults only when the host has no list.
DefaultNoProxyInstead(extra) == IF extra = <<>> THEN AlwaysBypassed ELSE extra

\* add: an entry that the list has not, in any case.
AddEntry(list, entry) ==
  IF entry = "" \/ \E i \in 1 .. Len(list) : ToLower(list[i]) = ToLower(entry)
  THEN list ELSE Append(list, entry)

\* The defaults, then what is not among them, each once.
DefaultNoProxy(extra) ==
  LET list[n \in 0 .. Len(extra)] ==
        IF n = 0 THEN AlwaysBypassed ELSE AddEntry(list[n - 1], extra[n])
  IN  list[Len(extra)]

BuildConfig(http, https, bypass) ==
  LET h == NormalizeServer(http)
      s == NormalizeServer(https)
  IN  [enabled |-> h # Absent \/ s # Absent, http |-> h, https |-> s,
       noProxy |-> DefaultNoProxy(bypass)]

FirstSet(e, f) == IF e = Absent THEN f ELSE e

\* Detect, on Windows and elsewhere.
Detect(host) ==
  CASE host.from = "environment" -> BuildConfig(host.http, host.https, host.bypass)
    [] host.from = "registry" /\ ~host.active ->
         [NoProxyConfig EXCEPT !.noProxy = DefaultNoProxy(host.bypass)]
    [] OTHER -> BuildConfig(ToHTTPURL(FirstSet(host.http, host.every)),
                            ToHTTPURL(FirstSet(host.https, host.every)), host.bypass)

\* buildProxy: what the guest is given; "none" is the other proxy mode.
BuildProxy(mode, host) ==
  LET c == Detect(host)
  IN  IF mode = "none" \/ ~c.enabled THEN NoProxyConfig
      ELSE [c EXCEPT !.noProxy = DefaultNoProxy(c.noProxy)]

-----------------------------------------------------------------------------
(* Sizes, in bytes.                                                        *)

SectorSize   == 2048
MinImageSize == 1048576
ImageOverhead == 64 * SectorSize

\* Mutant of RoundUp: down.
RoundDown(n) == IF n <= 0 THEN SectorSize ELSE (n \div SectorSize) * SectorSize

RoundUp(n) ==
  IF n <= 0 THEN SectorSize ELSE ((n + SectorSize - 1) \div SectorSize) * SectorSize

\* imageSize, of user-data and meta-data.
ImageSize(user, meta) ==
  LET total == RoundUp(user) + RoundUp(meta) + ImageOverhead
  IN  RoundUp(IF total < MinImageSize THEN MinImageSize ELSE total)

-----------------------------------------------------------------------------
VARIABLES
  setup,    \* Create: the step it is at, and the documents
  keypair,  \* id_ed25519 in the VM's directory
  image,    \* seed.img: how far it was written, its size, and what is in it
  recorded  \* vm.json is there

seedVars == <<setup, keypair, image, recorded>>

\* Two documents: the key and the proxy they name, and their lengths.
Documents == [key : KeyPairs, proxy : {BuildProxy(m, h) : m \in {"auto", "none"},
                                                         h \in HostProxies},
              user : DocumentSizes, meta : DocumentSizes]
Blank == [key |-> Nobody, proxy |-> NoProxyConfig, user |-> 0, meta |-> 0]
NoImage == [state |-> "none", size |-> 0, docs |-> Blank]

SeedTypeOK ==
  /\ setup \in [at : {"idle", "render", "remove", "create", "files", "finalize",
                      "abort", "save"},
                docs : Documents \union {Blank}]
  /\ keypair \in KeyPairs \union {Nobody}
  /\ image.state \in {"none", "partial", "whole"} /\ image.size \in Nat
  /\ image.docs \in Documents \union {Blank}
  /\ recorded \in BOOLEAN

SeedInit ==
  /\ setup = [at |-> "idle", docs |-> Blank]
  /\ keypair = Nobody /\ image = NoImage /\ recorded = FALSE

SetupAt(step)   == setup.at = step
SetupGoto(step) == setup' = [setup EXCEPT !.at = step]
SetupEnds       == setup' = [at |-> "idle", docs |-> Blank]

\* Mutant of MakeKey: an error of WriteKeyPair is no error of Create.
MakeKeyUnchecked ==
  /\ SetupAt("idle") /\ ~recorded
  /\ keypair' \in KeyPairs \union {keypair}
  /\ SetupGoto("render")
  /\ UNCHANGED <<image, recorded>>

\* Create, up to the key pair, which replaces one that is there.
MakeKey ==
  /\ SetupAt("idle") /\ ~recorded
  /\ keypair' \in KeyPairs
  /\ SetupGoto("render")
  /\ UNCHANGED <<image, recorded>>

\* buildProxy and Render.  A proxy detected with an error is no proxy; documents
\* that fail their validation are an error.
Render ==
  /\ SetupAt("render")
  /\ \/ \E m \in {"auto", "none"}, h \in HostProxies, u, n \in DocumentSizes :
          setup' = [at |-> "remove",
                    docs |-> [key |-> keypair, proxy |-> BuildProxy(m, h),
                              user |-> u, meta |-> n]]
     \/ SetupEnds
  /\ UNCHANGED <<keypair, image, recorded>>

\* Mutant of RemoveOld: an image that is there is used.
RemoveOldUnless ==
  /\ SetupAt("remove")
  /\ SetupGoto(IF image.state = "whole" THEN "save" ELSE "create")
  /\ image' = IF image.state = "whole" THEN image ELSE NoImage
  /\ UNCHANGED <<keypair, recorded>>

\* WriteISO: an image of an earlier attempt is removed, or that is an error.
RemoveOld ==
  /\ SetupAt("remove")
  /\ \/ SetupGoto("create") /\ image' = NoImage
     \/ image # NoImage /\ SetupEnds /\ UNCHANGED image
  /\ UNCHANGED <<keypair, recorded>>

\* diskfs.Create makes the file, at its size.
CreateImage ==
  /\ SetupAt("create") /\ image = NoImage
  /\ image' = [state |-> "partial", size |-> ImageSize(setup.docs.user, setup.docs.meta),
               docs |-> Blank]
  /\ SetupGoto("files")
  /\ UNCHANGED <<keypair, recorded>>

\* writeOne, of both files, into the workspace of the ISO; Finalize lays it out.
WriteFiles ==
  /\ SetupAt("files")
  /\ SetupGoto("finalize")
  /\ UNCHANGED <<keypair, image, recorded>>

Finalize ==
  /\ SetupAt("finalize")
  /\ image' = [image EXCEPT !.state = "whole", !.docs = setup.docs]
  /\ SetupGoto("save")
  /\ UNCHANGED <<keypair, recorded>>

\* Any of the steps fails: the deferred clean-up removes the image.
SeedFails ==
  /\ setup.at \in {"files", "finalize"}
  /\ SetupGoto("abort")
  /\ UNCHANGED <<keypair, image, recorded>>

AbortImage ==
  /\ SetupAt("abort")
  /\ image' = NoImage
  /\ SetupEnds
  /\ UNCHANGED <<keypair, recorded>>

\* The rest of Create, to its Save.
SaveVM ==
  /\ SetupAt("save")
  /\ \/ recorded' = TRUE
     \/ UNCHANGED recorded
  /\ SetupEnds
  /\ UNCHANGED <<keypair, image>>

\* The process dies.
SetupDies ==
  /\ ~SetupAt("idle")
  /\ SetupEnds
  /\ UNCHANGED <<keypair, image, recorded>>

\* Remove.
RemoveVM ==
  /\ SetupAt("idle") /\ recorded
  /\ keypair' = Nobody /\ image' = NoImage /\ recorded' = FALSE
  /\ UNCHANGED setup

SeedNext ==
  \/ MakeKey \/ Render \/ RemoveOld \/ CreateImage \/ WriteFiles \/ Finalize
  \/ SeedFails \/ AbortImage \/ SaveVM \/ SetupDies \/ RemoveVM

SeedSpec == SeedInit /\ [][SeedNext]_seedVars

-----------------------------------------------------------------------------
\* A VM that has a record boots from a whole seed that authorises the key beside it,
\* however many attempts at creating it failed or died half-way.
SeedAuthorisesKey == recorded => image.state = "whole" /\ image.docs.key = keypair

\* A guest is sent to itself for a proxy only over an endpoint with more around its host
\* than vc can take apart: something that url.Parse refuses, or anything at all around a
\* host without a scheme.
GuestReachesProxy ==
  \A e \in {image.docs.proxy.http, image.docs.proxy.https} :
    e.host \in {"localhost", "loopback", "wildcard"} =>
      e.around = "invalid" \/ (e.form = "bare" /\ e.around = "valid")

\* A guest with a proxy never uses it for itself or for the host, and no entry of
\* its list is there twice, though the list is merged with the defaults twice.
BypassesLocal ==
  LET p == image.docs.proxy
      n == p.noProxy
  IN  p.enabled =>
        /\ \A d \in {"localhost", "slirp"} : \E i \in 1 .. Len(n) : ToLower(n[i]) = d
        /\ \A i, j \in 1 .. Len(n) : ToLower(n[i]) = ToLower(n[j]) => i = j

\* An image has whole sectors, and room for each file's and for what goes before them.
ImageFits ==
  image # NoImage =>
    /\ image.size % SectorSize = 0
    /\ image.size >= image.docs.user + image.docs.meta + ImageOverhead

=============================================================================
