------------------------------ MODULE QemuTools ------------------------------
(***************************************************************************)
(* Finding QEMU and starting it (internal/qemu: Locate, SelectAccel and    *)
(* BuildArgs; `vc setup` and startLocked, which call them).  Where to look *)
(* is worked out anew by every invocation, from the configuration and from *)
(* what happens to be installed by then.                                   *)
(***************************************************************************)
EXTENDS Naturals, Sequences

CONSTANTS
  GivenDirs,  \* directories that `vc setup --qemu-dir` may be given
  NoPlace,    \* no directory
  HostOS      \* "windows", "linux" or another

Places   == GivenDirs \union {"bundle", "exe", "data", "PATH"}
Binaries == {"system", "img"}
Hardware == CASE HostOS = "windows" -> {"whpx"} [] HostOS = "linux" -> {"kvm"} [] OTHER -> {}

ASSUME PlacesAssumption ==
  GivenDirs \intersect {"bundle", "exe", "data", "PATH", NoPlace} = {}

VARIABLES
  installed,  \* per place: the binaries there
  qemuPath,   \* the key of the configuration
  usable,     \* the hardware accelerators that the QEMU has and the host lets it use
  booted      \* the last QEMU started: where it and its qemu-img are, its -accel options

toolsVars == <<installed, qemuPath, usable, booted>>

NotBooted == [system |-> NoPlace, img |-> NoPlace, accels |-> <<>>]

ToolsTypeOK ==
  /\ installed \in [Places -> SUBSET Binaries]
  /\ qemuPath \in GivenDirs \union {NoPlace}
  /\ usable \subseteq {"whpx", "kvm"}
  /\ booted.system \in Places \union {NoPlace} /\ booted.img \in Places \union {NoPlace}
  /\ booted.accels \in Seq({"whpx", "kvm", "tcg"})

ToolsInit ==
  /\ installed = [p \in Places |-> {}] /\ qemuPath = NoPlace
  /\ usable = {} /\ booted = NotBooted

\* Mutant of Candidates: what came with vc is looked for first.
CandidatesBundled(configured, exeDir) ==
  (IF exeDir THEN <<"bundle", "exe">> ELSE <<>>)
    \o (IF configured = NoPlace THEN <<>> ELSE <<configured>>) \o <<"data", "PATH">>

\* Where Locate looks for qemu-system, in its order.
Candidates(configured, exeDir) ==
  (IF configured = NoPlace THEN <<>> ELSE <<configured>>)
    \o (IF exeDir THEN <<"bundle", "exe">> ELSE <<>>) \o <<"data", "PATH">>

\* Locate: the first qemu-system, and the qemu-img beside it or on PATH; NoPlace for
\* what is not found.
Locate(configured, exeDir) ==
  LET c     == Candidates(configured, exeDir)
      has   == {i \in DOMAIN c : "system" \in installed[c[i]]}
      first == CHOOSE i \in has : \A j \in has : i <= j
      where == IF has = {} THEN NoPlace ELSE c[first]
  IN  [system |-> where,
       img    |-> IF where # NoPlace /\ "img" \in installed[where] THEN where
                  ELSE IF where # NoPlace /\ "img" \in installed["PATH"] THEN "PATH"
                  ELSE NoPlace]

\* Mutant of SelectAccel: the hardware accelerator alone.
SelectAccelOnly ==
  IF usable \intersect Hardware = {} THEN <<"tcg">>
  ELSE <<CHOOSE a \in usable \intersect Hardware : TRUE>>

\* SelectAccel and splitAccel: the host's own accelerator if it can be used, then TCG.
SelectAccel ==
  IF usable \intersect Hardware = {} THEN <<"tcg">>
  ELSE <<CHOOSE a \in usable \intersect Hardware : TRUE, "tcg">>

\* `vc setup --qemu-dir`: a directory is saved if QEMU is found, there or further on.
SetupDir(d) ==
  /\ Locate(d, FALSE).img # NoPlace
  /\ qemuPath' = d
  /\ UNCHANGED <<installed, usable, booted>>

\* startLocked, for which RequireTools wants both binaries.  If the accelerators
\* cannot be probed there is TCG.
Boot ==
  LET t == Locate(qemuPath, TRUE)
  IN  /\ t.img # NoPlace
      /\ \E a \in {SelectAccel, <<"tcg">>} :
           booted' = [system |-> t.system, img |-> t.img, accels |-> a]
      /\ UNCHANGED <<installed, qemuPath, usable>>

\* `vc config set qemupath ""`.
ForgetPath ==
  /\ qemuPath' = NoPlace
  /\ UNCHANGED <<installed, usable, booted>>

\* The user installs or removes a binary, or turns an accelerator on or off.
Reinstall(p, b) ==
  /\ installed' = [installed EXCEPT ![p] = IF b \in @ THEN @ \ {b} ELSE @ \union {b}]
  /\ booted' = NotBooted
  /\ UNCHANGED <<qemuPath, usable>>

Retune(a) ==
  /\ usable' = IF a \in usable THEN usable \ {a} ELSE usable \union {a}
  /\ booted' = NotBooted
  /\ UNCHANGED <<installed, qemuPath>>

ToolsNext ==
  \/ \E d \in GivenDirs : SetupDir(d)
  \/ Boot \/ ForgetPath
  \/ \E p \in Places, b \in Binaries : Reinstall(p, b)
  \/ \E a \in {"whpx", "kvm"} : Retune(a)

ToolsSpec == ToolsInit /\ [][ToolsNext]_toolsVars

-----------------------------------------------------------------------------
\* The QEMU that the user has pointed vc at is the one that VMs are booted with,
\* whatever is bundled with vc, and with the qemu-img that belongs to it.
SetupIsHeeded ==
  [][(Boot /\ qemuPath # NoPlace /\ installed[qemuPath] = Binaries)
       => booted'.system = qemuPath /\ booted'.img = qemuPath]_toolsVars

\* A VM boots without hardware acceleration too: TCG is the last thing QEMU is told
\* to try, after nothing that this host does not have.
FallsBackToTCG ==
  booted.system # NoPlace =>
    LET n == Len(booted.accels)
    IN  booted.accels[n] = "tcg"
        /\ \A i \in 1 .. n - 1 : booted.accels[i] \in usable \intersect Hardware

=============================================================================
