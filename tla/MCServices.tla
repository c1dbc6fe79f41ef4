----------------------------- MODULE MCServices -----------------------------
(***************************************************************************)
(* The parts of the program that share no state with each other nor with   *)
(* the lifecycle of a VM, put together: one of them is on the scene in a   *)
(* behaviour, and the others rest where they begin, so that the states of  *)
(* the parts add up and do not multiply.  With values for the constants.   *)
(***************************************************************************)
EXTENDS ImageCache, QmpExchange, SshSession, VMNetwork, ConfigStore, GuestSeed,
        NameChoice, TreeCopy, QemuTools

VARIABLE scene

Scenes == {"image", "qmp", "ssh", "network", "config", "seed", "names", "copy", "tools"}

services == <<scene, cacheVars, qmpVars, sshVars, netVars, configVars, seedVars,
              nameVars, copyVars, toolsVars>>

-----------------------------------------------------------------------------
(* The values.                                                             *)

AllSshOps == {"wait", "exec", "shell"}

\* qemupath is the key whose default is to be unset.
Defaults == [k \in Keys |-> IF k = "qemupath" THEN Unset ELSE "v1"]

\* A bare host-local endpoint, with and without a password; for the other scheme a wildcard
\* URL with a password, one with a password that is not valid, or none; a remote URL for
\* all; a bypass list that repeats itself, or none.
SomeProxies ==
  [from : {"registry", "environment"}, active : {TRUE},
   http : [form : {"bare"}, around : {"nothing", "valid"}, host : {"loopback"}],
   https : [form : {"url"}, around : {"valid", "invalid"}, host : {"wildcard"}] \union {Absent},
   every : [form : {"url"}, around : {"nothing"}, host : {"remote"}],
   bypass : {<<>>, <<"corp", "LOCALHOST", "", "CORP">>}]
    \union {[from |-> "registry", active |-> FALSE, http |-> Absent, https |-> Absent,
             every |-> Absent, bypass |-> <<>>]}

\* A directory with a file in it beside a file: three of the paths may be anything.
SmallTree == {<<>>, <<"d">>, <<"d", "f">>, <<"g">>}

-----------------------------------------------------------------------------
\* The parts that may begin in several states do so on the scene only.
Init ==
  /\ scene \in Scenes
  /\ CacheInit /\ QmpInit /\ SshInit /\ NetInit /\ ConfigInit /\ SeedInit /\ NameInit
  /\ CopyInit /\ ToolsInit
  /\ scene # "image" => published = CHOOSE v \in Versions : TRUE
  /\ scene # "ssh"   => guest = "up"
  /\ scene # "copy"  => source = [p \in Paths |-> IF p = <<>> THEN "file" ELSE "none"]

ImageScene ==
  /\ scene = "image" /\ CacheNext
  /\ UNCHANGED <<scene, qmpVars, sshVars, netVars, configVars, seedVars, nameVars, copyVars,
                 toolsVars>>

QmpAlone == UNCHANGED <<scene, cacheVars, sshVars, netVars, configVars, seedVars, nameVars,
                        copyVars, toolsVars>>
QmpScene == scene = "qmp" /\ QmpNext /\ QmpAlone

SshAlone == UNCHANGED <<scene, cacheVars, qmpVars, netVars, configVars, seedVars, nameVars,
                        copyVars, toolsVars>>
SshScene == scene = "ssh" /\ SshNext /\ SshAlone

NetScene ==
  /\ scene = "network" /\ NetNext
  /\ UNCHANGED <<scene, cacheVars, qmpVars, sshVars, configVars, seedVars, nameVars, copyVars,
                 toolsVars>>

ConfigScene ==
  /\ scene = "config" /\ ConfigNext
  /\ UNCHANGED <<scene, cacheVars, qmpVars, sshVars, netVars, seedVars, nameVars, copyVars,
                 toolsVars>>

SeedScene ==
  /\ scene = "seed" /\ SeedNext
  /\ UNCHANGED <<scene, cacheVars, qmpVars, sshVars, netVars, configVars, nameVars, copyVars,
                 toolsVars>>

NameScene ==
  /\ scene = "names" /\ NameNext
  /\ UNCHANGED <<scene, cacheVars, qmpVars, sshVars, netVars, configVars, seedVars, copyVars,
                 toolsVars>>

CopyScene ==
  /\ scene = "copy" /\ CopyNext
  /\ UNCHANGED <<scene, cacheVars, qmpVars, sshVars, netVars, configVars, seedVars, nameVars,
                 toolsVars>>

ToolsScene ==
  /\ scene = "tools" /\ ToolsNext
  /\ UNCHANGED <<scene, cacheVars, qmpVars, sshVars, netVars, configVars, seedVars, nameVars,
                 copyVars>>

Next ==
  \/ ImageScene \/ QmpScene \/ SshScene \/ NetScene \/ ConfigScene \/ SeedScene
  \/ NameScene \/ CopyScene \/ ToolsScene

\* The fairness is that of QmpSpec and SshSpec; a part off the scene has nothing enabled
\* that it asks for.
Spec ==
  /\ Init /\ [][Next]_services
  /\ WF_services(QmpStep /\ QmpAlone) /\ WF_services(Deadline /\ QmpAlone)
  /\ WF_services(SshClient /\ SshAlone) /\ SF_services(PauseDone /\ SshAlone)
  /\ WF_services(ServerCloses /\ SshAlone) /\ WF_services(Expire /\ SshAlone)

ServicesTypeOK ==
  /\ scene \in Scenes
  /\ CacheTypeOK /\ QmpTypeOK /\ SshTypeOK /\ NetTypeOK /\ ConfigTypeOK /\ SeedTypeOK
  /\ NameTypeOK /\ CopyTypeOK /\ ToolsTypeOK

=============================================================================
