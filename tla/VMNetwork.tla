------------------------------ MODULE VMNetwork ------------------------------
(***************************************************************************)
(* Ports (internal/netx, and their use in internal/vm): a VM is given an   *)
(* SSH and a QMP port when it is created, for good.  A port is found by    *)
(* binding and closing it, so it is the VM's only while its QEMU has it    *)
(* bound: before the boot, and whenever the VM is stopped, another program *)
(* or the QEMU of another VM may have it, and another VM may be given it.  *)
(*                                                                         *)
(* Stop reaches a VM by the QMP port its record names, where nothing tells *)
(* one VM's QEMU from another's.  (Over the SSH port there is the key: see *)
(* GuestSeed for which keys a guest takes.)                                *)
(***************************************************************************)
EXTENDS FiniteSets

CONSTANTS
  NetVMs,    \* VMs
  NetPorts,  \* loopback ports
  NoPort,    \* no port yet
  Stranger   \* a program that is none of the QEMUs

ASSUME NetAssumption == NoPort \notin NetPorts \union NetVMs /\ Stranger \notin NetVMs

VARIABLES
  ports,    \* per VM: the ports in its record
  boot,     \* per VM: "new", "ports", "off", "starting" (a QEMU, no port yet) or "on"
  owner,    \* per port: the VM whose QEMU has it bound, Stranger, or NoPort for none
  blocked   \* the QEMU that the last step ended for want of a port, and who had that

netVars == <<ports, boot, owner, blocked>>

PortOwners  == NetVMs \union {Stranger, NoPort}
NoneBlocked == [of |-> NoPort, by |-> NoPort]

NetTypeOK ==
  /\ ports \in [NetVMs -> [ssh : NetPorts \union {NoPort}, qmp : NetPorts \union {NoPort}]]
  /\ boot \in [NetVMs -> {"new", "ports", "off", "starting", "on"}]
  /\ owner \in [NetPorts -> PortOwners]
  /\ blocked \in [of : NetVMs, by : PortOwners] \union {NoneBlocked}

NetInit ==
  /\ ports = [v \in NetVMs |-> [ssh |-> NoPort, qmp |-> NoPort]]
  /\ boot = [v \in NetVMs |-> "new"]
  /\ owner = [x \in NetPorts |-> NoPort]
  /\ blocked = NoneBlocked

\* What bindEphemeral may return: the kernel picks among the ports nobody has bound.
Bindable == {x \in NetPorts : owner[x] = NoPort}

-----------------------------------------------------------------------------
(* Create.                                                                 *)

AllocSSH(v) ==
  /\ boot[v] = "new"
  /\ \E x \in Bindable : ports' = [ports EXCEPT ![v] = [@ EXCEPT !.ssh = x]]
  /\ boot' = [boot EXCEPT ![v] = "ports"]
  /\ blocked' = NoneBlocked /\ UNCHANGED owner

\* Mutant of AllocQMP: nothing is avoided.
AllocQMPAnywhere(v) ==
  /\ boot[v] = "ports"
  /\ \E x \in Bindable : ports' = [ports EXCEPT ![v] = [@ EXCEPT !.qmp = x]]
  /\ boot' = [boot EXCEPT ![v] = "off"]
  /\ blocked' = NoneBlocked /\ UNCHANGED owner

\* FreeLoopbackPort(sshPort): the VM's first port is still free, and avoided by name;
\* then the record is saved.
AllocQMP(v) ==
  /\ boot[v] = "ports"
  /\ \E x \in Bindable \ {ports[v].ssh} :
       ports' = [ports EXCEPT ![v] = [@ EXCEPT !.qmp = x]]
  /\ boot' = [boot EXCEPT ![v] = "off"]
  /\ blocked' = NoneBlocked /\ UNCHANGED owner

\* The attempts are used up, or Create fails before it saves the record.
AllocFails(v) ==
  /\ boot[v] = "ports"
  /\ ports' = [ports EXCEPT ![v] = [ssh |-> NoPort, qmp |-> NoPort]]
  /\ boot' = [boot EXCEPT ![v] = "new"]
  /\ blocked' = NoneBlocked /\ UNCHANGED owner

-----------------------------------------------------------------------------
(* The QEMU.                                                               *)

Launch(v) ==
  /\ boot[v] = "off"
  /\ boot' = [boot EXCEPT ![v] = "starting"]
  /\ blocked' = NoneBlocked /\ UNCHANGED <<ports, owner>>

\* Mutant of BindPort: a port is taken over from whoever has it.
BindPortShared(v) ==
  /\ boot[v] = "starting"
  /\ \E x \in {ports[v].ssh, ports[v].qmp} : owner' = [owner EXCEPT ![x] = v]
  /\ blocked' = NoneBlocked /\ UNCHANGED <<ports, boot>>

\* The QEMU binds one port after the other, and exits if it cannot have one.
BindPort(v) ==
  /\ boot[v] = "starting"
  /\ \E x \in {ports[v].ssh, ports[v].qmp} :
       IF owner[x] = NoPort
       THEN owner' = [owner EXCEPT ![x] = v] /\ blocked' = NoneBlocked /\ UNCHANGED boot
       ELSE /\ owner[x] # v \/ ports[v].ssh = ports[v].qmp
            /\ blocked' = [of |-> v, by |-> owner[x]]
            /\ boot' = [boot EXCEPT ![v] = "off"]
            /\ owner' = [y \in NetPorts |-> IF owner[y] = v THEN NoPort ELSE owner[y]]
  /\ UNCHANGED ports

Listening(v) ==
  /\ boot[v] = "starting"
  /\ ports[v].ssh # ports[v].qmp
  /\ owner[ports[v].ssh] = v /\ owner[ports[v].qmp] = v
  /\ boot' = [boot EXCEPT ![v] = "on"]
  /\ blocked' = NoneBlocked /\ UNCHANGED <<ports, owner>>

ExitOf(v) ==
  /\ boot[v] \in {"starting", "on"}
  /\ boot' = [boot EXCEPT ![v] = "off"]
  /\ owner' = [y \in NetPorts |-> IF owner[y] = v THEN NoPort ELSE owner[y]]

Shutdown(v) == ExitOf(v) /\ blocked' = NoneBlocked /\ UNCHANGED ports

StrangerBinds(x) ==
  /\ owner[x] = NoPort
  /\ owner' = [owner EXCEPT ![x] = Stranger]
  /\ blocked' = NoneBlocked /\ UNCHANGED <<ports, boot>>

StrangerLeaves(x) ==
  /\ owner[x] = Stranger
  /\ owner' = [owner EXCEPT ![x] = NoPort]
  /\ blocked' = NoneBlocked /\ UNCHANGED <<ports, boot>>

-----------------------------------------------------------------------------
(* What Stop asks over QMP.                                                *)

\* Powerdown and Quit: Stop has seen the VM running, and sends its request to the
\* port in the record.  QMP knows no keys: whichever QEMU listens there obeys.
AskQMP(v) ==
  /\ \E w \in NetVMs :
       /\ ports[v].qmp # NoPort /\ owner[ports[v].qmp] = w
       /\ ports[w].qmp = ports[v].qmp
       /\ ExitOf(w)
  /\ blocked' = NoneBlocked /\ UNCHANGED ports

NetNext ==
  \/ \E v \in NetVMs :
       \/ AllocSSH(v) \/ AllocQMP(v) \/ AllocFails(v)
       \/ Launch(v) \/ BindPort(v) \/ Listening(v) \/ Shutdown(v)
       \/ AskQMP(v)
  \/ \E x \in NetPorts : StrangerBinds(x) \/ StrangerLeaves(x)

NetSpec == NetInit /\ [][NetNext]_netVars

-----------------------------------------------------------------------------
\* Once a VM's QEMU has its ports, a request to stop that VM ends no other VM's QEMU,
\* though both records may name one QMP port and nothing in a request says whom it is
\* meant for.
AsksOwnQemu ==
  [][\A v, w \in NetVMs :
       (boot[v] = "on" /\ AskQMP(v) /\ w # v) => boot'[w] = boot[w]]_netVars

\* A QEMU that exits for want of a port has lost it to somebody else: what one VM was
\* given does not collide with itself, though each port was free when it was given.
BlockedByOthers == blocked # NoneBlocked => blocked.by # blocked.of

=============================================================================
