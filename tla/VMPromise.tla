------------------------------ MODULE VMPromise ------------------------------
(***************************************************************************)
(* What vc promises of a VM, with no record, lock or pid in sight: it is   *)
(* created once, with data of its own; it runs and halts on that data; and *)
(* it is deleted only when it does not run.  `data` stands for the disk,   *)
(* the key that opens it and whatever the user keeps there.                *)
(***************************************************************************)
CONSTANTS Names, Insts, None

VARIABLES
  life,   \* per VM: "absent", "stopped" or "running"
  data    \* per VM: the creation its data comes from

vars == <<life, data>>

Init == life = [n \in Names |-> "absent"] /\ data = [n \in Names |-> None]

Create(n) ==
  /\ life[n] = "absent"
  /\ life' = [life EXCEPT ![n] = "stopped"]
  /\ \E i \in Insts : /\ \A m \in Names : data[m] # i
                      /\ data' = [data EXCEPT ![n] = i]

Boot(n) ==
  /\ life[n] = "stopped"
  /\ life' = [life EXCEPT ![n] = "running"]
  /\ UNCHANGED data

Halt(n) ==
  /\ life[n] = "running"
  /\ life' = [life EXCEPT ![n] = "stopped"]
  /\ UNCHANGED data

Delete(n) ==
  /\ life[n] = "stopped"
  /\ life' = [life EXCEPT ![n] = "absent"]
  /\ data' = [data EXCEPT ![n] = None]

Next == \E n \in Names : Create(n) \/ Boot(n) \/ Halt(n) \/ Delete(n)

Spec == Init /\ [][Next]_vars

=============================================================================
