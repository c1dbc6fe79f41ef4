---------------------------- MODULE VMRefinement ----------------------------
(***************************************************************************)
(* How the files and processes of VMLifecycle are read as the VMs of       *)
(* VMPromise: a VM runs if there is a QEMU for it, recorded or not; it     *)
(* exists if it has a record; its data is the disk its QEMU has open, or,  *)
(* while it is stopped, what its record was created with.                  *)
(***************************************************************************)
EXTENDS VMLifecycle

QemusOf(n) == {q \in Pids : os[q] \in Qemu /\ os[q].vm = n}

Life(n) == IF QemusOf(n) # {} THEN "running"
           ELSE IF fs[n].rec # None THEN "stopped" ELSE "absent"

Data(n) == IF QemusOf(n) # {} THEN os[CHOOSE q \in QemusOf(n) : TRUE].disk
           ELSE IF fs[n].rec # None THEN fs[n].rec.inst ELSE None

Promise == INSTANCE VMPromise WITH life <- [n \in Names |-> Life(n)],
                                   data <- [n \in Names |-> Data(n)]

\* The manager, its files and the processes it starts implement the promise: a VM
\* boots on the disk it was created with, and is deleted only when no QEMU runs it.
KeepsPromise == Promise!Spec

=============================================================================
