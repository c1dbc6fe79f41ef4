---------------------------- MODULE MCVMLifecycle ----------------------------
(* Values for the constants of VMLifecycle, and its symmetries. *)
EXTENDS VMRefinement, TLC

\* Names, slots, pids, tokens and inodes are interchangeable.
Symmetry == Permutations(Procs) \union Permutations(Pids) \union Permutations(Insts)
              \union Permutations(Inodes) \union Permutations(Names)

=============================================================================
