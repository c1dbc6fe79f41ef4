----------------------------- MODULE MCSyncEngine -----------------------------
(* Values for the constants of SyncEngine. *)
EXTENDS SyncEngine, TLC

\* v1 and v2 are of one size, v3 and a truncated file of others.
Sizes == [v \in Versions \union {Partial} |->
            IF v = Partial THEN 0 ELSE IF v \in {"v1", "v2"} THEN 1 ELSE 2]

\* No two versions are of one size.
DistinctSizes == [v \in Versions \union {Partial} |->
  CASE v = "v1" -> 1 [] v = "v2" -> 2 [] v = "v3" -> 3 [] OTHER -> 0]

=============================================================================
