---------------------------- MODULE MCImageCache ----------------------------
(* Values for the constants of ImageCache, with several launches at once. *)
EXTENDS ImageCache, TLC

\* Launches and inodes are interchangeable.
CacheSymmetry == Permutations(Launches) \union Permutations(Files)

=============================================================================
