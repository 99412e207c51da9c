------------------------------- MODULE MCStorage -------------------------------
(* Storage for TLC: the symmetry of threads, repositories and revisions. *)
EXTENDS Storage, TLC

\* They are only ever compared for equality; the run that uses it states no
\* liveness.
Symmetry == Permutations(Threads) \union Permutations(Urls) \union Permutations(Revs)
=============================================================================
