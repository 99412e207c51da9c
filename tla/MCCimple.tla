------------------------------- MODULE MCCimple -------------------------------
(* Cimple for TLC: the symmetry of workers and of clients. *)
EXTENDS CimpleProperties, TLC

\* Workers and clients are only ever compared for equality, and the safety
\* runs that use it state no liveness.
Symmetry == Permutations(Workers) \union Permutations(Clients)
=============================================================================
