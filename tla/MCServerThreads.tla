---------------------------- MODULE MCServerThreads ----------------------------
(* ServerThreads for TLC: the symmetry of connections. *)
EXTENDS ServerThreads, TLC

\* Connections are only compared for equality; used where none of them is
\* singled out as silent and no liveness is checked.
Symmetry == Permutations(Conns)
=============================================================================
