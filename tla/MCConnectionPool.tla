-------------------------- MODULE MCConnectionPool --------------------------
(* Small instances of ConnectionPool for TLC. *)
EXTENDS ConnectionPool, TLC

(* Threads are alike, and so are addresses. *)
Symmetry == Permutations(Worker) \cup Permutations(Handle)
=============================================================================
