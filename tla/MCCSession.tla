----------------------------- MODULE MCCSession -----------------------------
(* Instances of CSession for TLC. *)
EXTENDS CSession, TLC

\* Threads, sessions and addresses are interchangeable.
Symmetry == Permutations(Thread) \union Permutations(Session) \union Permutations(Addr)
=============================================================================
