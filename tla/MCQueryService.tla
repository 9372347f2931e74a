---------------------------- MODULE MCQueryService ----------------------------
(* Small instances of QueryService for TLC.                                  *)
EXTENDS QueryService, TLC

Symmetry == Permutations(User) \cup Permutations(Session)
              \cup Permutations(Worker)
=============================================================================
