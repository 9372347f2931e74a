-------------------------- MODULE MCPresenceService --------------------------
(* Small instances of PresenceService for TLC.  Sweepers are not permuted:  *)
(* every instance has at most one.                                          *)
EXTENDS PresenceService, TLC

Symmetry == Permutations(User) \cup Permutations(Session)
              \cup Permutations(Worker)
=============================================================================
