----------------------------- MODULE MCReactHooks -----------------------------
(* Small instances of ReactHooks for TLC; no action tells the users apart.    *)
EXTENDS ReactHooks, TLC

Symmetry == Permutations(User)
=============================================================================
