------------------------------- MODULE MCTyping -------------------------------
(* Small instances of Typing for TLC.  Without symmetry: a liveness property *)
(* is checked.                                                               *)
EXTENDS Typing, TLC
=============================================================================
