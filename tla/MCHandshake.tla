----------------------------- MODULE MCHandshake -----------------------------
(* Small instances of Handshake for TLC.  Only safety is checked, so the sets *)
(* that no action tells apart may be permuted.                                *)
EXTENDS Handshake, TLC

Symmetries == Permutations(Tenant) \cup Permutations(Secret)
                \cup Permutations(Request) \cup Permutations(Socket)
=============================================================================
