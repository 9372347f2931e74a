---------------------------- MODULE AccessRegistry ----------------------------
(***************************************************************************)
(* What API keys promise: a key is issued once, is valid until it is       *)
(* replaced or revoked, and never becomes valid again; whoever gets in     *)
(* holds a key that is valid at that moment.                               *)
(***************************************************************************)
CONSTANTS Key, Visitor, None

VARIABLES
  valid,    \* the keys that open the door
  retired,  \* the keys that did
  inside    \* the key each visitor got in with, or None

vars == <<valid, retired, inside>>

Init ==
  /\ valid = {}
  /\ retired = {}
  /\ inside = [v \in Visitor |-> None]

\* A new key may replace older ones, that were valid.
Issue(x, old) ==
  /\ x \notin valid \cup retired
  /\ valid' = (valid \ old) \cup {x}
  /\ retired' = retired \cup old
  /\ UNCHANGED inside

Revoke(old) ==
  /\ valid' = valid \ old
  /\ retired' = retired \cup old
  /\ UNCHANGED inside

Enter(v, x) ==
  /\ inside[v] = None
  /\ inside' = [inside EXCEPT ![v] = x]
  /\ UNCHANGED <<valid, retired>>

\* Visitors leave or are put out, several at once when the service goes down.
Go(gone) ==
  /\ inside' = [v \in Visitor |-> IF v \in gone THEN None ELSE inside[v]]
  /\ UNCHANGED <<valid, retired>>

Next ==
  \/ \E old \in SUBSET valid : Revoke(old) \/ \E x \in Key : Issue(x, old)
  \/ \E v \in Visitor, x \in valid : Enter(v, x)
  \/ \E gone \in SUBSET {v \in Visitor : inside[v] # None} : Go(gone)

Spec == Init /\ [][Next]_vars
=============================================================================
