--------------------------- MODULE SessionRegistry ---------------------------
(***************************************************************************)
(* What ws-service promises about the sessions it keeps in Redis, without  *)
(* saying how: a session id belongs to one user, opens once and never      *)
(* again, is listed under its user for as long as it lives, and is struck  *)
(* off the list only when it has ended.  Sessions that lapsed may stay     *)
(* listed until somebody notices.                                          *)
(***************************************************************************)
CONSTANTS User, Session

VARIABLES
  live,     \* the live sessions of each user
  listed,   \* the sessions listed under each user
  retired   \* the sessions that have ended

vars == <<live, listed, retired>>

Init ==
  /\ live = [u \in User |-> {}]
  /\ listed = [u \in User |-> {}]
  /\ retired = {}

Open(u, s) ==
  /\ s \notin retired
  /\ \A v \in User : s \notin live[v] \cup listed[v]
  /\ live' = [live EXCEPT ![u] = @ \cup {s}]
  /\ listed' = [listed EXCEPT ![u] = @ \cup {s}]
  /\ UNCHANGED retired

\* A client that fell silent: its time to live runs out.
Lapse(u, s) ==
  /\ s \in live[u]
  /\ live' = [live EXCEPT ![u] = @ \ {s}]
  /\ retired' = retired \cup {s}
  /\ UNCHANGED listed

End(u, s) ==
  /\ s \in live[u]
  /\ live' = [live EXCEPT ![u] = @ \ {s}]
  /\ listed' = [listed EXCEPT ![u] = @ \ {s}]
  /\ retired' = retired \cup {s}

Strike(u, ids) ==
  /\ ids \cap live[u] = {}
  /\ listed' = [listed EXCEPT ![u] = @ \ ids]
  /\ UNCHANGED <<live, retired>>

Next ==
  \E u \in User :
    \/ \E s \in Session : Open(u, s) \/ Lapse(u, s) \/ End(u, s)
    \/ \E ids \in SUBSET Session : Strike(u, ids)

Spec == Init /\ [][Next]_vars
=============================================================================
