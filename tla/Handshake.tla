------------------------------ MODULE Handshake ------------------------------
(***************************************************************************)
(* The door of ws-service: handleConnection of PresenceGateway up to the   *)
(* room of the tenant, and handleRevocationMessage                         *)
(* (apps/ws-service/src/presence/presence.gateway.ts), with the requests   *)
(* of ApiKeys going on beside it.                                          *)
(*                                                                         *)
(* A handshake awaits INCR, EXPIRE, the SELECT of the key or the           *)
(* registration in turn (pc); its socket may leave, and its key may be     *)
(* replaced or revoked, at each.  What the registration does to sessions   *)
(* is the module PresenceGateway.                                          *)
(***************************************************************************)
EXTENDS ApiKeys

CONSTANTS
  Socket,      \* slots for connections, free again when nothing of one is left
  Address,     \* client addresses
  MaxAttempts, \* HANDSHAKE_MAX_ATTEMPTS
  MaxFaults    \* bound: commands that fail or whose reply is lost, restarts

ASSUME HandshakeAssumption ==
  /\ None \notin Address
  /\ Request \cap Socket = {}
  /\ MaxAttempts \in Nat \ {0}
  /\ MaxFaults \in Nat

VARIABLES
  sock,      \* connections and their handshakes
  attempts,  \* ratelimit:handshake:{address}; 0 when there is no key
  deadline,  \* the addresses whose counter has a time to live
  stuck,     \* history: addresses whose counter was left without a deadline
  faults

rateVars == <<attempts, deadline, stuck>>
vars == <<keyVars, request, subscribed, sock, attempts, deadline, stuck,
          faults>>

\* One field is history: a revocation of its tenant may have missed the socket.
SocketState == [open: BOOLEAN, pc: {"none", "incr", "expire", "select", "register"},
                address: Address \cup {None}, key: Key \cup {None},
                tenant: Tenant \cup {None}, joined: BOOLEAN,
                stray: BOOLEAN]
NoSocket == [open |-> FALSE, pc |-> "none", address |-> None, key |-> None,
             tenant |-> None, joined |-> FALSE, stray |-> FALSE]

TypeOK ==
  /\ KeysTypeOK
  /\ sock \in [Socket -> SocketState]
  /\ attempts \in [Address -> 0..(MaxAttempts + 1)]
  /\ deadline \in SUBSET Address
  /\ stuck \in SUBSET Address
  /\ faults \in Nat

Init ==
  /\ KeysInit
  /\ sock = [k \in Socket |-> NoSocket]
  /\ attempts = [a \in Address |-> 0]
  /\ deadline = {} /\ stuck = {}
  /\ faults = 0

-----------------------------------------------------------------------------
(* handleConnection *)

\* Nobody waits for the handshake of k any more: a socket that has left is gone.
End(k, state) ==
  sock' = [sock EXCEPT ![k] = IF state.open THEN [state EXCEPT !.pc = "none"]
                                            ELSE NoSocket]

\* emit(error) and disconnect(true)
Refuse(k) == End(k, [sock[k] EXCEPT !.open = FALSE])

\* The payload holds a key that was handed out; None stands for one that does
\* not parse and for a missing user id, which have the same effect.
Connect(k, a, key) ==
  /\ sock[k] = NoSocket
  /\ sock' = [sock EXCEPT ![k] =
       [NoSocket EXCEPT !.open = TRUE, !.pc = "incr", !.address = a, !.key = key]]
  /\ UNCHANGED <<keyVars, request, subscribed, rateVars, faults>>

\* The counter after INCR; beyond the limit its value makes no difference.
Incremented(a) ==
  IF attempts[a] > MaxAttempts THEN attempts[a] ELSE attempts[a] + 1

MutCountAttempt(k) ==
  LET a == sock[k].address IN
  /\ sock[k].pc = "incr"
  /\ attempts' = [attempts EXCEPT ![a] = Incremented(a)]
  /\ \/ /\ attempts'[a] > MaxAttempts
        /\ Refuse(k)
     \/ /\ attempts'[a] <= MaxAttempts
        /\ sock' = [sock EXCEPT ![k].pc = IF attempts'[a] = MaxAttempts
                                            THEN "expire" ELSE "select"]
  /\ UNCHANGED <<keyVars, request, subscribed, deadline, stuck, faults>>

\* INCR: the first attempt of a window goes on to set the counter's deadline.
CountAttempt(k) ==
  LET a == sock[k].address IN
  /\ sock[k].pc = "incr"
  /\ attempts' = [attempts EXCEPT ![a] = Incremented(a)]
  /\ \/ /\ attempts'[a] > MaxAttempts
        /\ Refuse(k)
     \/ /\ attempts'[a] <= MaxAttempts
        /\ sock' = [sock EXCEPT ![k].pc = IF attempts'[a] = 1 THEN "expire"
                                                              ELSE "select"]
  /\ UNCHANGED <<keyVars, request, subscribed, deadline, stuck, faults>>

SetDeadline(k) ==
  LET a == sock[k].address IN
  /\ sock[k].pc = "expire"
  /\ deadline' = IF attempts[a] > 0 THEN deadline \cup {a} ELSE deadline
  /\ sock' = [sock EXCEPT ![k].pc = "select"]
  /\ UNCHANGED <<keyVars, request, subscribed, attempts, stuck, faults>>

\* validateApiKey: what comes of the row that was read is settled here.
CheckKey(k) ==
  /\ sock[k].pc = "select"
  /\ \/ \E t \in Tenant :
          /\ Opens(sock[k].key, t)
          /\ sock' = [sock EXCEPT ![k].pc = "register", ![k].tenant = t]
     \/ /\ \A t \in Tenant : ~ Opens(sock[k].key, t)
        /\ Refuse(k)
  /\ UNCHANGED <<keyVars, request, subscribed, rateVars, faults>>

\* registerConnection returned, and the socket joins the room of its tenant; one
\* that has left is not among those that fetchSockets returns.
JoinRoom(k) ==
  /\ sock[k].pc = "register"
  /\ End(k, [sock[k] EXCEPT !.joined = sock[k].open])
  /\ UNCHANGED <<keyVars, request, subscribed, rateVars, faults>>

\* A command of the handshake fails, executed or not, or registerConnection
\* throws: the handler rejects, and the socket stays open outside of the room.
HandshakeFails(k) ==
  LET a == sock[k].address IN
  /\ sock[k].pc # "none"
  /\ faults < MaxFaults                        \* bound
  /\ faults' = faults + 1
  /\ \/ /\ sock[k].pc = "incr"
        /\ attempts' = [attempts EXCEPT ![a] = Incremented(a)]
        /\ stuck' = IF attempts[a] = 0 THEN stuck \cup {a} ELSE stuck
        /\ UNCHANGED deadline
     \/ /\ sock[k].pc = "expire"
        /\ stuck' = stuck \cup {a}
        /\ UNCHANGED <<attempts, deadline>>
     \/ UNCHANGED rateVars /\ sock[k].pc # "expire"
  /\ End(k, sock[k])
  /\ UNCHANGED <<keyVars, request, subscribed>>

\* The client leaves, or its connection breaks; a handler in progress goes on.
Leave(k) ==
  /\ sock[k].open
  /\ \/ /\ sock[k].pc = "none"
        /\ End(k, [sock[k] EXCEPT !.open = FALSE])
     \/ /\ sock[k].pc # "none"
        /\ sock' = [sock EXCEPT ![k].open = FALSE]
  /\ UNCHANGED <<keyVars, request, subscribed, rateVars, faults>>

HandshakeStep(k) == CountAttempt(k) \/ SetDeadline(k) \/ CheckKey(k) \/ JoinRoom(k)

-----------------------------------------------------------------------------
(* handleRevocationMessage, and what a revocation misses *)

InRoom(k, t) == sock[k].open /\ sock[k].joined /\ sock[k].tenant = t
OnTheWay(k, t) == sock[k].pc = "register" /\ sock[k].tenant = t

Strayed(state) == [state EXCEPT !.stray = TRUE]

\* Every socket in the room is disconnected; who is on the way to it is not.
DrainRoom(t) ==
  /\ subscribed
  /\ revoked[t] > 0
  /\ revoked' = [revoked EXCEPT ![t] = @ - 1]
  /\ sock' = [k \in Socket |-> IF InRoom(k, t) THEN NoSocket
                              ELSE IF OnTheWay(k, t) THEN Strayed(sock[k])
                              ELSE sock[k]]
  /\ UNCHANGED <<tenants, apiKeys, issued, granted, request, subscribed,
                 rateVars, faults>>

\* The revocation of t reaches nobody.
RevocationLost(t) ==
  sock' = [k \in Socket |-> IF InRoom(k, t) \/ OnTheWay(k, t)
                           THEN Strayed(sock[k]) ELSE sock[k]]

Publish(r) ==
  /\ PublishRevocation(r)
  /\ \/ subscribed /\ UNCHANGED sock
     \/ ~ subscribed /\ RevocationLost(request[r].tenant)
  /\ UNCHANGED <<rateVars, faults>>

-----------------------------------------------------------------------------
(* The requests of ApiKeys, the environment *)

Serve(r) ==
  /\ KeysStep(r)
  /\ UNCHANGED <<sock, rateVars, faults>>

Failing(r) ==
  /\ faults < MaxFaults                        \* bound
  /\ faults' = faults + 1
  /\ RequestFails(r)
  /\ \/ request[r].pc = "rev_publish" /\ RevocationLost(request[r].tenant)
     \/ request[r].pc # "rev_publish" /\ UNCHANGED sock
  /\ UNCHANGED <<rateVars>>

NewTenant ==
  /\ \E t \in Tenant : CreateTenant(t)
  /\ UNCHANGED <<sock, rateVars, faults>>

\* 60 s after its deadline was set the counter is gone.
WindowEnds(a) ==
  /\ a \in deadline
  /\ attempts' = [attempts EXCEPT ![a] = 0]
  /\ deadline' = deadline \ {a}
  /\ UNCHANGED <<keyVars, request, subscribed, sock, stuck, faults>>

\* afterInit gets to its subscription; sockets are accepted before that.
Subscribe ==
  /\ ~ subscribed
  /\ subscribed' = TRUE
  /\ UNCHANGED <<keyVars, request, sock, rateVars, faults>>

\* ws-service ends and starts again: its sockets close, its handlers are gone,
\* and messages under way to it are lost.
Restart ==
  /\ faults < MaxFaults                        \* bound
  /\ faults' = faults + 1
  /\ subscribed' = FALSE
  /\ sock' = [k \in Socket |-> NoSocket]
  /\ revoked' = [t \in Tenant |-> 0]
  /\ stuck' = stuck \cup {sock[k].address : k \in {l \in Socket : sock[l].pc = "expire"}}
  /\ UNCHANGED <<tenants, apiKeys, issued, granted, request, attempts,
                 deadline>>

SocketStep(k) ==
  \/ \E a \in Address : \E key \in issued \cup {None} : Connect(k, a, key)
  \/ HandshakeStep(k) \/ HandshakeFails(k) \/ Leave(k)

Next ==
  \/ \E k \in Socket : SocketStep(k)
  \/ \E r \in Request : Serve(r) \/ Publish(r) \/ Failing(r)
  \/ \E t \in Tenant : DrainRoom(t)
  \/ \E a \in Address : WindowEnds(a)
  \/ NewTenant \/ Subscribe \/ Restart

Spec == Init /\ [][Next]_vars

-----------------------------------------------------------------------------
(* Properties *)

\* Where a socket stands, the row its key names by its id has not been deleted,
\* unless a revocation is on its way to it or has missed it.  (A reissued key
\* keeps the id: the sockets of the old key stay, by design of the upsert.)
Revoking(t) ==
  \/ revoked[t] > 0
  \/ \E r \in Request : request[r].pc = "rev_publish" /\ request[r].tenant = t
KeyStands(k) == LET row == apiKeys[sock[k].tenant] IN
  row # None /\ row.id = sock[k].key.id

\* A revocation drains the room of its tenant: once the message has been handled,
\* no socket is left in the room whose key was deleted, but those that the
\* message could not reach: on their way to the room, or the message was lost.
RevokedSocketsDrained ==
  \A k \in Socket : \A t \in Tenant :
    InRoom(k, t) => KeyStands(k) \/ Revoking(t) \/ sock[k].stray

\* A request for presence is answered whatever its x-api-key says: app.e2e-spec.ts
\* expects 200 and 201 for invalid-key, and the READMEs ask for no key of the issued
\* format where x-tenant-id is given.
EveryReadServed ==
  [][\A r \in Request : request[r].pc = "resolve" => request'[r].pc \in {"resolve", "read"}]_vars

\* A key that issueApiKey is about to hand out opens the tenant's door, unless
\* the tenant's key was issued again or revoked in between.
IssuedKeyOpens ==
  \A r \in Request :
    request[r].pc = "iss_find" /\ ~ request[r].disturbed =>
      LET row == apiKeys[request[r].tenant] IN
      row # None /\ Opens([id |-> row.id, secret |-> request[r].secret],
                          request[r].tenant)

\* A counter of handshakes ends: it has a deadline, or the handshake that created
\* it is about to set one, unless that command was lost.
CounterEnds ==
  \A a \in Address :
    attempts[a] > 0 => \/ a \in deadline \cup stuck
                       \/ \E k \in Socket : sock[k].pc = "expire" /\ sock[k].address = a

\* The keys and the visitors, as AccessRegistry sees them.
KeyInside(v) ==
  IF v \in Request THEN IF request[v].pc = "read" THEN request[v].key ELSE None
  ELSE IF sock[v].pc = "register" \/ sock[v].joined THEN sock[v].key ELSE None

Registry == INSTANCE AccessRegistry WITH
  Visitor <- Request \cup Socket,
  valid <- ValidKeys,
  retired <- granted \ ValidKeys,
  inside <- [v \in Request \cup Socket |-> KeyInside(v)]

\* Keys never come back, and only a visitor with a valid key gets in.
RegistrySpec == Registry!Spec
=============================================================================
