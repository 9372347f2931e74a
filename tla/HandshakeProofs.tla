--------------------------- MODULE HandshakeProofs ---------------------------
(***************************************************************************)
(* For every set of tenants, secrets, requests, sockets and addresses: a   *)
(* revocation drains the room, a key that is handed out opens the door,    *)
(* counters of handshakes end, and the keys do what AccessRegistry says.   *)
(***************************************************************************)
EXTENDS Handshake, TLAPS

USE KeysAssumption, HandshakeAssumption

-----------------------------------------------------------------------------
(* The inductive invariant *)

Ungranted(x) == \A key \in granted : key.secret # x

\* Valid keys were granted, no two tenants share a secret, and a secret that is
\* about to be stored is in no key and in no other request.
RowsGranted == \A t \in Tenant : apiKeys[t] # None => apiKeys[t] \in granted
RowsDiffer ==
  \A t \in Tenant : \A u \in Tenant \ {t} :
    apiKeys[t] # None /\ apiKeys[u] # None => apiKeys[t].secret # apiKeys[u].secret
SecretsFresh ==
  \A r \in Request :
    request[r].pc = "iss_upsert" =>
      /\ Ungranted(request[r].secret)
      /\ \A q \in Request \ {r} :
           request[q].pc = "iss_upsert" => request[q].secret # request[r].secret
KeysInv == RowsGranted /\ RowsDiffer /\ SecretsFresh

\* What the locals of a request and of a handshake hold where it awaits.
LocalsOf(state) ==
  /\ state.pc \in {"iss_upsert", "iss_find"} =>
       state.tenant \in Tenant /\ state.secret \in Secret
  /\ state.pc = "rev_publish" => state.tenant \in Tenant
WaitingOf(state) == state.pc # "none" => state.address \in Address /\ ~ state.joined
LocalsInv == /\ \A r \in Request : LocalsOf(request[r])
             /\ \A k \in Socket : WaitingOf(sock[k])

\* The revocation reaches who is in the room; who is on the way is counted too.
DrainInv ==
  \A k \in Socket : \A t \in Tenant :
    InRoom(k, t) \/ OnTheWay(k, t) => KeyStands(k) \/ Revoking(t) \/ sock[k].stray

-----------------------------------------------------------------------------
(* Types *)

\* A request that becomes state; the rows of the others may be disturbed.
LEMMA RequestBecomes ==
  ASSUME TypeOK, LocalsInv, NEW r \in Request, NEW state \in RequestState,
         LocalsOf(state),
         \/ request' = [request EXCEPT ![r] = state]
         \/ \E t \in Tenant : ChangeRow(r, t, state)
  PROVE  /\ request' \in [Request -> RequestState]
         /\ \A q \in Request : LocalsOf(request'[q])
         /\ request'[r] = state
         /\ \A q \in Request \ {r} :
              \/ request'[q] = request[q]
              \/ /\ request[q].pc = "iss_find"
                 /\ request'[q] = [request[q] EXCEPT !.disturbed = TRUE]
<1>0. request \in [Request -> RequestState] /\ \A q \in Request : LocalsOf(request[q])
  BY DEF TypeOK, KeysTypeOK, LocalsInv
<1>1. CASE request' = [request EXCEPT ![r] = state]
  BY <1>0, <1>1
<1>2. CASE \E t \in Tenant : ChangeRow(r, t, state)
  <2>1. \A q \in Request :
          /\ [request[q] EXCEPT !.disturbed = TRUE] \in RequestState
          /\ LocalsOf([request[q] EXCEPT !.disturbed = TRUE])
    BY <1>0 DEF RequestState, LocalsOf
  <2> QED BY <1>0, <1>2, <2>1 DEF ChangeRow
<1> QED BY <1>1, <1>2

LEMMA NoRequestIdle == NoRequest.pc = "idle"
BY DEF NoRequest

LEMMA NoRequestState == NoRequest \in RequestState /\ LocalsOf(NoRequest)
BY DEF NoRequest, RequestState, RequestPc, LocalsOf

LEMMA RequestTypes ==
  ASSUME TypeOK, LocalsInv, NEW r \in Request,
         KeysStep(r) \/ PublishRevocation(r) \/ RequestFails(r)
  PROVE  /\ KeysTypeOK'
         /\ \A q \in Request : LocalsOf(request'[q])
<1> USE DEF KeysTypeOK, keyVars
<1>0. TypeOK /\ request[r] \in RequestState /\ LocalsOf(request[r])
  BY DEF TypeOK, LocalsInv
<1>1. ASSUME NEW t \in Tenant, NEW x \in Secret, IssueApiKey(r, t, x)
      PROVE  KeysTypeOK' /\ \A q \in Request : LocalsOf(request'[q])
  <2> DEFINE state == [NoRequest EXCEPT !.pc = "iss_upsert", !.tenant = t, !.secret = x]
  <2>1. state \in RequestState /\ LocalsOf(state)
    BY DEF NoRequest, RequestState, RequestPc, LocalsOf
  <2> QED BY <1>0, <1>1, <2>1, RequestBecomes DEF IssueApiKey, Start, TypeOK
<1>2. CASE UpsertKey(r)
  <2> DEFINE state == [request[r] EXCEPT !.pc = "iss_find"]
  <2>1. state \in RequestState /\ LocalsOf(state) /\ request[r].tenant \in Tenant
    BY <1>0, <1>2 DEF UpsertKey, RequestState, RequestPc, LocalsOf
  <2>2. \A q \in Request : request[q] \in RequestState
    BY DEF TypeOK
  <2>3. [id |-> IF apiKeys[request[r].tenant] = None THEN request[r].secret
                ELSE apiKeys[request[r].tenant].id,
         secret |-> request[r].secret] \in Key
    BY <1>0, <1>2, <2>1 DEF UpsertKey, LocalsOf, TypeOK, Key
  <2>4. request' \in [Request -> RequestState] /\ \A q \in Request : LocalsOf(request'[q])
    BY <1>2, <2>1, RequestBecomes DEF UpsertKey
  <2> QED BY <1>0, <1>2, <2>1, <2>3, <2>4 DEF UpsertKey, TypeOK
<1>3. CASE HandOutKey(r)
  <2>1. ASSUME apiKeys[request[r].tenant] # None
        PROVE  [id |-> apiKeys[request[r].tenant].id, secret |-> request[r].secret] \in Key
    BY <1>0, <1>3, <2>1 DEF HandOutKey, LocalsOf, TypeOK, Key
  <2> QED BY <1>0, <1>3, <2>1, RequestBecomes, NoRequestState DEF HandOutKey, Finish, TypeOK
<1>4. ASSUME NEW t \in Tenant, RevokeApiKey(r, t)
      PROVE  KeysTypeOK' /\ \A q \in Request : LocalsOf(request'[q])
  <2> DEFINE state == [NoRequest EXCEPT !.pc = "rev_publish", !.tenant = t]
  <2>1. state \in RequestState /\ LocalsOf(state)
    BY DEF NoRequest, RequestState, RequestPc, LocalsOf
  <2> QED BY <1>0, <1>4, <2>1, RequestBecomes DEF RevokeApiKey, TypeOK
<1>5. ASSUME NEW key \in issued \cup {None}, PresentKey(r, key)
      PROVE  KeysTypeOK' /\ \A q \in Request : LocalsOf(request'[q])
  <2> DEFINE state == [NoRequest EXCEPT !.pc = "resolve", !.key = key]
  <2>1. state \in RequestState /\ LocalsOf(state)
    BY DEF NoRequest, RequestState, RequestPc, LocalsOf, TypeOK
  <2> QED BY <1>0, <1>5, <2>1, RequestBecomes DEF PresentKey, Start, TypeOK
<1>8. CASE ResolveTenant(r)
  <2>1. request' \in [Request -> RequestState] /\ \A q \in Request : LocalsOf(request'[q])
    <3>1. CASE Finish(r)
      BY <3>1, RequestBecomes, NoRequestState DEF Finish
    <3>2. ASSUME NEW t \in Tenant,
                 request' = [request EXCEPT ![r].pc = "read", ![r].tenant = t]
          PROVE  request' \in [Request -> RequestState]
                   /\ \A q \in Request : LocalsOf(request'[q])
      <4> DEFINE state == [request[r] EXCEPT !.pc = "read", !.tenant = t]
      <4>1. state \in RequestState /\ LocalsOf(state)
        BY <1>0 DEF RequestState, RequestPc, LocalsOf
      <4>2. request' = [request EXCEPT ![r] = state]
        BY <1>0, <3>2 DEF TypeOK
      <4> HIDE DEF state
      <4> QED BY <4>1, <4>2, RequestBecomes
    <3> QED BY <1>8, <3>1, <3>2 DEF ResolveTenant
  <2> QED BY <1>0, <1>8, <2>1 DEF ResolveTenant, TypeOK
<1>6. CASE AnswerPresence(r) \/ RequestFails(r)
  BY <1>0, <1>6, RequestBecomes, NoRequestState
     DEF AnswerPresence, RequestFails, Finish, TypeOK
<1>7. CASE PublishRevocation(r)
  <2>1. request' \in [Request -> RequestState] /\ \A q \in Request : LocalsOf(request'[q])
    BY <1>7, RequestBecomes, NoRequestState DEF PublishRevocation, Finish
  <2>2. \A t \in Tenant : revoked[t] \in Nat /\ revoked[t] + 1 \in Nat
    BY <1>0 DEF TypeOK
  <2>3. revoked' \in [Tenant -> Nat]
    BY <1>0, <1>7, <2>2 DEF PublishRevocation, TypeOK
  <2> QED BY <1>0, <1>7, <2>1, <2>3 DEF PublishRevocation, TypeOK
<1> QED BY <1>1, <1>2, <1>3, <1>4, <1>5, <1>6, <1>7, <1>8 DEF KeysStep

\* A socket that becomes state, or whose handler ends with it.
LEMMA SocketBecomes ==
  ASSUME TypeOK, LocalsInv, NEW k \in Socket, NEW state \in SocketState,
         \/ sock' = [sock EXCEPT ![k] = state] /\ WaitingOf(state)
         \/ End(k, state)
  PROVE  /\ sock' \in [Socket -> SocketState]
         /\ \A l \in Socket : WaitingOf(sock'[l])
<1>1. sock \in [Socket -> SocketState] /\ \A l \in Socket : WaitingOf(sock[l])
  BY DEF TypeOK, LocalsInv
<1>2. NoSocket \in SocketState /\ WaitingOf(NoSocket)
  BY DEF NoSocket, SocketState, WaitingOf
<1>3. [state EXCEPT !.pc = "none"] \in SocketState
        /\ WaitingOf([state EXCEPT !.pc = "none"])
  BY DEF SocketState, WaitingOf
<1> QED BY <1>1, <1>2, <1>3 DEF End

\* The counter of attempts stays below its bound.
LEMMA IncrementedType ==
  ASSUME TypeOK, NEW a \in Address
  PROVE  /\ Incremented(a) \in 0..(MaxAttempts + 1)
         /\ Incremented(a) > 0
         /\ attempts[a] = 0 => Incremented(a) = 1
BY DEF TypeOK, Incremented

LEMMA SocketTypes ==
  ASSUME TypeOK, LocalsInv, NEW k \in Socket, SocketStep(k)
  PROVE  TypeOK' /\ LocalsInv'
<1> DEFINE Goal == /\ sock' \in [Socket -> SocketState]
                   /\ \A l \in Socket : WaitingOf(sock'[l])
                   /\ attempts' \in [Address -> 0..(MaxAttempts + 1)]
                   /\ deadline' \in SUBSET Address
                   /\ stuck' \in SUBSET Address
                   /\ faults' \in Nat
                   /\ UNCHANGED <<keyVars, request, subscribed>>
<1> SUFFICES Goal
  BY DEF TypeOK, KeysTypeOK, keyVars, LocalsInv
<1>0. /\ sock[k] \in SocketState /\ WaitingOf(sock[k])
      /\ attempts \in [Address -> 0..(MaxAttempts + 1)]
      /\ deadline \in SUBSET Address /\ stuck \in SUBSET Address /\ faults \in Nat
  BY DEF TypeOK, LocalsInv
<1>1. ASSUME NEW a \in Address, NEW key \in issued \cup {None}, Connect(k, a, key)
      PROVE  Goal
  <2> DEFINE state == [NoSocket EXCEPT !.open = TRUE, !.pc = "incr", !.address = a,
                                       !.key = key]
  <2>1. state \in SocketState /\ WaitingOf(state)
    BY DEF NoSocket, SocketState, WaitingOf, TypeOK, KeysTypeOK
  <2> QED BY <1>0, <1>1, <2>1, SocketBecomes DEF Connect, rateVars
<1>2. CASE CountAttempt(k)
  <2> DEFINE a == sock[k].address
  <2>0. a \in Address /\ ~ sock[k].joined
    BY <1>0, <1>2 DEF CountAttempt, WaitingOf
  <2>1. attempts' \in [Address -> 0..(MaxAttempts + 1)]
    BY <1>0, <1>2, <2>0, IncrementedType DEF CountAttempt
  <2>2. ASSUME NEW pc \in {"expire", "select"}
        PROVE  [sock[k] EXCEPT !.pc = pc] \in SocketState
                 /\ WaitingOf([sock[k] EXCEPT !.pc = pc])
    BY <1>0, <2>0 DEF SocketState, WaitingOf
  <2>3. [sock[k] EXCEPT !.open = FALSE] \in SocketState
    BY <1>0 DEF SocketState
  <2>4. \/ Refuse(k)
        \/ \E pc \in {"expire", "select"} :
             sock' = [sock EXCEPT ![k] = [sock[k] EXCEPT !.pc = pc]]
    BY <1>2 DEF CountAttempt
  <2> QED BY <1>0, <1>2, <2>1, <2>2, <2>3, <2>4, SocketBecomes
          DEF CountAttempt, Refuse
<1>3. CASE SetDeadline(k)
  <2>0. sock[k].address \in Address /\ ~ sock[k].joined
    BY <1>0, <1>3 DEF SetDeadline, WaitingOf
  <2>1. [sock[k] EXCEPT !.pc = "select"] \in SocketState
          /\ WaitingOf([sock[k] EXCEPT !.pc = "select"])
    BY <1>0, <2>0 DEF SocketState, WaitingOf
  <2>2. sock' = [sock EXCEPT ![k] = [sock[k] EXCEPT !.pc = "select"]]
    BY <1>3 DEF SetDeadline
  <2> QED BY <1>0, <1>3, <2>0, <2>1, <2>2, SocketBecomes DEF SetDeadline
<1>4. CASE CheckKey(k)
  <2>0. sock[k].address \in Address /\ ~ sock[k].joined
    BY <1>0, <1>4 DEF CheckKey, WaitingOf
  <2>1. ASSUME NEW t \in Tenant
        PROVE  LET state == [sock[k] EXCEPT !.pc = "register", !.tenant = t] IN
               state \in SocketState /\ WaitingOf(state)
    BY <1>0, <2>0 DEF SocketState, WaitingOf
  <2>2. [sock[k] EXCEPT !.open = FALSE] \in SocketState
    BY <1>0 DEF SocketState
  <2>3. \/ Refuse(k)
        \/ \E t \in Tenant :
             sock' = [sock EXCEPT ![k] = [sock[k] EXCEPT !.pc = "register", !.tenant = t]]
    BY <1>4 DEF CheckKey
  <2> QED BY <1>0, <1>4, <2>1, <2>2, <2>3, SocketBecomes DEF CheckKey, Refuse, rateVars
<1>5. CASE JoinRoom(k)
  <2>1. [sock[k] EXCEPT !.joined = sock[k].open] \in SocketState
    BY <1>0 DEF SocketState
  <2> QED BY <1>0, <1>5, <2>1, SocketBecomes DEF JoinRoom, rateVars
<1>6. CASE HandshakeFails(k)
  <2>1. sock[k].address \in Address
    BY <1>0, <1>6 DEF HandshakeFails, WaitingOf
  <2>2. sock' \in [Socket -> SocketState] /\ \A l \in Socket : WaitingOf(sock'[l])
    BY <1>0, <1>6, SocketBecomes DEF HandshakeFails
  <2>3. /\ attempts' \in [Address -> 0..(MaxAttempts + 1)]
        /\ deadline' \in SUBSET Address /\ stuck' \in SUBSET Address
    BY <1>0, <1>6, <2>1, IncrementedType DEF HandshakeFails, rateVars
  <2> QED BY <1>0, <1>6, <2>2, <2>3 DEF HandshakeFails
<1>7. CASE Leave(k)
  <2>1. [sock[k] EXCEPT !.open = FALSE] \in SocketState
          /\ WaitingOf([sock[k] EXCEPT !.open = FALSE])
    BY <1>0 DEF SocketState, WaitingOf
  <2>2. \/ End(k, [sock[k] EXCEPT !.open = FALSE])
        \/ sock' = [sock EXCEPT ![k] = [sock[k] EXCEPT !.open = FALSE]]
    BY <1>7 DEF Leave
  <2> QED BY <1>0, <1>7, <2>1, <2>2, SocketBecomes DEF Leave, rateVars
<1> QED BY <1>1, <1>2, <1>3, <1>4, <1>5, <1>6, <1>7 DEF SocketStep, HandshakeStep

\* Sockets are dropped, or marked as missed by a revocation.
Marked == /\ sock' = [k \in Socket |-> sock'[k]]
          /\ \A k \in Socket : sock'[k] \in {sock[k], Strayed(sock[k]), NoSocket}

LEMMA MarkedTypes ==
  ASSUME TypeOK, LocalsInv, Marked
  PROVE  /\ sock' \in [Socket -> SocketState]
         /\ \A k \in Socket : WaitingOf(sock'[k])
<1>1. NoSocket \in SocketState /\ WaitingOf(NoSocket)
  BY DEF NoSocket, SocketState, WaitingOf
<1>2. ASSUME NEW k \in Socket
      PROVE  sock'[k] \in SocketState /\ WaitingOf(sock'[k])
  <2>1. sock[k] \in SocketState /\ WaitingOf(sock[k])
    BY DEF TypeOK, LocalsInv
  <2>2. Strayed(sock[k]) \in SocketState /\ WaitingOf(Strayed(sock[k]))
    BY <2>1 DEF SocketState, WaitingOf, Strayed
  <2> QED BY <1>1, <2>1, <2>2 DEF Marked
<1> QED BY <1>2 DEF Marked

LEMMA LostMarks == ASSUME NEW t, RevocationLost(t) PROVE Marked
BY DEF RevocationLost, Marked

LEMMA UnchangedMarks == ASSUME TypeOK, UNCHANGED sock PROVE Marked
BY DEF TypeOK, Marked

LEMMA DrainMarks == ASSUME NEW t \in Tenant, DrainRoom(t) PROVE Marked
BY DEF DrainRoom, Marked

\* What the requests do to the sockets.
LEMMA RequestMarks ==
  ASSUME TypeOK, NEW r \in Request, Serve(r) \/ Publish(r) \/ Failing(r)
  PROVE  Marked
BY LostMarks, UnchangedMarks DEF Serve, Publish, Failing

LEMMA NextTypes ==
  ASSUME TypeOK, LocalsInv, [Next]_vars
  PROVE  TypeOK' /\ LocalsInv'
<1>1. ASSUME NEW k \in Socket, SocketStep(k)
      PROVE  TypeOK' /\ LocalsInv'
  BY <1>1, SocketTypes
<1>2. ASSUME NEW r \in Request, Serve(r) \/ Publish(r) \/ Failing(r)
      PROVE  TypeOK' /\ LocalsInv'
  <2>1. KeysTypeOK' /\ \A q \in Request : LocalsOf(request'[q])
    BY <1>2, RequestTypes DEF Serve, Publish, Failing
  <2>2. UNCHANGED rateVars /\ faults' \in Nat
    BY <1>2 DEF Serve, Publish, Failing, TypeOK
  <2> QED BY <1>2, <2>1, <2>2, RequestMarks, MarkedTypes DEF TypeOK, LocalsInv, rateVars
<1>3. ASSUME NEW t \in Tenant, DrainRoom(t)
      PROVE  TypeOK' /\ LocalsInv'
  <2>1. revoked' \in [Tenant -> Nat]
    <3>1. revoked \in [Tenant -> Nat] /\ revoked[t] - 1 \in Nat
      BY <1>3 DEF DrainRoom, TypeOK, KeysTypeOK
    <3> QED BY <1>3, <3>1 DEF DrainRoom
  <2>2. UNCHANGED <<tenants, apiKeys, issued, granted, request, subscribed,
                    attempts, deadline, stuck, faults>>
    BY <1>3 DEF DrainRoom, rateVars
  <2> QED BY <1>3, <2>1, <2>2, DrainMarks, MarkedTypes DEF TypeOK, KeysTypeOK, LocalsInv
<1>4. ASSUME NEW a \in Address, WindowEnds(a)
      PROVE  TypeOK' /\ LocalsInv'
  BY <1>4 DEF WindowEnds, keyVars, TypeOK, KeysTypeOK, LocalsInv
<1>5. CASE NewTenant
  BY <1>5 DEF NewTenant, CreateTenant, rateVars, TypeOK, KeysTypeOK, LocalsInv
<1>6. CASE Subscribe
  BY <1>6 DEF Subscribe, keyVars, rateVars, TypeOK, KeysTypeOK, LocalsInv
<1>7. CASE Restart
  <2>1. Marked
    BY <1>7 DEF Restart, Marked
  <2>2. stuck' \in SUBSET Address
    BY <1>7 DEF Restart, TypeOK, LocalsInv, WaitingOf
  <2>3. revoked' \in [Tenant -> Nat] /\ faults' \in Nat
    BY <1>7 DEF Restart, TypeOK
  <2>5. subscribed' \in BOOLEAN
    BY <1>7 DEF Restart
  <2>4. UNCHANGED <<tenants, apiKeys, issued, granted, request, attempts, deadline>>
    BY <1>7 DEF Restart
  <2> QED BY <2>1, <2>2, <2>3, <2>4, <2>5, MarkedTypes DEF TypeOK, KeysTypeOK, LocalsInv
<1>8. CASE UNCHANGED vars
  BY <1>8 DEF vars, keyVars, TypeOK, KeysTypeOK, LocalsInv
<1> QED BY <1>1, <1>2, <1>3, <1>4, <1>5, <1>6, <1>7, <1>8 DEF Next

-----------------------------------------------------------------------------
(* Keys and secrets *)

\* How a request changes the keys; everything else leaves them alone.
LEMMA KeysInvStep ==
  ASSUME TypeOK, LocalsInv, KeysInv, [Next]_vars
  PROVE  KeysInv'
<1> USE DEF KeysInv
<1>1. ASSUME UNCHANGED <<apiKeys, granted, request>>
      PROVE  KeysInv'
  BY <1>1 DEF RowsGranted, RowsDiffer, SecretsFresh, Ungranted
<1>2. ASSUME NEW r \in Request, UNCHANGED <<apiKeys, granted>>, Finish(r)
      PROVE  KeysInv'
  <2>1. \A q \in Request : request'[q].pc = "iss_upsert" =>
          q # r /\ request'[q] = request[q]
    BY <1>2 DEF Finish, NoRequest, TypeOK, KeysTypeOK
  <2> QED BY <1>2, <2>1 DEF RowsGranted, RowsDiffer, SecretsFresh, Ungranted
<1>3. ASSUME NEW r \in Request, KeysStep(r)
      PROVE  KeysInv'
  <2>1. ASSUME NEW t \in Tenant, NEW x \in Secret, IssueApiKey(r, t, x)
        PROVE  KeysInv'
    <3>1. UNCHANGED <<apiKeys, granted>> /\ Fresh(x)
      BY <2>1 DEF IssueApiKey, keyVars
    <3>2. /\ request'[r].pc = "iss_upsert" /\ request'[r].secret = x
          /\ \A q \in Request \ {r} : request'[q] = request[q]
      BY <2>1 DEF IssueApiKey, Start, NoRequest, TypeOK, KeysTypeOK
    <3> QED BY <3>1, <3>2 DEF RowsGranted, RowsDiffer, SecretsFresh, Ungranted, Fresh
  <2>2. CASE UpsertKey(r)
    <3> DEFINE t == request[r].tenant
               x == request[r].secret
               row == [id |-> IF apiKeys[t] = None THEN x ELSE apiKeys[t].id,
                       secret |-> x]
    <3>1. /\ t \in Tenant /\ row.secret = x /\ row # None
          /\ apiKeys' = [apiKeys EXCEPT ![t] = row] /\ granted' = granted \cup {row}
          /\ Ungranted(x)
      <4>1. request[r].pc = "iss_upsert" /\ apiKeys \in [Tenant -> Key \cup {None}]
        BY <2>2 DEF UpsertKey, TypeOK, KeysTypeOK
      <4>2. t \in Tenant /\ x \in Secret
        BY <4>1 DEF LocalsInv, LocalsOf
      <4>3. row \in Key
        BY <4>1, <4>2 DEF Key
      <4> QED BY <2>2, <4>1, <4>2, <4>3 DEF UpsertKey, SecretsFresh
    <3>2. \A q \in Request : request'[q].pc = "iss_upsert" =>
            /\ q # r /\ request[q].pc = "iss_upsert"
            /\ request'[q].secret = request[q].secret
      <4>1. \A q \in Request : request[q] \in RequestState
        BY DEF TypeOK, KeysTypeOK
      <4> QED BY <2>2, <4>1 DEF UpsertKey, ChangeRow, RequestState
    <3>3. \A q \in Request : request'[q].pc = "iss_upsert" => request'[q].secret # x
      BY <2>2, <3>2 DEF SecretsFresh, UpsertKey
    <3>4. SecretsFresh'
      BY <3>1, <3>2, <3>3 DEF SecretsFresh, Ungranted
    <3>5. RowsGranted'
      BY <3>1 DEF RowsGranted, TypeOK, KeysTypeOK
    <3>6. \A u \in Tenant \ {t} : apiKeys[u] # None => apiKeys[u].secret # x
      BY <3>1 DEF RowsGranted, Ungranted
    <3>7. apiKeys'[t] = row /\ \A u \in Tenant \ {t} : apiKeys'[u] = apiKeys[u]
      BY <3>1 DEF TypeOK, KeysTypeOK
    <3> HIDE DEF row, x, t
    <3>8. RowsDiffer'
      BY <3>1, <3>6, <3>7 DEF RowsDiffer
    <3> QED BY <3>4, <3>5, <3>8
  <2>3. CASE HandOutKey(r)
    BY <1>2, <2>3 DEF HandOutKey
  <2>4. ASSUME NEW t \in Tenant, RevokeApiKey(r, t)
        PROVE  KeysInv'
    <3>1. /\ apiKeys' = [apiKeys EXCEPT ![t] = None] /\ UNCHANGED granted
          /\ RowsGranted' /\ RowsDiffer'
      BY <2>4 DEF RevokeApiKey, RowsGranted, RowsDiffer, TypeOK, KeysTypeOK
    <3>2. \A q \in Request : request'[q].pc = "iss_upsert" =>
            /\ request[q].pc = "iss_upsert"
            /\ request'[q].secret = request[q].secret
      <4>1. \A q \in Request : request[q] \in RequestState
        BY DEF TypeOK, KeysTypeOK
      <4> QED BY <2>4, <4>1 DEF RevokeApiKey, ChangeRow, RequestState, NoRequest
    <3> QED BY <3>1, <3>2 DEF SecretsFresh, Ungranted
  <2>5. ASSUME ResolveTenant(r) \/ \E key \in issued \cup {None} : PresentKey(r, key)
        PROVE  KeysInv'
    <3>1. UNCHANGED <<apiKeys, granted>>
      BY <2>5 DEF ResolveTenant, PresentKey, keyVars
    <3>0. request \in [Request -> RequestState]
      BY DEF TypeOK, KeysTypeOK
    <3>2. \A q \in Request : request'[q].pc = "iss_upsert" =>
            /\ request[q].pc = "iss_upsert"
            /\ request'[q].secret = request[q].secret
      <4>1. ASSUME NEW state, state.pc # "iss_upsert", request' = [request EXCEPT ![r] = state]
            PROVE  <3>2
        BY <3>0, <4>1
      <4>2. NoRequest.pc # "iss_upsert"
        BY DEF NoRequest
      <4>3. CASE ResolveTenant(r)
        <5>1. ASSUME NEW t \in Tenant
              PROVE  [request[r] EXCEPT !.pc = "read", !.tenant = t].pc # "iss_upsert"
          BY <3>0 DEF RequestState
        <5>2. ASSUME NEW t \in Tenant,
                     request' = [request EXCEPT ![r].pc = "read", ![r].tenant = t]
              PROVE  request' = [request EXCEPT ![r] =
                                   [request[r] EXCEPT !.pc = "read", !.tenant = t]]
          BY <3>0, <5>2
        <5> QED BY <4>1, <4>2, <4>3, <5>1, <5>2 DEF ResolveTenant, Finish
      <4>4. ASSUME NEW key \in issued \cup {None}, PresentKey(r, key)
            PROVE  <3>2
        <5>1. [NoRequest EXCEPT !.pc = "resolve", !.key = key].pc # "iss_upsert"
          BY DEF NoRequest
        <5> QED BY <4>1, <4>4, <5>1 DEF PresentKey, Start
      <4> QED BY <2>5, <4>3, <4>4
    <3>3. RowsGranted' /\ RowsDiffer'
      BY <3>1 DEF KeysInv, RowsGranted, RowsDiffer
    <3> QED BY <3>1, <3>2, <3>3 DEF KeysInv, SecretsFresh, Ungranted
  <2>6. CASE AnswerPresence(r)
    BY <1>2, <2>6 DEF AnswerPresence, keyVars
  <2> QED BY <1>3, <2>1, <2>2, <2>3, <2>4, <2>5, <2>6 DEF KeysStep
<1>4. ASSUME NEW r \in Request, Serve(r) \/ Publish(r) \/ Failing(r)
      PROVE  KeysInv'
  BY <1>2, <1>3, <1>4
     DEF Serve, Publish, Failing, PublishRevocation, RequestFails, keyVars
<1>5. ASSUME NEW k \in Socket, SocketStep(k)
      PROVE  KeysInv'
  BY <1>1, <1>5 DEF SocketStep, HandshakeStep, Connect, CountAttempt, SetDeadline,
                    CheckKey, JoinRoom, HandshakeFails, Leave, keyVars
<1>6. CASE \/ \E t \in Tenant : DrainRoom(t)
           \/ \E a \in Address : WindowEnds(a)
           \/ NewTenant \/ Subscribe \/ Restart \/ UNCHANGED vars
  BY <1>1, <1>6 DEF DrainRoom, WindowEnds, NewTenant, CreateTenant, Subscribe,
                    Restart, vars, keyVars
<1> QED BY <1>4, <1>5, <1>6 DEF Next

-----------------------------------------------------------------------------
(* Counters *)

\* Sockets only change their marks, or leave "expire" for good reason.
LEMMA ExpireKept ==
  ASSUME TypeOK, UNCHANGED rateVars,
         \A l \in Socket : sock[l].pc = "expire" =>
           sock'[l].pc = "expire" /\ sock'[l].address = sock[l].address,
         CounterEnds
  PROVE  CounterEnds'
BY DEF CounterEnds, rateVars

LEMMA CounterEndsStep ==
  ASSUME TypeOK, LocalsInv, CounterEnds, [Next]_vars
  PROVE  CounterEnds'
<1>0. /\ \A k \in Socket : sock[k] \in SocketState /\ WaitingOf(sock[k])
      /\ sock \in [Socket -> SocketState]
      /\ attempts \in [Address -> 0..(MaxAttempts + 1)]
  BY DEF TypeOK, LocalsInv
<1>1. ASSUME NEW k \in Socket, NEW a \in Address, NEW key, Connect(k, a, key)
      PROVE  CounterEnds'
  BY <1>0, <1>1, ExpireKept DEF Connect, NoSocket
<1>2. ASSUME NEW k \in Socket, CountAttempt(k)
      PROVE  CounterEnds'
  <2> DEFINE a == sock[k].address
  <2>1. /\ sock[k].pc = "incr" /\ a \in Address
        /\ attempts' = [attempts EXCEPT ![a] = Incremented(a)]
        /\ UNCHANGED <<deadline, stuck>>
    BY <1>0, <1>2 DEF CountAttempt, WaitingOf
  <2>2. \A l \in Socket : sock[l].pc = "expire" => sock'[l] = sock[l]
    BY <1>0, <1>2, <2>1 DEF CountAttempt, Refuse, End
  <2>3. CASE attempts[a] > 0
    BY <1>0, <2>1, <2>2, <2>3 DEF CounterEnds
  <2>4. CASE attempts[a] = 0
    <3>1. attempts'[a] = 1 /\ ~ (1 > MaxAttempts)
      BY <1>0, <2>1, <2>4, IncrementedType
    <3>2. sock' = [sock EXCEPT ![k].pc = "expire"]
      BY <1>2, <3>1 DEF CountAttempt
    <3>3. sock'[k].pc = "expire" /\ sock'[k].address = a
      BY <1>0, <3>2 DEF SocketState
    <3> QED BY <1>0, <2>1, <2>2, <3>3 DEF CounterEnds
  <2> QED BY <1>0, <2>1, <2>3, <2>4
<1>3. ASSUME NEW k \in Socket, SetDeadline(k)
      PROVE  CounterEnds'
  <2>1. /\ UNCHANGED <<attempts, stuck>>
        /\ attempts[sock[k].address] > 0 => deadline' = deadline \cup {sock[k].address}
        /\ deadline \subseteq deadline'
        /\ \A l \in Socket \ {k} : sock'[l] = sock[l]
    BY <1>0, <1>3 DEF SetDeadline
  <2> QED BY <2>1 DEF CounterEnds
<1>4. ASSUME NEW k \in Socket, CheckKey(k) \/ JoinRoom(k) \/ Leave(k)
      PROVE  CounterEnds'
  <2>1. UNCHANGED rateVars
    BY <1>4 DEF CheckKey, JoinRoom, Leave
  <2>2. ASSUME NEW l \in Socket, sock[l].pc = "expire"
        PROVE  sock'[l].pc = "expire" /\ sock'[l].address = sock[l].address
    BY <1>0, <1>4, <2>2 DEF CheckKey, JoinRoom, Leave, Refuse, End, SocketState
  <2> QED BY <2>1, <2>2, ExpireKept
<1>5. ASSUME NEW k \in Socket, HandshakeFails(k)
      PROVE  CounterEnds'
  <2> DEFINE a == sock[k].address
  <2>1. /\ a \in Address /\ UNCHANGED deadline
        /\ \A l \in Socket \ {k} : sock'[l] = sock[l]
    BY <1>0, <1>5 DEF HandshakeFails, End, WaitingOf, rateVars
  <2>2. /\ sock[k].pc = "expire" => stuck' = stuck \cup {a}
        /\ stuck \subseteq stuck'
        /\ \/ attempts' = attempts
           \/ /\ attempts' = [attempts EXCEPT ![a] = Incremented(a)]
              /\ attempts[a] = 0 => a \in stuck'
    BY <1>5 DEF HandshakeFails, rateVars
  <2>3. \A b \in Address : attempts'[b] > 0 => attempts[b] > 0 \/ b \in stuck'
    BY <1>0, <2>1, <2>2
  <2> QED BY <2>1, <2>2, <2>3 DEF CounterEnds
<1>6. ASSUME NEW r \in Request, Serve(r) \/ Publish(r) \/ Failing(r)
      PROVE  CounterEnds'
  <2>1. UNCHANGED rateVars
    BY <1>6 DEF Serve, Publish, Failing
  <2>2. ASSUME NEW l \in Socket, sock[l].pc = "expire"
        PROVE  sock'[l].pc = "expire" /\ sock'[l].address = sock[l].address
    BY <1>0, <1>6, <2>2
       DEF Serve, Publish, Failing, RevocationLost, Strayed, SocketState
  <2> QED BY <2>1, <2>2, ExpireKept
<1>7. ASSUME NEW t \in Tenant, DrainRoom(t)
      PROVE  CounterEnds'
  <2>1. UNCHANGED rateVars
    BY <1>7 DEF DrainRoom
  <2>2. ASSUME NEW l \in Socket, sock[l].pc = "expire"
        PROVE  sock'[l].pc = "expire" /\ sock'[l].address = sock[l].address
    BY <1>0, <1>7, <2>2 DEF DrainRoom, InRoom, OnTheWay, WaitingOf
  <2> QED BY <2>1, <2>2, ExpireKept
<1>8. ASSUME NEW a \in Address, WindowEnds(a)
      PROVE  CounterEnds'
  BY <1>0, <1>8 DEF WindowEnds, CounterEnds
<1>9. CASE Restart
  BY <1>9 DEF Restart, CounterEnds
<1>10. CASE NewTenant \/ Subscribe \/ UNCHANGED vars
  BY <1>10, ExpireKept DEF NewTenant, Subscribe, vars, rateVars
<1> QED BY <1>1, <1>2, <1>3, <1>4, <1>5, <1>6, <1>7, <1>8, <1>9, <1>10
        DEF Next, SocketStep, HandshakeStep

-----------------------------------------------------------------------------
(* Keys that are handed out *)

\* A step that leaves the rows alone and gives nobody a row to read back.
LEMMA OpensKept ==
  ASSUME IssuedKeyOpens, UNCHANGED apiKeys,
         \A q \in Request : request'[q].pc = "iss_find" => request'[q] = request[q]
  PROVE  IssuedKeyOpens'
BY DEF IssuedKeyOpens, Opens

\* A step that changes the row of t, for a request that reads it back (or not).
LEMMA OpensChanged ==
  ASSUME TypeOK, IssuedKeyOpens, NEW r \in Request, NEW t \in Tenant,
         NEW row, NEW state,
         apiKeys' = [apiKeys EXCEPT ![t] = row], ChangeRow(r, t, state),
         state.pc = "iss_find" =>
           /\ state.tenant = t /\ row \in Key /\ row.secret = state.secret
  PROVE  IssuedKeyOpens'
<1>0. /\ request \in [Request -> RequestState]
      /\ apiKeys \in [Tenant -> Key \cup {None}]
  BY DEF TypeOK, KeysTypeOK
<1>1. /\ apiKeys'[t] = row
      /\ \A u \in Tenant \ {t} : apiKeys'[u] = apiKeys[u]
  BY <1>0
<1>2. request'[r] = state
  BY DEF ChangeRow
<1> SUFFICES ASSUME NEW q \in Request, request'[q].pc = "iss_find",
                    ~ request'[q].disturbed
             PROVE  LET row2 == apiKeys'[request'[q].tenant] IN
                    /\ row2 # None
                    /\ [id |-> row2.id, secret |-> request'[q].secret] # None
                    /\ row2 = [id |-> row2.id, secret |-> request'[q].secret]
  BY DEF IssuedKeyOpens, Opens
<1>3. CASE q = r
  <2>1. row = [id |-> row.id, secret |-> row.secret] /\ row # None
    BY <1>2, <1>3 DEF Key
  <2> QED BY <1>1, <1>2, <1>3, <2>1
<1>4. CASE q # r
  <2>1. request'[q] = request[q] /\ request[q].tenant # t
    BY <1>0, <1>4 DEF ChangeRow, RequestState
  <2>2. LET row2 == apiKeys[request[q].tenant] IN
          /\ row2 # None
          /\ [id |-> row2.id, secret |-> request[q].secret] # None
          /\ row2 = [id |-> row2.id, secret |-> request[q].secret]
    BY <2>1 DEF IssuedKeyOpens, Opens
  <2>3. apiKeys'[request[q].tenant] = apiKeys[request[q].tenant]
    BY <1>0, <2>1
  <2> QED BY <2>1, <2>2, <2>3
<1> QED BY <1>3, <1>4

LEMMA IssuedKeyOpensStep ==
  ASSUME TypeOK, LocalsInv, IssuedKeyOpens, [Next]_vars
  PROVE  IssuedKeyOpens'
<1>0. request \in [Request -> RequestState] /\ apiKeys \in [Tenant -> Key \cup {None}]
  BY DEF TypeOK, KeysTypeOK
<1>1. ASSUME NEW r \in Request, NEW state, UNCHANGED apiKeys,
             request' = [request EXCEPT ![r] = state], state.pc # "iss_find"
      PROVE  IssuedKeyOpens'
  BY <1>0, <1>1, OpensKept
<1>2. ASSUME NEW r \in Request, KeysStep(r)
      PROVE  IssuedKeyOpens'
  <2>1. ASSUME NEW t \in Tenant, NEW x \in Secret, IssueApiKey(r, t, x)
        PROVE  IssuedKeyOpens'
    <3> DEFINE state == [NoRequest EXCEPT !.pc = "iss_upsert", !.tenant = t, !.secret = x]
    <3>1. state.pc # "iss_find"
      BY DEF NoRequest
    <3>2. UNCHANGED apiKeys /\ request' = [request EXCEPT ![r] = state]
      BY <2>1 DEF IssueApiKey, Start, keyVars
    <3> HIDE DEF state
    <3> QED BY <1>1, <3>1, <3>2
  <2>2. CASE UpsertKey(r)
    <3> DEFINE t == request[r].tenant
               x == request[r].secret
               row == [id |-> IF apiKeys[t] = None THEN x ELSE apiKeys[t].id,
                       secret |-> x]
               state == [request[r] EXCEPT !.pc = "iss_find"]
    <3>1. t \in Tenant /\ x \in Secret
      BY <2>2 DEF UpsertKey, LocalsInv, LocalsOf
    <3>2. row \in Key /\ row.secret = x
      BY <1>0, <3>1 DEF Key
    <3>3. state.tenant = t /\ state.secret = x
      BY <1>0 DEF RequestState
    <3>4. apiKeys' = [apiKeys EXCEPT ![t] = row] /\ ChangeRow(r, t, state)
      BY <2>2 DEF UpsertKey
    <3> HIDE DEF row, state, t, x
    <3> QED BY <3>1, <3>2, <3>3, <3>4, OpensChanged
  <2>3. CASE HandOutKey(r) \/ AnswerPresence(r)
    BY <1>1, <2>3 DEF HandOutKey, AnswerPresence, Finish, NoRequest, keyVars
  <2>4. ASSUME NEW t \in Tenant, RevokeApiKey(r, t)
        PROVE  IssuedKeyOpens'
    <3> DEFINE state == [NoRequest EXCEPT !.pc = "rev_publish", !.tenant = t]
    <3>1. state.pc # "iss_find"
      BY DEF NoRequest
    <3>2. apiKeys' = [apiKeys EXCEPT ![t] = None] /\ ChangeRow(r, t, state)
      BY <2>4 DEF RevokeApiKey
    <3> HIDE DEF state
    <3> QED BY <3>1, <3>2, OpensChanged
  <2>5. ASSUME NEW key \in issued \cup {None}, PresentKey(r, key)
        PROVE  IssuedKeyOpens'
    <3> DEFINE state == [NoRequest EXCEPT !.pc = "resolve", !.key = key]
    <3>1. state.pc # "iss_find"
      BY DEF NoRequest
    <3>2. UNCHANGED apiKeys /\ request' = [request EXCEPT ![r] = state]
      BY <2>5 DEF PresentKey, Start, keyVars
    <3> HIDE DEF state
    <3> QED BY <1>1, <3>1, <3>2
  <2>6. CASE ResolveTenant(r)
    <3>1. UNCHANGED apiKeys
      BY <2>6 DEF ResolveTenant, keyVars
    <3>2. ASSUME NEW t \in Tenant,
                 request' = [request EXCEPT ![r].pc = "read", ![r].tenant = t]
          PROVE  IssuedKeyOpens'
      <4> DEFINE state == [request[r] EXCEPT !.pc = "read", !.tenant = t]
      <4>1. state.pc # "iss_find" /\ request' = [request EXCEPT ![r] = state]
        BY <1>0, <3>2 DEF RequestState
      <4> HIDE DEF state
      <4> QED BY <1>1, <3>1, <4>1
    <3>3. CASE Finish(r)
      <4>1. NoRequest.pc # "iss_find"
        BY DEF NoRequest
      <4> QED BY <1>1, <3>1, <3>3, <4>1 DEF Finish
    <3> QED BY <2>6, <3>2, <3>3 DEF ResolveTenant
  <2> QED BY <1>2, <2>1, <2>2, <2>3, <2>4, <2>5, <2>6 DEF KeysStep
<1>3. ASSUME NEW r \in Request, Serve(r) \/ Publish(r) \/ Failing(r)
      PROVE  IssuedKeyOpens'
  BY <1>1, <1>2, <1>3 DEF Serve, Publish, Failing, PublishRevocation, RequestFails,
                          Finish, NoRequest, keyVars
<1>4. ASSUME NEW k \in Socket, SocketStep(k)
      PROVE  IssuedKeyOpens'
  BY <1>4, OpensKept
     DEF SocketStep, HandshakeStep, Connect, CountAttempt, SetDeadline, CheckKey,
         JoinRoom, HandshakeFails, Leave, keyVars
<1>5. CASE \/ \E t \in Tenant : DrainRoom(t)
           \/ \E a \in Address : WindowEnds(a)
           \/ NewTenant \/ Subscribe \/ Restart \/ UNCHANGED vars
  BY <1>5, OpensKept
     DEF DrainRoom, WindowEnds, NewTenant, CreateTenant, Subscribe, Restart, vars, keyVars
<1> QED BY <1>3, <1>4, <1>5 DEF Next

-----------------------------------------------------------------------------
(* Revocations *)

Reached(k, t) == KeyStands(k) \/ Revoking(t) \/ sock[k].stray
Exposed(k, t) == InRoom(k, t) \/ OnTheWay(k, t)

\* A step that adds nobody, keeps the marks and drops neither rows nor messages.
LEMMA DrainKept ==
  ASSUME DrainInv, NEW t \in Tenant, NEW k \in Socket,
         Exposed(k, t)' => Exposed(k, t) /\ sock'[k].key = sock[k].key
                             /\ (sock[k].stray => sock'[k].stray),
         apiKeys[t] # None => apiKeys'[t] # None /\ apiKeys'[t].id = apiKeys[t].id,
         Revoking(t) => Revoking(t)'
  PROVE  Exposed(k, t)' => Reached(k, t)'
BY DEF DrainInv, Exposed, Reached, InRoom, OnTheWay, KeyStands

LEMMA RevokingKept ==
  ASSUME TypeOK, UNCHANGED revoked, NEW t \in Tenant, Revoking(t),
         \A q \in Request : request[q].pc = "rev_publish" => request'[q] = request[q]
  PROVE  Revoking(t)'
BY DEF Revoking

LEMMA DrainStep ==
  ASSUME TypeOK, LocalsInv, DrainInv, [Next]_vars
  PROVE  DrainInv'
<1>0. /\ sock \in [Socket -> SocketState]
      /\ request \in [Request -> RequestState]
      /\ apiKeys \in [Tenant -> Key \cup {None}]
      /\ revoked \in [Tenant -> Nat]
  BY DEF TypeOK, KeysTypeOK
<1> SUFFICES ASSUME NEW k \in Socket, NEW t \in Tenant
             PROVE  Exposed(k, t)' => Reached(k, t)'
  BY DEF DrainInv, Exposed, Reached
<1>1. ASSUME UNCHANGED <<apiKeys, revoked, request>>,
             Exposed(k, t)' => Exposed(k, t) /\ sock'[k].key = sock[k].key
                                 /\ (sock[k].stray => sock'[k].stray)
      PROVE  Exposed(k, t)' => Reached(k, t)'
  BY <1>1, DrainKept DEF Revoking
<1>2. ASSUME NEW l \in Socket, SocketStep(l)
      PROVE  Exposed(k, t)' => Reached(k, t)'
  <2>1. UNCHANGED <<apiKeys, revoked, request>> /\ (l # k => sock'[k] = sock[k])
    BY <1>0, <1>2 DEF SocketStep, HandshakeStep, Connect, CountAttempt, SetDeadline,
       CheckKey, JoinRoom, HandshakeFails, Leave, Refuse, End, keyVars
  <2>2. CASE l # k
    BY <1>1, <2>1, <2>2 DEF Exposed, InRoom, OnTheWay
  <2>3. CASE l = k /\ CheckKey(k)
    <3>1. CASE Refuse(k)
      BY <1>0, <1>1, <2>1, <3>1 DEF Refuse, End, Exposed, InRoom, OnTheWay, NoSocket, SocketState
    <3>2. ASSUME NEW u \in Tenant, Opens(sock[k].key, u),
                 sock' = [sock EXCEPT ![k].pc = "register", ![k].tenant = u]
          PROVE  Exposed(k, t)' => Reached(k, t)'
      <4>1. sock'[k].tenant = u /\ sock'[k].key = sock[k].key
        BY <1>0, <3>2 DEF SocketState
      <4>2. KeyStands(k)'
        BY <2>1, <3>2, <4>1 DEF KeyStands, Opens
      <4> QED BY <4>2 DEF Reached
    <3> QED BY <2>3, <3>1, <3>2 DEF CheckKey
  <2>4. CASE l = k /\ ~ CheckKey(k)
    <3>1. \/ sock'[k] = NoSocket
          \/ sock'[k].open /\ ~ sock'[k].joined /\ sock'[k].pc # "register"
          \/ /\ sock'[k].tenant = sock[k].tenant /\ sock'[k].key = sock[k].key
             /\ sock'[k].stray = sock[k].stray
             /\ Exposed(k, t)' => Exposed(k, t)
      <4>1. WaitingOf(sock[k]) /\ sock[k] \in SocketState
        BY <1>0 DEF LocalsInv
      <4>2. ASSUME NEW a \in Address, NEW key \in issued \cup {None}, Connect(k, a, key)
            PROVE  <3>1
        BY <1>0, <4>2 DEF Connect, NoSocket
      <4>3. CASE CountAttempt(k) \/ SetDeadline(k)
        BY <1>0, <4>1, <4>3 DEF CountAttempt, SetDeadline, Refuse, End, WaitingOf,
           Exposed, InRoom, OnTheWay, SocketState
      <4>4. CASE JoinRoom(k)
        BY <1>0, <4>1, <4>4 DEF JoinRoom, End, Exposed, InRoom, OnTheWay, SocketState
      <4>5. CASE HandshakeFails(k)
        BY <1>0, <4>1, <4>5 DEF HandshakeFails, End, WaitingOf, SocketState
      <4>6. CASE Leave(k)
        BY <1>0, <4>1, <4>6 DEF Leave, End, Exposed, InRoom, OnTheWay, SocketState
      <4> QED BY <1>2, <2>4, <4>2, <4>3, <4>4, <4>5, <4>6 DEF SocketStep, HandshakeStep
    <3> QED BY <1>1, <2>1, <3>1 DEF Exposed, InRoom, OnTheWay, NoSocket
  <2> QED BY <2>2, <2>3, <2>4
<1>3. ASSUME NEW r \in Request, Serve(r)
      PROVE  Exposed(k, t)' => Reached(k, t)'
  <2>1. UNCHANGED sock /\ KeysStep(r) /\ UNCHANGED revoked
    BY <1>3 DEF Serve, KeysStep, UpsertKey, HandOutKey, AnswerPresence, PresentKey,
                ResolveTenant, RevokeApiKey, IssueApiKey, keyVars
  <2>2. (Revoking(t) => Revoking(t)') /\ request[r].pc # "rev_publish"
    <3>1. request[r].pc # "rev_publish"
      BY <2>1, NoRequestIdle DEF KeysStep, UpsertKey, HandOutKey, AnswerPresence, PresentKey,
                  ResolveTenant, RevokeApiKey, IssueApiKey, Start
    <3>2. ASSUME NEW q \in Request \ {r}, request[q].pc = "rev_publish"
          PROVE  request'[q] = request[q]
      BY <1>0, <2>1, <3>2
         DEF KeysStep, UpsertKey, HandOutKey, AnswerPresence, PresentKey,
             ResolveTenant, RevokeApiKey, IssueApiKey, ChangeRow, Finish, Start
    <3> QED BY <2>1, <3>1, <3>2, RevokingKept
  <2>3. ASSUME NEW u \in Tenant, RevokeApiKey(r, u), u = t
        PROVE  Revoking(t)'
    <3>1. request'[r] = [NoRequest EXCEPT !.pc = "rev_publish", !.tenant = u]
      BY <2>3 DEF RevokeApiKey, ChangeRow
    <3> QED BY <2>3, <3>1 DEF Revoking, NoRequest
  <2>4. \/ Revoking(t)'
        \/ apiKeys[t] # None => apiKeys'[t] # None /\ apiKeys'[t].id = apiKeys[t].id
    <3>1. CASE UpsertKey(r)
      <4>1. request[r].tenant \in Tenant /\ request[r].secret \in Secret
        BY <3>1 DEF UpsertKey, LocalsInv, LocalsOf
      <4>2. ASSUME NEW id \in Secret
            PROVE  [id |-> id, secret |-> request[r].secret] # None
        BY <4>1 DEF Key
      <4>3. apiKeys[t] # None => apiKeys[t].id \in Secret
        BY <1>0 DEF Key
      <4> QED BY <1>0, <3>1, <4>1, <4>2, <4>3 DEF UpsertKey
    <3>2. ASSUME NEW u \in Tenant, RevokeApiKey(r, u), u # t
          PROVE  apiKeys'[t] = apiKeys[t]
      BY <1>0, <3>2 DEF RevokeApiKey
    <3>3. CASE UNCHANGED apiKeys
      BY <3>3
    <3> QED BY <2>1, <2>3, <3>1, <3>2, <3>3
            DEF KeysStep, HandOutKey, AnswerPresence, PresentKey, ResolveTenant,
                IssueApiKey, keyVars
  <2> QED BY <2>1, <2>2, <2>4, DrainKept DEF Exposed, Reached, InRoom, OnTheWay
<1>4. ASSUME NEW r \in Request, Publish(r) \/ Failing(r)
      PROVE  Exposed(k, t)' => Reached(k, t)'
  <2>1. /\ UNCHANGED apiKeys /\ Finish(r)
        /\ Exposed(k, t)' => Exposed(k, t) /\ sock'[k].key = sock[k].key
                               /\ (sock[k].stray => sock'[k].stray)
    BY <1>0, <1>4 DEF Publish, Failing, PublishRevocation, RequestFails, RevocationLost,
       Strayed, Exposed, InRoom, OnTheWay, SocketState, keyVars
  <2>2. \A q \in Request \ {r} : request'[q] = request[q]
    BY <1>0, <2>1 DEF Finish
  <2>3. CASE request[r].pc = "rev_publish" /\ request[r].tenant = t
    <3>1. CASE RevocationLost(t)
      <4>1. Exposed(k, t)' => Exposed(k, t)
        BY <2>1
      <4>2. Exposed(k, t) => sock'[k].stray
        BY <1>0, <3>1 DEF RevocationLost, Strayed, Exposed, SocketState
      <4> QED BY <4>1, <4>2 DEF Reached
    <3>2. CASE revoked' = [revoked EXCEPT ![t] = @ + 1]
      <4>1. revoked'[t] > 0
        BY <1>0, <3>2
      <4> QED BY <4>1 DEF Reached, Revoking
    <3> QED BY <1>4, <2>3, <3>1, <3>2 DEF Publish, Failing, PublishRevocation
  <2>4. CASE ~ (request[r].pc = "rev_publish" /\ request[r].tenant = t)
    <3>1. revoked'[t] = revoked[t]
      BY <1>0, <1>4, <2>4 DEF Publish, Failing, PublishRevocation, RequestFails, keyVars
    <3>2. Revoking(t) => Revoking(t)'
      BY <2>2, <2>4, <3>1 DEF Revoking
    <3> QED BY <2>1, <3>2, DrainKept
  <2> QED BY <2>3, <2>4
<1>5. ASSUME NEW u \in Tenant, DrainRoom(u)
      PROVE  Exposed(k, t)' => Reached(k, t)'
  <2>1. CASE u = t
    BY <1>0, <1>5, <2>1 DEF DrainRoom, Exposed, Reached, InRoom, OnTheWay, Strayed,
       NoSocket, SocketState
  <2>2. CASE u # t
    <3>1. revoked'[t] = revoked[t] /\ UNCHANGED <<apiKeys, request>>
      BY <1>0, <1>5, <2>2 DEF DrainRoom
    <3>2. Exposed(k, t)' => sock'[k] = sock[k] \/ sock'[k].stray
      BY <1>0, <1>5 DEF DrainRoom, Strayed, Exposed, InRoom, OnTheWay, NoSocket, SocketState
    <3>3. Revoking(t) => Revoking(t)'
      BY <3>1 DEF Revoking
    <3> QED BY <3>1, <3>2, <3>3, DrainKept DEF Exposed, Reached, InRoom, OnTheWay
  <2> QED BY <2>1, <2>2
<1>6. CASE Restart
  BY <1>6 DEF Restart, Exposed, InRoom, OnTheWay, NoSocket
<1>7. CASE (\E a \in Address : WindowEnds(a)) \/ NewTenant \/ Subscribe \/ UNCHANGED vars
  BY <1>1, <1>7 DEF WindowEnds, NewTenant, CreateTenant, Subscribe, vars, keyVars,
     Exposed, InRoom, OnTheWay
<1> QED BY <1>2, <1>3, <1>4, <1>5, <1>6, <1>7 DEF Next

-----------------------------------------------------------------------------
(* Theorems *)

Inv == TypeOK /\ LocalsInv /\ KeysInv /\ CounterEnds /\ IssuedKeyOpens /\ DrainInv

LEMMA InitInv == Init => Inv
<1> SUFFICES ASSUME Init PROVE Inv
  OBVIOUS
<1> USE DEF Init, KeysInit
<1>1. TypeOK
  <2>1. NoSocket \in SocketState
    BY DEF NoSocket, SocketState
  <2>2. attempts \in [Address -> 0..(MaxAttempts + 1)] /\ faults \in Nat
    OBVIOUS
  <2>3. subscribed \in BOOLEAN
    OBVIOUS
  <2> QED BY <2>1, <2>2, <2>3, NoRequestState DEF TypeOK, KeysTypeOK
<1>2. LocalsInv
  BY NoRequestState DEF LocalsInv, WaitingOf, NoSocket
<1>3. KeysInv
  BY DEF KeysInv, RowsGranted, RowsDiffer, SecretsFresh, NoRequest
<1>4. CounterEnds /\ IssuedKeyOpens
  BY DEF CounterEnds, IssuedKeyOpens, NoRequest
<1>5. DrainInv
  BY DEF DrainInv, InRoom, OnTheWay, NoSocket
<1> QED BY <1>1, <1>2, <1>3, <1>4, <1>5 DEF Inv

LEMMA NextInv == Inv /\ [Next]_vars => Inv'
BY NextTypes, KeysInvStep, CounterEndsStep, IssuedKeyOpensStep, DrainStep DEF Inv

LEMMA HandshakeInvariant == Spec => []Inv
BY InitInv, NextInv, PTL DEF Spec

\* All state stays within its types.
THEOREM HandshakeTypes == Spec => []TypeOK
BY HandshakeInvariant, PTL DEF Inv

\* After a revocation was handled no socket is left in the room of the tenant
\* whose key is gone, but those on their way to it, or when the message was lost.
THEOREM RevocationsDrain == Spec => []RevokedSocketsDrained
<1>1. Inv => RevokedSocketsDrained
  BY DEF Inv, DrainInv, RevokedSocketsDrained
<1> QED BY <1>1, HandshakeInvariant, PTL

\* Whatever requests run beside it, issueApiKey hands out a key that opens the
\* door unless the row was changed after its upsert.
THEOREM IssuedKeysOpen == Spec => []IssuedKeyOpens
BY HandshakeInvariant, PTL DEF Inv

\* Every counter of handshake attempts has a deadline, is about to get one, or
\* lost the command that would have set it.
THEOREM CountersEnd == Spec => []CounterEnds
BY HandshakeInvariant, PTL DEF Inv

-----------------------------------------------------------------------------
(* The doors of both services implement AccessRegistry *)

Visitors == Request \cup Socket

\* Nobody gets in: who is inside stays or goes.
LEMMA GoMaps ==
  ASSUME ValidKeys' = ValidKeys, granted' = granted,
         \A v \in Visitors : KeyInside(v)' \in {KeyInside(v), None}
  PROVE  Registry!Next
<1> DEFINE gone == {v \in Visitors : KeyInside(v) # None /\ KeyInside(v)' = None}
<1>1. [v \in Visitors |-> KeyInside(v)'] =
        [v \in Visitors |-> IF v \in gone THEN None ELSE KeyInside(v)]
  OBVIOUS
<1>2. Registry!Go(gone)
  BY <1>1 DEF Registry!Go, Visitors
<1>3. gone \in SUBSET {v \in Visitors : [w \in Visitors |-> KeyInside(w)][v] # None}
  OBVIOUS
<1> QED BY <1>2, <1>3 DEF Registry!Next, Visitors

\* One visitor gets in.
LEMMA EnterMaps ==
  ASSUME ValidKeys' = ValidKeys, granted' = granted,
         NEW w \in Visitors, NEW key \in ValidKeys \cap Key,
         KeyInside(w) = None, KeyInside(w)' = key,
         \A v \in Visitors \ {w} : KeyInside(v)' = KeyInside(v)
  PROVE  Registry!Next
<1>1. [v \in Visitors |-> KeyInside(v)'] =
        [[v \in Visitors |-> KeyInside(v)] EXCEPT ![w] = key]
  OBVIOUS
<1>2. Registry!Enter(w, key)
  BY <1>1 DEF Registry!Enter, Visitors
<1> QED BY <1>2 DEF Registry!Next, Visitors

\* The key a request reads with, once the middleware let it in.
ReadsWith(state) == IF state.pc = "read" THEN state.key ELSE None

\* Who is inside depends on the locals of his own handler only.
LEMMA InsideOf ==
  /\ \A r \in Request : KeyInside(r) = ReadsWith(request[r])
  /\ \A k \in Socket :
       KeyInside(k) = IF sock[k].pc = "register" \/ sock[k].joined THEN sock[k].key
                                                                   ELSE None
BY DEF KeyInside, ReadsWith

LEMMA InsideOfNext ==
  /\ \A r \in Request : KeyInside(r)' = ReadsWith(request'[r])
  /\ \A k \in Socket :
       KeyInside(k)' = IF sock'[k].pc = "register" \/ sock'[k].joined THEN sock'[k].key
                                                                      ELSE None
BY DEF KeyInside, ReadsWith

\* Requests that go on read with the key they hold.
LEMMA RequestKeepsKey ==
  ASSUME TypeOK, NEW r \in Request, NEW state,
         \/ request' = [request EXCEPT ![r] = state]
         \/ \E t \in Tenant : ChangeRow(r, t, state),
         ReadsWith(state) \in {ReadsWith(request[r]), None}
  PROVE  \A q \in Request : ReadsWith(request'[q]) \in {ReadsWith(request[q]), None}
<1>1. request \in [Request -> RequestState]
  BY DEF TypeOK, KeysTypeOK
<1>2. \A q \in Request :
        ReadsWith([request[q] EXCEPT !.disturbed = TRUE]) = ReadsWith(request[q])
  BY <1>1 DEF RequestState, ReadsWith
<1>3. ReadsWith(request'[r]) \in {ReadsWith(request[r]), None}
  <2>1. request'[r] = state
    BY <1>1 DEF ChangeRow
  <2> QED BY <2>1
<1>4. ASSUME NEW q \in Request \ {r}
      PROVE  ReadsWith(request'[q]) = ReadsWith(request[q])
  <2>1. request'[q] \in {request[q], [request[q] EXCEPT !.disturbed = TRUE]}
    BY <1>1 DEF ChangeRow
  <2> QED BY <1>2, <2>1
<1> QED BY <1>3, <1>4

\* Who changes a row neither starts nor ends a read.
LEMMA RowsKeepReaders ==
  ASSUME TypeOK, NEW r \in Request, NEW t \in Tenant, NEW state,
         ChangeRow(r, t, state),
         ReadsWith(state) = None, ReadsWith(request[r]) = None
  PROVE  \A q \in Request : ReadsWith(request'[q]) = ReadsWith(request[q])
<1>1. request \in [Request -> RequestState]
  BY DEF TypeOK, KeysTypeOK
<1>2. request'[r] = state
  BY DEF ChangeRow
<1>3. ASSUME NEW q \in Request \ {r}
      PROVE  ReadsWith(request'[q]) = ReadsWith(request[q])
  <2>1. request'[q] \in {request[q], [request[q] EXCEPT !.disturbed = TRUE]}
    BY DEF ChangeRow
  <2>2. ReadsWith([request[q] EXCEPT !.disturbed = TRUE]) = ReadsWith(request[q])
    BY <1>1 DEF RequestState, ReadsWith
  <2> QED BY <2>1, <2>2
<1> QED BY <1>2, <1>3

LEMMA SocketsUnchangedInside ==
  ASSUME TypeOK, UNCHANGED sock,
         \A q \in Request : ReadsWith(request'[q]) \in {ReadsWith(request[q]), None}
  PROVE  \A v \in Visitors : KeyInside(v)' \in {KeyInside(v), None}
BY InsideOf, InsideOfNext DEF Visitors

\* The valid keys after the row of t became row.
LEMMA ValidAfter ==
  ASSUME TypeOK, RowsDiffer, NEW t \in Tenant, NEW row,
         apiKeys' = [apiKeys EXCEPT ![t] = row]
  PROVE  ValidKeys' = (ValidKeys \ ({apiKeys[t]} \ {None})) \cup ({row} \ {None})
<1>1. apiKeys \in [Tenant -> Key \cup {None}]
  BY DEF TypeOK, KeysTypeOK
<1>2. /\ apiKeys'[t] = row
      /\ \A u \in Tenant \ {t} : apiKeys'[u] = apiKeys[u]
  BY <1>1
<1>3. \A u \in Tenant \ {t} : apiKeys[u] # None => apiKeys[u] # apiKeys[t]
  BY DEF RowsDiffer
<1>4. ValidKeys' = {apiKeys'[u] : u \in Tenant} \ {None}
  BY DEF ValidKeys
<1>5. ASSUME NEW key \in ValidKeys'
      PROVE  key \in (ValidKeys \ ({apiKeys[t]} \ {None})) \cup ({row} \ {None})
  BY <1>2, <1>3, <1>4 DEF ValidKeys
<1>6. ASSUME NEW key \in (ValidKeys \ ({apiKeys[t]} \ {None})) \cup ({row} \ {None})
      PROVE  key \in ValidKeys'
  BY <1>2, <1>4 DEF ValidKeys
<1> QED BY <1>5, <1>6

LEMMA RequestMaps ==
  ASSUME TypeOK, LocalsInv, KeysInv, NEW r \in Request, KeysStep(r), UNCHANGED sock
  PROVE  Registry!Next
<1>0. /\ request \in [Request -> RequestState]
      /\ apiKeys \in [Tenant -> Key \cup {None}] /\ granted \subseteq Key
  BY DEF TypeOK, KeysTypeOK
<1>1. ASSUME NEW t \in Tenant, NEW x \in Secret, IssueApiKey(r, t, x)
      PROVE  Registry!Next
  <2> DEFINE state == [NoRequest EXCEPT !.pc = "iss_upsert", !.tenant = t, !.secret = x]
  <2>1. ReadsWith(state) = None
    BY DEF NoRequest, ReadsWith
  <2>2. request' = [request EXCEPT ![r] = state] /\ UNCHANGED <<apiKeys, granted>>
    BY <1>1 DEF IssueApiKey, Start, keyVars
  <2> HIDE DEF state
  <2>3. \A q \in Request : ReadsWith(request'[q]) \in {ReadsWith(request[q]), None}
    BY <2>1, <2>2, RequestKeepsKey
  <2> QED BY <2>2, <2>3, SocketsUnchangedInside, GoMaps DEF ValidKeys
<1>2. CASE UpsertKey(r)
  <2> DEFINE t == request[r].tenant
             x == request[r].secret
             row == [id |-> IF apiKeys[t] = None THEN x ELSE apiKeys[t].id,
                     secret |-> x]
             state == [request[r] EXCEPT !.pc = "iss_find"]
             old == {apiKeys[t]} \ {None}
  <2>1. /\ t \in Tenant /\ x \in Secret /\ Ungranted(x)
    BY <1>2 DEF UpsertKey, LocalsInv, LocalsOf, KeysInv, SecretsFresh
  <2>2. row \in Key /\ row.secret = x /\ row # None
    BY <1>0, <2>1 DEF Key
  <2>3. ReadsWith(state) = None /\ ReadsWith(request[r]) = None
    BY <1>0, <1>2 DEF UpsertKey, RequestState, ReadsWith
  <2>4. /\ apiKeys' = [apiKeys EXCEPT ![t] = row] /\ ChangeRow(r, t, state)
        /\ granted' = granted \cup {row}
    BY <1>2 DEF UpsertKey
  <2> HIDE DEF row, state, t, x
  <2>5. ValidKeys' = (ValidKeys \ old) \cup {row}
    <3>1. ValidKeys' = (ValidKeys \ old) \cup ({row} \ {None})
      BY <2>1, <2>4, ValidAfter DEF KeysInv
    <3>2. {row} \ {None} = {row}
      BY <2>2
    <3> QED BY <3>1, <3>2
  <2>6. /\ row \notin granted
        /\ ValidKeys \subseteq granted /\ old \subseteq ValidKeys
    BY <2>1, <2>2 DEF Ungranted, ValidKeys, KeysInv, RowsGranted
  <2>7. granted' \ ValidKeys' = (granted \ ValidKeys) \cup old
    BY <2>4, <2>5, <2>6
  <2>8. \A v \in Visitors : KeyInside(v)' = KeyInside(v)
    <3>1. \A q \in Request : ReadsWith(request'[q]) = ReadsWith(request[q])
      BY <2>1, <2>3, <2>4, RowsKeepReaders
    <3> QED BY <3>1, InsideOf, InsideOfNext DEF Visitors
  <2>9. Registry!Issue(row, old)
    BY <2>5, <2>6, <2>7, <2>8 DEF Registry!Issue, Visitors
  <2>10. old \in SUBSET ValidKeys
    BY <2>6
  <2> QED BY <2>2, <2>9, <2>10 DEF Registry!Next
<1>3. CASE HandOutKey(r) \/ AnswerPresence(r)
  <2>1. ReadsWith(NoRequest) = None
    BY DEF NoRequest, ReadsWith
  <2>2. request' = [request EXCEPT ![r] = NoRequest] /\ UNCHANGED <<apiKeys, granted>>
    BY <1>3 DEF HandOutKey, AnswerPresence, Finish, keyVars
  <2>3. \A q \in Request : ReadsWith(request'[q]) \in {ReadsWith(request[q]), None}
    BY <2>1, <2>2, RequestKeepsKey
  <2> QED BY <2>2, <2>3, SocketsUnchangedInside, GoMaps DEF ValidKeys
<1>4. ASSUME NEW t \in Tenant, RevokeApiKey(r, t)
      PROVE  Registry!Next
  <2> DEFINE state == [NoRequest EXCEPT !.pc = "rev_publish", !.tenant = t]
             old == {apiKeys[t]} \ {None}
  <2>1. ReadsWith(state) = None
    BY DEF NoRequest, ReadsWith
  <2>2. /\ apiKeys' = [apiKeys EXCEPT ![t] = None] /\ ChangeRow(r, t, state)
        /\ UNCHANGED granted /\ ReadsWith(request[r]) = None
    BY <1>4 DEF RevokeApiKey, NoRequest, ReadsWith
  <2> HIDE DEF state
  <2>3. ValidKeys' = ValidKeys \ old
    BY <2>2, ValidAfter DEF KeysInv
  <2>4. ValidKeys \subseteq granted /\ old \subseteq ValidKeys
    BY DEF ValidKeys, KeysInv, RowsGranted
  <2>5. granted' \ ValidKeys' = (granted \ ValidKeys) \cup old
    BY <2>2, <2>3, <2>4
  <2>6. \A v \in Visitors : KeyInside(v)' = KeyInside(v)
    <3>1. \A q \in Request : ReadsWith(request'[q]) = ReadsWith(request[q])
      BY <2>1, <2>2, RowsKeepReaders
    <3> QED BY <3>1, InsideOf, InsideOfNext DEF Visitors
  <2>7. Registry!Revoke(old)
    BY <2>3, <2>4, <2>5, <2>6 DEF Registry!Revoke, Visitors
  <2>8. old \in SUBSET ValidKeys
    BY <2>4
  <2> QED BY <2>7, <2>8 DEF Registry!Next
<1>5. ASSUME NEW key \in issued \cup {None}, PresentKey(r, key)
      PROVE  Registry!Next
  <2> DEFINE state == [NoRequest EXCEPT !.pc = "resolve", !.key = key]
  <2>1. ReadsWith(state) = None
    BY DEF NoRequest, ReadsWith
  <2>2. request' = [request EXCEPT ![r] = state] /\ UNCHANGED <<apiKeys, granted>>
    BY <1>5 DEF PresentKey, Start, keyVars
  <2> HIDE DEF state
  <2>3. \A q \in Request : ReadsWith(request'[q]) \in {ReadsWith(request[q]), None}
    BY <2>1, <2>2, RequestKeepsKey
  <2> QED BY <2>2, <2>3, SocketsUnchangedInside, GoMaps DEF ValidKeys
<1>6. CASE ResolveTenant(r)
  <2> DEFINE key == request[r].key
  <2>1. request[r].pc = "resolve" /\ UNCHANGED <<apiKeys, granted>>
    BY <1>6 DEF ResolveTenant, keyVars
  <2>2. ASSUME NEW t \in Tenant, Opens(key, t),
               request' = [request EXCEPT ![r].pc = "read", ![r].tenant = t]
        PROVE  Registry!Next
    <3>1. key \in ValidKeys \cap Key
      BY <1>0, <2>2 DEF Opens, ValidKeys
    <3>2. ReadsWith(request[r]) = None /\ ReadsWith(request'[r]) = key
      BY <1>0, <2>1, <2>2 DEF RequestState, ReadsWith
    <3>3. KeyInside(r) = None /\ KeyInside(r)' = key
      BY <3>2, InsideOf, InsideOfNext
    <3>4. \A v \in Visitors \ {r} : KeyInside(v)' = KeyInside(v)
      BY <1>0, <2>2, InsideOf, InsideOfNext DEF Visitors
    <3> QED BY <2>1, <3>1, <3>3, <3>4, EnterMaps DEF ValidKeys, Visitors
  <2>3. CASE Finish(r)
    <3>1. ReadsWith(NoRequest) = None
      BY DEF NoRequest, ReadsWith
    <3>2. request' = [request EXCEPT ![r] = NoRequest]
      BY <2>3 DEF Finish
    <3>3. \A q \in Request : ReadsWith(request'[q]) \in {ReadsWith(request[q]), None}
      BY <3>1, <3>2, RequestKeepsKey
    <3> QED BY <2>1, <3>3, SocketsUnchangedInside, GoMaps DEF ValidKeys
  <2> QED BY <1>6, <2>2, <2>3 DEF ResolveTenant
<1> QED BY <1>1, <1>2, <1>3, <1>4, <1>5, <1>6 DEF KeysStep

\* Every other step lets nobody in, but CheckKey.
LEMMA SocketMaps ==
  ASSUME TypeOK, LocalsInv, NEW k \in Socket, SocketStep(k)
  PROVE  Registry!Next
<1>0. /\ sock \in [Socket -> SocketState] /\ WaitingOf(sock[k])
      /\ apiKeys \in [Tenant -> Key \cup {None}] /\ Request \cap Socket = {}
  BY DEF TypeOK, KeysTypeOK, LocalsInv
<1>1. /\ UNCHANGED <<apiKeys, granted, request>> /\ ValidKeys' = ValidKeys
      /\ \A l \in Socket \ {k} : sock'[l] = sock[l]
  <2>1. UNCHANGED <<apiKeys, granted, request>>
    BY DEF SocketStep, HandshakeStep, Connect, CountAttempt, SetDeadline, CheckKey,
           JoinRoom, HandshakeFails, Leave, keyVars
  <2>2. ASSUME NEW l \in Socket \ {k}
        PROVE  sock'[l] = sock[l]
    BY <1>0 DEF SocketStep, HandshakeStep, Connect, CountAttempt, SetDeadline, CheckKey,
                JoinRoom, HandshakeFails, Leave, Refuse, End
  <2> QED BY <2>1, <2>2 DEF ValidKeys
<1>2. \A v \in Visitors \ {k} : KeyInside(v)' = KeyInside(v)
  BY <1>1, InsideOf, InsideOfNext DEF Visitors
<1>3. ASSUME NEW t \in Tenant, Opens(sock[k].key, t), sock[k].pc = "select",
             sock' = [sock EXCEPT ![k].pc = "register", ![k].tenant = t]
      PROVE  Registry!Next
  <2>1. /\ sock'[k].pc = "register" /\ sock'[k].key = sock[k].key
        /\ ~ sock[k].joined
    BY <1>0, <1>3 DEF SocketState, WaitingOf
  <2>2. KeyInside(k) = None /\ KeyInside(k)' = sock[k].key
    BY <1>3, <2>1, InsideOf, InsideOfNext
  <2>3. sock[k].key \in ValidKeys \cap Key
    BY <1>0, <1>3 DEF Opens, ValidKeys
  <2> QED BY <1>1, <1>2, <2>2, <2>3, EnterMaps DEF Visitors
<1>4. CASE KeyInside(k)' \in {KeyInside(k), None}
  BY <1>1, <1>2, <1>4, GoMaps DEF Visitors
<1>5. \/ KeyInside(k)' \in {KeyInside(k), None}
      \/ CheckKey(k) /\ ~ Refuse(k)
  <2> DEFINE Shut == ~ sock'[k].joined /\ sock'[k].pc # "register"
             Same == /\ sock'[k].key = sock[k].key
                     /\ (sock'[k].joined \/ sock'[k].pc = "register")
                          => sock[k].joined \/ sock[k].pc = "register"
  <2>6. Shut => KeyInside(k)' = None
    BY InsideOfNext
  <2>7. Same => KeyInside(k)' \in {KeyInside(k), None}
    BY InsideOf, InsideOfNext
  <2> SUFFICES Shut \/ Same \/ (CheckKey(k) /\ ~ Refuse(k))
    BY <2>6, <2>7
  <2>1. ASSUME NEW a \in Address, NEW key \in issued \cup {None}, Connect(k, a, key)
        PROVE  Shut
    BY <1>0, <2>1 DEF Connect, NoSocket
  <2>2. CASE CountAttempt(k) \/ SetDeadline(k) \/ Refuse(k)
    BY <1>0, <2>2 DEF CountAttempt, SetDeadline, Refuse, End, WaitingOf, NoSocket, SocketState
  <2>3. CASE JoinRoom(k)
    BY <1>0, <2>3 DEF JoinRoom, End, NoSocket, SocketState
  <2>4. CASE HandshakeFails(k)
    BY <1>0, <2>4 DEF HandshakeFails, End, WaitingOf, NoSocket, SocketState
  <2>5. CASE Leave(k)
    BY <1>0, <2>5 DEF Leave, End, NoSocket, SocketState
  <2> QED BY <2>1, <2>2, <2>3, <2>4, <2>5 DEF SocketStep, HandshakeStep
<1> QED BY <1>3, <1>4, <1>5 DEF CheckKey

LEMMA MarkedMaps ==
  ASSUME TypeOK, Marked, UNCHANGED <<apiKeys, granted>>,
         \A q \in Request : ReadsWith(request'[q]) \in {ReadsWith(request[q]), None}
  PROVE  Registry!Next
<1>1. ASSUME NEW k \in Socket
      PROVE  KeyInside(k)' \in {KeyInside(k), None}
  <2>1. sock[k] \in SocketState
    BY DEF TypeOK
  <2> QED BY <2>1, InsideOf, InsideOfNext DEF Marked, Strayed, NoSocket, SocketState
<1>2. \A v \in Visitors : KeyInside(v)' \in {KeyInside(v), None}
  BY <1>1, InsideOf, InsideOfNext DEF Visitors
<1> QED BY <1>2, GoMaps DEF ValidKeys

LEMMA NextMaps == Inv /\ [Next]_vars => [Registry!Next]_(Registry!vars)
<1> SUFFICES ASSUME Inv, [Next]_vars
             PROVE  [Registry!Next]_(Registry!vars)
  OBVIOUS
<1> USE DEF Inv
<1>1. ASSUME NEW k \in Socket, SocketStep(k)
      PROVE  Registry!Next
  BY <1>1, SocketMaps
<1>2. ASSUME NEW r \in Request, Serve(r)
      PROVE  Registry!Next
  BY <1>2, RequestMaps DEF Serve
<1>3. ASSUME NEW r \in Request, Publish(r) \/ Failing(r)
      PROVE  Registry!Next
  <2>1. UNCHANGED <<apiKeys, granted>> /\ request' = [request EXCEPT ![r] = NoRequest]
    BY <1>3 DEF Publish, Failing, PublishRevocation, RequestFails, Finish, keyVars
  <2>2. ReadsWith(NoRequest) = None
    BY DEF NoRequest, ReadsWith
  <2>3. \A q \in Request : ReadsWith(request'[q]) \in {ReadsWith(request[q]), None}
    BY <2>1, <2>2, RequestKeepsKey
  <2> QED BY <1>3, <2>1, <2>3, RequestMarks, MarkedMaps
<1>4. ASSUME NEW t \in Tenant, DrainRoom(t)
      PROVE  Registry!Next
  <2>1. UNCHANGED <<apiKeys, granted, request>>
    BY <1>4 DEF DrainRoom
  <2> QED BY <1>4, <2>1, DrainMarks, MarkedMaps
<1>5. CASE Restart
  <2>1. Marked /\ UNCHANGED <<apiKeys, granted, request>>
    BY <1>5 DEF Restart, Marked
  <2> QED BY <2>1, MarkedMaps
<1>6. CASE (\E a \in Address : WindowEnds(a)) \/ NewTenant \/ Subscribe \/ UNCHANGED vars
  <2>1. UNCHANGED <<apiKeys, granted, request, sock>>
    BY <1>6 DEF WindowEnds, NewTenant, CreateTenant, Subscribe, vars, keyVars
  <2> QED BY <2>1, UnchangedMarks, MarkedMaps
<1> QED BY <1>1, <1>2, <1>3, <1>4, <1>5, <1>6 DEF Next

\* Both services together grant access as AccessRegistry does: a key that was
\* replaced or revoked never opens again, and nobody gets in without a valid one.
THEOREM RegistryImplemented == Spec => RegistrySpec
<1>1. Init => Registry!Init
  <2> SUFFICES ASSUME Init PROVE Registry!Init
    OBVIOUS
  <2>1. ValidKeys = {} /\ granted = {}
    BY DEF Init, KeysInit, ValidKeys
  <2>2. \A v \in Visitors : KeyInside(v) = None
    BY InsideOf DEF Init, KeysInit, NoRequest, ReadsWith, NoSocket, Visitors
  <2>3. [v \in Visitors |-> KeyInside(v)] = [v \in Visitors |-> None]
    BY <2>2
  <2> QED BY <2>1, <2>3 DEF Registry!Init, Visitors
<1> QED BY <1>1, NextMaps, HandshakeInvariant, PTL DEF Spec, RegistrySpec, Registry!Spec
=============================================================================
