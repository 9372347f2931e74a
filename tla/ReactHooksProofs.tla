--------------------------- MODULE ReactHooksProofs ---------------------------
(***************************************************************************)
(* For every set of users, every bound on the announcements and all times  *)
(* that TimesAssumption allows: the client keeps trying and leaves nothing *)
(* behind, the heartbeat keeps the session, and the hooks settle.          *)
(***************************************************************************)
EXTENDS ReactHooks, TLAPS

USE HooksAssumption

\* The times are positive, and far enough apart.
LEMMA Times ==
  /\ Interval \in Nat /\ MinGap \in Nat /\ Ttl \in Nat
  /\ Latency \in Nat /\ MaxDelay \in Nat
  /\ Interval > 0 /\ MinGap > 0 /\ Ttl > 0 /\ Latency > 0 /\ MaxDelay > 0
  /\ Latency + MinGap <= Interval /\ Interval + Latency < Ttl
BY TimesAssumption

USE Times

-----------------------------------------------------------------------------
(* The inductive invariant of the client *)

\* A registration starts with the heartbeat and ends before a beat is due.
JoiningInv ==
  Running(joining) => /\ socket = "connected" /\ joining = beat
                      /\ ~ Running(session)

SessionInv ==
  /\ Running(session) => socket = "connected" /\ ~ Running(joining)
  /\ ~ Running(session) => pinged = MinGap

\* A ping left when the heartbeat went off, or is kept by a connecting socket.
PingInv ==
  Running(ping) => IF socket = "connected" THEN ping = beat
                   ELSE socket = "connecting" /\ ping = 0

\* A session is refreshed once in an Interval and a Latency, and the throttle has
\* let go when the next ping arrives.
RefreshInv ==
  Running(session) =>
    IF Running(ping) THEN session <= Interval + ping /\ pinged = MinGap
    ELSE session <= beat /\ (pinged = MinGap \/ pinged >= beat - Latency)

ClientInv ==
  /\ ClientTypeOK
  /\ NeverGivesUp /\ DownStaysDown /\ TimerSparesSocket /\ HeartbeatKeepsSession
  /\ JoiningInv /\ SessionInv /\ PingInv /\ RefreshInv

-----------------------------------------------------------------------------
(* The inductive invariant of the hooks *)

\* One subscription per hook, and none is left without one.
SubscribedInv ==
  IF hook.kind = "none" THEN hook = NoHook /\ subscriptions = {}
  ELSE hook.user \in User /\ subscriptions = {hook.user}

FetchInv ==
  /\ hook.fetch # "none" => Fetches(hook.kind)
  /\ hook.fetch \in {"smembers", "exists"} => hook.kind = "presence"
  /\ hook.upto <= Len(history)

\* Between the commands of an unmixed fetch no session went without an event, and
\* last_seen is not newer than the members.
ReadAt(u, m, n) ==
  /\ hook.fetch \in Reading /\ ~ hook.mixed => Quiet(u, {"cleanup"}, m, n)
  /\ hook.fetch = "smembers" => hook.seen <= n
  /\ hook.fetch = "exists" => hook.seen <= m /\ OnlineAt(u, m)
ReadInv == \A u \in {hook.user}, m \in {hook.upto}, n \in {Len(history)} : ReadAt(u, m, n)

\* An answer is true of its place, or an event follows that place which is no older
\* than the last_seen in the answer.
Unmixed == hook.kind = "presence" => ~ hook.mixed
TrueAt(u, m) == hook.told = OnlineAt(u, m) /\ hook.seen <= m
Follows(u, p) == About(u, PresenceEvent, p) /\ hook.seen <= p
AnswerInv ==
  hook.fetch = "answer" /\ Unmixed =>
    \A u \in {hook.user}, m \in {hook.upto} :
      TrueAt(u, m) \/ \E p \in m + 1 .. Len(history) : Follows(u, p)

\* What is out of the room waits for no event.
RoomInv == ~ InRoom => arrived = Len(history)

\* What is shown was so at some place that events have not gone beyond, or an event
\* is under way there that the hook will heed.
Believes == /\ Fetches(hook.kind) /\ (hook.kind = "batch" => hook.known) /\ Unmixed
            /\ hook.fetch = "none" /\ ~ hook.failed /\ ~ hook.stale
Awaits(u, n) == arrived < n /\ About(u, PresenceEvent, n)
ShownAt(u, n) == hook.at <= n /\ (hook.on = OnlineAt(u, n) \/ Awaits(u, n))
PresenceInv ==
  Believes => \A u \in {hook.user} : \E n \in arrived .. Len(history) : ShownAt(u, n)

TypingInv ==
  hook.kind = "typing" =>
    /\ hook.at <= arrived
    /\ \A u \in {hook.user} : hook.on /\ ~ hook.stale =>
         \E n \in {arrived} : TypingAt(u, n)

HooksInv ==
  /\ TypeOK
  /\ SubscribedInv /\ FetchInv /\ ReadInv /\ AnswerInv /\ RoomInv
  /\ PresenceInv /\ TypingInv /\ ShownIsOwn

Inv == ClientInv /\ HooksInv

-----------------------------------------------------------------------------
(* The client *)

LEMMA ClientStarts == ClientInit => ClientInv
<1> SUFFICES ASSUME ClientInit PROVE ClientInv
  OBVIOUS
<1> USE DEF ClientInit, Running, Off
<1>1. wanted \in BOOLEAN /\ timer \in BOOLEAN /\ recalled \in BOOLEAN
  OBVIOUS
<1>2. ClientTypeOK
  BY <1>1 DEF ClientTypeOK
<1>3. NeverGivesUp /\ DownStaysDown /\ TimerSparesSocket /\ HeartbeatKeepsSession
  BY DEF NeverGivesUp, DownStaysDown, TimerSparesSocket, HeartbeatKeepsSession
<1>4. JoiningInv /\ SessionInv /\ PingInv /\ RefreshInv
  BY DEF JoiningInv, SessionInv, PingInv, RefreshInv
<1> QED BY <1>2, <1>3, <1>4 DEF ClientInv

\* The delay of the next attempt stays within its bound.
LEMMA DoubledBounded == \A d \in 1..MaxDelay : Doubled(d) \in 1..MaxDelay
BY DEF Doubled

\* A new socket, wanted from now on or still wanted.
LEMMA OpeningKeeps ==
  ASSUME ClientInv, Connect \/ Reconnect
  PROVE  ClientInv'
<1> USE DEF ClientInv, OpenSocket, NoSession, Off, Running
<1>0. wanted' \in BOOLEAN /\ timer' \in BOOLEAN /\ recalled' \in BOOLEAN
  BY DEF Connect, Reconnect, ClientTypeOK
<1>1. ClientTypeOK'
  BY <1>0 DEF Connect, Reconnect, ClientTypeOK
<1>2. NeverGivesUp' /\ DownStaysDown' /\ TimerSparesSocket'
  BY DEF Connect, Reconnect, ClientTypeOK, NeverGivesUp, DownStaysDown, TimerSparesSocket
<1>3. HeartbeatKeepsSession'
  BY DEF Connect, Reconnect, ClientTypeOK, HeartbeatKeepsSession
<1>4. JoiningInv' /\ SessionInv' /\ PingInv' /\ RefreshInv'
  BY DEF Connect, Reconnect, ClientTypeOK, JoiningInv, SessionInv, PingInv, RefreshInv
<1> QED BY <1>1, <1>2, <1>3, <1>4

\* A socket that ends, by the application or not.
LEMMA EndingKeeps ==
  ASSUME ClientInv, Disconnect \/ OnClose
  PROVE  ClientInv'
<1> USE DEF ClientInv, NoSession, ScheduleReconnect, Off, Running
<1>0. wanted' \in BOOLEAN /\ timer' \in BOOLEAN /\ recalled' \in BOOLEAN
  BY DEF Disconnect, OnClose, ClientTypeOK
<1>1. ClientTypeOK'
  BY <1>0, DoubledBounded DEF Disconnect, OnClose, ClientTypeOK
<1>2. NeverGivesUp' /\ DownStaysDown' /\ TimerSparesSocket'
  BY DEF Disconnect, OnClose, ClientTypeOK, NeverGivesUp, DownStaysDown, TimerSparesSocket
<1>3. HeartbeatKeepsSession'
  BY DEF Disconnect, OnClose, ClientTypeOK, HeartbeatKeepsSession
<1>4. JoiningInv' /\ SessionInv' /\ PingInv' /\ RefreshInv'
  BY DEF Disconnect, OnClose, ClientTypeOK, JoiningInv, SessionInv, PingInv, RefreshInv
<1> QED BY <1>1, <1>2, <1>3, <1>4

\* The heartbeat starts anew with the registration of the socket.
LEMMA OnConnectKeeps ==
  ASSUME ClientInv, OnConnect
  PROVE  ClientInv'
<1> USE DEF ClientInv, OnConnect, Off, Running
<1>1. ClientTypeOK'
  BY DEF ClientTypeOK
<1>2. NeverGivesUp' /\ DownStaysDown' /\ TimerSparesSocket' /\ HeartbeatKeepsSession'
  BY DEF ClientTypeOK, NeverGivesUp, DownStaysDown, TimerSparesSocket,
         HeartbeatKeepsSession
<1>3. JoiningInv' /\ SessionInv' /\ PingInv' /\ RefreshInv'
  BY DEF ClientTypeOK, JoiningInv, SessionInv, PingInv, RefreshInv
<1> QED BY <1>1, <1>2, <1>3

\* A beat finds no ping under way, and the throttle of the last one has let go.
LEMMA BeatKeeps ==
  ASSUME ClientInv, Beat
  PROVE  ClientInv'
<1> USE DEF ClientInv, Beat, serverVars, Off, Running
<1>1. ClientTypeOK'
  BY DEF ClientTypeOK
<1>2. NeverGivesUp' /\ DownStaysDown' /\ TimerSparesSocket' /\ HeartbeatKeepsSession'
  BY DEF ClientTypeOK, NeverGivesUp, DownStaysDown, TimerSparesSocket,
         HeartbeatKeepsSession
<1>3. JoiningInv' /\ SessionInv' /\ PingInv'
  BY DEF ClientTypeOK, HeartbeatKeepsSession, JoiningInv, SessionInv, PingInv
<1>4. RefreshInv'
  BY DEF ClientTypeOK, JoiningInv, SessionInv, PingInv, RefreshInv
<1> QED BY <1>1, <1>2, <1>3, <1>4

\* The server registers the socket, or takes a ping.
LEMMA ServerKeeps ==
  ASSUME ClientInv, HandlePing \/ Registered
  PROVE  ClientInv'
<1> USE DEF ClientInv, Off, Running
<1>1. ClientTypeOK'
  BY DEF HandlePing, Registered, ClientTypeOK
<1>2. NeverGivesUp' /\ DownStaysDown' /\ TimerSparesSocket' /\ HeartbeatKeepsSession'
  BY DEF HandlePing, Registered, ClientTypeOK, NeverGivesUp, DownStaysDown,
         TimerSparesSocket, HeartbeatKeepsSession
<1>3. JoiningInv' /\ SessionInv' /\ PingInv'
  BY DEF HandlePing, Registered, ClientTypeOK, JoiningInv, SessionInv, PingInv
<1>4. RefreshInv'
  BY DEF HandlePing, Registered, ClientTypeOK, JoiningInv, SessionInv, PingInv, RefreshInv
<1> QED BY <1>1, <1>2, <1>3, <1>4

\* Time passes: the session is younger than its life by what the times allow.
LEMMA TickKeeps ==
  ASSUME ClientInv, Tick
  PROVE  ClientInv'
<1> USE DEF ClientInv, Tick, Older, Off, Running
<1>1. ClientTypeOK'
  BY DEF ClientTypeOK
<1>2. NeverGivesUp' /\ DownStaysDown' /\ TimerSparesSocket'
  BY DEF ClientTypeOK, NeverGivesUp, DownStaysDown, TimerSparesSocket
<1>3. JoiningInv' /\ SessionInv' /\ PingInv'
  BY DEF ClientTypeOK, HeartbeatKeepsSession, JoiningInv, SessionInv, PingInv
<1>4. RefreshInv'
  BY DEF ClientTypeOK, JoiningInv, SessionInv, PingInv, RefreshInv
<1>5. HeartbeatKeepsSession'
  BY <1>1, <1>3, <1>4 DEF ClientTypeOK, HeartbeatKeepsSession, JoiningInv, SessionInv,
     PingInv, RefreshInv
<1> QED BY <1>1, <1>2, <1>3, <1>4, <1>5

LEMMA ClientKeeps ==
  ASSUME ClientInv, ClientStep
  PROVE  ClientInv'
BY OpeningKeeps, EndingKeeps, OnConnectKeeps, BeatKeeps, ServerKeeps, TickKeeps
   DEF ClientStep

-----------------------------------------------------------------------------
(* What was announced *)

\* An announcement changes nothing about what was announced before it.
LEMMA HistoryGrows ==
  ASSUME history \in Seq(Event), NEW e \in Event, history' = Append(history, e),
         NEW u, NEW types, NEW type, NEW n \in 0..Len(history)
  PROVE  /\ \A i \in 1..n : About(u, types, i)' <=> About(u, types, i)
         /\ \A i \in Nat : Quiet(u, types, i, n)' <=> Quiet(u, types, i, n)
         /\ LastIs(u, types, type, n)' <=> LastIs(u, types, type, n)
<1> DEFINE N == Len(history)
<1>1. N \in Nat /\ \A i \in 1..n : history'[i] = history[i]
  OBVIOUS
<1>2. \A t : \A i \in 1..n : About(u, t, i)' <=> About(u, t, i)
  BY <1>1 DEF About
<1>3. \A i \in Nat : Quiet(u, types, i, n)' <=> Quiet(u, types, i, n)
  BY <1>1, <1>2 DEF Quiet
<1>4. LastIs(u, types, type, n)' <=> LastIs(u, types, type, n)
  <2>1. \A i \in 1..n : About(u, {type}, i)' <=> About(u, {type}, i)
    BY <1>2
  <2>2. \A i \in 1..n : Quiet(u, types, i, n)' <=> Quiet(u, types, i, n)
    BY <1>3
  <2> QED BY <2>1, <2>2 DEF LastIs
<1> QED BY <1>2, <1>3, <1>4

\* As long as nothing is announced about a user he stays as he was.
LEMMA QuietSame ==
  ASSUME NEW u, NEW types, NEW type \in types, NEW m \in Nat, NEW n \in Nat, m <= n,
         Quiet(u, types, m, n)
  PROVE  LastIs(u, types, type, n) <=> LastIs(u, types, type, m)
<1>1. \A i : About(u, {type}, i) => About(u, types, i)
  BY DEF About
<1>2. ASSUME LastIs(u, types, type, n)
      PROVE  LastIs(u, types, type, m)
  <2>1. PICK i \in 1..n : About(u, {type}, i) /\ Quiet(u, types, i, n)
    BY <1>2 DEF LastIs
  <2>2. i <= m
    BY <1>1, <2>1 DEF Quiet
  <2>3. i \in 1..m /\ Quiet(u, types, i, m)
    BY <2>1, <2>2 DEF Quiet
  <2> QED BY <2>1, <2>3 DEF LastIs
<1>3. ASSUME LastIs(u, types, type, m)
      PROVE  LastIs(u, types, type, n)
  <2>1. PICK i \in 1..m : About(u, {type}, i) /\ Quiet(u, types, i, m)
    BY <1>3 DEF LastIs
  <2>2. i \in 1..n /\ Quiet(u, types, i, n)
    BY <2>1 DEF Quiet
  <2> QED BY <2>1, <2>2 DEF LastIs
<1> QED BY <1>2, <1>3

\* An event that is not about the user, or of another type, is quiet.
LEMMA StepQuiet ==
  ASSUME NEW u, NEW types, NEW m \in Nat, ~ About(u, types, m + 1)
  PROVE  Quiet(u, types, m, m + 1)
BY DEF Quiet

\* An event says how the user is from then on.
LEMMA EventDecides ==
  ASSUME NEW u, NEW types, NEW n \in Nat \ {0}, NEW type \in types, About(u, types, n)
  PROVE  LastIs(u, types, type, n) <=> history[n].type = type
<1>1. Quiet(u, types, n, n)
  BY DEF Quiet
<1>2. ASSUME LastIs(u, types, type, n)
      PROVE  history[n].type = type
  <2>1. PICK i \in 1..n : About(u, {type}, i) /\ Quiet(u, types, i, n)
    BY <1>2 DEF LastIs
  <2>2. i = n
    BY <2>1 DEF Quiet
  <2> QED BY <2>1, <2>2 DEF About
<1>3. ASSUME history[n].type = type
      PROVE  LastIs(u, types, type, n)
  BY <1>1, <1>3 DEF LastIs, About
<1> QED BY <1>2, <1>3

LEMMA HistoryStays ==
  ASSUME UNCHANGED history
  PROVE  /\ \A u, n : /\ OnlineAt(u, n)' = OnlineAt(u, n)
                      /\ TypingAt(u, n)' = TypingAt(u, n)
         /\ \A u, types, m, n : Quiet(u, types, m, n)' = Quiet(u, types, m, n)
         /\ \A u, types, n : About(u, types, n)' = About(u, types, n)
BY DEF OnlineAt, TypingAt, LastIs, Quiet, About

\* An announcement about someone else, or of another type, leaves the user as he was.
LEMMA OthersAnnounced ==
  ASSUME history \in Seq(Event), NEW e \in Event, history' = Append(history, e),
         NEW u, NEW types, NEW type \in types, e.user # u \/ e.type \notin types,
         NEW N \in Nat, N = Len(history)
  PROVE  LastIs(u, types, type, N + 1)' <=> LastIs(u, types, type, N)
<1>1. (\A i \in 1..N : history'[i] = history[i]) /\ history'[N + 1] = e
  OBVIOUS
<1>2. /\ \A t : \A i \in 1..N : About(u, t, i)' <=> About(u, t, i)
      /\ ~ About(u, types, N + 1)' /\ ~ About(u, {type}, N + 1)'
  BY <1>1 DEF About
<1>3. \A i \in 1..N : Quiet(u, types, i, N + 1)' <=> Quiet(u, types, i, N)
  <2> SUFFICES ASSUME NEW i \in 1..N
               PROVE  Quiet(u, types, i, N + 1)' <=> Quiet(u, types, i, N)
    OBVIOUS
  <2> QED BY <1>1, <1>2 DEF Quiet
<1>4. ASSUME LastIs(u, types, type, N + 1)'
      PROVE  LastIs(u, types, type, N)
  <2>1. PICK i \in 1..N + 1 : About(u, {type}, i)' /\ Quiet(u, types, i, N + 1)'
    BY <1>4 DEF LastIs
  <2>2. i \in 1..N
    BY <1>2, <2>1
  <2> QED BY <1>2, <1>3, <2>1, <2>2 DEF LastIs
<1>5. ASSUME LastIs(u, types, type, N)
      PROVE  LastIs(u, types, type, N + 1)'
  <2>1. PICK i \in 1..N : About(u, {type}, i) /\ Quiet(u, types, i, N)
    BY <1>5 DEF LastIs
  <2>2. About(u, {type}, i)' /\ Quiet(u, types, i, N + 1)' /\ i \in 1..N + 1
    BY <1>2, <1>3, <2>1
  <2> QED BY <2>2 DEF LastIs
<1> QED BY <1>4, <1>5

LEMMA EventTypes ==
  /\ PresenceEvent \subseteq Happening /\ TypingEvent \subseteq Happening
  /\ "cleanup" \in Happening /\ "cleanup" \notin PresenceEvent
  /\ "cleanup" \notin TypingEvent
BY DEF Happening, PresenceEvent, TypingEvent

LEMMA BooleanAt == \A u, n : OnlineAt(u, n) \in BOOLEAN /\ TypingAt(u, n) \in BOOLEAN
BY DEF OnlineAt, TypingAt, LastIs

-----------------------------------------------------------------------------
(* What a fetch has read *)

\* The hook is at the same place of the same fetch.
SameFetch ==
  /\ hook'.kind = hook.kind /\ hook'.user = hook.user /\ hook'.fetch = hook.fetch
  /\ hook'.upto = hook.upto /\ hook'.told = hook.told /\ hook'.seen = hook.seen
  /\ hook.fetch # "none" /\ ~ hook'.mixed => ~ hook.mixed

LEMMA FetchStays ==
  ASSUME ReadInv, AnswerInv, UNCHANGED history, SameFetch
  PROVE  ReadInv' /\ AnswerInv'
<1>1. /\ \A u, n : OnlineAt(u, n)' = OnlineAt(u, n)
      /\ \A u, types, m, n : Quiet(u, types, m, n)' = Quiet(u, types, m, n)
      /\ \A u, types, n : About(u, types, n)' = About(u, types, n)
  BY HistoryStays
<1>2. ReadInv'
  <2> SUFFICES ASSUME NEW u \in {hook.user}, NEW m \in {hook.upto},
                      NEW n \in {Len(history)}
               PROVE  ReadAt(u, m, n)'
    BY DEF ReadInv, SameFetch
  <2>1. ReadAt(u, m, n)
    BY DEF ReadInv
  <2>2. hook.fetch \in Reading /\ ~ hook'.mixed => ~ hook.mixed
    BY DEF Reading, SameFetch
  <2> QED BY <1>1, <2>1, <2>2 DEF ReadAt, SameFetch
<1>3. AnswerInv'
  <2> SUFFICES ASSUME hook.fetch = "answer", Unmixed',
                      NEW u \in {hook.user}, NEW m \in {hook.upto}
               PROVE  TrueAt(u, m)' \/ \E p \in m + 1 .. Len(history) : Follows(u, p)'
    BY DEF AnswerInv, SameFetch
  <2>1. Unmixed
    BY DEF SameFetch, Unmixed
  <2>2. TrueAt(u, m) \/ \E p \in m + 1 .. Len(history) : Follows(u, p)
    BY <2>1 DEF AnswerInv
  <2>3. TrueAt(u, m)' = TrueAt(u, m) /\ \A p : Follows(u, p)' = Follows(u, p)
    BY <1>1 DEF TrueAt, Follows, SameFetch
  <2> QED BY <2>2, <2>3
<1> QED BY <1>2, <1>3

\* What happens takes nothing from what was read; a session that goes without an
\* event mixes the fetch.
LEMMA FetchOutlives ==
  ASSUME TypeOK, FetchInv, ReadInv, AnswerInv, SameFetch,
         NEW e \in Event, history' = Append(history, e),
         e.type = "cleanup" /\ e.user = hook.user =>
           (hook.fetch \in Reading => hook'.mixed)
  PROVE  ReadInv' /\ AnswerInv'
<1>1. PICK N \in Nat : N = Len(history)
  BY DEF TypeOK
<1>2. PICK u : u = hook.user
  OBVIOUS
<1>3. PICK m \in 0..N : m = hook.upto
  BY <1>1 DEF TypeOK, FetchInv, HookState
<1>4. /\ history \in Seq(Event) /\ Len(history') = N + 1 /\ history'[N + 1] = e
      /\ hook.seen \in Nat
  BY <1>1 DEF TypeOK, HookState
<1>5. ASSUME NEW n \in 0..N
      PROVE  /\ \A types : \A i \in 1..n : About(u, types, i)' <=> About(u, types, i)
             /\ \A types : \A i \in Nat : Quiet(u, types, i, n)' <=> Quiet(u, types, i, n)
             /\ OnlineAt(u, n)' = OnlineAt(u, n)
  <2>1. n \in 0..Len(history)
    BY <1>1
  <2>2. /\ \A types : \A i \in 1..n : About(u, types, i)' <=> About(u, types, i)
        /\ \A types : \A i \in Nat : Quiet(u, types, i, n)' <=> Quiet(u, types, i, n)
    BY <1>4, <2>1, HistoryGrows
  <2>3. LastIs(u, PresenceEvent, "user_online", n)'
          <=> LastIs(u, PresenceEvent, "user_online", n)
    BY <1>4, <2>1, HistoryGrows
  <2> QED BY <2>2, <2>3 DEF OnlineAt, LastIs
<1>6. ReadInv'
  <2> SUFFICES ReadAt(u, m, N + 1)'
    BY <1>2, <1>3, <1>4 DEF ReadInv, SameFetch
  <2>0. ReadAt(u, m, N)
    BY <1>1, <1>2, <1>3 DEF ReadInv
  <2>1. ASSUME hook.fetch \in Reading, ~ hook'.mixed
        PROVE  Quiet(u, {"cleanup"}, m, N + 1)'
    <3>1. Quiet(u, {"cleanup"}, m, N)
      BY <2>0, <2>1 DEF ReadAt, SameFetch, Reading
    <3>2. Quiet(u, {"cleanup"}, m, N)'
      BY <1>1, <1>3, <1>5, <3>1
    <3>3. ~ (e.type = "cleanup" /\ e.user = u)
      BY <1>2, <2>1
    <3>4. ~ About(u, {"cleanup"}, N + 1)'
      BY <1>4, <3>3 DEF About
    <3> QED BY <1>1, <1>3, <3>2, <3>4 DEF Quiet
  <2>2. OnlineAt(u, m)' = OnlineAt(u, m)
    BY <1>5
  <2>3. hook.fetch = "smembers" => hook.seen <= N + 1
    BY <1>4, <2>0 DEF ReadAt
  <2> QED BY <2>0, <2>1, <2>2, <2>3 DEF ReadAt, SameFetch
<1>7. AnswerInv'
  <2> SUFFICES ASSUME hook.fetch = "answer", Unmixed'
               PROVE  TrueAt(u, m)' \/ \E p \in m + 1 .. N + 1 : Follows(u, p)'
    BY <1>2, <1>3, <1>4 DEF AnswerInv, SameFetch
  <2>1. Unmixed
    BY DEF SameFetch, Unmixed
  <2>2. CASE TrueAt(u, m)
    <3>1. OnlineAt(u, m)' = OnlineAt(u, m)
      BY <1>5
    <3> QED BY <2>2, <3>1 DEF TrueAt, SameFetch
  <2>3. ASSUME NEW p \in m + 1 .. N, Follows(u, p)
        PROVE  \E q \in m + 1 .. N + 1 : Follows(u, q)'
    <3>1. p \in 1..N /\ p \in m + 1 .. N + 1 /\ N \in 0..N
      BY <1>3
    <3>2. About(u, PresenceEvent, p)'
      BY <1>5, <2>3, <3>1 DEF Follows
    <3>3. Follows(u, p)'
      BY <2>3, <3>2 DEF Follows, SameFetch
    <3> QED BY <3>1, <3>3
  <2> QED BY <1>1, <1>2, <1>3, <2>1, <2>2, <2>3 DEF AnswerInv
<1> QED BY <1>6, <1>7

\* A fetch that has not begun, or is over, promises nothing.
LEMMA NothingRead ==
  ASSUME hook'.fetch \in {"none", "scard"}
  PROVE  ReadInv' /\ AnswerInv'
BY DEF ReadInv, ReadAt, AnswerInv, Reading

-----------------------------------------------------------------------------
(* The hooks: announcements, and what is lost with the socket *)

LEMMA HooksStart == Init => HooksInv
<1> SUFFICES ASSUME Init PROVE HooksInv
  OBVIOUS
<1> USE DEF Init
<1>1. hook \in HookState /\ history \in Seq(Event) /\ Len(history) = 0
  BY DEF NoHook, HookState
<1>2. TypeOK
  BY <1>1, ClientStarts DEF TypeOK, ClientInv
<1>3. /\ SubscribedInv /\ FetchInv /\ ReadInv /\ AnswerInv /\ RoomInv
      /\ PresenceInv /\ TypingInv /\ ShownIsOwn
  BY <1>1 DEF SubscribedInv, FetchInv, ReadInv, ReadAt, Reading, AnswerInv, RoomInv,
     PresenceInv, Believes, TypingInv, ShownIsOwn, NoHook, Fetches
<1> QED BY <1>2, <1>3 DEF HooksInv

\* A hook that misses an event knows, and is the same otherwise.
LEMMA Passed ==
  ASSUME hook \in HookState, NEW missed \in BOOLEAN, Pass(missed)
  PROVE  /\ hook' \in HookState
         /\ hook'.stale = (hook.stale \/ missed)
         /\ hook'.kind = hook.kind /\ hook'.user = hook.user /\ hook'.fetch = hook.fetch
         /\ hook'.upto = hook.upto /\ hook'.on = hook.on /\ hook'.at = hook.at
         /\ hook'.known = hook.known /\ hook'.own = hook.own /\ hook'.failed = hook.failed
         /\ hook'.mixed = hook.mixed /\ SameFetch
         /\ ~ missed => hook' = hook
<1>1. CASE missed
  BY <1>1 DEF Pass, HookState, SameFetch
<1>2. CASE ~ missed
  BY <1>2 DEF Pass, HookState, SameFetch
<1> QED BY <1>1, <1>2

\* Nothing is announced about no one.
LEMMA NoneQuiet ==
  ASSUME TypeOK, hook.user = None
  PROVE  \A types : Quiet(hook.user, types, arrived, Len(history))
<1>1. \A i \in 1..Len(history) : history[i].user \in User
  <2>1. \A i \in 1..Len(history) : history[i] \in Event
    BY DEF TypeOK
  <2> QED BY <2>1 DEF Event
<1>2. arrived \in Nat /\ Len(history) \in Nat
  BY DEF TypeOK
<1> QED BY <1>1, <1>2 DEF Quiet, About

LEMMA NoHookFields == NoHook.kind = "none" /\ NoHook.user = None
BY DEF NoHook

LEMMA ClientActsKeeps ==
  ASSUME Inv, ClientInv', ClientActs
  PROVE  HooksInv'
<1> DEFINE N == Len(history)
           missed == ~ Quiet(hook.user, Relevant(hook), arrived, N)
<1>0. TypeOK /\ HooksInv /\ UNCHANGED history /\ UNCHANGED subscriptions
  BY DEF Inv, HooksInv, ClientActs
<1>1. N \in Nat /\ arrived \in 0..N /\ hook \in HookState /\ N <= MaxEvents
  BY <1>0 DEF TypeOK
<1>2. missed \in BOOLEAN
  OBVIOUS
<1>3. \A u, n : /\ OnlineAt(u, n)' = OnlineAt(u, n)
                /\ TypingAt(u, n)' = TypingAt(u, n)
  BY <1>0, HistoryStays
<1>4. CASE UNCHANGED <<arrived, hook>> /\ InRoom'
  <2>1. TypeOK'
    BY <1>0, <1>4 DEF TypeOK, ClientInv
  <2>2. SubscribedInv' /\ FetchInv' /\ RoomInv' /\ ShownIsOwn'
    BY <1>0, <1>4 DEF HooksInv, SubscribedInv, FetchInv, RoomInv, ShownIsOwn
  <2>r. ReadInv' /\ AnswerInv'
    BY <1>0, <1>4, FetchStays DEF HooksInv, SameFetch
  <2>3. PresenceInv'
    <3> SUFFICES ASSUME Believes', NEW u \in {hook'.user}
                 PROVE  \E n \in arrived .. N : ShownAt(u, n)'
      BY <1>0, <1>4 DEF PresenceInv
    <3>1. PICK n \in arrived .. N : ShownAt(u, n)
      BY <1>0, <1>4 DEF HooksInv, PresenceInv, Believes, Unmixed
    <3>2. ShownAt(u, n)'
      BY <1>0, <1>3, <1>4, <3>1, HistoryStays DEF ShownAt, Awaits
    <3> QED BY <3>1, <3>2
  <2>4. TypingInv'
    BY <1>0, <1>3, <1>4 DEF HooksInv, TypingInv
  <2> QED BY <2>1, <2>2, <2>r, <2>3, <2>4 DEF HooksInv
<1>5. CASE arrived' = N /\ Pass(missed)
  <2> HIDE DEF missed
  <2>0. /\ hook' \in HookState /\ hook'.stale = (hook.stale \/ missed)
        /\ hook'.kind = hook.kind /\ hook'.user = hook.user /\ hook'.fetch = hook.fetch
        /\ hook'.upto = hook.upto /\ hook'.on = hook.on /\ hook'.at = hook.at
        /\ hook'.known = hook.known /\ hook'.own = hook.own /\ hook'.failed = hook.failed
        /\ hook'.mixed = hook.mixed /\ SameFetch
        /\ ~ missed => hook' = hook
    BY <1>1, <1>2, <1>5, Passed
  <2>1. TypeOK'
    BY <1>0, <1>1, <1>5, <2>0 DEF TypeOK, ClientInv
  <2>2. SubscribedInv'
    <3>1. hook.kind = "none" => hook' = hook
      BY <1>0, <2>0, NoneQuiet, NoHookFields DEF HooksInv, SubscribedInv, missed
    <3> QED BY <1>0, <2>0, <3>1 DEF HooksInv, SubscribedInv
  <2>3. FetchInv' /\ RoomInv' /\ ShownIsOwn'
    BY <1>0, <1>1, <1>5, <2>0 DEF HooksInv, FetchInv, RoomInv, ShownIsOwn
  <2>r. ReadInv' /\ AnswerInv'
    BY <1>0, <2>0, FetchStays DEF HooksInv
  <2>4. PresenceInv'
    <3> SUFFICES ASSUME Believes', NEW u \in {hook'.user}
                 PROVE  \E n \in arrived' .. N : ShownAt(u, n)'
      BY <1>0 DEF PresenceInv
    <3>0. PICK k \in Nat : k = N
      BY <1>1
    <3>1. Believes /\ ~ missed /\ Relevant(hook) = PresenceEvent
      BY <2>0 DEF Believes, Fetches, Relevant, Unmixed
    <3>2. PICK n \in arrived .. k : ShownAt(u, n)
      BY <1>0, <2>0, <3>0, <3>1 DEF HooksInv, PresenceInv
    <3>3. n \in Nat /\ n <= k /\ Quiet(u, PresenceEvent, n, k)
      BY <1>1, <3>0, <2>0, <3>1, <3>2 DEF missed, Quiet
    <3>4. OnlineAt(u, k) <=> OnlineAt(u, n)
      BY <1>1, <3>0, <3>3, QuietSame DEF OnlineAt, PresenceEvent
    <3>5. OnlineAt(u, k) \in BOOLEAN /\ OnlineAt(u, n) \in BOOLEAN
      BY BooleanAt
    <3>a. Quiet(u, PresenceEvent, arrived, k)
      BY <2>0, <3>0, <3>1 DEF missed
    <3>b. ~ Awaits(u, n)
      BY <1>1, <3>2, <3>3, <3>a DEF Awaits, Quiet
    <3>6. hook.on = OnlineAt(u, n) /\ hook.at <= n
      BY <3>2, <3>b DEF ShownAt
    <3>7. hook.at \in Nat
      BY <1>1 DEF HookState
    <3>8. hook.on = OnlineAt(u, k)
      BY <3>4, <3>5, <3>6
    <3>9. ShownAt(u, k)'
      BY <1>1, <3>0, <1>3, <2>0, <3>3, <3>5, <3>6, <3>7, <3>8 DEF ShownAt
    <3> QED BY <1>1, <3>0, <1>5, <3>9
  <2>5. TypingInv'
    <3> SUFFICES ASSUME hook.kind = "typing"
                 PROVE  /\ hook.at <= N
                        /\ hook.on /\ ~ hook.stale /\ ~ missed => TypingAt(hook.user, N)
      BY <1>3, <1>5, <2>0 DEF TypingInv
    <3>1. hook.at \in Nat /\ hook.at <= arrived
      BY <1>0, <1>1 DEF HookState, HooksInv, TypingInv
    <3>2. ASSUME hook.on, ~ hook.stale, ~ missed
          PROVE  TypingAt(hook.user, N)
      <4>1. TypingAt(hook.user, arrived)
        BY <1>0, <3>2 DEF HooksInv, TypingInv
      <4>2. Quiet(hook.user, TypingEvent, arrived, N)
        BY <3>2 DEF missed, Relevant
      <4> QED BY <1>1, <4>1, <4>2, QuietSame DEF TypingAt, TypingEvent
    <3> QED BY <1>1, <3>1, <3>2
  <2> QED BY <2>1, <2>2, <2>3, <2>r, <2>4, <2>5 DEF HooksInv
<1> QED BY <1>4, <1>5 DEF ClientActs

\* Something happens: the sockets in the room will hear of it, a hook out of the room
\* misses it if it looks at it, and what goes without an event is missed by no one.
Happens(e, missed) ==
  /\ history' = Append(history, e) /\ Len(history) < MaxEvents
  /\ UNCHANGED <<clientVars, subscriptions>>
  /\ hook' \in HookState /\ SameFetch
  /\ hook'.on = hook.on /\ hook'.at = hook.at /\ hook'.known = hook.known
  /\ hook'.own = hook.own /\ hook'.failed = hook.failed
  /\ hook'.stale = (hook.stale \/ missed)
  /\ hook.user = None \/ (~ missed /\ hook.fetch = "none") => hook' = hook
  /\ missed \in BOOLEAN
  /\ \/ InRoom /\ UNCHANGED arrived
     \/ /\ ~ InRoom /\ arrived' = Len(history) + 1
        /\ ~ missed => e.user # hook.user \/ e.type \notin Relevant(hook)
  /\ e.type = "cleanup" /\ e.user = hook.user => (hook.fetch \in Reading => hook'.mixed)

LEMMA HappensKeeps ==
  ASSUME Inv, ClientInv', NEW e \in Event, NEW missed, Happens(e, missed)
  PROVE  HooksInv'
<1>0. /\ TypeOK /\ HooksInv /\ UNCHANGED subscriptions /\ history' = Append(history, e)
      /\ missed \in BOOLEAN
  BY DEF Inv, HooksInv, Happens
<1>1. PICK N \in Nat : N = Len(history)
  BY <1>0 DEF TypeOK
<1>2. /\ history \in Seq(Event) /\ N < MaxEvents
      /\ arrived \in 0..N /\ hook \in HookState
  BY <1>0, <1>1 DEF TypeOK, Happens
<1>3. history' \in Seq(Event) /\ Len(history') = N + 1 /\ N + 1 <= MaxEvents
  BY <1>0, <1>1, <1>2
<1>4. ASSUME NEW u, NEW n \in 0..N
      PROVE  /\ OnlineAt(u, n)' = OnlineAt(u, n) /\ TypingAt(u, n)' = TypingAt(u, n)
             /\ n # 0 => (About(u, PresenceEvent, n)' <=> About(u, PresenceEvent, n))
  <2>1. n \in 0..Len(history)
    BY <1>1
  <2>2. /\ LastIs(u, PresenceEvent, "user_online", n)' <=> LastIs(u, PresenceEvent, "user_online", n)
        /\ LastIs(u, TypingEvent, "typing_start", n)' <=> LastIs(u, TypingEvent, "typing_start", n)
    BY <1>0, <1>2, <2>1, HistoryGrows
  <2>3. \A i \in 1..n : About(u, PresenceEvent, i)' <=> About(u, PresenceEvent, i)
    BY <1>0, <1>2, <2>1, HistoryGrows
  <2>4. n # 0 => n \in 1..n
    OBVIOUS
  <2> QED BY <2>2, <2>3, <2>4 DEF OnlineAt, TypingAt, LastIs
<1>5. /\ hook' \in HookState /\ hook'.stale = (hook.stale \/ missed)
      /\ hook'.kind = hook.kind /\ hook'.user = hook.user /\ hook'.fetch = hook.fetch
      /\ hook'.upto = hook.upto /\ hook'.on = hook.on /\ hook'.at = hook.at
      /\ hook'.known = hook.known /\ hook'.own = hook.own /\ hook'.failed = hook.failed
      /\ hook.user = None \/ (~ missed /\ hook.fetch = "none") => hook' = hook
  BY DEF Happens, SameFetch
<1>6. arrived' \in 0..N + 1
  BY <1>1, <1>2 DEF Happens
<1>7. TypeOK'
  BY <1>0, <1>2, <1>3, <1>5, <1>6 DEF TypeOK, ClientInv
<1>8. SubscribedInv'
  BY <1>0, <1>5, NoHookFields DEF HooksInv, SubscribedInv
<1>9. FetchInv' /\ ShownIsOwn'
  BY <1>0, <1>1, <1>2, <1>3, <1>5 DEF HooksInv, FetchInv, ShownIsOwn, HookState
<1>10. ReadInv' /\ AnswerInv'
  BY <1>0, FetchOutlives DEF HooksInv, Happens
<1>11. RoomInv'
  BY <1>1, <1>3 DEF RoomInv, InRoom, Happens, clientVars, serverVars
<1>12. ASSUME Believes'
       PROVE  Believes /\ ~ missed /\ hook' = hook /\ Relevant(hook) = PresenceEvent
  <2>1. hook.fetch = "none" /\ ~ missed
    BY <1>0, <1>5, <1>12 DEF Believes
  <2>2. hook' = hook
    BY <1>5, <2>1
  <2> QED BY <1>12, <2>1, <2>2 DEF Believes, Unmixed, Fetches, Relevant
<1>13. CASE InRoom /\ UNCHANGED arrived
  <2>1. PresenceInv'
    <3> SUFFICES ASSUME Believes', NEW u \in {hook'.user}
                 PROVE  \E n \in arrived .. N + 1 : ShownAt(u, n)'
      BY <1>3, <1>13 DEF PresenceInv
    <3>1. PICK n \in arrived .. N : ShownAt(u, n)
      BY <1>0, <1>1, <1>12 DEF HooksInv, PresenceInv
    <3>2. n \in 0..N /\ n \in arrived .. N + 1 /\ (arrived < n => n # 0)
      BY <1>2, <3>1
    <3>3. ShownAt(u, n)'
      BY <1>4, <1>5, <1>13, <3>1, <3>2 DEF ShownAt, Awaits
    <3> QED BY <3>2, <3>3
  <2>2. TypingInv'
    <3> SUFFICES ASSUME hook.kind = "typing"
                 PROVE  /\ hook.at <= arrived
                        /\ \A u \in {hook.user} : hook.on /\ ~ hook.stale =>
                             \E n \in {arrived} : TypingAt(u, n)'
      BY <1>0, <1>2, <1>5, <1>13 DEF TypingInv, HookState
    <3> QED BY <1>0, <1>2, <1>4 DEF HooksInv, TypingInv
  <2> QED BY <1>7, <1>8, <1>9, <1>10, <1>11, <2>1, <2>2 DEF HooksInv
<1>14. CASE ~ InRoom /\ arrived' = N + 1
  <2>m. arrived = N
    BY <1>0, <1>1, <1>14 DEF HooksInv, RoomInv
  <2>n. ~ missed => hook.user # e.user \/ e.type \notin Relevant(hook)
    BY <1>14 DEF Happens
  <2>1. PresenceInv'
    <3> SUFFICES ASSUME Believes', NEW u \in {hook'.user}
                 PROVE  \E n \in {N + 1} : ShownAt(u, n)'
      BY <1>3, <1>14 DEF PresenceInv
    <3>2. ShownAt(u, N)
      BY <1>0, <1>1, <1>12, <2>m DEF HooksInv, PresenceInv
    <3>a. hook.on = OnlineAt(u, N) /\ hook.at <= N
      BY <2>m, <3>2 DEF ShownAt, Awaits
    <3>3. u # e.user \/ e.type \notin PresenceEvent
      BY <1>5, <1>12, <2>n
    <3>4. OnlineAt(u, N + 1)' <=> OnlineAt(u, N)
      BY <1>0, <1>1, <1>2, <3>3, OthersAnnounced DEF OnlineAt, PresenceEvent
    <3>5. OnlineAt(u, N + 1)' \in BOOLEAN /\ OnlineAt(u, N) \in BOOLEAN
      BY DEF OnlineAt, LastIs
    <3>6. hook.at \in Nat /\ hook.at <= N + 1
      BY <1>2, <3>a DEF HookState
    <3>7. ShownAt(u, N + 1)'
      BY <1>5, <3>a, <3>4, <3>5, <3>6 DEF ShownAt
    <3> QED BY <3>7
  <2>2. TypingInv'
    <3> SUFFICES ASSUME hook.kind = "typing"
                 PROVE  /\ hook.at <= N + 1
                        /\ \A u \in {hook.user} : hook.on /\ ~ hook.stale /\ ~ missed =>
                             TypingAt(u, N + 1)'
      BY <1>0, <1>5, <1>14 DEF TypingInv
    <3>1. hook.at \in Nat /\ hook.at <= N
      BY <1>0, <1>2, <2>m DEF HookState, HooksInv, TypingInv
    <3>2. ASSUME NEW u \in {hook.user}, hook.on, ~ hook.stale, ~ missed
          PROVE  TypingAt(u, N + 1)'
      <4>1. TypingAt(u, N)
        BY <1>0, <2>m, <3>2 DEF HooksInv, TypingInv
      <4>2. u # e.user \/ e.type \notin TypingEvent
        BY <2>n, <3>2 DEF Relevant
      <4> QED BY <1>0, <1>1, <1>2, <4>1, <4>2, OthersAnnounced DEF TypingAt, TypingEvent
    <3> QED BY <1>1, <3>1, <3>2
  <2> QED BY <1>7, <1>8, <1>9, <1>10, <1>11, <2>1, <2>2 DEF HooksInv
<1> QED BY <1>1, <1>13, <1>14 DEF Happens

LEMMA AnnounceKeeps ==
  ASSUME Inv, ClientInv', NEW u \in User, NEW type \in PresenceEvent \cup TypingEvent,
         Announce(u, type)
  PROVE  HooksInv'
<1> DEFINE e == [user |-> u, type |-> type]
           missed == ~ InRoom /\ u = hook.user /\ type \in Relevant(hook)
<1>1. e \in Event /\ hook \in HookState /\ type # "cleanup"
  BY EventTypes DEF Inv, HooksInv, TypeOK, Event
<1>2. missed \in BOOLEAN /\ (hook.user = None => ~ missed)
  OBVIOUS
<1>3. Pass(missed)
  BY DEF Announce, Pass
<1>4. Happens(e, missed)
  <2>1. /\ ~ InRoom /\ ~ missed => e.user # hook.user \/ e.type \notin Relevant(hook)
        /\ e.type # "cleanup"
    BY <1>1
  <2>2. history' = Append(history, e)
    BY DEF Announce
  <2> HIDE DEF e, missed
  <2>3. /\ hook' \in HookState
        /\ hook'.stale = (hook.stale \/ missed)
        /\ hook'.on = hook.on /\ hook'.at = hook.at
        /\ hook'.known = hook.known /\ hook'.own = hook.own /\ hook'.failed = hook.failed
        /\ SameFetch
        /\ ~ missed => hook' = hook
    BY <1>1, <1>2, <1>3, Passed
  <2> QED BY <1>2, <2>1, <2>2, <2>3 DEF Happens, Announce
<1> HIDE DEF e, missed
<1> QED BY <1>1, <1>4, HappensKeeps

LEMMA CleanupKeeps ==
  ASSUME Inv, ClientInv', NEW u \in User, Cleanup(u)
  PROVE  HooksInv'
<1> DEFINE e == [user |-> u, type |-> "cleanup"]
<1>1. e \in Event /\ hook \in HookState
  BY EventTypes DEF Inv, HooksInv, TypeOK, Event
<1>2. Happens(e, FALSE)
  <2>1. /\ hook' \in HookState /\ SameFetch
        /\ hook'.on = hook.on /\ hook'.at = hook.at
        /\ hook'.known = hook.known /\ hook'.own = hook.own /\ hook'.failed = hook.failed
        /\ hook'.stale = hook.stale
        /\ hook.user = None \/ hook.fetch = "none" => hook' = hook
        /\ u = hook.user => (hook.fetch \in Reading => hook'.mixed)
    <3>1. CASE u = hook.user /\ hook.fetch \in Reading
      BY <1>1, <3>1 DEF Cleanup, HookState, SameFetch, Reading
    <3>2. CASE ~ (u = hook.user /\ hook.fetch \in Reading)
      <4>1. hook' = hook
        BY <3>2 DEF Cleanup
      <4> QED BY <1>1, <3>2, <4>1 DEF SameFetch
    <3> QED BY <3>1, <3>2
  <2>2. e.user = u /\ e.type = "cleanup" /\ "cleanup" \notin Relevant(hook)
    BY EventTypes DEF Relevant
  <2>3. hook.stale \in BOOLEAN
    BY <1>1 DEF HookState
  <2>4. hook'.stale = (hook.stale \/ FALSE)
    BY <2>1, <2>3
  <2> QED BY <2>1, <2>2, <2>4 DEF Happens, Cleanup
<1> HIDE DEF e
<1> QED BY <1>1, <1>2, HappensKeeps

-----------------------------------------------------------------------------
(* The hooks: effects, answers and events *)

\* A fetch that is under way promises nothing, a new useTyping shows nothing.
LEMMA EffectsKeep ==
  ASSUME Inv, ClientInv', NEW u \in User, NEW kind \in {"presence", "batch", "typing"},
         Mount(kind, u) \/ ChangeUser(u) \/ Unmount
  PROVE  HooksInv'
<1> USE DEF Fetches
<1>0. /\ TypeOK /\ HooksInv /\ UNCHANGED <<clientVars, history, arrived>>
      /\ hook \in HookState /\ NoHook \in HookState /\ MaxEvents \in Nat
  BY DEF Inv, HooksInv, TypeOK, Mount, ChangeUser, Unmount, NoHook, HookState
<1>1. RoomInv'
  BY <1>0 DEF HooksInv, RoomInv, InRoom, clientVars, serverVars
<1>2. CASE Mount(kind, u)
  <2>1. /\ hook' \in HookState /\ hook'.kind = kind /\ hook'.user = u
        /\ hook'.fetch = (IF Fetches(kind) THEN "scard" ELSE "none")
        /\ hook'.on = FALSE /\ hook'.at = 0 /\ hook'.upto = 0 /\ hook'.own = TRUE
    BY <1>0, <1>2 DEF Mount, NoHook, HookState
  <2>2. subscriptions' = {u} /\ kind # "none"
    BY <1>0, <1>2, NoHookFields DEF Mount, HooksInv, SubscribedInv
  <2>3. TypeOK'
    BY <1>0, <2>1, <2>2 DEF TypeOK, ClientInv
  <2>4. arrived \in Nat /\ Len(history) \in Nat
    BY <1>0 DEF TypeOK
  <2>5. SubscribedInv' /\ FetchInv' /\ ShownIsOwn'
    BY <1>0, <2>1, <2>2, <2>4 DEF SubscribedInv, FetchInv, ShownIsOwn
  <2>r. ReadInv' /\ AnswerInv'
    BY <2>1, NothingRead
  <2>6. PresenceInv'
    BY <2>1 DEF PresenceInv, Believes
  <2>7. TypingInv'
    BY <1>0, <2>1, <2>4 DEF TypingInv
  <2> QED BY <1>1, <2>3, <2>5, <2>r, <2>6, <2>7 DEF HooksInv
<1>3. CASE ChangeUser(u)
  <2>1. /\ hook' \in HookState /\ hook'.kind = hook.kind /\ hook'.user = u
        /\ hook'.fetch = (IF Fetches(hook.kind) THEN "scard" ELSE "none")
        /\ hook'.upto = 0
        /\ hook.kind # "presence" => /\ hook'.own = TRUE
                                     /\ hook'.on = FALSE /\ hook'.at = 0
    <3> DEFINE keeps == hook.kind = "presence"
               own == ~ keeps
               on == keeps /\ hook.on
               at == IF keeps THEN hook.at ELSE 0
    <3>1. own \in BOOLEAN /\ on \in BOOLEAN
      OBVIOUS
    <3>2. at \in 0..MaxEvents
      BY <1>0 DEF HookState
    <3>3. hook.kind # "presence" => own = TRUE /\ on = FALSE /\ at = 0
      OBVIOUS
    <3>4. hook' = [hook EXCEPT !.user = u, !.own = own, !.known = FALSE,
                     !.fetch = IF Fetches(hook.kind) THEN "scard" ELSE "none",
                     !.on = on, !.at = at, !.upto = 0, !.told = FALSE, !.seen = 0,
                     !.failed = FALSE, !.stale = FALSE, !.mixed = FALSE]
      BY <1>3 DEF ChangeUser
    <3> HIDE DEF own, on, at
    <3>5. hook' \in HookState
      <4> DEFINE fetch == IF Fetches(hook.kind) THEN "scard" ELSE "none"
      <4>1. hook' = [kind |-> hook.kind, user |-> u, fetch |-> fetch, upto |-> 0,
                     told |-> FALSE, seen |-> 0, on |-> on, at |-> at, known |-> FALSE,
                     own |-> own, failed |-> FALSE, stale |-> FALSE, mixed |-> FALSE]
        BY <1>0, <3>4 DEF HookState
      <4>2. /\ hook.kind \in {"none", "presence", "batch", "typing"}
            /\ fetch \in {"none", "scard", "get"} /\ 0 \in 0..MaxEvents
        BY <1>0 DEF HookState
      <4> HIDE DEF fetch
      <4> QED BY <3>1, <3>2, <4>1, <4>2 DEF HookState
    <3>6. /\ hook'.kind = hook.kind /\ hook'.user = u
          /\ hook'.fetch = (IF Fetches(hook.kind) THEN "scard" ELSE "none")
          /\ hook'.upto = 0 /\ hook'.own = own /\ hook'.on = on /\ hook'.at = at
      BY <1>0, <3>4 DEF HookState
    <3> QED BY <3>3, <3>5, <3>6
  <2>2. subscriptions' = {u} /\ hook.kind # "none"
    BY <1>0, <1>3 DEF ChangeUser, HooksInv, SubscribedInv
  <2>3. TypeOK'
    BY <1>0, <2>1, <2>2 DEF TypeOK, ClientInv
  <2>4. arrived \in Nat /\ Len(history) \in Nat
    BY <1>0 DEF TypeOK
  <2>5. SubscribedInv' /\ FetchInv' /\ ShownIsOwn'
    BY <1>0, <2>1, <2>2, <2>4 DEF SubscribedInv, FetchInv, ShownIsOwn
  <2>r. ReadInv' /\ AnswerInv'
    BY <2>1, NothingRead
  <2>6. PresenceInv'
    BY <2>1 DEF PresenceInv, Believes
  <2>7. TypingInv'
    BY <1>0, <2>1, <2>4 DEF TypingInv
  <2> QED BY <1>1, <2>3, <2>5, <2>r, <2>6, <2>7 DEF HooksInv
<1>4. CASE Unmount
  <2>1. hook' = NoHook /\ subscriptions' = {}
    BY <1>0, <1>4 DEF Unmount, HooksInv, SubscribedInv
  <2>2. /\ NoHook.kind = "none" /\ NoHook.fetch = "none" /\ NoHook.upto = 0
        /\ NoHook.own = TRUE
    BY DEF NoHook
  <2>3. TypeOK'
    BY <1>0, <2>1 DEF TypeOK, ClientInv
  <2>4. /\ SubscribedInv' /\ FetchInv' /\ ReadInv' /\ AnswerInv' /\ ShownIsOwn'
        /\ PresenceInv' /\ TypingInv'
    BY <1>0, <2>1, <2>2, NothingRead DEF SubscribedInv, FetchInv, ShownIsOwn, PresenceInv,
       Believes, TypingInv, TypeOK
  <2> QED BY <1>1, <2>3, <2>4 DEF HooksInv
<1> QED BY <1>2, <1>3, <1>4

\* The next command of a fetch: what the fetch then rests on is left to prove.
LEMMA ReadsKeep ==
  ASSUME Inv, ClientInv', hook.fetch # "none",
         NEW fetch \in {"get", "smembers", "exists", "answer"},
         NEW upto \in 0..Len(history), NEW told \in BOOLEAN, NEW seen \in 0..Len(history),
         fetch \in {"smembers", "exists"} => hook.kind = "presence",
         Reads(fetch, upto, told, seen)
  PROVE  /\ ReadInv' /\ AnswerInv' => HooksInv'
         /\ hook'.kind = hook.kind /\ hook'.user = hook.user /\ hook'.mixed = hook.mixed
         /\ hook'.fetch = fetch /\ hook'.upto = upto
         /\ hook'.told = told /\ hook'.seen = seen
<1>0. /\ TypeOK /\ HooksInv /\ UNCHANGED <<clientVars, history, arrived, subscriptions>>
      /\ hook \in HookState /\ Len(history) \in 0..MaxEvents
  BY DEF Inv, HooksInv, TypeOK, Reads
<1>1. /\ hook'.kind = hook.kind /\ hook'.user = hook.user /\ hook'.mixed = hook.mixed
      /\ hook'.fetch = fetch /\ hook'.upto = upto
      /\ hook'.told = told /\ hook'.seen = seen
      /\ hook'.own = hook.own /\ hook'.failed = hook.failed
  BY <1>0 DEF Reads, HookState
<1>2. hook' \in HookState
  <2>1. hook' = [kind |-> hook.kind, user |-> hook.user, fetch |-> fetch, upto |-> upto,
                 told |-> told, seen |-> seen, on |-> hook.on, at |-> hook.at,
                 known |-> hook.known, own |-> hook.own, failed |-> hook.failed,
                 stale |-> hook.stale, mixed |-> hook.mixed]
    BY <1>0 DEF Reads, HookState
  <2>2. upto \in 0..MaxEvents /\ seen \in 0..MaxEvents
    BY <1>0
  <2> QED BY <1>0, <2>1, <2>2 DEF HookState
<1>3. Fetches(hook.kind) /\ hook.kind \notin {"none", "typing"}
  BY <1>0 DEF HooksInv, FetchInv, Fetches
<1>4. TypeOK'
  BY <1>0, <1>2 DEF TypeOK, ClientInv
<1>5. SubscribedInv' /\ FetchInv' /\ ShownIsOwn'
  BY <1>0, <1>1, <1>3 DEF HooksInv, SubscribedInv, FetchInv, ShownIsOwn
<1>6. RoomInv'
  BY <1>0 DEF HooksInv, RoomInv, InRoom, clientVars, serverVars
<1>7. PresenceInv' /\ TypingInv'
  BY <1>1, <1>3 DEF PresenceInv, Believes, TypingInv
<1> QED BY <1>1, <1>4, <1>5, <1>6, <1>7 DEF HooksInv

LEMMA ReadCountKeeps ==
  ASSUME Inv, ClientInv', ReadCount
  PROVE  HooksInv'
<1>1. PICK N \in Nat : N = Len(history)
  BY DEF Inv, HooksInv, TypeOK
<1>2. /\ hook.fetch = "scard" /\ UNCHANGED history /\ 0 \in 0..N /\ N \in 0..N
      /\ Reads("get", N, FALSE, 0)
  BY <1>1 DEF ReadCount, Reads
<1>3. /\ ReadInv' /\ AnswerInv' => HooksInv'
      /\ hook'.fetch = "get" /\ hook'.upto = N
  BY <1>1, <1>2, ReadsKeep
<1>4. \A u : Quiet(u, {"cleanup"}, N, N)'
  BY <1>1 DEF Quiet
<1>5. ReadInv' /\ AnswerInv'
  BY <1>1, <1>2, <1>3, <1>4 DEF ReadInv, ReadAt, AnswerInv
<1> QED BY <1>3, <1>5

\* last_seen is not newer than the count, or an event since the count bears it out.
LEMMA ReadLastSeenKeeps ==
  ASSUME Inv, ClientInv', ReadLastSeen
  PROVE  HooksInv'
<1>0. /\ TypeOK /\ HooksInv /\ UNCHANGED history /\ hook.fetch = "get"
      /\ hook.kind \in {"presence", "batch"}
  BY DEF Inv, HooksInv, ReadLastSeen, Reads
<1>1. PICK N \in Nat : N = Len(history)
  BY <1>0 DEF TypeOK
<1>2. PICK u : u = hook.user
  OBVIOUS
<1>3. PICK m \in 0..N : m = hook.upto
  BY <1>0, <1>1 DEF TypeOK, HookState, HooksInv, FetchInv
<1> DEFINE counted == OnlineAt(u, m)
<1>4. counted \in BOOLEAN /\ counted = OnlineAt(u, m)
  BY BooleanAt
<1>5. \A n : OnlineAt(u, n)' = OnlineAt(u, n)
  BY <1>0, HistoryStays
<1> HIDE DEF counted
<1>6. CASE hook.kind = "batch"
  <2>1. 0 \in 0..N /\ Reads("answer", m, counted, 0)
    BY <1>2, <1>3, <1>4, <1>6 DEF ReadLastSeen
  <2>2. /\ ReadInv' /\ AnswerInv' => HooksInv'
        /\ hook'.user = u /\ hook'.fetch = "answer" /\ hook'.upto = m
        /\ hook'.told = counted /\ hook'.seen = 0
    BY <1>0, <1>1, <1>2, <1>4, <2>1, ReadsKeep
  <2>3. TrueAt(u, m)'
    BY <1>3, <1>4, <1>5, <2>2 DEF TrueAt
  <2>4. ReadInv' /\ AnswerInv'
    BY <2>2, <2>3 DEF ReadInv, ReadAt, Reading, AnswerInv
  <2> QED BY <2>2, <2>4
<1>7. CASE hook.kind = "presence"
  <2> DEFINE fetch == IF counted THEN "smembers" ELSE "answer"
  <2>0. fetch \in {"get", "smembers", "exists", "answer"}
    OBVIOUS
  <2>f. (fetch = "smembers" <=> counted) /\ (fetch = "answer" <=> ~ counted)
    OBVIOUS
  <2>1. PICK time \in LastSeenTimes(u, N) : Reads(fetch, m, FALSE, time)
    BY <1>1, <1>2, <1>3, <1>4, <1>7 DEF ReadLastSeen
  <2>2. /\ time \in 0..N
        /\ time # 0 => ~ Quiet(u, {"user_offline", "cleanup"}, time - 1, N)
    BY <2>1 DEF LastSeenTimes
  <2> HIDE DEF fetch
  <2>3. /\ ReadInv' /\ AnswerInv' => HooksInv'
        /\ hook'.kind = hook.kind /\ hook'.user = u /\ hook'.mixed = hook.mixed
        /\ hook'.fetch = fetch /\ hook'.upto = m
        /\ hook'.told = FALSE /\ hook'.seen = time
    BY <1>0, <1>1, <1>2, <1>7, <2>0, <2>1, <2>2, ReadsKeep
  <2>4. ~ hook.mixed => Quiet(u, {"cleanup"}, m, N)
    BY <1>0, <1>1, <1>2, <1>3 DEF HooksInv, ReadInv, ReadAt, Reading
  <2>5. ReadInv'
    <3>1. Quiet(u, {"cleanup"}, m, N)' = Quiet(u, {"cleanup"}, m, N)
      BY <1>0, HistoryStays
    <3>2. hook'.fetch \in {"smembers", "answer"} /\ time <= N
      BY <2>2, <2>3, <2>f, <1>4
    <3>3. ReadAt(u, m, N)'
      BY <2>3, <2>4, <3>1, <3>2 DEF ReadAt
    <3> QED BY <1>0, <1>1, <2>3, <3>3 DEF ReadInv
  <2>6. AnswerInv'
    <3> SUFFICES ASSUME ~ counted, ~ hook.mixed
                 PROVE  TrueAt(u, m)' \/ \E p \in m + 1 .. N : Follows(u, p)'
      BY <1>0, <1>1, <1>7, <2>3, <2>f DEF AnswerInv, Unmixed
    <3>1. CASE time <= m
      BY <1>4, <1>5, <2>3, <3>1 DEF TrueAt
    <3>2. CASE time > m
      <4>1. PICK p \in time .. N : About(u, {"user_offline", "cleanup"}, p)
        BY <1>3, <2>2, <3>2 DEF Quiet
      <4>2. p \in m + 1 .. N
        BY <1>3, <2>2, <3>2, <4>1
      <4>3. ~ About(u, {"cleanup"}, p)
        BY <2>4, <4>2 DEF Quiet
      <4>4. About(u, PresenceEvent, p)
        BY <4>1, <4>3 DEF About, PresenceEvent
      <4>5. About(u, PresenceEvent, p)'
        BY <1>0, <4>4, HistoryStays
      <4>6. Follows(u, p)'
        BY <2>3, <4>1, <4>5 DEF Follows
      <4> QED BY <4>2, <4>6
    <3> QED BY <1>3, <2>2, <3>1, <3>2
  <2> QED BY <2>3, <2>5, <2>6
<1> QED BY <1>0, <1>6, <1>7

LEMMA ReadMembersKeeps ==
  ASSUME Inv, ClientInv', ReadMembers
  PROVE  HooksInv'
<1>0. /\ TypeOK /\ HooksInv /\ UNCHANGED history /\ hook.fetch = "smembers"
      /\ hook.kind = "presence"
  BY DEF Inv, HooksInv, FetchInv, ReadMembers, Reads
<1>1. PICK N \in Nat : N = Len(history)
  BY <1>0 DEF TypeOK
<1>2. PICK u : u = hook.user
  OBVIOUS
<1>3. PICK seen \in 0..N : seen = hook.seen
  BY <1>0, <1>1 DEF TypeOK, HookState, HooksInv, ReadInv, ReadAt
<1> DEFINE online == OnlineAt(u, N)
           fetch == IF online THEN "exists" ELSE "answer"
<1>4. online \in BOOLEAN /\ online = OnlineAt(u, N)
  BY BooleanAt
<1>5. /\ fetch \in {"get", "smembers", "exists", "answer"} /\ N \in 0..N
      /\ (fetch = "exists" <=> online) /\ (fetch = "answer" <=> ~ online)
      /\ fetch \in {"exists", "answer"}
  OBVIOUS
<1>6. Reads(fetch, N, FALSE, seen)
  BY <1>1, <1>2, <1>3 DEF ReadMembers
<1> HIDE DEF fetch, online
<1>7. /\ ReadInv' /\ AnswerInv' => HooksInv'
      /\ hook'.kind = hook.kind /\ hook'.user = u /\ hook'.mixed = hook.mixed
      /\ hook'.fetch = fetch /\ hook'.upto = N
      /\ hook'.told = FALSE /\ hook'.seen = seen
  BY <1>0, <1>1, <1>2, <1>3, <1>5, <1>6, ReadsKeep
<1>8. \A n : OnlineAt(u, n)' = OnlineAt(u, n)
  BY <1>0, HistoryStays
<1>9. ReadInv'
  <2>1. Quiet(u, {"cleanup"}, N, N)'
    BY DEF Quiet
  <2>2. ReadAt(u, N, N)'
    BY <1>3, <1>4, <1>5, <1>7, <1>8, <2>1 DEF ReadAt
  <2> QED BY <1>0, <1>1, <1>7, <2>2 DEF ReadInv
<1>10. AnswerInv'
  <2>0. ~ online => hook'.told = OnlineAt(u, N)'
    BY <1>4, <1>7, <1>8, Zenon
  <2>1. ~ online => TrueAt(u, N)'
    BY <1>3, <1>7, <2>0 DEF TrueAt
  <2> QED BY <1>5, <1>7, <2>1 DEF AnswerInv
<1> QED BY <1>7, <1>9, <1>10

\* Online if nothing has changed since SMEMBERS; offline if an event has.
LEMMA CheckMembersKeeps ==
  ASSUME Inv, ClientInv', CheckMembers
  PROVE  HooksInv'
<1>0. /\ TypeOK /\ HooksInv /\ UNCHANGED history /\ hook.fetch = "exists"
      /\ hook.kind = "presence"
  BY DEF Inv, HooksInv, FetchInv, CheckMembers, Reads
<1>1. PICK N \in Nat : N = Len(history)
  BY <1>0 DEF TypeOK
<1>2. PICK u : u = hook.user
  OBVIOUS
<1>3. PICK m \in 0..N : m = hook.upto
  BY <1>0, <1>1 DEF TypeOK, HookState, HooksInv, FetchInv
<1>4. PICK seen \in 0..N : seen = hook.seen /\ seen <= m
  BY <1>0, <1>1, <1>3 DEF TypeOK, HookState, HooksInv, ReadInv, ReadAt
<1>5. /\ OnlineAt(u, m)
      /\ ~ hook.mixed => Quiet(u, {"cleanup"}, m, N)
  BY <1>0, <1>1, <1>2, <1>3 DEF HooksInv, ReadInv, ReadAt, Reading
<1>6. \A n : OnlineAt(u, n)' = OnlineAt(u, n)
  BY <1>0, HistoryStays
<1>7. CASE Quiet(u, PresenceEvent, m, N) /\ Reads("answer", N, TRUE, seen)
  <2>1. /\ ReadInv' /\ AnswerInv' => HooksInv'
        /\ hook'.user = u /\ hook'.fetch = "answer" /\ hook'.upto = N
        /\ hook'.told = TRUE /\ hook'.seen = seen
    <3>1. N \in 0..N /\ TRUE \in BOOLEAN
      OBVIOUS
    <3> QED BY <1>0, <1>1, <1>2, <1>7, <3>1, ReadsKeep
  <2>2. OnlineAt(u, N) <=> OnlineAt(u, m)
    BY <1>7, QuietSame DEF OnlineAt, PresenceEvent
  <2>3. OnlineAt(u, N) = TRUE
    <3>1. OnlineAt(u, N) /\ OnlineAt(u, N) \in BOOLEAN
      BY <1>5, <2>2, BooleanAt
    <3> QED BY <3>1
  <2>t. hook'.told = OnlineAt(u, N)'
    BY <1>6, <2>1, <2>3, Zenon
  <2>4. TrueAt(u, N)'
    BY <2>1, <2>t DEF TrueAt
  <2>5. ReadInv' /\ AnswerInv'
    BY <2>1, <2>4 DEF ReadInv, ReadAt, Reading, AnswerInv
  <2> QED BY <2>1, <2>5
<1>8. CASE /\ ~ Quiet(u, PresenceEvent \cup {"cleanup"}, m, N)
           /\ Reads("answer", m, FALSE, seen)
  <2>1. /\ ReadInv' /\ AnswerInv' => HooksInv'
        /\ hook'.kind = hook.kind /\ hook'.user = u /\ hook'.mixed = hook.mixed
        /\ hook'.fetch = "answer" /\ hook'.upto = m
        /\ hook'.told = FALSE /\ hook'.seen = seen
    BY <1>0, <1>1, <1>2, <1>8, ReadsKeep
  <2>2. ReadInv'
    BY <2>1 DEF ReadInv, ReadAt, Reading
  <2>3. AnswerInv'
    <3> SUFFICES ASSUME ~ hook.mixed
                 PROVE  \E p \in m + 1 .. N : Follows(u, p)'
      BY <1>0, <1>1, <2>1 DEF AnswerInv, Unmixed
    <3>1. PICK p \in m + 1 .. N : About(u, PresenceEvent \cup {"cleanup"}, p)
      BY <1>8 DEF Quiet
    <3>2. ~ About(u, {"cleanup"}, p)
      BY <1>5, <3>1 DEF Quiet
    <3>3. About(u, PresenceEvent, p)
      BY <3>1, <3>2 DEF About
    <3>4. About(u, PresenceEvent, p)'
      BY <1>0, <3>3, HistoryStays
    <3>5. Follows(u, p)'
      BY <1>3, <1>4, <2>1, <3>1, <3>4 DEF Follows
    <3> QED BY <3>1, <3>5
  <2> QED BY <2>1, <2>2, <2>3
<1> QED BY <1>1, <1>2, <1>3, <1>4, <1>7, <1>8 DEF CheckMembers

\* What Show shows.
LEMMA Shown ==
  ASSUME hook \in HookState, hook.kind \in {"presence", "batch"}, NEW on \in BOOLEAN,
         NEW at \in 0..MaxEvents, NEW stale \in BOOLEAN, NEW failed \in BOOLEAN,
         Show(on, at, stale, failed)
  PROVE  /\ hook' \in HookState /\ hook'.kind = hook.kind /\ hook'.user = hook.user
         /\ hook'.fetch = "none" /\ hook'.upto = 0 /\ hook'.on = on /\ hook'.at = at
         /\ hook'.own = TRUE /\ hook'.stale = stale /\ hook'.failed = failed
         /\ hook'.mixed = hook.mixed
<1> DEFINE known == hook.kind = "batch"
<1>1. known \in BOOLEAN
  OBVIOUS
<1>2. hook' = [hook EXCEPT !.fetch = "none", !.upto = 0, !.told = FALSE, !.seen = 0,
                 !.on = on, !.at = at,
                 !.known = known, !.own = TRUE, !.stale = stale, !.failed = failed]
  BY DEF Show
<1> HIDE DEF known
<1>3. hook' \in HookState
  <2>1. hook' = [kind |-> hook.kind, user |-> hook.user, fetch |-> "none", upto |-> 0,
                 told |-> FALSE, seen |-> 0, on |-> on, at |-> at, known |-> known,
                 own |-> TRUE, failed |-> failed, stale |-> stale, mixed |-> hook.mixed]
    BY <1>2 DEF HookState
  <2>2. hook.user \in User \cup {None} /\ 0 \in 0..MaxEvents
    BY DEF HookState
  <2> QED BY <1>1, <2>1, <2>2 DEF HookState
<1>4. /\ hook'.kind = hook.kind /\ hook'.user = hook.user
      /\ hook'.fetch = "none" /\ hook'.upto = 0 /\ hook'.on = on /\ hook'.at = at
      /\ hook'.own = TRUE /\ hook'.stale = stale /\ hook'.failed = failed
      /\ hook'.mixed = hook.mixed
  BY <1>2 DEF HookState
<1> QED BY <1>3, <1>4

\* The answer is true of a place events have not gone beyond, or the event that
\* corrects it is under way; else it is stale.
LEMMA FetchAnsweredKeeps ==
  ASSUME Inv, ClientInv', FetchAnswered
  PROVE  HooksInv'
<1>0. /\ TypeOK /\ HooksInv /\ UNCHANGED <<clientVars, history, arrived, subscriptions>>
      /\ hook \in HookState /\ hook.fetch = "answer"
      /\ Len(history) \in 0..MaxEvents /\ arrived \in 0..Len(history)
  BY DEF Inv, HooksInv, TypeOK, FetchAnswered
<1>1. /\ hook.kind \in {"presence", "batch"} /\ hook.user \in User
      /\ hook.upto \in 0..Len(history) /\ hook.seen \in 0..MaxEvents
      /\ hook.told \in BOOLEAN
  BY <1>0 DEF HooksInv, FetchInv, SubscribedInv, Fetches, HookState, NoHook
<1>2. PICK m \in 0..Len(history) : m = hook.upto
  BY <1>1
<1>3. PICK u \in User : u = hook.user
  BY <1>1
<1>k. PICK k \in 0..Len(history) : k = arrived
  BY <1>0
<1> DEFINE stale == ~ Quiet(u, PresenceEvent, m, k)
<1>4. Show(hook.told, hook.seen, stale, FALSE)
  BY <1>2, <1>3, <1>k DEF FetchAnswered
<1>5. stale \in BOOLEAN
  OBVIOUS
<1>s. ~ stale => Quiet(u, PresenceEvent, m, k)
  OBVIOUS
<1> HIDE DEF stale
<1>7. /\ hook' \in HookState /\ hook'.kind = hook.kind /\ hook'.user = u
      /\ hook'.fetch = "none" /\ hook'.upto = 0 /\ hook'.on = hook.told
      /\ hook'.at = hook.seen /\ hook'.own = TRUE /\ hook'.stale = stale
      /\ hook'.mixed = hook.mixed
  BY <1>0, <1>1, <1>3, <1>4, <1>5, Shown
<1>8. TypeOK'
  BY <1>0, <1>7 DEF TypeOK, ClientInv
<1>9. SubscribedInv' /\ FetchInv' /\ ShownIsOwn'
  BY <1>0, <1>1, <1>3, <1>7 DEF HooksInv, SubscribedInv, FetchInv, ShownIsOwn
<1>r. ReadInv' /\ AnswerInv'
  BY <1>7, NothingRead
<1>10. RoomInv'
  BY <1>0 DEF HooksInv, RoomInv, InRoom, clientVars, serverVars
<1>11. TypingInv'
  BY <1>1, <1>7 DEF TypingInv
<1>12. PresenceInv'
  <2>0. /\ \A v, n : OnlineAt(v, n)' = OnlineAt(v, n)
        /\ \A v, types, n : About(v, types, n)' = About(v, types, n)
    BY <1>0, HistoryStays
  <2> SUFFICES ASSUME Unmixed, ~ stale
               PROVE  \E n \in arrived .. Len(history) : ShownAt(u, n)'
    BY <1>0, <1>7 DEF PresenceInv, Believes, Unmixed
  <2>1. TrueAt(u, m) \/ \E p \in m + 1 .. Len(history) : Follows(u, p)
    BY <1>0, <1>2, <1>3 DEF HooksInv, AnswerInv
  <2>2. CASE TrueAt(u, m) /\ m >= k
    <3>1. ShownAt(u, m)'
      BY <1>7, <2>0, <2>2 DEF ShownAt, TrueAt
    <3>2. m \in arrived .. Len(history)
      BY <1>0, <1>k, <2>2
    <3> QED BY <3>1, <3>2
  <2>3. CASE TrueAt(u, m) /\ m < k
    <3>2. OnlineAt(u, k) <=> OnlineAt(u, m)
      BY <1>s, <2>3, QuietSame DEF OnlineAt, PresenceEvent
    <3>3. OnlineAt(u, k) = OnlineAt(u, m)
      BY <3>2, BooleanAt
    <3>4. hook.seen <= k
      BY <1>0, <1>1, <2>3 DEF TrueAt
    <3>5. ShownAt(u, k)'
      BY <1>7, <2>0, <2>3, <3>3, <3>4 DEF ShownAt, TrueAt
    <3> QED BY <1>0, <1>k, <3>5
  <2>4. ASSUME NEW p \in m + 1 .. Len(history), Follows(u, p)
        PROVE  \E n \in arrived .. Len(history) : ShownAt(u, n)'
    <3>1. k < p
      BY <1>s, <2>4 DEF Quiet, Follows
    <3>2. arrived' < p /\ hook'.at <= p /\ p \in arrived .. Len(history)
      BY <1>0, <1>k, <1>7, <2>4, <3>1 DEF Follows
    <3>3. ShownAt(u, p)'
      BY <2>0, <2>4, <3>2 DEF ShownAt, Awaits, Follows
    <3> QED BY <3>2, <3>3
  <2> QED BY <2>1, <2>2, <2>3, <2>4
<1> QED BY <1>8, <1>9, <1>r, <1>10, <1>11, <1>12 DEF HooksInv

LEMMA FetchFailsKeeps ==
  ASSUME Inv, ClientInv', FetchFails
  PROVE  HooksInv'
<1>0. /\ TypeOK /\ HooksInv /\ UNCHANGED <<clientVars, history, arrived, subscriptions>>
      /\ hook \in HookState /\ 0 \in 0..MaxEvents /\ Len(history) \in Nat
  BY DEF Inv, HooksInv, TypeOK, FetchFails
<1>1. hook.kind \in {"presence", "batch"}
  BY <1>0 DEF FetchFails, HooksInv, FetchInv, Fetches
<1>2. /\ hook' \in HookState /\ hook'.kind = hook.kind /\ hook'.user = hook.user
      /\ hook'.fetch = "none" /\ hook'.upto = 0 /\ hook'.failed = TRUE
  <2>1. CASE hook' = [hook EXCEPT !.fetch = "none", !.upto = 0, !.told = FALSE,
                                  !.seen = 0, !.failed = TRUE]
    BY <1>0, <2>1 DEF HookState
  <2>2. CASE Show(FALSE, 0, FALSE, TRUE)
    BY <1>0, <1>1, <2>2, Shown
  <2> QED BY <2>1, <2>2 DEF FetchFails
<1>3. TypeOK'
  BY <1>0, <1>2 DEF TypeOK, ClientInv
<1>4. SubscribedInv' /\ FetchInv' /\ ShownIsOwn'
  BY <1>0, <1>1, <1>2 DEF HooksInv, SubscribedInv, FetchInv, ShownIsOwn
<1>r. ReadInv' /\ AnswerInv'
  BY <1>2, NothingRead
<1>5. RoomInv'
  BY <1>0 DEF HooksInv, RoomInv, InRoom, clientVars, serverVars
<1>6. PresenceInv' /\ TypingInv'
  BY <1>1, <1>2 DEF PresenceInv, Believes, TypingInv
<1> QED BY <1>3, <1>4, <1>r, <1>5, <1>6 DEF HooksInv

\* An event that is not older than the state decides it; one that is, or that the
\* hook does not look at, leaves what was shown true.
LEMMA DeliverKeeps ==
  ASSUME Inv, ClientInv', Deliver
  PROVE  HooksInv'
<1>0. /\ TypeOK /\ HooksInv /\ UNCHANGED <<clientVars, history, subscriptions>>
      /\ hook \in HookState /\ history \in Seq(Event)
      /\ arrived \in 0..Len(history) /\ arrived < Len(history)
  BY DEF Inv, HooksInv, TypeOK, Deliver
<1>1. PICK N \in Nat : N = Len(history)
  BY <1>0
<1>2. PICK time \in 1..N : time = arrived + 1
  BY <1>0, <1>1
<1>3. PICK event \in Event : event = history[time]
  BY <1>0, <1>1, <1>2
<1>4. /\ arrived' = time /\ time \in 0..MaxEvents /\ InRoom'
      /\ hook.at \in 0..MaxEvents /\ time - 1 \in Nat /\ arrived = time - 1
  <2>1. InRoom /\ UNCHANGED session
    BY <1>0 DEF HooksInv, RoomInv, clientVars, serverVars
  <2>2. N <= MaxEvents /\ hook.at \in 0..MaxEvents /\ MaxEvents \in Nat
    BY <1>0, <1>1 DEF TypeOK, HookState
  <2>3. arrived' = time
    BY <1>2 DEF Deliver
  <2>4. arrived \in Nat
    BY <1>0, <1>1
  <2>5. InRoom'
    BY <2>1 DEF InRoom, Running
  <2> QED BY <1>2, <2>2, <2>3, <2>4, <2>5
<1>5. \A u, n : /\ OnlineAt(u, n)' = OnlineAt(u, n)
                /\ TypingAt(u, n)' = TypingAt(u, n)
  BY <1>0, HistoryStays
<1>6. CASE event.user \in subscriptions /\ Heeds(hook, event, time)
  <2>0. PICK u \in User : u = event.user
    BY DEF Event
  <2>1. hook.kind # "none" /\ hook.user = u
    BY <1>0, <1>6, <2>0 DEF HooksInv, SubscribedInv
  <2> DEFINE on == event.type \in {"user_online", "typing_start"}
             at == IF hook.kind = "batch" THEN 0 ELSE time
             mixed == hook.mixed /\ hook.fetch # "none"
  <2>2. on \in BOOLEAN /\ at \in 0..MaxEvents /\ at <= time
    BY <1>4
  <2>x. mixed \in BOOLEAN /\ (hook.fetch # "none" => mixed = hook.mixed)
    BY <1>0 DEF HookState
  <2>3. hook' = [hook EXCEPT !.on = on, !.at = at, !.own = TRUE, !.failed = FALSE,
                             !.stale = FALSE, !.mixed = mixed]
    BY <1>2, <1>3, <1>6 DEF Deliver, Updated
  <2>on. /\ hook.kind # "typing" => (on <=> LastIs(u, PresenceEvent, "user_online", time))
         /\ hook.kind = "typing" => (on <=> LastIs(u, TypingEvent, "typing_start", time))
    <3>1. About(u, Relevant(hook), time)
      BY <1>3, <1>6, <2>0 DEF About, Heeds
    <3>2. time \in Nat \ {0}
      OBVIOUS
    <3>3. CASE hook.kind # "typing"
      <4>1. Relevant(hook) = PresenceEvent /\ event.type \in PresenceEvent
        BY <1>6, <3>3 DEF Heeds, Relevant
      <4>2. LastIs(u, PresenceEvent, "user_online", time) <=> history[time].type = "user_online"
        BY <3>1, <3>2, <4>1, EventDecides DEF PresenceEvent
      <4> QED BY <1>3, <3>3, <4>1, <4>2 DEF PresenceEvent
    <3>4. CASE hook.kind = "typing"
      <4>1. Relevant(hook) = TypingEvent /\ event.type \in TypingEvent
        BY <1>6, <3>4 DEF Heeds, Relevant
      <4>2. LastIs(u, TypingEvent, "typing_start", time) <=> history[time].type = "typing_start"
        BY <3>1, <3>2, <4>1, EventDecides DEF TypingEvent
      <4> QED BY <1>3, <3>4, <4>1, <4>2 DEF TypingEvent
    <3> QED BY <3>3, <3>4
  <2> HIDE DEF on, at, mixed
  <2>4. /\ hook'.kind = hook.kind /\ hook'.user = u /\ hook'.fetch = hook.fetch
        /\ hook'.upto = hook.upto /\ hook'.on = on /\ hook'.at = at
        /\ hook'.own = TRUE /\ hook'.told = hook.told /\ hook'.seen = hook.seen
        /\ hook'.mixed = mixed
    BY <1>0, <2>1, <2>3 DEF HookState
  <2>5. hook' \in HookState
    <3>1. hook' = [kind |-> hook.kind, user |-> hook.user, fetch |-> hook.fetch,
                   upto |-> hook.upto, told |-> hook.told, seen |-> hook.seen, on |-> on,
                   at |-> at, known |-> hook.known, own |-> TRUE, failed |-> FALSE,
                   stale |-> FALSE, mixed |-> mixed]
      BY <1>0, <2>3 DEF HookState
    <3> QED BY <1>0, <2>2, <2>x, <3>1 DEF HookState
  <2>6. TypeOK'
    BY <1>0, <1>1, <1>4, <2>5 DEF TypeOK, ClientInv
  <2>7. SubscribedInv' /\ FetchInv' /\ ShownIsOwn'
    BY <1>0, <2>1, <2>4 DEF HooksInv, SubscribedInv, FetchInv, ShownIsOwn
  <2>r. ReadInv' /\ AnswerInv'
    BY <1>0, <2>1, <2>4, <2>x, FetchStays DEF HooksInv, SameFetch
  <2>8. RoomInv'
    BY <1>4 DEF RoomInv
  <2>9. PresenceInv'
    <3> SUFFICES ASSUME hook.kind # "typing"
                 PROVE  \E n \in time .. N : ShownAt(u, n)'
      BY <1>0, <1>1, <1>4, <2>4 DEF PresenceInv, Believes, Fetches
    <3>1. on <=> OnlineAt(u, time)
      BY <2>on DEF OnlineAt
    <3>2. on = OnlineAt(u, time)
      BY <2>2, <3>1, BooleanAt
    <3>3. ShownAt(u, time)'
      BY <1>5, <2>2, <2>4, <3>2 DEF ShownAt
    <3> QED BY <1>2, <3>3
  <2>10. TypingInv'
    <3> SUFFICES ASSUME hook.kind = "typing"
                 PROVE  on => TypingAt(u, time)
      BY <1>4, <1>5, <2>2, <2>4 DEF TypingInv
    <3> QED BY <2>on DEF TypingAt
  <2> QED BY <2>6, <2>7, <2>r, <2>8, <2>9, <2>10 DEF HooksInv
<1>7. CASE ~ (event.user \in subscriptions /\ Heeds(hook, event, time))
  <2>0. hook' = hook
    BY <1>2, <1>3, <1>7 DEF Deliver
  <2>1. TypeOK'
    BY <1>0, <1>1, <1>4, <2>0 DEF TypeOK, ClientInv
  <2>2. SubscribedInv' /\ FetchInv' /\ ShownIsOwn'
    BY <1>0, <2>0 DEF HooksInv, SubscribedInv, FetchInv, ShownIsOwn
  <2>r. ReadInv' /\ AnswerInv'
    BY <1>0, <2>0, FetchStays DEF HooksInv, SameFetch
  <2>3. RoomInv'
    BY <1>4 DEF RoomInv
  <2>4. PresenceInv'
    <3> SUFFICES ASSUME Believes, NEW u \in {hook.user}
                 PROVE  \E n \in time .. N : ShownAt(u, n)'
      BY <1>0, <1>1, <1>4, <2>0 DEF PresenceInv, Believes, Unmixed
    <3>1. PICK n \in arrived .. N : ShownAt(u, n)
      BY <1>0, <1>1 DEF HooksInv, PresenceInv
    <3>h. subscriptions = {hook.user} /\ Relevant(hook) = PresenceEvent
      BY <1>0 DEF HooksInv, SubscribedInv, Believes, Fetches, Relevant
    <3>2. CASE n >= time
      <4>1. Awaits(u, n) => n > time
        <5> SUFFICES ASSUME About(u, PresenceEvent, time), hook.at <= time
                     PROVE  FALSE
          BY <1>4, <3>1, <3>2 DEF Awaits, ShownAt
        <5>1. event.user = u /\ event.type \in PresenceEvent
          BY <1>3 DEF About
        <5> QED BY <1>4, <1>7, <3>h, <5>1 DEF Heeds, Believes
      <4>2. About(u, PresenceEvent, n)' = About(u, PresenceEvent, n)
        BY <1>0, HistoryStays
      <4>3. ShownAt(u, n)'
        BY <1>4, <1>5, <2>0, <3>1, <4>1, <4>2 DEF ShownAt, Awaits
      <4> QED BY <1>4, <3>1, <3>2, <4>3
    <3>3. CASE n < time
      <4>1. n = time - 1 /\ hook.at <= time /\ hook.on = OnlineAt(u, n)
        BY <1>4, <3>1, <3>3 DEF ShownAt, Awaits
      <4>2. subscriptions = {hook.user} /\ Relevant(hook) = PresenceEvent
        BY <3>h
      <4>3. event.user # u \/ event.type \notin PresenceEvent
        BY <1>4, <1>7, <4>1, <4>2 DEF Heeds, Believes
      <4>4. ~ About(u, PresenceEvent, (time - 1) + 1)
        BY <1>3, <4>3 DEF About
      <4>5. Quiet(u, PresenceEvent, time - 1, time)
        BY <1>4, <4>4, StepQuiet
      <4>6. OnlineAt(u, time) <=> OnlineAt(u, time - 1)
        BY <1>4, <4>5, QuietSame DEF OnlineAt, PresenceEvent
      <4>7. OnlineAt(u, time) = OnlineAt(u, time - 1)
        BY <4>6, BooleanAt
      <4>8. ShownAt(u, time)'
        BY <1>5, <2>0, <3>1, <4>1, <4>7 DEF ShownAt
      <4> QED BY <1>2, <4>8
    <3> QED BY <1>4, <3>1, <3>2, <3>3
  <2>5. TypingInv'
    <3> SUFFICES ASSUME hook.kind = "typing"
                 PROVE  /\ hook.at <= time
                        /\ \A u \in {hook.user} : hook.on /\ ~ hook.stale =>
                             TypingAt(u, time)
      BY <1>4, <1>5, <2>0 DEF TypingInv
    <3>1. hook.at <= time - 1 /\ hook.at <= time
      BY <1>0, <1>4 DEF HooksInv, TypingInv
    <3>2. ASSUME NEW u \in {hook.user}, hook.on, ~ hook.stale
          PROVE  TypingAt(u, time)
      <4>1. TypingAt(u, time - 1)
        BY <1>0, <1>4, <3>2 DEF HooksInv, TypingInv
      <4>2. subscriptions = {u} /\ Relevant(hook) = TypingEvent
        BY <1>0, <3>2 DEF HooksInv, SubscribedInv, Relevant
      <4>3. event.user # u \/ event.type \notin TypingEvent
        BY <1>4, <1>7, <3>1, <4>2 DEF Heeds
      <4>4. ~ About(u, TypingEvent, (time - 1) + 1)
        BY <1>3, <4>3 DEF About
      <4>5. Quiet(u, TypingEvent, time - 1, time)
        BY <1>4, <4>4, StepQuiet
      <4> QED BY <1>4, <4>1, <4>5, QuietSame DEF TypingAt, TypingEvent
    <3> QED BY <3>1, <3>2
  <2> QED BY <2>1, <2>2, <2>r, <2>3, <2>4, <2>5 DEF HooksInv
<1> QED BY <1>6, <1>7

-----------------------------------------------------------------------------
(* The theorems *)

LEMMA InvStarts == Init => Inv
BY ClientStarts, HooksStart DEF Init, Inv

LEMMA ClientInvKept ==
  ASSUME ClientInv, UNCHANGED clientVars
  PROVE  ClientInv'
BY DEF ClientInv, ClientTypeOK, NeverGivesUp, DownStaysDown, TimerSparesSocket,
       HeartbeatKeepsSession, JoiningInv, SessionInv, PingInv, RefreshInv, Running,
       clientVars, serverVars

LEMMA InvKept ==
  ASSUME Inv, UNCHANGED vars
  PROVE  Inv'
<1>1. ClientInv'
  BY ClientInvKept DEF Inv, vars
<1>2. /\ \A u, n : OnlineAt(u, n)' = OnlineAt(u, n) /\ TypingAt(u, n)' = TypingAt(u, n)
      /\ \A u, types, n : About(u, types, n)' = About(u, types, n)
  BY HistoryStays DEF vars, hookVars
<1>3. HooksInv
  BY DEF Inv
<1>4. TypeOK' /\ SubscribedInv' /\ FetchInv' /\ RoomInv' /\ ShownIsOwn'
  BY <1>1, <1>3 DEF HooksInv, TypeOK, ClientInv, SubscribedInv, FetchInv, RoomInv, InRoom,
     ShownIsOwn, vars, hookVars, clientVars, serverVars
<1>r. ReadInv' /\ AnswerInv'
  BY <1>3, FetchStays DEF HooksInv, SameFetch, vars, hookVars
<1>5. PresenceInv'
  <2> SUFFICES ASSUME Believes, NEW u \in {hook.user}
               PROVE  \E n \in arrived .. Len(history) : ShownAt(u, n)'
    BY DEF PresenceInv, Believes, Unmixed, vars, hookVars
  <2>1. PICK n \in arrived .. Len(history) : ShownAt(u, n)
    BY <1>3 DEF HooksInv, PresenceInv
  <2> QED BY <1>2, <2>1 DEF ShownAt, Awaits, vars, hookVars
<1>6. TypingInv'
  BY <1>2, <1>3 DEF HooksInv, TypingInv, vars, hookVars
<1> QED BY <1>1, <1>4, <1>r, <1>5, <1>6 DEF Inv, HooksInv

LEMMA InvKeeps ==
  ASSUME Inv, [Next]_vars
  PROVE  Inv'
<1>1. CASE ClientActs
  BY <1>1, ClientKeeps, ClientActsKeeps DEF Inv, ClientActs
<1>2. ASSUME NEW u \in User, NEW type \in PresenceEvent \cup TypingEvent,
             Announce(u, type)
      PROVE  Inv'
  BY <1>2, ClientInvKept, AnnounceKeeps DEF Inv, Announce
<1>3. ASSUME NEW u \in User, NEW kind \in {"presence", "batch", "typing"},
             Mount(kind, u) \/ ChangeUser(u) \/ Unmount
      PROVE  Inv'
  BY <1>3, ClientInvKept, EffectsKeep DEF Inv, Mount, ChangeUser, Unmount
<1>4. CASE Unmount /\ User = {}
  <2>1. ClientInv' /\ hook.kind # "none"
    BY <1>4, ClientInvKept DEF Inv, Unmount, HooksInv, SubscribedInv
  <2> QED BY <1>4, <2>1 DEF Inv, HooksInv, SubscribedInv
<1>5. ASSUME ReadCount \/ ReadLastSeen \/ ReadMembers \/ CheckMembers
      PROVE  Inv'
  <2>1. ClientInv'
    BY <1>5, ClientInvKept DEF Inv, ReadCount, ReadLastSeen, ReadMembers, CheckMembers, Reads
  <2> QED BY <1>5, <2>1, ReadCountKeeps, ReadLastSeenKeeps, ReadMembersKeeps,
             CheckMembersKeeps DEF Inv
<1>c. ASSUME NEW u \in User, Cleanup(u)
      PROVE  Inv'
  BY <1>c, ClientInvKept, CleanupKeeps DEF Inv, Cleanup
<1>6. CASE FetchAnswered
  BY <1>6, ClientInvKept, FetchAnsweredKeeps DEF Inv, FetchAnswered
<1>7. CASE FetchFails
  BY <1>7, ClientInvKept, FetchFailsKeeps DEF Inv, FetchFails
<1>8. CASE Deliver
  BY <1>8, ClientInvKept, DeliverKeeps DEF Inv, Deliver
<1>9. CASE UNCHANGED vars
  BY <1>9, InvKept
<1> QED BY <1>1, <1>2, <1>3, <1>4, <1>5, <1>c, <1>6, <1>7, <1>8, <1>9 DEF Next

\* The inductive invariant: the timers of the client, and what each hook may believe.
THEOREM InvHolds == Spec => []Inv
<1>1. Inv /\ [Next]_vars => Inv'
  BY InvKeeps
<1> QED BY <1>1, InvStarts, PTL DEF Spec

\* Every variable of the client and of its hooks keeps its type (TypeOK): the
\* delay of the next attempt stays within MAX_RECONNECT_DELAY_MS.
THEOREM HooksTypes == Spec => []TypeOK
<1>1. Inv => TypeOK
  BY DEF Inv, HooksInv
<1> QED BY <1>1, InvHolds, PTL

\* A client that was told to connect has a socket or a timer that will open one:
\* scheduleReconnect never leaves it with neither.
THEOREM ReconnectGoesOn == Spec => []NeverGivesUp
<1>1. Inv => NeverGivesUp
  BY DEF Inv, ClientInv
<1> QED BY <1>1, InvHolds, PTL

\* disconnect() leaves no timer and no heartbeat that could open or use a socket.
THEOREM DisconnectClears == Spec => []DownStaysDown
<1>1. Inv => DownStaysDown
  BY DEF Inv, ClientInv
<1> QED BY <1>1, InvHolds, PTL

\* The reconnect timer drops a socket only when connect() came upon the timer.
THEOREM HealthySocketSpared == Spec => []TimerSparesSocket
<1>1. Inv => TimerSparesSocket
  BY DEF Inv, ClientInv
<1> QED BY <1>1, InvHolds, PTL

\* The session of a connected client never reaches SESSION_TTL_SECONDS, for all
\* intervals, gaps and latencies that TimesAssumption allows.
THEOREM SessionKept == Spec => []HeartbeatKeepsSession
<1>1. Inv => HeartbeatKeepsSession
  BY DEF Inv, ClientInv
<1> QED BY <1>1, InvHolds, PTL

\* A hook shows the user it was given, but while a fetch is under way or failed.
THEOREM ShownAsAsked == Spec => []ShownIsOwn
<1>1. Inv => ShownIsOwn
  BY DEF Inv, HooksInv
<1> QED BY <1>1, InvHolds, PTL

\* A hook that believes what it shows shows the user as he is when no event is
\* under way.
LEMMA BelievesRight ==
  ASSUME Inv, Believes, arrived = Len(history)
  PROVE  hook.on = OnlineAt(hook.user, Len(history))
<1>1. Len(history) \in Nat /\ PresenceInv
  BY DEF Inv, HooksInv, TypeOK
<1>2. PICK n \in arrived .. Len(history) : ShownAt(hook.user, n)
  BY <1>1 DEF PresenceInv
<1>3. n = Len(history)
  BY <1>1, <1>2
<1> QED BY <1>1, <1>2, <1>3 DEF ShownAt, Awaits

\* usePresence settles on the user as he is, wherever the four commands of getPresence,
\* its answer and the events fell (PresenceSettles).  Excepted are a failed fetch, an
\* event missed or overwritten, and a session cleaned up without an event between the
\* commands: there the answer may be wrong, and stay.
THEOREM PresenceIsRight == Spec => []PresenceSettles
<1>1. Inv => PresenceSettles
  BY BelievesRight DEF PresenceSettles, Trusted, Settled, Believes, Unmixed, Fetches
<1> QED BY <1>1, InvHolds, PTL

\* So does usePresenceBatch for a user in its record, though it compares no times: its
\* answer is one SCARD, which no cleanup mixes.
THEOREM BatchIsRight == Spec => []BatchSettles
<1>1. Inv => BatchSettles
  BY BelievesRight DEF BatchSettles, Trusted, Settled, Believes, Unmixed, Fetches
<1> QED BY <1>1, InvHolds, PTL

\* useTyping never goes on showing someone who has stopped, unless it missed it.
THEOREM TypingIsRight == Spec => []TypingSettles
<1>1. Inv => TypingSettles
  BY DEF Inv, HooksInv, TypingInv, TypingSettles, Trusted, Settled
<1> QED BY <1>1, InvHolds, PTL
=============================================================================
