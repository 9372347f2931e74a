---------------------------- MODULE PresenceClient ----------------------------
(***************************************************************************)
(* The connection of PresenceClient (packages/sdk/src/index.ts): its       *)
(* socket, the reconnect timer and the heartbeat, with what ws-service     *)
(* does about the pings (handlePing of presence.gateway.ts).                *)
(*                                                                         *)
(* The heartbeat and the life of the session are timed: a unit of time     *)
(* passes in Tick, which waits for what is due.  The reconnect timer is    *)
(* not: its delay is kept, and it may end at any moment.                   *)
(***************************************************************************)
EXTENDS Integers

CONSTANTS
  Interval,  \* HEARTBEAT_INTERVAL_MS
  MinGap,    \* MIN_HEARTBEAT_INTERVAL_MS
  Ttl,       \* SESSION_TTL_SECONDS
  Latency,   \* assumed: the longest way of a ping, the longest registration
  MaxDelay   \* MAX_RECONNECT_DELAY_MS, in units of INITIAL_RECONNECT_DELAY_MS

\* A network that carries a ping in 10 s is good enough for 15 s, 5 s and 30 s.
ASSUME TimesAssumption ==
  /\ {Interval, MinGap, Ttl, Latency, MaxDelay} \subseteq Nat \ {0}
  /\ Latency + MinGap <= Interval
  /\ Interval + Latency < Ttl

\* A clock that does not run.
Off == -1
Running(clock) == clock # Off

VARIABLES
  wanted,    \* shouldReconnect, which is to say: activeOptions are to be used
  socket,    \* this.socket; sockets it held before are detached and closed
  timer,     \* reconnectTimeoutId is set
  delay,     \* reconnectDelayMs
  beat,      \* heartbeatIntervalId: time since it went off
  ping,      \* a ping under way or, while connecting, kept by the socket: its age
  joining,   \* time since the socket connected, until the server has registered it
  session,   \* age of its session since it was registered or refreshed
  pinged,    \* time since lastPingAt, up to MinGap
  recalled   \* history: connect() came upon a pending timer

serverVars == <<joining, session, pinged>>
clientVars == <<wanted, socket, timer, delay, beat, ping, serverVars, recalled>>

ClientTypeOK ==
  /\ wanted \in BOOLEAN
  /\ socket \in {"none", "connecting", "connected", "closed"}
  /\ timer \in BOOLEAN
  /\ delay \in 1..MaxDelay
  /\ beat \in Off..Interval
  /\ ping \in Off..Latency
  /\ joining \in Off..Latency
  /\ session \in Off..Ttl
  /\ pinged \in 0..MinGap
  /\ recalled \in BOOLEAN

ClientInit ==
  /\ wanted = FALSE /\ socket = "none"
  /\ timer = FALSE /\ delay = 1
  /\ beat = Off /\ ping = Off
  /\ joining = Off /\ session = Off /\ pinged = MinGap
  /\ recalled = FALSE

-----------------------------------------------------------------------------
(* Connecting.  Definitions named Mut... are faults a change could introduce. *)

\* The server knows nothing of the socket that is there from now on.
NoSession == joining' = Off /\ session' = Off /\ pinged' = MinGap

\* connectSocket: the socket before is dropped without an event, so that a
\* heartbeat goes on.
OpenSocket ==
  /\ socket' = "connecting"
  /\ ping' = Off
  /\ NoSession

Connect ==
  /\ wanted' = TRUE
  /\ OpenSocket
  /\ recalled' = timer
  /\ UNCHANGED <<timer, delay, beat>>

MutDisconnect ==
  /\ wanted' = FALSE
  /\ socket' = "none"
  /\ beat' = Off /\ ping' = Off
  /\ NoSession
  /\ UNCHANGED <<timer, delay, recalled>>

Disconnect ==
  /\ wanted' = FALSE
  /\ socket' = "none"
  /\ beat' = Off /\ ping' = Off
  /\ timer' = FALSE /\ recalled' = FALSE
  /\ NoSession
  /\ UNCHANGED delay

MutDoubled(d) == 2 * d

Doubled(d) == IF 2 * d > MaxDelay THEN MaxDelay ELSE 2 * d

ScheduleReconnect ==
  IF wanted /\ ~ timer
  THEN timer' = TRUE /\ delay' = Doubled(delay)
  ELSE UNCHANGED <<timer, delay>>

MutReconnect ==
  /\ timer
  /\ OpenSocket
  /\ UNCHANGED <<wanted, delay, beat, timer, recalled>>

Reconnect ==
  /\ timer
  /\ timer' = FALSE /\ recalled' = FALSE
  /\ OpenSocket
  /\ UNCHANGED <<wanted, delay, beat>>

MutOnConnect ==
  /\ socket = "connecting"
  /\ socket' = "connected"
  /\ delay' = 1
  /\ joining' = 0
  /\ UNCHANGED <<wanted, timer, beat, ping, session, pinged, recalled>>

\* connect: the heartbeat starts anew, and a ping that was kept is sent.
OnConnect ==
  /\ socket = "connecting"
  /\ socket' = "connected"
  /\ delay' = 1
  /\ beat' = 0
  /\ ping' = IF Running(ping) THEN 0 ELSE Off
  /\ joining' = 0
  /\ UNCHANGED <<wanted, timer, session, pinged, recalled>>

MutOnClose ==
  /\ socket \in {"connecting", "connected"}
  /\ socket' = "closed"
  /\ beat' = Off /\ ping' = Off
  /\ IF socket = "connected" THEN ScheduleReconnect ELSE UNCHANGED <<timer, delay>>
  /\ NoSession
  /\ UNCHANGED <<wanted, recalled>>

\* disconnect and connect_error: the network or the server ended it.
OnClose ==
  /\ socket \in {"connecting", "connected"}
  /\ socket' = "closed"
  /\ beat' = Off /\ ping' = Off
  /\ ScheduleReconnect
  /\ NoSession
  /\ UNCHANGED <<wanted, recalled>>

-----------------------------------------------------------------------------
(* The heartbeat *)

\* A socket that is not connected yet keeps what it is given.
Beat ==
  /\ beat = Interval
  /\ beat' = 0
  /\ ping' = 0
  /\ UNCHANGED <<wanted, socket, timer, delay, serverVars, recalled>>

\* handlePing: a socket that is not registered, and a ping that comes too early,
\* are ignored.
HandlePing ==
  /\ socket = "connected" /\ Running(ping)
  /\ ping' = Off
  /\ IF Running(session) /\ pinged >= MinGap
     THEN session' = 0 /\ pinged' = 0
     ELSE UNCHANGED <<session, pinged>>
  /\ UNCHANGED <<wanted, socket, timer, delay, beat, joining, recalled>>

\* handleConnection ends: with a session, or it failed and the socket stays open
\* without one.
Registered ==
  /\ Running(joining)
  /\ joining' = Off
  /\ \/ session' = 0
     \/ UNCHANGED session
  /\ UNCHANGED <<wanted, socket, timer, delay, beat, ping, pinged, recalled>>

Older(clock) == IF Running(clock) THEN clock + 1 ELSE Off

\* A heartbeat that is due goes off first, what is under way has arrived.
Tick ==
  /\ Running(beat) /\ beat < Interval
  /\ ping < Latency /\ joining < Latency /\ session < Ttl
  /\ beat' = beat + 1
  /\ ping' = IF socket = "connected" THEN Older(ping) ELSE ping
  /\ joining' = Older(joining)
  /\ session' = Older(session)
  /\ pinged' = IF pinged < MinGap THEN pinged + 1 ELSE pinged
  /\ UNCHANGED <<wanted, socket, timer, delay, recalled>>

ClientStep ==
  \/ Connect \/ Disconnect \/ Reconnect \/ OnConnect \/ OnClose
  \/ Beat \/ HandlePing \/ Registered \/ Tick

-----------------------------------------------------------------------------
(* Properties *)

\* A client that was told to connect does not give up: it has a socket that is
\* open or opening, or a timer that will open one.
NeverGivesUp == wanted => socket \in {"connecting", "connected"} \/ timer

\* After disconnect() nothing stays behind: no socket, no timer, no heartbeat.
DownStaysDown == ~ wanted => socket = "none" /\ ~ timer /\ ~ Running(beat)

\* The reconnect timer drops a socket that is open or opening only when the
\* application called connect() while the timer was pending.
TimerSparesSocket == timer /\ socket \in {"connecting", "connected"} => recalled

\* The heartbeat runs while the socket is connected, and keeps its session from
\* lapsing, whatever the pings and the throttle of the server do within Latency.
HeartbeatKeepsSession ==
  /\ socket = "connected" => Running(beat)
  /\ Running(beat) => socket \in {"connecting", "connected"}
  /\ session < Ttl
=============================================================================
