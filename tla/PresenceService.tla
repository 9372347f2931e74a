--------------------------- MODULE PresenceService ---------------------------
(***************************************************************************)
(* The session core of ws-service: PresenceService                         *)
(* (apps/ws-service/src/presence/presence.service.ts) over the Redis keys  *)
(* of libs/redis.                                                          *)
(*                                                                         *)
(* Every async operation of the service (a registration, a cleanup, a      *)
(* heartbeat, a reconciliation sweep) is a slot of Op.  Between two awaits *)
(* an operation has exactly one Redis command in flight; op[o].pc names    *)
(* it.  All commands travel on the one shared connection of libs/redis, so *)
(* Redis executes them, and the service sees the replies, in the order in  *)
(* which they were issued: pipe is that order.  A step executes the        *)
(* command at the head of the pipe and runs the code after its await up to *)
(* the next command.  Expired-key messages come on the second (subscribing)*)
(* connection and are ordered with nothing.                                *)
(***************************************************************************)
EXTENDS Integers, Sequences, FiniteSets

CONSTANTS
  User,          \* identities: (tenantId, userId) pairs
  ColonUser,     \* the identities whose userId contains the key separator
  Session,       \* session ids randomUUID may produce
  Worker,        \* slots for operations started by sockets and key expiry
  Sweeper,       \* slots for reconciliation sweeps
  None,          \* absence of an identity or of a session
  MaxCollisions, \* bound: id collisions met by one registration
  MaxFailures,   \* bound: Redis commands that fail or whose reply is lost
  MaxCrashes,    \* bound: crashes of the process
  MaxClock       \* bound: readings of the Redis clock

ASSUME PresenceAssumption ==
  /\ ColonUser \subseteq User
  /\ None \notin User
  /\ None \notin Session
  /\ Worker \cap Sweeper = {}
  /\ MaxCollisions \in Nat
  /\ MaxFailures \in Nat
  /\ MaxCrashes \in Nat
  /\ MaxClock \in Nat \ {0}

Op == Worker \cup Sweeper
SESSION_COLLISION_RETRY_LIMIT == 1

VARIABLES
  \* Redis
  sessionHash,   \* session:{sid}: the identity in the hash, None if no key
  userSessions,  \* user_sessions:{tenant}:{user}
  lastSeen,      \* last_seen:{tenant}:{user}, 0 if no key
  clock,         \* the last answer of TIME
  \* the ws-service process
  phase,         \* "down", "booting", "listening"
  identityCache, \* sessionIdentityBySessionId
  op,            \* the operations in progress
  pipe,          \* the order of their commands on the shared connection
  assigned,      \* session ids registerConnection returned to its caller
  \* the environment
  expired,       \* expired-key messages on their way to the service
  used,          \* session ids that were registered (randomUUID is unique)
  events,        \* what was broadcast about each identity, in order
  failures, crashes

redisVars  == <<sessionHash, userSessions, lastSeen>>
memoryVars == <<identityCache, assigned, events>>
flowVars   == <<op, pipe>>
otherVars  == <<clock, phase, expired, used, failures, crashes>>
vars == <<sessionHash, userSessions, lastSeen, clock, phase, identityCache,
          op, pipe, assigned, expired, used, events, failures, crashes>>

-----------------------------------------------------------------------------
(* Types *)

RegisterPc == {"reg_smembers", "reg_exists", "reg_srem", "reg_time",
               "reg_script"}
PublishPc  == {"pub_online", "pub_offline"}
CleanupPc  == {"cln_hgetall", "cln_time", "cln_script"}
RefreshPc  == {"ref_time", "ref_script"}
SweepPc    == {"swp_scan", "swp_smembers", "swp_exists", "swp_srem",
               "swp_scard", "swp_time", "swp_set", "swp_publish"}
OrphanPc   == {"orph_scan", "orph_hgetall", "orph_sismember", "orph_del"}
Pc == {"idle"} \cup RegisterPc \cup PublishPc \cup CleanupPc \cup RefreshPc
        \cup SweepPc \cup OrphanPc

EventType == {"user_online", "user_offline"}

\* The locals of an operation: the command it awaits, the identity and the
\* session it works on, the ids it read from the session set (later: the stale
\* ones), the time it read, its collisions, what a sweep has still to visit.
OpState == [pc: Pc, user: User \cup {None}, sid: Session \cup {None},
            ids: SUBSET Session, now: Nat, tries: Nat,
            todoUsers: SUBSET User, todoSids: SUBSET Session]

Idle == [pc |-> "idle", user |-> None, sid |-> None, ids |-> {}, now |-> 0,
         tries |-> 0, todoUsers |-> {}, todoSids |-> {}]

TypeOK ==
  /\ sessionHash \in [Session -> User \cup {None}]
  /\ userSessions \in [User -> SUBSET Session]
  /\ lastSeen \in [User -> Nat]
  /\ clock \in Nat \ {0}
  /\ phase \in {"down", "booting", "listening"}
  /\ identityCache \in [Session -> User \cup {None}]
  /\ op \in [Op -> OpState]
  /\ pipe \in Seq(Op)
  /\ assigned \in SUBSET Session
  /\ expired \in SUBSET Session
  /\ used \in SUBSET Session
  /\ events \in [User -> Seq(EventType)]
  /\ failures \in Nat
  /\ crashes \in Nat

Init ==
  /\ sessionHash = [s \in Session |-> None]
  /\ userSessions = [u \in User |-> {}]
  /\ lastSeen = [u \in User |-> 0]
  /\ clock = 1
  /\ phase = "booting"
  /\ identityCache = [s \in Session |-> None]
  /\ op = [o \in Op |-> Idle]
  /\ pipe = << >>
  /\ assigned = {}
  /\ expired = {}
  /\ used = {}
  /\ events = [u \in User |-> << >>]
  /\ failures = 0
  /\ crashes = 0

-----------------------------------------------------------------------------
(* The calling convention of an operation *)

\* Operation o starts and issues its first command.
Start(o, state) ==
  /\ op[o] = Idle
  /\ op' = [op EXCEPT ![o] = state]
  /\ pipe' = Append(pipe, o)

\* The command that o awaits is the next one Redis executes.
AtHead(o, pc) ==
  /\ phase # "down"
  /\ pipe # << >>
  /\ Head(pipe) = o
  /\ op[o].pc = pc

\* After its reply, o issues the command named in its new state.
Await(o, state) ==
  /\ op' = [op EXCEPT ![o] = state]
  /\ pipe' = Append(Tail(pipe), o)

\* After its reply, o returns (or its promise is rejected).
Return(o) ==
  /\ op' = [op EXCEPT ![o] = Idle]
  /\ pipe' = Tail(pipe)

\* Definitions named Mut... are faults a change could introduce; no action
\* uses them.  The runs' properties are tried against them.
MutStaleUnchecked(ids) == ids
MutStaleCachedOnly(ids) ==
  {s \in ids : sessionHash[s] = None /\ identityCache[s] # None}

\* The ids of a snapshot whose session key no longer exists.
Stale(ids) == {s \in ids : sessionHash[s] = None}

MutForgetNothing(ids) == UNCHANGED identityCache

Forget(ids) ==
  identityCache' = [s \in Session |-> IF s \in ids THEN None
                                                   ELSE identityCache[s]]

-----------------------------------------------------------------------------
(* registerConnection *)

\* Bound: as many registrations as there are session ids.
SessionIdsLeft ==
  Cardinality(used) + Cardinality({o \in Op : op[o].pc \in RegisterPc})
    < Cardinality(Session)

RegisterConnection(o, u) ==
  /\ phase # "down"
  /\ SessionIdsLeft
  /\ Start(o, [Idle EXCEPT !.pc = "reg_smembers", !.user = u])
  /\ UNCHANGED <<redisVars, memoryVars, otherVars>>

\* pruneStaleSessions: SMEMBERS, then EXISTS of each, then SREM.
PruneRead(o) ==
  LET u == op[o].user IN
  /\ AtHead(o, "reg_smembers")
  /\ \/ /\ userSessions[u] = {}
        /\ Await(o, [op[o] EXCEPT !.pc = "reg_time"])
     \/ /\ userSessions[u] # {}
        /\ Await(o, [op[o] EXCEPT !.pc = "reg_exists",
                                  !.ids = userSessions[u]])
  /\ UNCHANGED <<redisVars, memoryVars, otherVars>>

PruneCheck(o) ==
  LET stale == Stale(op[o].ids) IN
  /\ AtHead(o, "reg_exists")
  /\ \/ /\ stale = {}
        /\ Await(o, [op[o] EXCEPT !.pc = "reg_time", !.ids = {}])
     \/ /\ stale # {}
        /\ Await(o, [op[o] EXCEPT !.pc = "reg_srem", !.ids = stale])
  /\ UNCHANGED <<redisVars, memoryVars, otherVars>>

MutSremWholeSet(u, ids) ==
  /\ userSessions' = [userSessions EXCEPT ![u] = {}]
  /\ UNCHANGED <<sessionHash, lastSeen>>

\* SREM of the stale ids, for a registration and for a sweep.
SremEffect(u, ids) ==
  /\ userSessions' = [userSessions EXCEPT ![u] = @ \ ids]
  /\ UNCHANGED <<sessionHash, lastSeen>>

PruneRemove(o) ==
  /\ AtHead(o, "reg_srem")
  /\ SremEffect(op[o].user, op[o].ids)
  /\ Forget(op[o].ids)
  /\ Await(o, [op[o] EXCEPT !.pc = "reg_time", !.ids = {}])
  /\ UNCHANGED <<otherVars, assigned, events>>

\* createSessionExpiryTimestamp of tryRegisterSession.
RegisterTime(o) ==
  /\ AtHead(o, "reg_time")
  /\ Await(o, [op[o] EXCEPT !.pc = "reg_script"])
  /\ UNCHANGED <<redisVars, memoryVars, otherVars>>

MutRegisterWithoutNX(u, s) ==
  /\ sessionHash' = [sessionHash EXCEPT ![s] = u]
  /\ userSessions' = [userSessions EXCEPT ![u] = @ \cup {s}]
  /\ used' = used \cup {s}
  /\ UNCHANGED lastSeen

\* REGISTER_SESSION_SCRIPT on a fresh id.
RegisterEffect(u, s) ==
  /\ s \notin used
  /\ sessionHash' = [sessionHash EXCEPT ![s] = u]
  /\ userSessions' = [userSessions EXCEPT ![u] = @ \cup {s}]
  /\ used' = used \cup {s}
  /\ UNCHANGED lastSeen

RegisterScript(o) ==
  LET u == op[o].user IN
  /\ AtHead(o, "reg_script")
  /\ \E s \in Session :
       /\ RegisterEffect(u, s)
       /\ identityCache' = [identityCache EXCEPT ![s] = u]
       /\ \/ /\ userSessions[u] \subseteq {s}      \* activeSessionCount = 1
             /\ Await(o, [Idle EXCEPT !.pc = "pub_online", !.user = u,
                                      !.sid = s])
             /\ UNCHANGED assigned
          \/ /\ ~ (userSessions[u] \subseteq {s})
             /\ Return(o)
             /\ assigned' = assigned \cup {s}
  /\ UNCHANGED <<clock, phase, expired, events, failures, crashes>>

\* The fresh id meets the key of a live session: retry once, then throw.
RegisterCollision(o) ==
  /\ AtHead(o, "reg_script")
  /\ op[o].tries < MaxCollisions
  /\ \E s \in Session : sessionHash[s] # None
  /\ \/ /\ op[o].tries < SESSION_COLLISION_RETRY_LIMIT
        /\ Await(o, [op[o] EXCEPT !.pc = "reg_time", !.tries = @ + 1])
     \/ /\ op[o].tries >= SESSION_COLLISION_RETRY_LIMIT
        /\ Return(o)
  /\ UNCHANGED <<redisVars, memoryVars, otherVars>>

\* publishEvent reads the Redis time, then emits; registerConnection returns.
Publish(u, type) == events' = [events EXCEPT ![u] = Append(@, type)]

PublishOnline(o) ==
  /\ AtHead(o, "pub_online")
  /\ Publish(op[o].user, "user_online")
  /\ Return(o)
  /\ assigned' = assigned \cup {op[o].sid}
  /\ UNCHANGED <<redisVars, otherVars, identityCache>>

-----------------------------------------------------------------------------
(* cleanupSession, called on disconnect and on the expiry of a session key *)

\* resolveSessionIdentity: the cache answers, or HGETALL has to.
CleanupStart(s) ==
  IF identityCache[s] # None
    THEN [Idle EXCEPT !.pc = "cln_time", !.sid = s, !.user = identityCache[s]]
    ELSE [Idle EXCEPT !.pc = "cln_hgetall", !.sid = s]

CleanupSession(o, s) ==
  /\ phase # "down"
  /\ s \in assigned
  /\ Start(o, CleanupStart(s))
  /\ UNCHANGED <<redisVars, memoryVars, otherVars>>

DeliverExpired(o, s) ==
  /\ phase = "listening"
  /\ s \in expired
  /\ expired' = expired \ {s}
  /\ Start(o, CleanupStart(s))
  /\ UNCHANGED <<redisVars, memoryVars, clock, phase, used, failures, crashes>>

CleanupResolve(o) ==
  LET s == op[o].sid IN
  /\ AtHead(o, "cln_hgetall")
  /\ \/ /\ sessionHash[s] = None
        /\ Return(o)
        /\ UNCHANGED identityCache
     \/ /\ sessionHash[s] # None
        /\ identityCache' = [identityCache EXCEPT ![s] = sessionHash[s]]
        /\ Await(o, [op[o] EXCEPT !.pc = "cln_time",
                                  !.user = sessionHash[s]])
  /\ UNCHANGED <<redisVars, otherVars, assigned, events>>

\* TIME answers a time that is no earlier than its last answer.  Answers that are not
\* written to last_seen are not kept.
ReadTime == clock' \in clock .. MaxClock            \* bound

\* The clock of the process, which may be one reading behind that of Redis.
MutCleanupLocalTime(o) ==
  /\ AtHead(o, "cln_time")
  /\ ReadTime
  /\ \E now \in {clock' - 1, clock'} \ {0} :
       Await(o, [op[o] EXCEPT !.pc = "cln_script", !.now = now])
  /\ UNCHANGED <<redisVars, memoryVars, phase, expired, used, failures, crashes>>

CleanupTime(o) ==
  /\ AtHead(o, "cln_time")
  /\ ReadTime
  /\ Await(o, [op[o] EXCEPT !.pc = "cln_script", !.now = clock'])
  /\ UNCHANGED <<redisVars, memoryVars, phase, expired, used, failures, crashes>>

MutCleanupKeepsMember(u, s, now) ==
  /\ sessionHash' = [sessionHash EXCEPT ![s] = None]
  /\ lastSeen' = [lastSeen EXCEPT ![u] = now]
  /\ UNCHANGED userSessions

MutCleanupWithoutLastSeen(u, s, now) ==
  /\ sessionHash' = [sessionHash EXCEPT ![s] = None]
  /\ userSessions' = [userSessions EXCEPT ![u] = @ \ {s}]
  /\ UNCHANGED lastSeen

\* CLEANUP_SESSION_SCRIPT
CleanupEffect(u, s, now) ==
  /\ sessionHash' = [sessionHash EXCEPT ![s] = None]
  /\ userSessions' = [userSessions EXCEPT ![u] = @ \ {s}]
  /\ lastSeen' = [lastSeen EXCEPT ![u] = now]

MutLeavesNoneUncounted(u, s) == s \in userSessions[u]
MutLeavesNoneCountedFirst(u, s) == s \in userSessions[u] /\ userSessions[u] = {}
MutLeavesNoneUnremoved(u, s) == userSessions[u] \subseteq {s}

\* removedSessionCount == 1 and activeSessionCount == 0
LeavesNone(u, s) == userSessions[u] = {s}

CleanupScript(o) ==
  LET u == op[o].user
      s == op[o].sid
  IN
  /\ AtHead(o, "cln_script")
  /\ CleanupEffect(u, s, op[o].now)
  /\ Forget({s})
  /\ \/ /\ LeavesNone(u, s)
        /\ Await(o, [Idle EXCEPT !.pc = "pub_offline", !.user = u])
     \/ /\ ~ LeavesNone(u, s)
        /\ Return(o)
  /\ UNCHANGED <<otherVars, assigned, events>>

PublishOffline(o) ==
  /\ AtHead(o, "pub_offline")
  /\ Publish(op[o].user, "user_offline")
  /\ Return(o)
  /\ UNCHANGED <<redisVars, otherVars, identityCache, assigned>>

-----------------------------------------------------------------------------
(* refreshSessionHeartbeat, and the cleanup handlePing chains to it *)

RefreshSessionHeartbeat(o, s) ==
  /\ phase # "down"
  /\ s \in assigned
  /\ Start(o, [Idle EXCEPT !.pc = "ref_time", !.sid = s])
  /\ UNCHANGED <<redisVars, memoryVars, otherVars>>

RefreshTime(o) ==
  /\ AtHead(o, "ref_time")
  /\ Await(o, [op[o] EXCEPT !.pc = "ref_script"])
  /\ UNCHANGED <<redisVars, memoryVars, otherVars>>

\* The answer of HSET for a field that exists, instead of 1.
MutRefreshesByHset(s) == FALSE

\* REFRESH_HEARTBEAT_SCRIPT.  The new time to live is not kept: Expire leaves
\* open when it runs out.
Refreshes(s) == sessionHash[s] # None

RefreshScript(o) ==
  LET s == op[o].sid IN
  /\ AtHead(o, "ref_script")
  /\ \/ /\ Refreshes(s)
        /\ Return(o)
     \/ /\ ~ Refreshes(s)
        /\ Await(o, CleanupStart(s))
  /\ UNCHANGED <<redisVars, memoryVars, otherVars>>

-----------------------------------------------------------------------------
(* reconcileSessions, run at boot and every RECONCILIATION_INTERVAL_MS *)

\* The next user_sessions key of the scan; after the last, the session keys.
VisitUsers(o, todo) ==
  \/ /\ todo = {}
     /\ Await(o, [Idle EXCEPT !.pc = "orph_scan"])
  \/ \E u \in todo :
       Await(o, [Idle EXCEPT !.pc = "swp_smembers", !.user = u,
                             !.todoUsers = todo \ {u}])

\* The next session key of the scan, its identity cached or still to be read.
VisitHashes(o, todo) ==
  \/ /\ todo = {}
     /\ Return(o)
  \/ \E s \in todo :
       Await(o, [Idle EXCEPT
                   !.pc = IF identityCache[s] = None THEN "orph_hgetall"
                                                     ELSE "orph_sismember",
                   !.sid = s, !.user = identityCache[s],
                   !.todoSids = todo \ {s}])

ReconcileSessions(o) ==
  /\ phase = "listening"
  /\ Start(o, [Idle EXCEPT !.pc = "swp_scan"])
  /\ UNCHANGED <<redisVars, memoryVars, otherVars>>

\* The identities parseIdentityFromUserSessionKey can read back from the key:
\* split at the separator, it must give two parts.
Parsable == User \ ColonUser

\* The code skips the other keys before any command.
SweepScan(o) ==
  /\ AtHead(o, "swp_scan")
  /\ VisitUsers(o, {u \in Parsable : userSessions[u] # {}})
  /\ UNCHANGED <<redisVars, memoryVars, otherVars>>

\* reconcileSingleUserSessionSet: SMEMBERS, EXISTS of each, SREM, SCARD, TIME,
\* SET last_seen, then the event.
SweepRead(o) ==
  LET u == op[o].user IN
  /\ AtHead(o, "swp_smembers")
  /\ \/ /\ userSessions[u] = {}
        /\ VisitUsers(o, op[o].todoUsers)
     \/ /\ userSessions[u] # {}
        /\ Await(o, [op[o] EXCEPT !.pc = "swp_exists",
                                  !.ids = userSessions[u]])
  /\ UNCHANGED <<redisVars, memoryVars, otherVars>>

SweepCheck(o) ==
  LET stale == Stale(op[o].ids) IN
  /\ AtHead(o, "swp_exists")
  /\ \/ /\ stale = {}
        /\ VisitUsers(o, op[o].todoUsers)
     \/ /\ stale # {}
        /\ Await(o, [op[o] EXCEPT !.pc = "swp_srem", !.ids = stale])
  /\ UNCHANGED <<redisVars, memoryVars, otherVars>>

SweepRemove(o) ==
  /\ AtHead(o, "swp_srem")
  /\ SremEffect(op[o].user, op[o].ids)
  /\ Forget(op[o].ids)
  /\ Await(o, [op[o] EXCEPT !.pc = "swp_scard", !.ids = {}])
  /\ UNCHANGED <<otherVars, assigned, events>>

MutSweepCountSilent(o) ==
  /\ AtHead(o, "swp_scard")
  /\ VisitUsers(o, op[o].todoUsers)
  /\ UNCHANGED <<redisVars, memoryVars, otherVars>>

SweepCount(o) ==
  LET u == op[o].user IN
  /\ AtHead(o, "swp_scard")
  /\ \/ /\ userSessions[u] # {}
        /\ VisitUsers(o, op[o].todoUsers)
     \/ /\ userSessions[u] = {}
        /\ Await(o, [op[o] EXCEPT !.pc = "swp_time"])
  /\ UNCHANGED <<redisVars, memoryVars, otherVars>>

SweepTime(o) ==
  /\ AtHead(o, "swp_time")
  /\ ReadTime
  /\ Await(o, [op[o] EXCEPT !.pc = "swp_set", !.now = clock'])
  /\ UNCHANGED <<redisVars, memoryVars, phase, expired, used, failures, crashes>>

\* The start of the session's last time to live (30 s) instead of now.
MutSetLastSeenEarly(u, now) ==
  /\ lastSeen' = [lastSeen EXCEPT ![u] = now - 30]
  /\ UNCHANGED <<sessionHash, userSessions>>

SetLastSeenEffect(u, now) ==
  /\ lastSeen' = [lastSeen EXCEPT ![u] = now]
  /\ UNCHANGED <<sessionHash, userSessions>>

SweepSetLastSeen(o) ==
  /\ AtHead(o, "swp_set")
  /\ SetLastSeenEffect(op[o].user, op[o].now)
  /\ Await(o, [op[o] EXCEPT !.pc = "swp_publish"])
  /\ UNCHANGED <<memoryVars, otherVars>>

SweepPublish(o) ==
  /\ AtHead(o, "swp_publish")
  /\ Publish(op[o].user, "user_offline")
  /\ VisitUsers(o, op[o].todoUsers)
  /\ UNCHANGED <<redisVars, otherVars, identityCache, assigned>>

\* pruneOrphanedSessionHashes
OrphanScan(o) ==
  /\ AtHead(o, "orph_scan")
  /\ VisitHashes(o, {s \in Session : sessionHash[s] # None})
  /\ UNCHANGED <<redisVars, memoryVars, otherVars>>

OrphanResolve(o) ==
  LET s == op[o].sid IN
  /\ AtHead(o, "orph_hgetall")
  /\ \/ /\ sessionHash[s] = None
        /\ VisitHashes(o, op[o].todoSids)
        /\ UNCHANGED identityCache
     \/ /\ sessionHash[s] # None
        /\ identityCache' = [identityCache EXCEPT ![s] = sessionHash[s]]
        /\ Await(o, [op[o] EXCEPT !.pc = "orph_sismember",
                                  !.user = sessionHash[s]])
  /\ UNCHANGED <<redisVars, otherVars, assigned, events>>

OrphanCheck(o) ==
  LET isMember == op[o].sid \in userSessions[op[o].user] IN
  /\ AtHead(o, "orph_sismember")
  /\ \/ /\ isMember
        /\ VisitHashes(o, op[o].todoSids)
     \/ /\ ~ isMember
        /\ Await(o, [op[o] EXCEPT !.pc = "orph_del"])
  /\ UNCHANGED <<redisVars, memoryVars, otherVars>>

DelHashEffect(s) ==
  /\ sessionHash' = [sessionHash EXCEPT ![s] = None]
  /\ UNCHANGED <<userSessions, lastSeen>>

OrphanDelete(o) ==
  /\ AtHead(o, "orph_del")
  /\ DelHashEffect(op[o].sid)
  /\ Forget({op[o].sid})
  /\ VisitHashes(o, op[o].todoSids)
  /\ UNCHANGED <<otherVars, assigned, events>>

-----------------------------------------------------------------------------
(* withRedisTimeout rejects: the operation ends where it is *)

CanFail ==
  /\ failures < MaxFailures                        \* bound
  /\ failures' = failures + 1

\* The head command was not executed, or it was a read.
Reject(o) ==
  /\ phase # "down"
  /\ pipe # << >> /\ Head(pipe) = o
  /\ CanFail
  /\ Return(o)
  /\ UNCHANGED <<redisVars, memoryVars, clock, phase, expired, used, crashes>>

\* What Redis does with the write that o issued, whether o learns of it or not.
RedisWrite(o) ==
  \/ /\ op[o].pc \in {"reg_srem", "swp_srem"}
     /\ SremEffect(op[o].user, op[o].ids)
     /\ UNCHANGED used
  \/ /\ op[o].pc = "reg_script"
     /\ \E s \in Session : RegisterEffect(op[o].user, s)
  \/ /\ op[o].pc = "cln_script"
     /\ CleanupEffect(op[o].user, op[o].sid, op[o].now)
     /\ UNCHANGED used
  \/ /\ op[o].pc = "swp_set"
     /\ SetLastSeenEffect(op[o].user, op[o].now)
     /\ UNCHANGED used
  \/ /\ op[o].pc = "orph_del"
     /\ DelHashEffect(op[o].sid)
     /\ UNCHANGED used

\* Redis executed the write at the head, but the operation had timed out: the
\* code after its await does not run.
LoseReply(o) ==
  /\ phase # "down"
  /\ pipe # << >> /\ Head(pipe) = o
  /\ CanFail
  /\ RedisWrite(o)
  /\ Return(o)
  /\ UNCHANGED <<memoryVars, clock, phase, expired, crashes>>

-----------------------------------------------------------------------------
(* The environment *)

\* The TTL of a session key runs out.  Redis publishes the expiry once, to
\* those subscribed at that moment.  CONFIG GET and SUBSCRIBE time out after
\* 3 s each and a session lives 30 s: while the process boots only sessions it
\* has not registered itself can expire.
Expire(s) ==
  /\ sessionHash[s] # None
  /\ phase = "booting" => identityCache[s] = None
  /\ sessionHash' = [sessionHash EXCEPT ![s] = None]
  /\ expired' = IF phase = "listening" THEN expired \cup {s} ELSE expired
  /\ UNCHANGED <<memoryVars, flowVars, userSessions, lastSeen, clock, phase,
                 used, failures, crashes>>

\* The process ends: its memory and its subscription are gone.
Crash ==
  /\ phase # "down"
  /\ crashes < MaxCrashes                          \* bound
  /\ crashes' = crashes + 1
  /\ phase' = "down"
  /\ identityCache' = [s \in Session |-> None]
  /\ assigned' = {}
  /\ expired' = {}
  /\ UNCHANGED <<redisVars, flowVars, clock, used, events, failures>>

\* Redis still executes a command it had received from the dead process.
Drain(o) ==
  /\ phase = "down"
  /\ pipe # << >> /\ Head(pipe) = o
  /\ \/ RedisWrite(o)
     \/ UNCHANGED <<redisVars, used>>
  /\ Return(o)
  /\ UNCHANGED <<memoryVars, clock, phase, expired, failures, crashes>>

\* A new process; the commands Redis has not executed by now were never sent.
Restart ==
  /\ phase = "down"
  /\ phase' = "booting"
  /\ op' = [o \in Op |-> Idle]
  /\ pipe' = << >>
  /\ UNCHANGED <<redisVars, memoryVars, clock, expired, used, failures,
                 crashes>>

\* startExpiryListener has subscribed to the expiry channel.
Listen ==
  /\ phase = "booting"
  /\ phase' = "listening"
  /\ UNCHANGED <<redisVars, memoryVars, flowVars, clock, expired, used,
                 failures, crashes>>

-----------------------------------------------------------------------------
(* Specification *)

\* The service runs the code after the reply to the command at the head.
RegisterStep(o) ==
  \/ PruneRead(o) \/ PruneCheck(o) \/ PruneRemove(o)
  \/ RegisterTime(o) \/ RegisterScript(o) \/ RegisterCollision(o)
  \/ PublishOnline(o)

CleanupStep(o) ==
  \/ CleanupResolve(o) \/ CleanupTime(o) \/ CleanupScript(o)
  \/ PublishOffline(o) \/ RefreshTime(o) \/ RefreshScript(o)

SweepStep(o) ==
  \/ SweepScan(o) \/ SweepRead(o) \/ SweepCheck(o) \/ SweepRemove(o)
  \/ SweepCount(o) \/ SweepTime(o) \/ SweepSetLastSeen(o)
  \/ SweepPublish(o)
  \/ OrphanScan(o) \/ OrphanResolve(o) \/ OrphanCheck(o) \/ OrphanDelete(o)

Step(o) == RegisterStep(o) \/ CleanupStep(o) \/ SweepStep(o)

\* What a socket, a key expiry or the interval timer starts.
Call(o) ==
  \/ \E u \in User : RegisterConnection(o, u)
  \/ \E s \in Session : \/ CleanupSession(o, s)
                         \/ DeliverExpired(o, s)
                         \/ RefreshSessionHeartbeat(o, s)

Fault(o) == Reject(o) \/ LoseReply(o) \/ Drain(o)

Environment ==
  \/ \E s \in Session : Expire(s)
  \/ Crash \/ Restart \/ Listen

Next ==
  \/ \E o \in Worker : Call(o)
  \/ \E o \in Sweeper : ReconcileSessions(o)
  \/ \E o \in Op : Step(o) \/ Fault(o)
  \/ Environment

Spec == Init /\ [][Next]_vars

\* Redis answers, a dead process is restarted and subscribes, and the interval
\* timer fires.  Nothing obliges a user to connect or a message to arrive.
Fairness ==
  /\ WF_vars(\E o \in Op : Step(o))
  /\ WF_vars(Restart)
  /\ WF_vars(Listen)
  /\ WF_vars(\E o \in Sweeper : ReconcileSessions(o))

FairSpec == Spec /\ Fairness
-----------------------------------------------------------------------------
(* Properties *)

Live(u) == {s \in Session : sessionHash[s] = u}
LastEvent(u) == IF events[u] = << >> THEN "none" ELSE events[u][Len(events[u])]
\* Nothing is in progress and no message is on its way.
Quiescent == pipe = << >> /\ expired = {}
NoFault == failures = 0 /\ crashes = 0

\* The set user_sessions of a user always holds every session of the user
\* whose hash exists: pruning (by a registration or by a sweep) works from a
\* snapshot that is several commands old, and must never take out a live one.
LiveSessionIsMember == \A u \in User : Live(u) \subseteq userSessions[u]

\* A session id is in the set of one user only.
SoleOwner ==
  \A u, v \in User : \A s \in userSessions[u] \cap userSessions[v] : u = v

\* Members of the sets, and so live sessions, were registered once.
MembersWereUsed == \A u \in User : userSessions[u] \subseteq used

\* The identity cached for a session is the one in its hash for as long as the
\* hash exists.
CacheAgrees ==
  \A s \in Session :
    identityCache[s] # None =>
      s \in used /\ sessionHash[s] \in {None, identityCache[s]}

\* What an operation read stays true until the write that relies on it: the
\* ids an SREM or a DEL is about to remove are dead, and no fresh id can revive
\* them.
StaleStaysDead(o) ==
  /\ op[o].pc \in {"reg_exists", "swp_exists"} => op[o].ids \subseteq used
  /\ op[o].pc \in {"reg_srem", "swp_srem"} =>
       \A s \in op[o].ids : s \in used /\ sessionHash[s] = None
  /\ op[o].pc = "orph_del" => sessionHash[op[o].sid] = None

\* The identity an operation resolved for its session is that of the hash.
IdentityAgrees(o) ==
  op[o].pc \in {"cln_time", "cln_script", "orph_sismember", "orph_del"} =>
    /\ op[o].sid \in used
    /\ sessionHash[op[o].sid] \in {None, op[o].user}

\* The code never reaches a command without the user and the session that the
\* command names.
OperandsPresent(o) ==
  /\ op[o].pc \in RegisterPc \cup PublishPc \cup {"cln_time", "cln_script",
       "swp_smembers", "swp_exists", "swp_srem", "swp_scard", "swp_time",
       "swp_set", "swp_publish", "orph_sismember", "orph_del"} =>
     op[o].user \in User
  /\ op[o].pc \in CleanupPc \cup RefreshPc \cup {"pub_online",
       "orph_hgetall", "orph_sismember", "orph_del"} => op[o].sid \in Session

OperationInv(o) == StaleStaysDead(o) /\ IdentityAgrees(o) /\ OperandsPresent(o)

\* The invariant that makes LiveSessionIsMember inductive.  An SREM could only
\* take out a live member through a snapshot gone stale (StaleStaysDead); a
\* cleanup or an orphan DEL could only miss the member it should take out, or
\* the live hash it should spare, through an identity cached or read that is
\* not that of the hash (IdentityAgrees, CacheAgrees).
RedisInv ==
  /\ LiveSessionIsMember
  /\ SoleOwner
  /\ MembersWereUsed
  /\ CacheAgrees
  /\ \A o \in Op : OperationInv(o)

\* When everything has settled and nothing failed, the last thing broadcast about
\* a user agrees with Redis: online exactly when a session of the user is live.
AnnouncementMatchesSessions ==
  Quiescent /\ NoFault =>
    \A u \in User : LastEvent(u) = "user_online" <=> Live(u) # {}

\* When everything has settled and nothing failed, the sets hold the live sessions
\* and no others: SCARD, which query-service counts with, tells the truth.
SetsMatchSessions ==
  Quiescent /\ NoFault => \A u \in User : userSessions[u] = Live(u)

\* Until something fails, user_offline is never broadcast twice without a
\* user_online between, though a disconnect, a lapsed heartbeat and the expiry of
\* the key may each clean up the same session.  (A sweep may repeat it.)
NoRepeatedOffline ==
  NoFault =>
    \A u \in User : \A i \in 1 .. Len(events[u]) - 1 :
      events[u][i] = "user_offline" => events[u][i + 1] = "user_online"

\* No event is broadcast twice in a row about a user: ws-service's README says that
\* events are emitted "only on real transitions (0->1, 1->0)".
EventsAlternate ==
  \A u \in User : \A i \in 1 .. Len(events[u]) - 1 :
    events[u][i] # events[u][i + 1]

\* When everything has settled and no command failed, the identity cache
\* remembers live sessions only: nothing else would ever remove the entry of a
\* session that is gone, and sweeps fill the cache too.
CacheNotLeaked ==
  Quiescent /\ failures = 0 =>
    \A s \in Session : identityCache[s] # None => sessionHash[s] # None

\* Whoever hears user_offline and asks query-service finds a last_seen.
OfflineHasLastSeen ==
  \A u \in User : LastEvent(u) = "user_offline" => lastSeen[u] # 0

\* last_seen never goes back, though the time written was read one command
\* earlier and cleanups and sweeps of the same user overlap.
LastSeenMonotonic == [][\A u \in User : lastSeen[u] <= lastSeen'[u]]_vars

\* A member whose session expired is eventually taken out of the set, whatever
\* messages were lost and however often the process died.
StaleMemberSwept ==
  \A u \in User : \A s \in Session :
    (s \in userSessions[u] /\ sessionHash[s] = None)
      ~> s \notin userSessions[u]

\* A user announced as online who has no session left is eventually announced
\* as offline, or connects again.
OnlineUnfounded(u) == LastEvent(u) = "user_online" /\ Live(u) = {}
Corrected(u) == LastEvent(u) = "user_offline" \/ Live(u) # {}
OfflineEventuallyAnnounced ==
  \A u \in User : OnlineUnfounded(u) ~> Corrected(u)

\* The same, as long as no process died and no command failed: the expiry
\* message may never arrive, the sweep finds the user.
OfflineAnnouncedUnlessFault ==
  \A u \in User :
    OnlineUnfounded(u) ~> (Corrected(u) \/ crashes > 0 \/ failures > 0)

\* PresenceService implements the registry of sessions.
Registry == INSTANCE SessionRegistry WITH
  live <- [u \in User |-> Live(u)],
  listed <- userSessions,
  retired <- {s \in used : sessionHash[s] = None}
RegistrySpec == Registry!Spec
=============================================================================
