------------------------ MODULE PresenceServiceTypes -------------------------
(***************************************************************************)
(* PresenceService keeps its types, for any sets of users, sessions and    *)
(* operations and any bounds: the lemmas that PresenceServiceProofs needs. *)
(***************************************************************************)
EXTENDS PresenceService, TLAPS

USE PresenceAssumption

-----------------------------------------------------------------------------
(* Type correctness *)

\* The idle state is an operation state.
LEMMA IdleType == Idle \in OpState
BY DEF Idle, OpState, Pc

\* An operation that starts keeps op and pipe in their types.
LEMMA StartType ==
  ASSUME TypeOK, NEW o \in Op, NEW state \in OpState, Start(o, state)
  PROVE  op' \in [Op -> OpState] /\ pipe' \in Seq(Op)
BY DEF TypeOK, Start

\* An operation that issues its next command keeps the types.
LEMMA AwaitType ==
  ASSUME TypeOK, pipe # << >>, NEW o \in Op, NEW state \in OpState,
         Await(o, state)
  PROVE  op' \in [Op -> OpState] /\ pipe' \in Seq(Op)
BY DEF TypeOK, Await

\* An operation that returns or is rejected keeps the types.
LEMMA ReturnType ==
  ASSUME TypeOK, pipe # << >>, NEW o \in Op, Return(o)
  PROVE  op' \in [Op -> OpState] /\ pipe' \in Seq(Op)
BY IdleType DEF TypeOK, Return

\* A scan that moves on to its next user, or to the session keys.
LEMMA VisitUsersType ==
  ASSUME TypeOK, pipe # << >>, NEW o \in Op, NEW todo \in SUBSET User,
         VisitUsers(o, todo)
  PROVE  op' \in [Op -> OpState] /\ pipe' \in Seq(Op)
<1>1. CASE todo = {} /\ Await(o, [Idle EXCEPT !.pc = "orph_scan"])
  <2>1. [Idle EXCEPT !.pc = "orph_scan"] \in OpState
    BY IdleType DEF OpState, Pc, OrphanPc
  <2> QED BY <1>1, <2>1, AwaitType
<1>2. ASSUME NEW u \in todo,
             Await(o, [Idle EXCEPT !.pc = "swp_smembers", !.user = u,
                                   !.todoUsers = todo \ {u}])
      PROVE  op' \in [Op -> OpState] /\ pipe' \in Seq(Op)
  <2>1. [Idle EXCEPT !.pc = "swp_smembers", !.user = u,
                     !.todoUsers = todo \ {u}] \in OpState
    BY IdleType DEF OpState, Pc, SweepPc
  <2> QED BY <1>2, <2>1, AwaitType
<1> QED BY <1>1, <1>2 DEF VisitUsers

\* A scan that moves on to its next session key, or returns.
LEMMA VisitHashesType ==
  ASSUME TypeOK, pipe # << >>, NEW o \in Op, NEW todo \in SUBSET Session,
         VisitHashes(o, todo)
  PROVE  op' \in [Op -> OpState] /\ pipe' \in Seq(Op)
<1>1. CASE todo = {} /\ Return(o)
  BY <1>1, ReturnType
<1>2. ASSUME NEW s \in todo,
             Await(o, [Idle EXCEPT
                         !.pc = IF identityCache[s] = None
                                  THEN "orph_hgetall" ELSE "orph_sismember",
                         !.sid = s, !.user = identityCache[s],
                         !.todoSids = todo \ {s}])
      PROVE  op' \in [Op -> OpState] /\ pipe' \in Seq(Op)
  <2>1. [Idle EXCEPT
           !.pc = IF identityCache[s] = None
                    THEN "orph_hgetall" ELSE "orph_sismember",
           !.sid = s, !.user = identityCache[s],
           !.todoSids = todo \ {s}] \in OpState
    BY IdleType DEF TypeOK, OpState, Pc, OrphanPc
  <2> QED BY <1>2, <2>1, AwaitType
<1> QED BY <1>1, <1>2 DEF VisitHashes

\* A cleanup starts in an operation state.
LEMMA CleanupStartType ==
  ASSUME TypeOK, NEW s \in Session
  PROVE  CleanupStart(s) \in OpState
BY IdleType DEF TypeOK, CleanupStart, OpState, Pc, CleanupPc

\* An operation state in which the locals an operation writes are replaced.
LEMMA StateTypes ==
  ASSUME NEW r \in OpState, NEW p \in Pc
  PROVE  /\ [r EXCEPT !.pc = p] \in OpState
         /\ \A ids \in SUBSET Session :
              [r EXCEPT !.pc = p, !.ids = ids] \in OpState
         /\ \A n \in Nat : /\ [r EXCEPT !.pc = p, !.now = n] \in OpState
                           /\ [r EXCEPT !.pc = p, !.tries = n] \in OpState
         /\ \A u \in User \cup {None} :
              [r EXCEPT !.pc = p, !.user = u] \in OpState
         /\ \A s \in Session : [r EXCEPT !.pc = p, !.sid = s] \in OpState
         /\ \A u \in User \cup {None}, s \in Session :
              [r EXCEPT !.pc = p, !.user = u, !.sid = s] \in OpState
BY DEF OpState

\* The fields of an operation have their types.
LEMMA FieldTypes ==
  ASSUME TypeOK, NEW o \in Op
  PROVE  /\ op[o] \in OpState
         /\ op[o].user \in User \cup {None}
         /\ op[o].sid \in Session \cup {None}
         /\ op[o].ids \in SUBSET Session
         /\ op[o].now \in Nat
         /\ op[o].tries \in Nat
         /\ op[o].todoUsers \in SUBSET User
         /\ op[o].todoSids \in SUBSET Session
BY DEF TypeOK, OpState

\* The part of TypeOK that is not the control state.
DataTypeOK ==
  /\ sessionHash \in [Session -> User \cup {None}]
  /\ userSessions \in [User -> SUBSET Session]
  /\ lastSeen \in [User -> Nat]
  /\ clock \in Nat \ {0}
  /\ phase \in {"down", "booting", "listening"}
  /\ identityCache \in [Session -> User \cup {None}]
  /\ assigned \in SUBSET Session
  /\ expired \in SUBSET Session
  /\ used \in SUBSET Session
  /\ events \in [User -> Seq(EventType)]
  /\ failures \in Nat
  /\ crashes \in Nat

ControlTypeOK == op \in [Op -> OpState] /\ pipe \in Seq(Op)

\* Two parts of TypeOK make the whole.
LEMMA TypeParts ==
  ASSUME DataTypeOK', ControlTypeOK'
  PROVE  TypeOK'
BY DEF DataTypeOK, ControlTypeOK, TypeOK

\* Broadcasting keeps the type of the history of events.
LEMMA PublishType ==
  ASSUME TypeOK, NEW u \in User, NEW type \in EventType, Publish(u, type)
  PROVE  events' \in [User -> Seq(EventType)]
<1>1. Append(events[u], type) \in Seq(EventType)
  BY DEF TypeOK
<1> QED BY <1>1 DEF TypeOK, Publish

\* The writes keep the types of what is in Redis.
LEMMA RedisWriteType ==
  ASSUME TypeOK, NEW o \in Op, OperandsPresent(o), RedisWrite(o)
  PROVE  /\ sessionHash' \in [Session -> User \cup {None}]
         /\ userSessions' \in [User -> SUBSET Session]
         /\ lastSeen' \in [User -> Nat]
         /\ used' \in SUBSET Session
<1> USE FieldTypes DEF TypeOK
<1>1. CASE op[o].pc \in {"reg_srem", "swp_srem"}
             /\ SremEffect(op[o].user, op[o].ids) /\ UNCHANGED used
  BY <1>1 DEF SremEffect
<1>2. ASSUME NEW s \in Session, op[o].pc = "reg_script",
             RegisterEffect(op[o].user, s)
      PROVE  /\ sessionHash' \in [Session -> User \cup {None}]
             /\ userSessions' \in [User -> SUBSET Session]
             /\ lastSeen' \in [User -> Nat]
             /\ used' \in SUBSET Session
  BY <1>2 DEF RegisterEffect
<1>3. CASE op[o].pc = "cln_script"
             /\ CleanupEffect(op[o].user, op[o].sid, op[o].now)
             /\ UNCHANGED used
  BY <1>3 DEF CleanupEffect
<1>4. CASE op[o].pc = "swp_set"
             /\ SetLastSeenEffect(op[o].user, op[o].now) /\ UNCHANGED used
  BY <1>4 DEF SetLastSeenEffect
<1>5. CASE op[o].pc = "orph_del" /\ DelHashEffect(op[o].sid) /\ UNCHANGED used
  BY <1>5 DEF DelHashEffect
<1> QED BY <1>1, <1>2, <1>3, <1>4, <1>5 DEF RedisWrite

\* The steps of a registration keep the types.
LEMMA RegisterStepType ==
  ASSUME TypeOK, NEW o \in Op, OperandsPresent(o), RegisterStep(o)
  PROVE  TypeOK'
<1> USE FieldTypes DEF AtHead, Pc, RegisterPc, PublishPc, CleanupPc, RefreshPc,
        SweepPc, OrphanPc, OperandsPresent
<1>1. CASE PruneRead(o)
  <2>1. DataTypeOK'
    BY <1>1 DEF PruneRead, TypeOK, DataTypeOK, redisVars, memoryVars, otherVars
  <2>2. ControlTypeOK'
    BY <1>1, StateTypes, AwaitType
    DEF ControlTypeOK, PruneRead, TypeOK
  <2> QED BY <2>1, <2>2, TypeParts
<1>2. CASE PruneCheck(o)
  <2>1. DataTypeOK'
    BY <1>2
    DEF PruneCheck, TypeOK, DataTypeOK, redisVars, memoryVars, otherVars
  <2>2. ControlTypeOK'
    BY <1>2, StateTypes, AwaitType
    DEF ControlTypeOK, PruneCheck, TypeOK, Stale
  <2> QED BY <2>1, <2>2, TypeParts
<1>3. CASE PruneRemove(o)
  <2>1. DataTypeOK'
    BY <1>3
    DEF PruneRemove, TypeOK, DataTypeOK, redisVars, memoryVars, otherVars,
        SremEffect, Forget
  <2>2. ControlTypeOK'
    BY <1>3, StateTypes, AwaitType
    DEF ControlTypeOK, PruneRemove, TypeOK
  <2> QED BY <2>1, <2>2, TypeParts
<1>4. CASE RegisterTime(o)
  <2>1. DataTypeOK'
    BY <1>4
    DEF RegisterTime, TypeOK, DataTypeOK, redisVars, memoryVars, otherVars
  <2>2. ControlTypeOK'
    BY <1>4, StateTypes, AwaitType
    DEF ControlTypeOK, RegisterTime, TypeOK
  <2> QED BY <2>1, <2>2, TypeParts
<1>5. CASE RegisterScript(o)
  <2>1. PICK s \in Session :
               /\ RegisterEffect(op[o].user, s)
               /\ identityCache' = [identityCache EXCEPT ![s] = op[o].user]
               /\ \/ /\ Await(o, [Idle EXCEPT !.pc = "pub_online",
                                      !.user = op[o].user, !.sid = s])
                     /\ UNCHANGED assigned
                  \/ /\ Return(o)
                     /\ assigned' = assigned \cup {s}
    BY <1>5 DEF RegisterScript
  <2>2. op[o].user \in User /\ pipe # << >>
    BY <1>5 DEF RegisterScript
  <2>3. assigned' \in SUBSET Session
    BY <2>1 DEF TypeOK
  <2>4. UNCHANGED <<clock, phase, expired, events, failures, crashes>>
    BY <1>5 DEF RegisterScript
  <2>5. /\ sessionHash' \in [Session -> User \cup {None}]
        /\ userSessions' \in [User -> SUBSET Session]
        /\ identityCache' \in [Session -> User \cup {None}]
        /\ used' \in SUBSET Session
        /\ UNCHANGED lastSeen
    BY <2>1, <2>2 DEF RegisterEffect, TypeOK
  <2>6. DataTypeOK'
    BY <2>3, <2>4, <2>5 DEF TypeOK, DataTypeOK
  <2>7. ControlTypeOK'
    BY <2>1, <2>2, IdleType, StateTypes, AwaitType, ReturnType
    DEF ControlTypeOK
  <2> QED BY <2>6, <2>7, TypeParts
<1>6. CASE RegisterCollision(o)
  <2>1. DataTypeOK'
    BY <1>6 DEF RegisterCollision, TypeOK, DataTypeOK, redisVars, memoryVars,
                otherVars
  <2>2. ControlTypeOK'
    <3>1. op[o] \in OpState /\ op[o].tries + 1 \in Nat
      OBVIOUS
    <3>2. [op[o] EXCEPT !.pc = "reg_time", !.tries = op[o].tries + 1]
            \in OpState
      BY <3>1, StateTypes
    <3> QED BY <1>6, <3>2, AwaitType, ReturnType
            DEF RegisterCollision, ControlTypeOK
  <2> QED BY <2>1, <2>2, TypeParts
<1>7. CASE PublishOnline(o)
  <2>1. DataTypeOK'
    BY PublishType, <1>7
    DEF PublishOnline, TypeOK, DataTypeOK, EventType, redisVars, memoryVars,
        otherVars
  <2>2. ControlTypeOK'
    BY <1>7, ReturnType
    DEF ControlTypeOK, PublishOnline, TypeOK
  <2> QED BY <2>1, <2>2, TypeParts
<1> QED BY <1>1, <1>2, <1>3, <1>4, <1>5, <1>6, <1>7 DEF RegisterStep

\* The steps of a cleanup and of a heartbeat keep the types.
LEMMA CleanupStepType ==
  ASSUME TypeOK, NEW o \in Op, OperandsPresent(o), CleanupStep(o)
  PROVE  TypeOK'
<1> USE FieldTypes DEF AtHead, Pc, RegisterPc, PublishPc, CleanupPc, RefreshPc,
        SweepPc, OrphanPc, OperandsPresent
<1>1. CASE CleanupResolve(o)
  <2>1. DataTypeOK'
    BY <1>1
    DEF CleanupResolve, TypeOK, DataTypeOK, redisVars, memoryVars, otherVars
  <2>2. ControlTypeOK'
    BY <1>1, StateTypes, AwaitType, ReturnType
    DEF ControlTypeOK, CleanupResolve, TypeOK
  <2> QED BY <2>1, <2>2, TypeParts
<1>2. CASE CleanupTime(o)
  <2>1. DataTypeOK'
    BY <1>2, PresenceAssumption
    DEF CleanupTime, ReadTime, TypeOK, DataTypeOK, redisVars, memoryVars
  <2>2. ControlTypeOK'
    BY <1>2, <2>1, StateTypes, AwaitType
    DEF ControlTypeOK, DataTypeOK, CleanupTime, TypeOK
  <2> QED BY <2>1, <2>2, TypeParts
<1>3. CASE CleanupScript(o)
  <2>1. DataTypeOK'
    BY <1>3
    DEF CleanupScript, TypeOK, DataTypeOK, redisVars, memoryVars, otherVars,
        CleanupEffect, Forget
  <2>2. ControlTypeOK'
    BY <1>3, StateTypes, IdleType, AwaitType, ReturnType
    DEF ControlTypeOK, CleanupScript, TypeOK
  <2> QED BY <2>1, <2>2, TypeParts
<1>4. CASE PublishOffline(o)
  <2>1. DataTypeOK'
    BY PublishType, <1>4
    DEF PublishOffline, TypeOK, DataTypeOK, EventType, redisVars, memoryVars,
        otherVars
  <2>2. ControlTypeOK'
    BY <1>4, ReturnType
    DEF ControlTypeOK, PublishOffline, TypeOK
  <2> QED BY <2>1, <2>2, TypeParts
<1>5. CASE RefreshTime(o)
  <2>1. DataTypeOK'
    BY <1>5
    DEF RefreshTime, TypeOK, DataTypeOK, redisVars, memoryVars, otherVars
  <2>2. ControlTypeOK'
    BY <1>5, StateTypes, AwaitType
    DEF ControlTypeOK, RefreshTime, TypeOK
  <2> QED BY <2>1, <2>2, TypeParts
<1>6. CASE RefreshScript(o)
  <2>1. DataTypeOK'
    BY <1>6
    DEF RefreshScript, TypeOK, DataTypeOK, redisVars, memoryVars, otherVars
  <2>2. ControlTypeOK'
    BY <1>6, CleanupStartType, AwaitType, ReturnType
    DEF ControlTypeOK, RefreshScript, TypeOK
  <2> QED BY <2>1, <2>2, TypeParts
<1> QED BY <1>1, <1>2, <1>3, <1>4, <1>5, <1>6 DEF CleanupStep

\* The steps of a sweep keep the types.
LEMMA SweepStepType ==
  ASSUME TypeOK, NEW o \in Op, OperandsPresent(o), SweepStep(o)
  PROVE  TypeOK'
<1> USE FieldTypes DEF AtHead, Pc, RegisterPc, PublishPc, CleanupPc, RefreshPc,
        SweepPc, OrphanPc, OperandsPresent
<1>1. CASE SweepScan(o)
  <2>1. DataTypeOK'
    BY <1>1 DEF SweepScan, TypeOK, DataTypeOK, redisVars, memoryVars, otherVars
  <2>2. ControlTypeOK'
    BY <1>1, VisitUsersType
    DEF ControlTypeOK, SweepScan, Parsable, TypeOK
  <2> QED BY <2>1, <2>2, TypeParts
<1>2. CASE SweepRead(o)
  <2>1. DataTypeOK'
    BY <1>2 DEF SweepRead, TypeOK, DataTypeOK, redisVars, memoryVars, otherVars
  <2>2. ControlTypeOK'
    BY <1>2, StateTypes, AwaitType, VisitUsersType
    DEF ControlTypeOK, SweepRead, TypeOK
  <2> QED BY <2>1, <2>2, TypeParts
<1>3. CASE SweepCheck(o)
  <2>1. DataTypeOK'
    BY <1>3
    DEF SweepCheck, TypeOK, DataTypeOK, redisVars, memoryVars, otherVars
  <2>2. ControlTypeOK'
    BY <1>3, StateTypes, AwaitType, VisitUsersType
    DEF ControlTypeOK, SweepCheck, TypeOK, Stale
  <2> QED BY <2>1, <2>2, TypeParts
<1>4. CASE SweepRemove(o)
  <2>1. DataTypeOK'
    BY <1>4
    DEF SweepRemove, TypeOK, DataTypeOK, redisVars, memoryVars, otherVars,
        SremEffect, Forget
  <2>2. ControlTypeOK'
    BY <1>4, StateTypes, AwaitType
    DEF ControlTypeOK, SweepRemove, TypeOK
  <2> QED BY <2>1, <2>2, TypeParts
<1>5. CASE SweepCount(o)
  <2>1. DataTypeOK'
    BY <1>5
    DEF SweepCount, TypeOK, DataTypeOK, redisVars, memoryVars, otherVars
  <2>2. ControlTypeOK'
    BY <1>5, StateTypes, AwaitType, VisitUsersType
    DEF ControlTypeOK, SweepCount, TypeOK
  <2> QED BY <2>1, <2>2, TypeParts
<1>6. CASE SweepTime(o)
  <2>1. DataTypeOK'
    BY <1>6, PresenceAssumption
    DEF SweepTime, ReadTime, TypeOK, DataTypeOK, redisVars, memoryVars
  <2>2. ControlTypeOK'
    BY <1>6, <2>1, StateTypes, AwaitType
    DEF ControlTypeOK, DataTypeOK, SweepTime, TypeOK
  <2> QED BY <2>1, <2>2, TypeParts
<1>7. CASE SweepSetLastSeen(o)
  <2>1. DataTypeOK'
    BY <1>7
    DEF SweepSetLastSeen, TypeOK, DataTypeOK, redisVars, memoryVars,
        otherVars, SetLastSeenEffect
  <2>2. ControlTypeOK'
    BY <1>7, StateTypes, AwaitType
    DEF ControlTypeOK, SweepSetLastSeen, TypeOK
  <2> QED BY <2>1, <2>2, TypeParts
<1>8. CASE SweepPublish(o)
  <2>1. DataTypeOK'
    BY PublishType, <1>8
    DEF SweepPublish, TypeOK, DataTypeOK, EventType, redisVars, memoryVars,
        otherVars
  <2>2. ControlTypeOK'
    BY <1>8, VisitUsersType
    DEF ControlTypeOK, SweepPublish, TypeOK
  <2> QED BY <2>1, <2>2, TypeParts
<1>9. CASE OrphanScan(o)
  <2>1. DataTypeOK'
    BY <1>9
    DEF OrphanScan, TypeOK, DataTypeOK, redisVars, memoryVars, otherVars
  <2>2. ControlTypeOK'
    BY <1>9, VisitHashesType
    DEF ControlTypeOK, OrphanScan, TypeOK
  <2> QED BY <2>1, <2>2, TypeParts
<1>10. CASE OrphanResolve(o)
  <2>1. DataTypeOK'
    BY <1>10
    DEF OrphanResolve, TypeOK, DataTypeOK, redisVars, memoryVars, otherVars
  <2>2. ControlTypeOK'
    BY <1>10, StateTypes, AwaitType, VisitHashesType
    DEF ControlTypeOK, OrphanResolve, TypeOK
  <2> QED BY <2>1, <2>2, TypeParts
<1>11. CASE OrphanCheck(o)
  <2>1. DataTypeOK'
    BY <1>11
    DEF OrphanCheck, TypeOK, DataTypeOK, redisVars, memoryVars, otherVars
  <2>2. ControlTypeOK'
    BY <1>11, StateTypes, AwaitType, VisitHashesType
    DEF ControlTypeOK, OrphanCheck, TypeOK
  <2> QED BY <2>1, <2>2, TypeParts
<1>12. CASE OrphanDelete(o)
  <2>1. DataTypeOK'
    BY <1>12
    DEF OrphanDelete, TypeOK, DataTypeOK, redisVars, memoryVars, otherVars,
        DelHashEffect, Forget
  <2>2. ControlTypeOK'
    BY <1>12, VisitHashesType
    DEF ControlTypeOK, OrphanDelete, TypeOK
  <2> QED BY <2>1, <2>2, TypeParts
<1> QED BY <1>1, <1>2, <1>3, <1>4, <1>5, <1>6, <1>7, <1>8, <1>9, <1>10, <1>11,
    <1>12 DEF SweepStep

\* A command that fails, a reply that is lost and a command drained after a
\* crash keep the types.
LEMMA FaultType ==
  ASSUME TypeOK, NEW o \in Op, OperandsPresent(o), Fault(o)
  PROVE  TypeOK'
<1>1. CASE Reject(o)
  <2>1. failures' \in Nat
    BY <1>1 DEF Reject, CanFail, TypeOK
  <2>2. DataTypeOK'
    BY <1>1, <2>1 DEF Reject, TypeOK, DataTypeOK, redisVars, memoryVars
  <2>3. ControlTypeOK'
    BY <1>1, ReturnType DEF Reject, ControlTypeOK
  <2> QED BY <2>2, <2>3, TypeParts
<1>2. CASE LoseReply(o)
  <2>1. failures' \in Nat
    BY <1>2 DEF LoseReply, CanFail, TypeOK
  <2>2. DataTypeOK'
    <3>1. RedisWrite(o)
      BY <1>2 DEF LoseReply
    <3> QED BY <1>2, <2>1, <3>1, RedisWriteType
            DEF LoseReply, TypeOK, DataTypeOK, memoryVars
  <2>3. ControlTypeOK'
    BY <1>2, ReturnType DEF LoseReply, ControlTypeOK
  <2> QED BY <2>2, <2>3, TypeParts
<1>3. CASE Drain(o)
  <2>1. DataTypeOK'
    <3>1. CASE RedisWrite(o)
      BY <1>3, <3>1, RedisWriteType DEF Drain, TypeOK, DataTypeOK, memoryVars
    <3>2. CASE UNCHANGED <<redisVars, used>>
      BY <1>3, <3>2 DEF Drain, TypeOK, DataTypeOK, redisVars, memoryVars
    <3> QED BY <1>3, <3>1, <3>2 DEF Drain
  <2>2. ControlTypeOK'
    BY <1>3, ReturnType DEF Drain, ControlTypeOK
  <2> QED BY <2>1, <2>2, TypeParts
<1> QED BY <1>1, <1>2, <1>3 DEF Fault

\* Starting an operation keeps the types.
LEMMA CallType ==
  ASSUME TypeOK, NEW o \in Op, Call(o) \/ ReconcileSessions(o)
  PROVE  TypeOK'
<1> USE DEF TypeOK, DataTypeOK, ControlTypeOK, redisVars, memoryVars,
            otherVars, Pc, RegisterPc, RefreshPc, SweepPc
<1>1. ASSUME NEW u \in User, RegisterConnection(o, u)
      PROVE  TypeOK'
  BY <1>1, IdleType, StateTypes, StartType, TypeParts DEF RegisterConnection
<1>2. ASSUME NEW s \in Session, CleanupSession(o, s)
      PROVE  TypeOK'
  BY <1>2, CleanupStartType, StartType, TypeParts DEF CleanupSession
<1>3. ASSUME NEW s \in Session, DeliverExpired(o, s)
      PROVE  TypeOK'
  BY <1>3, CleanupStartType, StartType, TypeParts DEF DeliverExpired
<1>4. ASSUME NEW s \in Session, RefreshSessionHeartbeat(o, s)
      PROVE  TypeOK'
  BY <1>4, IdleType, StateTypes, StartType, TypeParts
     DEF RefreshSessionHeartbeat
<1>5. CASE ReconcileSessions(o)
  BY <1>5, IdleType, StateTypes, StartType, TypeParts DEF ReconcileSessions
<1> QED BY <1>1, <1>2, <1>3, <1>4, <1>5 DEF Call

\* What happens around the service keeps the types.
LEMMA EnvironmentType ==
  ASSUME TypeOK, Environment
  PROVE  TypeOK'
<1> USE DEF TypeOK, redisVars, memoryVars, otherVars, flowVars
<1>1. ASSUME NEW s \in Session, Expire(s)
      PROVE  TypeOK'
  BY <1>1 DEF Expire
<1>2. CASE Crash
  BY <1>2 DEF Crash
<1>3. CASE Restart
  BY <1>3, IdleType DEF Restart
<1>4. CASE Listen
  BY <1>4 DEF Listen
<1> QED BY <1>1, <1>2, <1>3, <1>4 DEF Environment

\* Every step keeps the types, provided operations have their operands.
LEMMA NextType ==
  ASSUME TypeOK, \A o \in Op : OperandsPresent(o), [Next]_vars
  PROVE  TypeOK'
<1>1. ASSUME NEW o \in Worker, Call(o)
      PROVE  TypeOK'
  BY <1>1, CallType DEF Op
<1>2. ASSUME NEW o \in Sweeper, ReconcileSessions(o)
      PROVE  TypeOK'
  BY <1>2, CallType DEF Op
<1>3. ASSUME NEW o \in Op, Step(o)
      PROVE  TypeOK'
  BY <1>3, RegisterStepType, CleanupStepType, SweepStepType DEF Step
<1>4. ASSUME NEW o \in Op, Fault(o)
      PROVE  TypeOK'
  BY <1>4, FaultType
<1>5. CASE Environment
  BY <1>5, EnvironmentType
<1>6. CASE UNCHANGED vars
  BY <1>6 DEF vars, TypeOK
<1> QED BY <1>1, <1>2, <1>3, <1>4, <1>5, <1>6 DEF Next
=============================================================================
