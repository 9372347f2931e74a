------------------------ MODULE PresenceServiceProofs ------------------------
(***************************************************************************)
(* Theorems about PresenceService for any sets of users, sessions and      *)
(* operations and any bounds.  The inductive invariant is                  *)
(* TypeOK /\ RedisInv.                                                     *)
(***************************************************************************)
EXTENDS PresenceServiceTypes

USE PresenceAssumption

-----------------------------------------------------------------------------
(* What every step does to the session hashes *)

MemberInv == LiveSessionIsMember /\ SoleOwner /\ MembersWereUsed

\* A session that was registered can only die.
HashDecay ==
  /\ used \subseteq used'
  /\ \A s \in used : sessionHash'[s] \in {None, sessionHash[s]}

\* No other operation moves.
OnlyMoves(o) == \A p \in Op \ {o} : op'[p] = op[p]

\* What an operation knows about sessions survives the steps of the others.
LEMMA OthersKeep ==
  ASSUME TypeOK, NEW p \in Op, OperationInv(p), HashDecay, op'[p] = op[p]
  PROVE  OperationInv(p)'
<1> USE DEF OperationInv, HashDecay
<1>1. StaleStaysDead(p)'
  BY DEF StaleStaysDead, IdentityAgrees
<1>2. IdentityAgrees(p)'
  BY DEF IdentityAgrees
<1>3. OperandsPresent(p)'
  BY DEF OperandsPresent
<1> QED BY <1>1, <1>2, <1>3

\* The cache stays right when it only forgets.
LEMMA CacheForgets ==
  ASSUME TypeOK, CacheAgrees, HashDecay,
         \A s \in Session : identityCache'[s] \in {None, identityCache[s]}
  PROVE  CacheAgrees'
BY DEF TypeOK, CacheAgrees, HashDecay

\* An idle operation knows nothing.
LEMMA IdleKeeps ==
  ASSUME NEW o \in Op, op'[o] = Idle
  PROVE  OperationInv(o)'
BY DEF Idle, OperationInv, StaleStaysDead, IdentityAgrees, OperandsPresent,
       RegisterPc, PublishPc, CleanupPc, RefreshPc

-----------------------------------------------------------------------------
(* The writes *)

\* A step that leaves Redis alone keeps what is said of the sets.
LEMMA ReadKeeps ==
  ASSUME TypeOK, MemberInv, UNCHANGED <<redisVars, used>>
  PROVE  MemberInv' /\ HashDecay
BY DEF MemberInv, LiveSessionIsMember, SoleOwner, MembersWereUsed, Live,
       HashDecay, redisVars

\* An SREM of dead ids.
LEMMA SremKeeps ==
  ASSUME TypeOK, MemberInv, NEW u \in User, NEW ids \in SUBSET Session,
         \A s \in ids : sessionHash[s] = None,
         SremEffect(u, ids), UNCHANGED used
  PROVE  MemberInv' /\ HashDecay
<1> USE DEF TypeOK, MemberInv, SremEffect
<1>1. LiveSessionIsMember'
  BY DEF LiveSessionIsMember, Live
<1>2. SoleOwner'
  BY DEF SoleOwner
<1>3. MembersWereUsed'
  BY DEF MembersWereUsed
<1>4. HashDecay
  BY DEF HashDecay
<1> QED BY <1>1, <1>2, <1>3, <1>4

\* REGISTER_SESSION_SCRIPT of a fresh id.
LEMMA RegisterKeeps ==
  ASSUME TypeOK, MemberInv, NEW u \in User, NEW s \in Session,
         RegisterEffect(u, s)
  PROVE  MemberInv' /\ HashDecay
BY DEF TypeOK, MemberInv, LiveSessionIsMember, SoleOwner, MembersWereUsed,
       Live, HashDecay, RegisterEffect

\* CLEANUP_SESSION_SCRIPT.
LEMMA CleanupKeeps ==
  ASSUME TypeOK, MemberInv, NEW u \in User, NEW s \in Session, NEW now \in Nat,
         CleanupEffect(u, s, now), UNCHANGED used
  PROVE  MemberInv' /\ HashDecay
<1> USE DEF TypeOK, MemberInv, CleanupEffect
<1>1. LiveSessionIsMember'
  BY DEF LiveSessionIsMember, Live
<1>2. SoleOwner'
  BY DEF SoleOwner
<1>3. MembersWereUsed'
  BY DEF MembersWereUsed
<1>4. HashDecay
  BY DEF HashDecay
<1> QED BY <1>1, <1>2, <1>3, <1>4

\* The SET of last_seen by a sweep keeps what is said of the sets.
LEMMA LastSeenKeeps ==
  ASSUME TypeOK, MemberInv, NEW u \in User, NEW now \in Nat,
         SetLastSeenEffect(u, now), UNCHANGED used
  PROVE  MemberInv' /\ HashDecay
BY DEF TypeOK, MemberInv, LiveSessionIsMember, SoleOwner, MembersWereUsed,
       Live, HashDecay, SetLastSeenEffect

\* A DEL of a session hash, and its expiry.
LEMMA DelHashKeeps ==
  ASSUME TypeOK, MemberInv, NEW s \in Session,
         sessionHash' = [sessionHash EXCEPT ![s] = None],
         UNCHANGED <<userSessions, used>>
  PROVE  MemberInv' /\ HashDecay
<1> USE DEF TypeOK, MemberInv
<1>1. LiveSessionIsMember'
  BY DEF LiveSessionIsMember, Live
<1>2. SoleOwner'
  BY DEF SoleOwner
<1>3. MembersWereUsed'
  BY DEF MembersWereUsed
<1>4. HashDecay
  BY DEF HashDecay
<1> QED BY <1>1, <1>2, <1>3, <1>4

\* Any write, whether or not the operation that issued it hears of it.
LEMMA RedisWriteKeeps ==
  ASSUME TypeOK, MemberInv, NEW o \in Op, OperationInv(o), RedisWrite(o)
  PROVE  MemberInv' /\ HashDecay
<1> USE FieldTypes
    DEF OperationInv, OperandsPresent, RegisterPc, CleanupPc
<1>1. CASE op[o].pc \in {"reg_srem", "swp_srem"}
             /\ SremEffect(op[o].user, op[o].ids) /\ UNCHANGED used
  <2>1. \A s \in op[o].ids : sessionHash[s] = None
    BY <1>1 DEF StaleStaysDead
  <2>2. op[o].user \in User
    BY <1>1
  <2> QED BY <1>1, <2>1, <2>2, SremKeeps
<1>2. ASSUME NEW s \in Session, op[o].pc = "reg_script",
             RegisterEffect(op[o].user, s)
      PROVE  MemberInv' /\ HashDecay
  BY <1>2, RegisterKeeps
<1>3. CASE op[o].pc = "cln_script"
             /\ CleanupEffect(op[o].user, op[o].sid, op[o].now)
             /\ UNCHANGED used
  BY <1>3, CleanupKeeps
<1>4. CASE op[o].pc = "swp_set"
             /\ SetLastSeenEffect(op[o].user, op[o].now) /\ UNCHANGED used
  BY <1>4, LastSeenKeeps
<1>5. CASE op[o].pc = "orph_del" /\ DelHashEffect(op[o].sid) /\ UNCHANGED used
  BY <1>5, DelHashKeeps DEF DelHashEffect
<1> QED BY <1>1, <1>2, <1>3, <1>4, <1>5 DEF RedisWrite

-----------------------------------------------------------------------------
(* The ways an operation proceeds *)

\* Starting an operation moves that operation only.
LEMMA StartMoves ==
  ASSUME TypeOK, NEW o \in Op, NEW state, Start(o, state)
  PROVE  OnlyMoves(o) /\ op'[o] = state
BY DEF TypeOK, Start, OnlyMoves

\* Issuing the next command moves that operation only.
LEMMA AwaitMoves ==
  ASSUME TypeOK, NEW o \in Op, NEW state, Await(o, state)
  PROVE  OnlyMoves(o) /\ op'[o] = state
BY DEF TypeOK, Await, OnlyMoves

\* Returning moves that operation only, to a state that knows nothing.
LEMMA ReturnMoves ==
  ASSUME TypeOK, NEW o \in Op, Return(o)
  PROVE  OnlyMoves(o) /\ OperationInv(o)'
<1>1. op'[o] = Idle /\ OnlyMoves(o)
  BY DEF TypeOK, Return, OnlyMoves
<1> QED BY <1>1, IdleKeeps

\* A scan turns to a user, whose set it knows nothing about yet.
LEMMA VisitUsersKeeps ==
  ASSUME TypeOK, NEW o \in Op, NEW todo \in SUBSET User, VisitUsers(o, todo)
  PROVE  OnlyMoves(o) /\ OperationInv(o)'
<1> USE DEF OperationInv, StaleStaysDead, IdentityAgrees, OperandsPresent,
            Idle,
            RegisterPc, PublishPc, CleanupPc, RefreshPc
<1>1. CASE todo = {} /\ Await(o, [Idle EXCEPT !.pc = "orph_scan"])
  BY <1>1, AwaitMoves
<1>2. ASSUME NEW u \in todo,
             Await(o, [Idle EXCEPT !.pc = "swp_smembers", !.user = u,
                                   !.todoUsers = todo \ {u}])
      PROVE  OnlyMoves(o) /\ OperationInv(o)'
  <2>1. /\ OnlyMoves(o)
        /\ op'[o] = [Idle EXCEPT !.pc = "swp_smembers", !.user = u,
                                 !.todoUsers = todo \ {u}]
    BY <1>2, AwaitMoves
  <2>2. op'[o].pc = "swp_smembers" /\ op'[o].user \in User
    BY <2>1
  <2> QED BY <2>1, <2>2
<1> QED BY <1>1, <1>2 DEF VisitUsers

\* A scan turns to a session: the identity it takes from the cache is right.
LEMMA VisitHashesKeeps ==
  ASSUME TypeOK, CacheAgrees, HashDecay, NEW o \in Op,
         NEW todo \in SUBSET Session, VisitHashes(o, todo)
  PROVE  OnlyMoves(o) /\ OperationInv(o)'
<1>1. CASE todo = {} /\ Return(o)
  BY <1>1, ReturnMoves
<1>2. ASSUME NEW s \in todo,
             Await(o, [Idle EXCEPT
                         !.pc = IF identityCache[s] = None
                                  THEN "orph_hgetall" ELSE "orph_sismember",
                         !.sid = s, !.user = identityCache[s],
                         !.todoSids = todo \ {s}])
      PROVE  OnlyMoves(o) /\ OperationInv(o)'
  <2> DEFINE state == [Idle EXCEPT
                         !.pc = IF identityCache[s] = None
                                  THEN "orph_hgetall" ELSE "orph_sismember",
                         !.sid = s, !.user = identityCache[s],
                         !.todoSids = todo \ {s}]
  <2>0. op'[o] = state /\ OnlyMoves(o)
    <3> HIDE DEF state
    <3> QED BY <1>2, AwaitMoves DEF state
  <2>1. /\ op'[o].sid = s
        /\ op'[o].user = identityCache[s]
        /\ op'[o].pc = IF identityCache[s] = None THEN "orph_hgetall"
                                                  ELSE "orph_sismember"
    BY <2>0 DEF Idle
  <2>2. StaleStaysDead(o)'
    BY <2>1 DEF StaleStaysDead
  <2>3. IdentityAgrees(o)'
    BY <2>1 DEF IdentityAgrees, CacheAgrees, HashDecay
  <2>4. OperandsPresent(o)'
    BY <2>1 DEF OperandsPresent, TypeOK, RegisterPc, PublishPc, CleanupPc,
                RefreshPc
  <2> QED BY <2>0, <2>2, <2>3, <2>4 DEF OperationInv
<1> QED BY <1>1, <1>2 DEF VisitHashes

\* A cleanup starts: the identity it takes from the cache is right.
LEMMA CleanupStartKeeps ==
  ASSUME TypeOK, CacheAgrees, HashDecay, NEW o \in Op, NEW s \in Session,
         op'[o] = CleanupStart(s)
  PROVE  OperationInv(o)'
<1>1. CASE identityCache[s] # None
  <2>1. /\ op'[o].pc = "cln_time"
        /\ op'[o].sid = s
        /\ op'[o].user = identityCache[s]
    BY <1>1 DEF CleanupStart, Idle
  <2> QED BY <1>1, <2>1
          DEF OperationInv, StaleStaysDead, IdentityAgrees, OperandsPresent,
              CacheAgrees, HashDecay, TypeOK, RegisterPc, PublishPc, CleanupPc,
              RefreshPc
<1>2. CASE identityCache[s] = None
  <2>1. op'[o].pc = "cln_hgetall" /\ op'[o].sid = s
    BY <1>2 DEF CleanupStart, Idle
  <2> QED BY <2>1
          DEF OperationInv, StaleStaysDead, IdentityAgrees, OperandsPresent,
              RegisterPc, PublishPc, CleanupPc, RefreshPc
<1> QED BY <1>1, <1>2

-----------------------------------------------------------------------------
(* Steps *)

StepKeeps(o) ==
  MemberInv' /\ HashDecay /\ OnlyMoves(o) /\ CacheAgrees' /\ OperationInv(o)'

\* A step that only reads.
LEMMA ReadStep ==
  ASSUME TypeOK, RedisInv, NEW o \in Op, OnlyMoves(o),
         UNCHANGED <<redisVars, used, identityCache>>,
         HashDecay => OperationInv(o)'
  PROVE  StepKeeps(o)
<1>1. MemberInv' /\ HashDecay
  BY ReadKeeps DEF RedisInv, MemberInv
<1>2. CacheAgrees'
  BY <1>1, CacheForgets DEF RedisInv
<1> QED BY <1>1, <1>2 DEF StepKeeps

\* A step that changes Redis or forgets cached identities.
LEMMA WriteStep ==
  ASSUME TypeOK, RedisInv, NEW o \in Op, OnlyMoves(o), MemberInv', HashDecay,
         \A s \in Session : identityCache'[s] \in {None, identityCache[s]},
         OperationInv(o)'
  PROVE  StepKeeps(o)
BY CacheForgets DEF RedisInv, StepKeeps

\* Forget takes entries out of the cache and changes no other.
LEMMA ForgetForgets ==
  ASSUME TypeOK, NEW ids, Forget(ids)
  PROVE  \A s \in Session : identityCache'[s] \in {None, identityCache[s]}
BY DEF TypeOK, Forget

\* A live session was registered, and by a user.
LEMMA LiveWasUsed ==
  ASSUME TypeOK, RedisInv, NEW s \in Session, sessionHash[s] # None
  PROVE  s \in used /\ sessionHash[s] \in User
BY DEF TypeOK, RedisInv, LiveSessionIsMember, MembersWereUsed, Live

\* The cache learns the identity in a hash.
LEMMA CacheLearns ==
  ASSUME TypeOK, CacheAgrees, HashDecay, NEW s \in Session,
         s \in used', sessionHash'[s] \in {None, identityCache'[s]},
         \A r \in Session \ {s} : identityCache'[r] = identityCache[r]
  PROVE  CacheAgrees'
BY DEF TypeOK, CacheAgrees, HashDecay

\* RedisInv and the steps of a registration.
LEMMA RegisterStepKeeps ==
  ASSUME TypeOK, RedisInv, NEW o \in Op, RegisterStep(o)
  PROVE  StepKeeps(o)
<1> USE DEF AtHead
<1>0. OperationInv(o)
  BY DEF RedisInv
<1>1. CASE PruneRead(o)
  <2>1. UNCHANGED <<redisVars, used, identityCache>>
    BY <1>1 DEF PruneRead, memoryVars, otherVars
  <2>2. /\ OnlyMoves(o)
        /\ \/ op'[o] = [op[o] EXCEPT !.pc = "reg_time"]
           \/ op'[o] = [op[o] EXCEPT !.pc = "reg_exists",
                                  !.ids = userSessions[op[o].user]]
    BY <1>1, AwaitMoves, FieldTypes DEF PruneRead
  <2>3. ASSUME op'[o] = [op[o] EXCEPT !.pc = "reg_time"]
       PROVE  HashDecay => OperationInv(o)'
    <3>1. /\ op'[o].pc = "reg_time"
          /\ op'[o].user = op[o].user
      BY <2>3, FieldTypes DEF OpState
    <3> QED BY <1>0, <1>1, <2>1, <3>1
            DEF PruneRead, OperationInv, StaleStaysDead, IdentityAgrees,
                OperandsPresent, RegisterPc, PublishPc, CleanupPc, RefreshPc,
                HashDecay, redisVars, TypeOK, RedisInv, MembersWereUsed
  <2>4. ASSUME op'[o] = [op[o] EXCEPT !.pc = "reg_exists",
                                     !.ids = userSessions[op[o].user]]
       PROVE  HashDecay => OperationInv(o)'
    <3>1. /\ op'[o].pc = "reg_exists"
          /\ op'[o].user = op[o].user
          /\ op'[o].ids = userSessions[op[o].user]
      BY <2>4, FieldTypes DEF OpState
    <3> QED BY <1>0, <1>1, <2>1, <3>1
            DEF PruneRead, OperationInv, StaleStaysDead, IdentityAgrees,
                OperandsPresent, RegisterPc, PublishPc, CleanupPc, RefreshPc,
                HashDecay, redisVars, TypeOK, RedisInv, MembersWereUsed
  <2> QED BY <2>1, <2>2, <2>3, <2>4, ReadStep
<1>2. CASE PruneCheck(o)
  <2>1. UNCHANGED <<redisVars, used, identityCache>>
    BY <1>2 DEF PruneCheck, memoryVars, otherVars
  <2>2. /\ OnlyMoves(o)
        /\ \/ op'[o] = [op[o] EXCEPT !.pc = "reg_time", !.ids = {}]
           \/ op'[o] = [op[o] EXCEPT !.pc = "reg_srem",
                                  !.ids = Stale(op[o].ids)]
    BY <1>2, AwaitMoves, FieldTypes DEF PruneCheck
  <2>3. ASSUME op'[o] = [op[o] EXCEPT !.pc = "reg_time", !.ids = {}]
       PROVE  HashDecay => OperationInv(o)'
    <3>1. /\ op'[o].pc = "reg_time"
          /\ op'[o].user = op[o].user
      BY <2>3, FieldTypes DEF OpState
    <3> QED BY <1>0, <1>2, <2>1, <3>1
            DEF PruneCheck, OperationInv, StaleStaysDead, IdentityAgrees,
                OperandsPresent, RegisterPc, PublishPc, CleanupPc, RefreshPc,
                HashDecay, redisVars, TypeOK, Stale
  <2>4. ASSUME op'[o] = [op[o] EXCEPT !.pc = "reg_srem",
                                     !.ids = Stale(op[o].ids)]
       PROVE  HashDecay => OperationInv(o)'
    <3>1. /\ op'[o].pc = "reg_srem"
          /\ op'[o].user = op[o].user
          /\ op'[o].ids = Stale(op[o].ids)
      BY <2>4, FieldTypes DEF OpState
    <3> QED BY <1>0, <1>2, <2>1, <3>1
            DEF PruneCheck, OperationInv, StaleStaysDead, IdentityAgrees,
                OperandsPresent, RegisterPc, PublishPc, CleanupPc, RefreshPc,
                HashDecay, redisVars, TypeOK, Stale
  <2> QED BY <2>1, <2>2, <2>3, <2>4, ReadStep
<1>3. CASE PruneRemove(o)
  <2>1. OnlyMoves(o) /\ op'[o] = [op[o] EXCEPT !.pc = "reg_time", !.ids = {}]
    BY <1>3, AwaitMoves DEF PruneRemove
  <2>2. /\ op'[o].pc = "reg_time"
        /\ op'[o].user = op[o].user
    BY <2>1, FieldTypes DEF OpState
  <2>3. OperationInv(o)'
    BY <1>0, <1>3, <2>2
    DEF PruneRemove, OperationInv, StaleStaysDead, IdentityAgrees,
        OperandsPresent, RegisterPc, PublishPc, CleanupPc, RefreshPc
  <2>4. MemberInv' /\ HashDecay
    BY <1>0, <1>3, RedisWriteKeeps
    DEF PruneRemove, RedisWrite, RedisInv, MemberInv, otherVars
  <2> QED BY <1>3, <2>1, <2>3, <2>4, ForgetForgets, WriteStep DEF PruneRemove
<1>4. CASE RegisterTime(o)
  <2>1. UNCHANGED <<redisVars, used, identityCache>>
    BY <1>4 DEF RegisterTime, memoryVars, otherVars
  <2>2. /\ OnlyMoves(o)
        /\ op'[o] = [op[o] EXCEPT !.pc = "reg_script"]
    BY <1>4, AwaitMoves, FieldTypes DEF RegisterTime
  <2>3. ASSUME op'[o] = [op[o] EXCEPT !.pc = "reg_script"]
       PROVE  HashDecay => OperationInv(o)'
    <3>1. /\ op'[o].pc = "reg_script"
          /\ op'[o].user = op[o].user
      BY <2>3, FieldTypes DEF OpState
    <3> QED BY <1>0, <1>4, <2>1, <3>1
            DEF RegisterTime, OperationInv, StaleStaysDead, IdentityAgrees,
                OperandsPresent, RegisterPc, PublishPc, CleanupPc, RefreshPc,
                HashDecay, redisVars, TypeOK
  <2> QED BY <2>1, <2>2, <2>3, ReadStep
<1>5. CASE RegisterScript(o)
  <2> DEFINE u == op[o].user
  <2>1. PICK s \in Session :
          /\ RegisterEffect(u, s)
          /\ identityCache' = [identityCache EXCEPT ![s] = u]
          /\ \/ Await(o, [Idle EXCEPT !.pc = "pub_online", !.user = u,
                                      !.sid = s])
             \/ Return(o)
    BY <1>5 DEF RegisterScript
  <2>2. u \in User
    BY <1>0, <1>5 DEF RegisterScript, OperationInv, OperandsPresent, RegisterPc
  <2>3. MemberInv' /\ HashDecay
    BY <2>1, <2>2, RegisterKeeps DEF RedisInv, MemberInv
  <2>4. CacheAgrees'
    BY <2>1, <2>2, <2>3, CacheLearns DEF RegisterEffect, RedisInv, TypeOK
  <2>5. OnlyMoves(o) /\ OperationInv(o)'
    <3>1. CASE Return(o)
      BY <3>1, ReturnMoves
    <3>2. CASE Await(o, [Idle EXCEPT !.pc = "pub_online", !.user = u,
                                     !.sid = s])
      <4>1. /\ OnlyMoves(o)
            /\ op'[o] = [Idle EXCEPT !.pc = "pub_online", !.user = u,
                                     !.sid = s]
        BY <3>2, AwaitMoves
      <4>2. /\ op'[o].pc = "pub_online"
            /\ op'[o].user = u
            /\ op'[o].sid = s
        BY <4>1 DEF Idle
      <4> QED BY <2>2, <4>1, <4>2
              DEF OperationInv, StaleStaysDead, IdentityAgrees,
                  OperandsPresent, RegisterPc, PublishPc, CleanupPc, RefreshPc
    <3> QED BY <2>1, <3>1, <3>2
  <2> QED BY <2>3, <2>4, <2>5 DEF StepKeeps
<1>6. CASE RegisterCollision(o)
  <2>1. UNCHANGED <<redisVars, used, identityCache>>
    BY <1>6 DEF RegisterCollision, memoryVars, otherVars
  <2>2. /\ OnlyMoves(o)
        /\ \/ op'[o] = [op[o] EXCEPT !.pc = "reg_time",
                                  !.tries = op[o].tries + 1]
           \/ OperationInv(o)'
    BY <1>6, AwaitMoves, ReturnMoves, FieldTypes DEF RegisterCollision
  <2>3. ASSUME op'[o] = [op[o] EXCEPT !.pc = "reg_time",
                                     !.tries = op[o].tries + 1]
       PROVE  HashDecay => OperationInv(o)'
    <3>1. /\ op'[o].pc = "reg_time"
          /\ op'[o].user = op[o].user
      BY <2>3, FieldTypes DEF OpState
    <3> QED BY <1>0, <1>6, <2>1, <3>1
            DEF RegisterCollision, OperationInv, StaleStaysDead,
                IdentityAgrees, OperandsPresent, RegisterPc, PublishPc,
                CleanupPc, RefreshPc, HashDecay, redisVars, TypeOK
  <2> QED BY <2>1, <2>2, <2>3, ReadStep
<1>7. CASE PublishOnline(o)
  <2>1. UNCHANGED <<redisVars, used, identityCache>>
    BY <1>7 DEF PublishOnline, memoryVars, otherVars
  <2>2. OnlyMoves(o) /\ OperationInv(o)'
    BY <1>7, ReturnMoves, FieldTypes DEF PublishOnline
  <2> QED BY <2>1, <2>2, ReadStep
<1> QED BY <1>1, <1>2, <1>3, <1>4, <1>5, <1>6, <1>7 DEF RegisterStep

\* RedisInv and the steps of a cleanup or of a heartbeat.
LEMMA CleanupStepKeeps ==
  ASSUME TypeOK, RedisInv, NEW o \in Op, CleanupStep(o)
  PROVE  StepKeeps(o)
<1> USE DEF AtHead
<1>0. OperationInv(o)
  BY DEF RedisInv
<1>1. CASE CleanupResolve(o)
  <2> DEFINE s == op[o].sid
  <2>1. s \in Session
    BY <1>0, <1>1
    DEF CleanupResolve, OperationInv, OperandsPresent, RegisterPc, PublishPc,
        CleanupPc, RefreshPc
  <2>2. MemberInv' /\ HashDecay
    BY <1>1, ReadKeeps DEF CleanupResolve, RedisInv, MemberInv, otherVars
  <2>3. CASE Return(o) /\ UNCHANGED identityCache
    BY <1>1, <2>2, <2>3, ReturnMoves, FieldTypes, WriteStep
    DEF RedisInv, TypeOK
  <2>4. ASSUME sessionHash[s] # None,
               identityCache' = [identityCache EXCEPT ![s] = sessionHash[s]],
               Await(o, [op[o] EXCEPT !.pc = "cln_time",
                                      !.user = sessionHash[s]])
        PROVE  StepKeeps(o)
    <3>1. s \in used /\ sessionHash[s] \in User
      BY <2>1, <2>4, LiveWasUsed
    <3>2. CacheAgrees'
      BY <1>1, <2>1, <2>2, <2>4, <3>1, CacheLearns
      DEF CleanupResolve, RedisInv, TypeOK, redisVars, otherVars
    <3>3. OnlyMoves(o) /\ op'[o] = [op[o] EXCEPT !.pc = "cln_time",
                                                !.user = sessionHash[s]]
      BY <2>4, AwaitMoves
    <3>4. /\ op'[o].pc = "cln_time"
          /\ op'[o].user = sessionHash[s]
          /\ op'[o].sid = s
      BY <3>3, FieldTypes DEF OpState
    <3>5. OperationInv(o)'
      BY <1>1, <2>1, <2>2, <3>1, <3>4
      DEF CleanupResolve, OperationInv, StaleStaysDead, IdentityAgrees,
          OperandsPresent, RegisterPc, PublishPc, CleanupPc, RefreshPc,
          HashDecay
    <3> QED BY <2>2, <3>2, <3>3, <3>5 DEF StepKeeps
  <2> QED BY <1>1, <2>3, <2>4 DEF CleanupResolve
<1>2. CASE CleanupTime(o)
  <2>1. UNCHANGED <<redisVars, used, identityCache>>
    BY <1>2 DEF CleanupTime, memoryVars, otherVars
  <2>2. /\ OnlyMoves(o)
        /\ op'[o] = [op[o] EXCEPT !.pc = "cln_script", !.now = clock']
    BY <1>2, AwaitMoves, FieldTypes DEF CleanupTime
  <2>3. ASSUME op'[o] = [op[o] EXCEPT !.pc = "cln_script", !.now = clock']
       PROVE  HashDecay => OperationInv(o)'
    <3>1. /\ op'[o].pc = "cln_script"
          /\ op'[o].user = op[o].user
          /\ op'[o].sid = op[o].sid
      BY <2>3, FieldTypes DEF OpState
    <3> QED BY <1>0, <1>2, <2>1, <3>1
            DEF CleanupTime, OperationInv, StaleStaysDead, IdentityAgrees,
                OperandsPresent, RegisterPc, PublishPc, CleanupPc, RefreshPc,
                HashDecay, redisVars, TypeOK
  <2> QED BY <2>1, <2>2, <2>3, ReadStep
<1>3. CASE CleanupScript(o)
  <2>1. MemberInv' /\ HashDecay
    BY <1>0, <1>3, RedisWriteKeeps
    DEF CleanupScript, RedisWrite, RedisInv, MemberInv, otherVars
  <2>2. op[o].user \in User
    BY <1>0, <1>3 DEF CleanupScript, OperationInv, OperandsPresent
  <2>3. OnlyMoves(o) /\ OperationInv(o)'
    <3>1. CASE Return(o)
      BY <3>1, ReturnMoves
    <3>2. CASE Await(o, [Idle EXCEPT !.pc = "pub_offline",
                                     !.user = op[o].user])
      <4>1. /\ OnlyMoves(o)
            /\ op'[o] = [Idle EXCEPT !.pc = "pub_offline",
                                     !.user = op[o].user]
        BY <3>2, AwaitMoves
      <4>2. op'[o].pc = "pub_offline" /\ op'[o].user = op[o].user
        BY <4>1 DEF Idle
      <4> QED BY <2>2, <4>1, <4>2
              DEF OperationInv, StaleStaysDead, IdentityAgrees,
                  OperandsPresent, RegisterPc, PublishPc, CleanupPc, RefreshPc
    <3> QED BY <1>3, <3>1, <3>2 DEF CleanupScript
  <2> QED BY <1>3, <2>1, <2>3, ForgetForgets, WriteStep DEF CleanupScript
<1>4. CASE PublishOffline(o)
  <2>1. UNCHANGED <<redisVars, used, identityCache>>
    BY <1>4 DEF PublishOffline, memoryVars, otherVars
  <2>2. OnlyMoves(o) /\ OperationInv(o)'
    BY <1>4, ReturnMoves, FieldTypes DEF PublishOffline
  <2> QED BY <2>1, <2>2, ReadStep
<1>5. CASE RefreshTime(o)
  <2>1. UNCHANGED <<redisVars, used, identityCache>>
    BY <1>5 DEF RefreshTime, memoryVars, otherVars
  <2>2. /\ OnlyMoves(o)
        /\ op'[o] = [op[o] EXCEPT !.pc = "ref_script"]
    BY <1>5, AwaitMoves, FieldTypes DEF RefreshTime
  <2>3. ASSUME op'[o] = [op[o] EXCEPT !.pc = "ref_script"]
       PROVE  HashDecay => OperationInv(o)'
    <3>1. /\ op'[o].pc = "ref_script"
          /\ op'[o].user = op[o].user
          /\ op'[o].sid = op[o].sid
      BY <2>3, FieldTypes DEF OpState
    <3> QED BY <1>0, <1>5, <2>1, <3>1
            DEF RefreshTime, OperationInv, StaleStaysDead, IdentityAgrees,
                OperandsPresent, RegisterPc, PublishPc, CleanupPc, RefreshPc,
                HashDecay, redisVars, TypeOK
  <2> QED BY <2>1, <2>2, <2>3, ReadStep
<1>6. CASE RefreshScript(o)
  <2>1. UNCHANGED <<redisVars, used, identityCache>>
    BY <1>6 DEF RefreshScript, memoryVars, otherVars
  <2>2. op[o].sid \in Session
    BY <1>0, <1>6 DEF RefreshScript, OperationInv, OperandsPresent, RefreshPc
  <2>3. OnlyMoves(o) /\ (HashDecay => OperationInv(o)')
    BY <1>6, <2>2, AwaitMoves, ReturnMoves, CleanupStartKeeps
    DEF RefreshScript, RedisInv
  <2> QED BY <2>1, <2>3, ReadStep
<1> QED BY <1>1, <1>2, <1>3, <1>4, <1>5, <1>6 DEF CleanupStep

\* RedisInv and the steps of a sweep.
LEMMA SweepStepKeeps ==
  ASSUME TypeOK, RedisInv, NEW o \in Op, SweepStep(o)
  PROVE  StepKeeps(o)
<1> USE DEF AtHead
<1>0. OperationInv(o)
  BY DEF RedisInv
<1>1. CASE SweepScan(o)
  <2>1. UNCHANGED <<redisVars, used, identityCache>>
    BY <1>1 DEF SweepScan, memoryVars, otherVars
  <2>2. OnlyMoves(o) /\ OperationInv(o)'
    BY <1>1, VisitUsersKeeps, FieldTypes DEF SweepScan, Parsable
  <2> QED BY <2>1, <2>2, ReadStep
<1>2. CASE SweepRead(o)
  <2>1. UNCHANGED <<redisVars, used, identityCache>>
    BY <1>2 DEF SweepRead, memoryVars, otherVars
  <2>2. /\ OnlyMoves(o)
        /\ \/ op'[o] = [op[o] EXCEPT !.pc = "swp_exists",
                                  !.ids = userSessions[op[o].user]]
           \/ OperationInv(o)'
    BY <1>2, AwaitMoves, VisitUsersKeeps, FieldTypes DEF SweepRead
  <2>3. ASSUME op'[o] = [op[o] EXCEPT !.pc = "swp_exists",
                                     !.ids = userSessions[op[o].user]]
       PROVE  HashDecay => OperationInv(o)'
    <3>1. /\ op'[o].pc = "swp_exists"
          /\ op'[o].user = op[o].user
          /\ op'[o].ids = userSessions[op[o].user]
      BY <2>3, FieldTypes DEF OpState
    <3> QED BY <1>0, <1>2, <2>1, <3>1
            DEF SweepRead, OperationInv, StaleStaysDead, IdentityAgrees,
                OperandsPresent, RegisterPc, PublishPc, CleanupPc, RefreshPc,
                HashDecay, redisVars, TypeOK, RedisInv, MembersWereUsed
  <2> QED BY <2>1, <2>2, <2>3, ReadStep
<1>3. CASE SweepCheck(o)
  <2>1. UNCHANGED <<redisVars, used, identityCache>>
    BY <1>3 DEF SweepCheck, memoryVars, otherVars
  <2>2. /\ OnlyMoves(o)
        /\ \/ op'[o] = [op[o] EXCEPT !.pc = "swp_srem",
                                  !.ids = Stale(op[o].ids)]
           \/ OperationInv(o)'
    BY <1>3, AwaitMoves, VisitUsersKeeps, FieldTypes DEF SweepCheck
  <2>3. ASSUME op'[o] = [op[o] EXCEPT !.pc = "swp_srem",
                                     !.ids = Stale(op[o].ids)]
       PROVE  HashDecay => OperationInv(o)'
    <3>1. /\ op'[o].pc = "swp_srem"
          /\ op'[o].user = op[o].user
          /\ op'[o].ids = Stale(op[o].ids)
      BY <2>3, FieldTypes DEF OpState
    <3> QED BY <1>0, <1>3, <2>1, <3>1
            DEF SweepCheck, OperationInv, StaleStaysDead, IdentityAgrees,
                OperandsPresent, RegisterPc, PublishPc, CleanupPc, RefreshPc,
                HashDecay, redisVars, TypeOK, Stale
  <2> QED BY <2>1, <2>2, <2>3, ReadStep
<1>4. CASE SweepRemove(o)
  <2>1. OnlyMoves(o) /\ op'[o] = [op[o] EXCEPT !.pc = "swp_scard", !.ids = {}]
    BY <1>4, AwaitMoves DEF SweepRemove
  <2>2. /\ op'[o].pc = "swp_scard"
        /\ op'[o].user = op[o].user
    BY <2>1, FieldTypes DEF OpState
  <2>3. OperationInv(o)'
    BY <1>0, <1>4, <2>2
    DEF SweepRemove, OperationInv, StaleStaysDead, IdentityAgrees,
        OperandsPresent, RegisterPc, PublishPc, CleanupPc, RefreshPc
  <2>4. MemberInv' /\ HashDecay
    BY <1>0, <1>4, RedisWriteKeeps
    DEF SweepRemove, RedisWrite, RedisInv, MemberInv, otherVars
  <2> QED BY <1>4, <2>1, <2>3, <2>4, ForgetForgets, WriteStep DEF SweepRemove
<1>5. CASE SweepCount(o)
  <2>1. UNCHANGED <<redisVars, used, identityCache>>
    BY <1>5 DEF SweepCount, memoryVars, otherVars
  <2>2. /\ OnlyMoves(o)
        /\ \/ op'[o] = [op[o] EXCEPT !.pc = "swp_time"]
           \/ OperationInv(o)'
    BY <1>5, AwaitMoves, VisitUsersKeeps, FieldTypes DEF SweepCount
  <2>3. ASSUME op'[o] = [op[o] EXCEPT !.pc = "swp_time"]
       PROVE  HashDecay => OperationInv(o)'
    <3>1. /\ op'[o].pc = "swp_time"
          /\ op'[o].user = op[o].user
      BY <2>3, FieldTypes DEF OpState
    <3> QED BY <1>0, <1>5, <2>1, <3>1
            DEF SweepCount, OperationInv, StaleStaysDead, IdentityAgrees,
                OperandsPresent, RegisterPc, PublishPc, CleanupPc, RefreshPc,
                HashDecay, redisVars, TypeOK
  <2> QED BY <2>1, <2>2, <2>3, ReadStep
<1>6. CASE SweepTime(o)
  <2>1. UNCHANGED <<redisVars, used, identityCache>>
    BY <1>6 DEF SweepTime, memoryVars, otherVars
  <2>2. /\ OnlyMoves(o)
        /\ op'[o] = [op[o] EXCEPT !.pc = "swp_set", !.now = clock']
    BY <1>6, AwaitMoves, FieldTypes DEF SweepTime
  <2>3. ASSUME op'[o] = [op[o] EXCEPT !.pc = "swp_set", !.now = clock']
       PROVE  HashDecay => OperationInv(o)'
    <3>1. /\ op'[o].pc = "swp_set"
          /\ op'[o].user = op[o].user
      BY <2>3, FieldTypes DEF OpState
    <3> QED BY <1>0, <1>6, <2>1, <3>1
            DEF SweepTime, OperationInv, StaleStaysDead, IdentityAgrees,
                OperandsPresent, RegisterPc, PublishPc, CleanupPc, RefreshPc,
                HashDecay, redisVars, TypeOK
  <2> QED BY <2>1, <2>2, <2>3, ReadStep
<1>7. CASE SweepSetLastSeen(o)
  <2>1. MemberInv' /\ HashDecay
    BY <1>0, <1>7, RedisWriteKeeps
    DEF SweepSetLastSeen, RedisWrite, RedisInv, MemberInv, otherVars
  <2>2. OnlyMoves(o) /\ op'[o] = [op[o] EXCEPT !.pc = "swp_publish"]
    BY <1>7, AwaitMoves DEF SweepSetLastSeen
  <2>3. op'[o].pc = "swp_publish" /\ op'[o].user = op[o].user
    BY <2>2, FieldTypes DEF OpState
  <2>4. OperationInv(o)'
    BY <1>0, <1>7, <2>3
    DEF SweepSetLastSeen, OperationInv, StaleStaysDead, IdentityAgrees,
        OperandsPresent, RegisterPc, PublishPc, CleanupPc, RefreshPc
  <2> QED BY <1>7, <2>1, <2>2, <2>4, WriteStep
          DEF SweepSetLastSeen, TypeOK, memoryVars
<1>8. CASE SweepPublish(o)
  <2>1. UNCHANGED <<redisVars, used, identityCache>>
    BY <1>8 DEF SweepPublish, memoryVars, otherVars
  <2>2. OnlyMoves(o) /\ OperationInv(o)'
    BY <1>8, VisitUsersKeeps, FieldTypes DEF SweepPublish
  <2> QED BY <2>1, <2>2, ReadStep
<1>9. CASE OrphanScan(o)
  <2>1. UNCHANGED <<redisVars, used, identityCache>>
    BY <1>9 DEF OrphanScan, memoryVars, otherVars
  <2>2. HashDecay
    BY <2>1 DEF HashDecay, redisVars
  <2>3. OnlyMoves(o) /\ OperationInv(o)'
    BY <1>9, <2>2, VisitHashesKeeps, FieldTypes DEF OrphanScan, RedisInv
  <2> QED BY <2>1, <2>3, ReadStep
<1>10. CASE OrphanResolve(o)
  <2> DEFINE s == op[o].sid
  <2>1. s \in Session
    BY <1>0, <1>10
    DEF OrphanResolve, OperationInv, OperandsPresent, RegisterPc, PublishPc,
        CleanupPc, RefreshPc
  <2>2. MemberInv' /\ HashDecay
    BY <1>10, ReadKeeps DEF OrphanResolve, RedisInv, MemberInv, otherVars
  <2>3. CASE VisitHashes(o, op[o].todoSids) /\ UNCHANGED identityCache
    BY <1>10, <2>2, <2>3, VisitHashesKeeps, FieldTypes, WriteStep
    DEF RedisInv, TypeOK
  <2>4. ASSUME sessionHash[s] # None,
               identityCache' = [identityCache EXCEPT ![s] = sessionHash[s]],
               Await(o, [op[o] EXCEPT !.pc = "orph_sismember",
                                      !.user = sessionHash[s]])
        PROVE  StepKeeps(o)
    <3>1. s \in used /\ sessionHash[s] \in User
      BY <2>1, <2>4, LiveWasUsed
    <3>2. CacheAgrees'
      BY <1>10, <2>1, <2>2, <2>4, <3>1, CacheLearns
      DEF OrphanResolve, RedisInv, TypeOK, redisVars, otherVars
    <3>3. OnlyMoves(o) /\ op'[o] = [op[o] EXCEPT !.pc = "orph_sismember",
                                                !.user = sessionHash[s]]
      BY <2>4, AwaitMoves
    <3>4. /\ op'[o].pc = "orph_sismember"
          /\ op'[o].user = sessionHash[s]
          /\ op'[o].sid = s
      BY <3>3, FieldTypes DEF OpState
    <3>5. OperationInv(o)'
      BY <1>10, <2>1, <2>2, <3>1, <3>4
      DEF OrphanResolve, OperationInv, StaleStaysDead, IdentityAgrees,
          OperandsPresent, RegisterPc, PublishPc, CleanupPc, RefreshPc,
          HashDecay
    <3> QED BY <2>2, <3>2, <3>3, <3>5 DEF StepKeeps
  <2> QED BY <1>10, <2>3, <2>4 DEF OrphanResolve
<1>11. CASE OrphanCheck(o)
  <2>1. UNCHANGED <<redisVars, used, identityCache>>
    BY <1>11 DEF OrphanCheck, memoryVars, otherVars
  <2>0. HashDecay
    BY <2>1 DEF HashDecay, redisVars
  <2>2. CASE VisitHashes(o, op[o].todoSids)
    BY <2>0, <2>1, <2>2, VisitHashesKeeps, FieldTypes, ReadStep DEF RedisInv
  <2>3. ASSUME op[o].sid \notin userSessions[op[o].user],
               Await(o, [op[o] EXCEPT !.pc = "orph_del"])
        PROVE  StepKeeps(o)
    <3>1. OnlyMoves(o) /\ op'[o] = [op[o] EXCEPT !.pc = "orph_del"]
      BY <2>3, AwaitMoves
    <3>2. /\ op'[o].pc = "orph_del"
          /\ op'[o].user = op[o].user
          /\ op'[o].sid = op[o].sid
      BY <3>1, FieldTypes DEF OpState
    <3>3. sessionHash[op[o].sid] = None
      BY <1>0, <1>11, <2>3
      DEF OrphanCheck, OperationInv, IdentityAgrees, OperandsPresent, RedisInv,
          LiveSessionIsMember, Live
    <3>4. OperationInv(o)'
      BY <1>0, <1>11, <2>1, <3>2, <3>3
      DEF OrphanCheck, OperationInv, StaleStaysDead, IdentityAgrees,
          OperandsPresent, RegisterPc, PublishPc, CleanupPc, RefreshPc,
          redisVars
    <3> QED BY <2>1, <3>1, <3>4, ReadStep
  <2> QED BY <1>11, <2>2, <2>3 DEF OrphanCheck
<1>12. CASE OrphanDelete(o)
  <2>1. MemberInv' /\ HashDecay
    BY <1>0, <1>12, RedisWriteKeeps
    DEF OrphanDelete, RedisWrite, RedisInv, MemberInv, otherVars
  <2>2. OnlyMoves(o) /\ OperationInv(o)'
    BY <1>12, <2>1, VisitHashesKeeps, FieldTypes DEF OrphanDelete, RedisInv
  <2> QED BY <1>12, <2>1, <2>2, ForgetForgets, WriteStep DEF OrphanDelete
<1> QED BY <1>1, <1>2, <1>3, <1>4, <1>5, <1>6, <1>7, <1>8, <1>9, <1>10, <1>11,
    <1>12 DEF SweepStep

\* RedisInv and a command that fails, a reply that is lost and a command
\* drained after a crash.
LEMMA FaultKeeps ==
  ASSUME TypeOK, RedisInv, NEW o \in Op, Fault(o)
  PROVE  StepKeeps(o)
<1>0. OperationInv(o)
  BY DEF RedisInv
<1>1. Return(o) /\ UNCHANGED identityCache
  BY DEF Fault, Reject, LoseReply, Drain, memoryVars
<1>2. OnlyMoves(o) /\ OperationInv(o)'
  BY <1>1, ReturnMoves
<1>3. CASE RedisWrite(o)
  <2>1. MemberInv' /\ HashDecay
    BY <1>0, <1>3, RedisWriteKeeps DEF RedisInv, MemberInv
  <2> QED BY <1>1, <1>2, <2>1, WriteStep DEF TypeOK
<1>4. CASE UNCHANGED <<redisVars, used>>
  BY <1>1, <1>2, <1>4, ReadStep
<1> QED BY <1>3, <1>4 DEF Fault, Reject, LoseReply, Drain, redisVars

\* RedisInv and the start of an operation.
LEMMA CallKeeps ==
  ASSUME TypeOK, RedisInv, NEW o \in Op, Call(o) \/ ReconcileSessions(o)
  PROVE  StepKeeps(o)
<1> USE DEF OperationInv, StaleStaysDead, IdentityAgrees, OperandsPresent,
            RegisterPc, PublishPc, CleanupPc, RefreshPc, memoryVars, otherVars
<1>1. ASSUME NEW u \in User, RegisterConnection(o, u)
      PROVE  StepKeeps(o)
  <2>1. /\ OnlyMoves(o)
        /\ op'[o] = [Idle EXCEPT !.pc = "reg_smembers", !.user = u]
    BY <1>1, StartMoves DEF RegisterConnection
  <2>2. op'[o].pc = "reg_smembers" /\ op'[o].user = u
    BY <2>1 DEF Idle
  <2> QED BY <1>1, <2>1, <2>2, ReadStep DEF RegisterConnection
<1>2. ASSUME NEW s \in Session, CleanupSession(o, s) \/ DeliverExpired(o, s)
      PROVE  StepKeeps(o)
  <2>1. OnlyMoves(o) /\ op'[o] = CleanupStart(s)
    BY <1>2, StartMoves DEF CleanupSession, DeliverExpired
  <2>2. UNCHANGED <<redisVars, used, identityCache>>
    BY <1>2 DEF CleanupSession, DeliverExpired
  <2>3. HashDecay => OperationInv(o)'
    <3> HIDE DEF OperationInv
    <3> QED BY <2>1, CleanupStartKeeps DEF RedisInv
  <2> QED BY <2>1, <2>2, <2>3, ReadStep
<1>3. ASSUME NEW s \in Session, RefreshSessionHeartbeat(o, s)
      PROVE  StepKeeps(o)
  <2>1. /\ OnlyMoves(o)
        /\ op'[o] = [Idle EXCEPT !.pc = "ref_time", !.sid = s]
    BY <1>3, StartMoves DEF RefreshSessionHeartbeat
  <2>2. op'[o].pc = "ref_time" /\ op'[o].sid = s
    BY <2>1 DEF Idle
  <2> QED BY <1>3, <2>1, <2>2, ReadStep DEF RefreshSessionHeartbeat
<1>4. CASE ReconcileSessions(o)
  <2>1. OnlyMoves(o) /\ op'[o] = [Idle EXCEPT !.pc = "swp_scan"]
    BY <1>4, StartMoves DEF ReconcileSessions
  <2>2. op'[o].pc = "swp_scan"
    BY <2>1 DEF Idle
  <2> QED BY <1>4, <2>1, <2>2, ReadStep DEF ReconcileSessions
<1> QED BY <1>1, <1>2, <1>3, <1>4 DEF Call

\* A step of one operation keeps RedisInv.
LEMMA StepKeepsInv ==
  ASSUME TypeOK, RedisInv, NEW o \in Op, StepKeeps(o)
  PROVE  RedisInv'
<1>1. ASSUME NEW p \in Op
      PROVE  OperationInv(p)'
  <2>1. CASE p = o
    BY <2>1 DEF StepKeeps
  <2>2. CASE p # o
    BY <2>2, OthersKeep DEF StepKeeps, OnlyMoves, RedisInv
  <2> QED BY <2>1, <2>2
<1> QED BY <1>1 DEF StepKeeps, RedisInv, MemberInv

\* What happens around the service keeps RedisInv.
LEMMA EnvironmentKeeps ==
  ASSUME TypeOK, RedisInv, Environment
  PROVE  RedisInv'
<1>1. MemberInv' /\ HashDecay
  <2>1. ASSUME NEW s \in Session, Expire(s)
        PROVE  MemberInv' /\ HashDecay
    BY <2>1, DelHashKeeps DEF Expire, RedisInv, MemberInv
  <2>2. CASE UNCHANGED <<redisVars, used>>
    BY <2>2, ReadKeeps DEF RedisInv, MemberInv
  <2> QED BY <2>1, <2>2
          DEF Environment, Crash, Restart, Listen
<1>2. CacheAgrees'
  <2>1. \A s \in Session : identityCache'[s] \in {None, identityCache[s]}
    BY DEF Environment, Expire, Crash, Restart, Listen, TypeOK,
           memoryVars
  <2> QED BY <1>1, <2>1, CacheForgets DEF RedisInv
<1>3. ASSUME NEW p \in Op
      PROVE  OperationInv(p)'
  <2>1. CASE op'[p] = op[p]
    BY <1>1, <2>1, OthersKeep DEF RedisInv
  <2>2. CASE op'[p] = Idle
    BY <2>2, IdleKeeps
  <2> QED BY <2>1, <2>2
          DEF Environment, Expire, Crash, Restart, Listen, flowVars
<1> QED BY <1>1, <1>2, <1>3 DEF RedisInv, MemberInv

-----------------------------------------------------------------------------
(* Theorems *)

\* The inductive invariant holds when the service first starts.
LEMMA InitInv == Init => TypeOK /\ RedisInv
<1> SUFFICES ASSUME Init
             PROVE  TypeOK /\ RedisInv
  OBVIOUS
<1> USE DEF Init
<1>1. TypeOK
  BY IdleType DEF TypeOK
<1>2. MemberInv /\ CacheAgrees
  BY DEF MemberInv, LiveSessionIsMember, SoleOwner, MembersWereUsed, Live,
         CacheAgrees
<1>3. \A o \in Op : OperationInv(o)
  BY DEF Idle, OperationInv, StaleStaysDead, IdentityAgrees, OperandsPresent,
         RegisterPc, PublishPc, CleanupPc, RefreshPc
<1> QED BY <1>1, <1>2, <1>3 DEF RedisInv, MemberInv

\* Every step of the service, its callers and its faults keeps the
\* inductive invariant.
LEMMA NextInv == TypeOK /\ RedisInv /\ [Next]_vars => TypeOK' /\ RedisInv'
<1> SUFFICES ASSUME TypeOK, RedisInv, [Next]_vars
             PROVE  TypeOK' /\ RedisInv'
  OBVIOUS
<1>1. TypeOK'
  BY NextType DEF RedisInv, OperationInv
<1>2. ASSUME NEW o \in Worker, Call(o)
      PROVE  RedisInv'
  BY <1>2, CallKeeps, StepKeepsInv DEF Op
<1>3. ASSUME NEW o \in Sweeper, ReconcileSessions(o)
      PROVE  RedisInv'
  BY <1>3, CallKeeps, StepKeepsInv DEF Op
<1>4. ASSUME NEW o \in Op, Step(o)
      PROVE  RedisInv'
  BY <1>4, RegisterStepKeeps, CleanupStepKeeps, SweepStepKeeps, StepKeepsInv
     DEF Step
<1>5. ASSUME NEW o \in Op, Fault(o)
      PROVE  RedisInv'
  BY <1>5, FaultKeeps, StepKeepsInv
<1>6. CASE Environment
  BY <1>1, <1>6, EnvironmentKeeps
<1>7. CASE UNCHANGED vars
  <2>1. MemberInv' /\ HashDecay
    BY <1>7, ReadKeeps DEF vars, redisVars, RedisInv, MemberInv
  <2>2. CacheAgrees'
    BY <1>7, <2>1, CacheForgets DEF vars, RedisInv
  <2>3. \A p \in Op : OperationInv(p)'
    BY <1>7, <2>1, OthersKeep DEF vars, RedisInv
  <2> QED BY <1>1, <2>1, <2>2, <2>3 DEF RedisInv, MemberInv
<1> QED BY <1>1, <1>2, <1>3, <1>4, <1>5, <1>6, <1>7 DEF Next

\* The variables of PresenceService always have their types, whatever the
\* interleaving of operations, failures and crashes.
THEOREM TypeCorrect == Spec => []TypeOK
<1> QED BY InitInv, NextInv, PTL DEF Spec

\* The invariant of the Redis keys: sets, hashes, cache and the snapshots of
\* the operations in progress fit together in every reachable state.
THEOREM RedisInvariant == Spec => []RedisInv
<1> QED BY InitInv, NextInv, PTL DEF Spec

\* No registration, cleanup or sweep ever takes a live session out of the set
\* of its user, however old the snapshot it works from and whatever fails.
THEOREM LiveStayListed == Spec => []LiveSessionIsMember
<1>1. RedisInv => LiveSessionIsMember
  BY DEF RedisInv
<1> QED BY <1>1, RedisInvariant, PTL

-----------------------------------------------------------------------------
(* The times in last_seen *)

\* The commands that write a time read before, and those that announce an end.
DatedPc == {"cln_script", "swp_set"}
EndPc   == {"pub_offline", "swp_publish"}

\* A command in the pipe is that of an operation in progress, which has no
\* other.
OneCommandEach ==
  /\ \A i \in 1..Len(pipe) : op[pipe[i]].pc # "idle"
  /\ \A i, j \in 1..Len(pipe) : pipe[i] = pipe[j] => i = j

\* The times about to be written are no earlier than those written, and later
\* commands carry later times.
TimesSorted ==
  /\ \A u \in User : lastSeen[u] <= clock
  /\ \A i \in 1..Len(pipe) : op[pipe[i]].pc \in DatedPc =>
       /\ op[pipe[i]].now \in 1..clock
       /\ \A u \in User : lastSeen[u] <= op[pipe[i]].now
       /\ \A j \in 1..Len(pipe) :
            i < j /\ op[pipe[j]].pc \in DatedPc
              => op[pipe[i]].now <= op[pipe[j]].now

\* No end is announced, or about to be, before its time was written.
EndsDated ==
  /\ OfflineHasLastSeen
  /\ \A i \in 1..Len(pipe) :
       op[pipe[i]].pc \in EndPc => lastSeen[op[pipe[i]].user] # 0

ClockInv == OneCommandEach /\ TimesSorted /\ EndsDated

\* The reply to o makes its time the last_seen of its user.
Dates(o) ==
  /\ op[o].pc \in DatedPc
  /\ lastSeen' = [lastSeen EXCEPT ![op[o].user] = op[o].now]

\* What o may go on with: the time it was just told, an end it has just dated.
Timely(o, state) ==
  /\ state.pc # "idle"
  /\ state.pc \in DatedPc => state.now = clock'
  /\ state.pc \in EndPc => Dates(o) /\ state.user = op[o].user

\* The reply to the command at the head is all o was waiting for, or o issues
\* its next command.
GoesOn(o) ==
  /\ OnlyMoves(o)
  /\ \/ pipe' = Tail(pipe) /\ op'[o] = Idle
     \/ pipe' = Append(Tail(pipe), o) /\ Timely(o, op'[o])

\* What the reply to the command at the head does to times and events.
Replied(o) ==
  /\ pipe # << >> /\ Head(pipe) = o
  /\ GoesOn(o)
  /\ Dates(o) \/ UNCHANGED lastSeen
  /\ clock' \in Nat /\ clock <= clock'
  /\ \/ UNCHANGED events
     \/ \E u \in User : Publish(u, "user_online")
     \/ op[o].pc \in EndPc /\ Publish(op[o].user, "user_offline")

PlainPc == Pc \ ({"idle"} \cup DatedPc \cup EndPc)

LEMMA ReturnGoesOn ==
  ASSUME TypeOK, NEW o \in Op, Return(o)
  PROVE  GoesOn(o)
<1>1. op'[o] = Idle
  BY DEF Return, TypeOK
<1> QED BY <1>1, ReturnMoves DEF Return, GoesOn

LEMMA AwaitGoesOn ==
  ASSUME TypeOK, NEW o \in Op, NEW state, Await(o, state), Timely(o, state)
  PROVE  GoesOn(o)
<1>1. OnlyMoves(o) /\ op'[o] = state
  BY AwaitMoves
<1>2. pipe' = Append(Tail(pipe), o)
  BY DEF Await
<1> QED BY <1>1, <1>2 DEF GoesOn

\* A command that writes no time and announces no end can always follow.
LEMMA PlainGoesOn ==
  ASSUME TypeOK, NEW o \in Op, NEW state, Await(o, state),
         state.pc \in PlainPc
  PROVE  GoesOn(o)
<1>1. Timely(o, state)
  BY DEF Timely, PlainPc
<1> QED BY <1>1, AwaitGoesOn

\* So can the same operation with another pc and other ids.
LEMMA ChangedPc ==
  ASSUME TypeOK, NEW o \in Op, NEW pc \in PlainPc
  PROVE  /\ [op[o] EXCEPT !.pc = pc].pc \in PlainPc
         /\ \A ids : [op[o] EXCEPT !.pc = pc, !.ids = ids].pc \in PlainPc
         /\ \A user : [op[o] EXCEPT !.pc = pc, !.user = user].pc \in PlainPc
         /\ \A tries : [op[o] EXCEPT !.pc = pc, !.tries = tries].pc \in PlainPc
<1>1. op[o] \in OpState
  BY DEF TypeOK
<1> QED BY <1>1 DEF OpState

\* The commands of a scan are plain.
LEMMA VisitGoesOn ==
  ASSUME TypeOK, NEW o \in Op, NEW todo,
         VisitUsers(o, todo) \/ VisitHashes(o, todo)
  PROVE  GoesOn(o)
<1> USE DEF PlainPc, Pc, OrphanPc, SweepPc, DatedPc, EndPc
<1>1. CASE Return(o)
  BY <1>1, ReturnGoesOn
<1>2. CASE Await(o, [Idle EXCEPT !.pc = "orph_scan"])
  <2>1. [Idle EXCEPT !.pc = "orph_scan"].pc \in PlainPc
    BY DEF Idle
  <2> QED BY <1>2, <2>1, PlainGoesOn
<1>3. ASSUME NEW u \in todo,
             Await(o, [Idle EXCEPT !.pc = "swp_smembers", !.user = u,
                                   !.todoUsers = todo \ {u}])
      PROVE  GoesOn(o)
  <2>1. [Idle EXCEPT !.pc = "swp_smembers", !.user = u,
                     !.todoUsers = todo \ {u}].pc \in PlainPc
    BY DEF Idle
  <2> QED BY <1>3, <2>1, PlainGoesOn
<1>4. ASSUME NEW s \in todo,
             Await(o, [Idle EXCEPT
                         !.pc = IF identityCache[s] = None
                                  THEN "orph_hgetall" ELSE "orph_sismember",
                         !.sid = s, !.user = identityCache[s],
                         !.todoSids = todo \ {s}])
      PROVE  GoesOn(o)
  <2>1. [Idle EXCEPT !.pc = IF identityCache[s] = None
                              THEN "orph_hgetall" ELSE "orph_sismember",
                     !.sid = s, !.user = identityCache[s],
                     !.todoSids = todo \ {s}].pc \in PlainPc
    BY DEF Idle
  <2> QED BY <1>4, <2>1, PlainGoesOn
<1> QED BY <1>1, <1>2, <1>3, <1>4 DEF VisitUsers, VisitHashes

\* A step that writes no time and says nothing of anybody.
LEMMA SilentReply ==
  ASSUME TypeOK, NEW o \in Op, pipe # << >>, Head(pipe) = o, GoesOn(o),
         UNCHANGED <<lastSeen, events>>, UNCHANGED clock \/ ReadTime
  PROVE  Replied(o)
BY PresenceAssumption DEF Replied, TypeOK, ReadTime

\* The steps of a registration are replies in this sense,
LEMMA RegisterReplies ==
  ASSUME TypeOK, RedisInv, NEW o \in Op, RegisterStep(o)
  PROVE  Replied(o)
<1> USE DEF AtHead, redisVars, memoryVars, otherVars
<1>0. {"reg_exists", "reg_srem", "reg_time", "reg_script", "pub_online"}
        \subseteq PlainPc
  BY DEF PlainPc, Pc, RegisterPc, PublishPc, DatedPc, EndPc
<1>1. CASE PruneRead(o) \/ PruneCheck(o) \/ PruneRemove(o)
  <2>1. GoesOn(o)
    BY <1>0, <1>1, ChangedPc, PlainGoesOn DEF PruneRead, PruneCheck, PruneRemove
  <2> QED BY <1>1, <2>1, SilentReply
          DEF PruneRead, PruneCheck, PruneRemove, SremEffect
<1>2. CASE RegisterTime(o) \/ RegisterCollision(o)
  <2>1. GoesOn(o)
    BY <1>0, <1>2, ChangedPc, PlainGoesOn, ReturnGoesOn
       DEF RegisterTime, RegisterCollision
  <2> QED BY <1>2, <2>1, SilentReply DEF RegisterTime, RegisterCollision
<1>3. CASE RegisterScript(o)
  <2>1. \A u, s : [Idle EXCEPT !.pc = "pub_online", !.user = u, !.sid = s].pc
                     \in PlainPc
    BY <1>0 DEF Idle
  <2>2. GoesOn(o)
    BY <1>3, <2>1, PlainGoesOn, ReturnGoesOn DEF RegisterScript
  <2> QED BY <1>3, <2>2, SilentReply DEF RegisterScript, RegisterEffect
<1>4. CASE PublishOnline(o)
  <2>1. op[o].user \in User
    BY <1>4 DEF PublishOnline, RedisInv, OperationInv, OperandsPresent,
                PublishPc
  <2>2. GoesOn(o)
    BY <1>4, ReturnGoesOn DEF PublishOnline
  <2> QED BY <1>4, <2>1, <2>2 DEF PublishOnline, Replied, TypeOK
<1> QED BY <1>1, <1>2, <1>3, <1>4 DEF RegisterStep

\* so are those of a cleanup and of a heartbeat,
LEMMA CleanupReplies ==
  ASSUME TypeOK, RedisInv, NEW o \in Op, CleanupStep(o)
  PROVE  Replied(o)
<1> USE DEF AtHead, redisVars, memoryVars, otherVars
<1>0. {"cln_hgetall", "cln_time", "ref_script"} \subseteq PlainPc
  BY DEF PlainPc, Pc, CleanupPc, RefreshPc, DatedPc, EndPc
<1>1. CASE CleanupResolve(o)
  <2>1. GoesOn(o)
    BY <1>0, <1>1, ChangedPc, PlainGoesOn, ReturnGoesOn DEF CleanupResolve
  <2> QED BY <1>1, <2>1, SilentReply DEF CleanupResolve
<1>2. CASE CleanupTime(o)
  <2>1. Timely(o, [op[o] EXCEPT !.pc = "cln_script", !.now = clock'])
    BY DEF Timely, DatedPc, EndPc, TypeOK, OpState
  <2>2. GoesOn(o)
    BY <1>2, <2>1, AwaitGoesOn DEF CleanupTime
  <2> QED BY <1>2, <2>2, SilentReply DEF CleanupTime
<1>3. CASE CleanupScript(o)
  <2>1. Dates(o)
    BY <1>3 DEF CleanupScript, CleanupEffect, Dates, DatedPc
  <2>2. Timely(o, [Idle EXCEPT !.pc = "pub_offline", !.user = op[o].user])
    BY <2>1 DEF Timely, DatedPc, EndPc, Idle
  <2>3. GoesOn(o)
    BY <1>3, <2>2, AwaitGoesOn, ReturnGoesOn DEF CleanupScript
  <2> QED BY <1>3, <2>1, <2>3 DEF CleanupScript, Replied, TypeOK
<1>4. CASE PublishOffline(o)
  <2>1. GoesOn(o)
    BY <1>4, ReturnGoesOn DEF PublishOffline
  <2> QED BY <1>4, <2>1 DEF PublishOffline, Replied, EndPc, TypeOK
<1>5. CASE RefreshTime(o) \/ RefreshScript(o)
  <2>1. CleanupStart(op[o].sid).pc \in PlainPc
    BY <1>0 DEF CleanupStart, Idle
  <2>2. GoesOn(o)
    BY <1>0, <1>5, <2>1, ChangedPc, PlainGoesOn, ReturnGoesOn
       DEF RefreshTime, RefreshScript
  <2> QED BY <1>5, <2>2, SilentReply DEF RefreshTime, RefreshScript
<1> QED BY <1>1, <1>2, <1>3, <1>4, <1>5 DEF CleanupStep

\* those of a sweep,
LEMMA SweepReplies ==
  ASSUME TypeOK, RedisInv, NEW o \in Op, SweepStep(o)
  PROVE  Replied(o)
<1> USE DEF AtHead, redisVars, memoryVars, otherVars
<1>0. {"swp_exists", "swp_srem", "swp_scard", "swp_time", "orph_sismember",
       "orph_del"} \subseteq PlainPc
  BY DEF PlainPc, Pc, SweepPc, OrphanPc, DatedPc, EndPc
<1>1. CASE SweepScan(o) \/ OrphanScan(o) \/ OrphanCheck(o)
           \/ OrphanResolve(o) \/ OrphanDelete(o)
  <2>1. GoesOn(o)
    BY <1>0, <1>1, VisitGoesOn, ChangedPc, PlainGoesOn
       DEF SweepScan, OrphanScan, OrphanCheck, OrphanResolve, OrphanDelete
  <2> QED BY <1>1, <2>1, SilentReply
          DEF SweepScan, OrphanScan, OrphanCheck, OrphanResolve,
              OrphanDelete, DelHashEffect
<1>2. CASE SweepRead(o) \/ SweepCheck(o) \/ SweepCount(o) \/ SweepRemove(o)
  <2>1. GoesOn(o)
    BY <1>0, <1>2, VisitGoesOn, ChangedPc, PlainGoesOn
       DEF SweepRead, SweepCheck, SweepCount, SweepRemove
  <2> QED BY <1>2, <2>1, SilentReply
          DEF SweepRead, SweepCheck, SweepCount, SweepRemove, SremEffect
<1>3. CASE SweepTime(o)
  <2>1. Timely(o, [op[o] EXCEPT !.pc = "swp_set", !.now = clock'])
    BY DEF Timely, DatedPc, EndPc, TypeOK, OpState
  <2>2. GoesOn(o)
    BY <1>3, <2>1, AwaitGoesOn DEF SweepTime
  <2> QED BY <1>3, <2>2, SilentReply DEF SweepTime
<1>4. CASE SweepSetLastSeen(o)
  <2>1. Dates(o)
    BY <1>4 DEF SweepSetLastSeen, SetLastSeenEffect, Dates, DatedPc
  <2>2. Timely(o, [op[o] EXCEPT !.pc = "swp_publish"])
    BY <2>1 DEF Timely, DatedPc, EndPc, TypeOK, OpState
  <2>3. GoesOn(o)
    BY <1>4, <2>2, AwaitGoesOn DEF SweepSetLastSeen
  <2> QED BY <1>4, <2>1, <2>3 DEF SweepSetLastSeen, Replied, TypeOK
<1>5. CASE SweepPublish(o)
  <2>1. GoesOn(o)
    BY <1>5, VisitGoesOn DEF SweepPublish
  <2> QED BY <1>5, <2>1 DEF SweepPublish, Replied, EndPc, TypeOK
<1> QED BY <1>1, <1>2, <1>3, <1>4, <1>5 DEF SweepStep

\* and those in which a command fails or its reply is lost.
LEMMA FaultReplies ==
  ASSUME TypeOK, RedisInv, NEW o \in Op, Fault(o)
  PROVE  Replied(o)
<1>1. /\ pipe # << >> /\ Head(pipe) = o /\ Return(o)
      /\ UNCHANGED <<clock, events>>
  BY DEF Fault, Reject, LoseReply, Drain, memoryVars
<1>2. Dates(o) \/ UNCHANGED lastSeen
  BY DEF Fault, Reject, LoseReply, Drain, RedisWrite, SremEffect, redisVars,
         RegisterEffect, CleanupEffect, SetLastSeenEffect, DelHashEffect,
         Dates, DatedPc
<1>3. GoesOn(o)
  BY <1>1, ReturnGoesOn
<1> QED BY <1>1, <1>2, <1>3 DEF Replied, TypeOK

\* The pipe of n commands moves up when o gets its reply: all commands but the
\* first, unchanged, and perhaps the next command of the same operation.
MovesUp(o, n) ==
  /\ n \in Nat \ {0} /\ pipe[1] = o
  /\ Len(pipe') \in {n - 1, n}
  /\ \A i \in 1..(n - 1) :
       /\ i + 1 \in 2..n
       /\ pipe'[i] = pipe[i + 1] /\ pipe'[i] # o
       /\ op'[pipe'[i]] = op[pipe[i + 1]]
  /\ Len(pipe') = n => pipe'[n] = o /\ Timely(o, op'[o])
  /\ Len(pipe') # n => op'[o] = Idle

\* A reply moves the pipe up.
LEMMA PipeAfterReply ==
  ASSUME TypeOK, OneCommandEach, NEW o \in Op, Replied(o), NEW n, n = Len(pipe)
  PROVE  MovesUp(o, n)
<1>1. n \in Nat \ {0} /\ pipe[1] = o /\ pipe \in Seq(Op) /\ pipe # << >>
  BY DEF Replied, TypeOK
<1>2. \A i \in 1..(n - 1) :
        /\ i + 1 \in 2..n /\ i + 1 \in 1..n /\ i + 1 # 1
        /\ Tail(pipe)[i] = pipe[i + 1] /\ pipe[i + 1] \in Op
  BY <1>1
<1>3. \A i \in 1..(n - 1) : pipe[i + 1] # o
  <2>1. 1 \in 1..n /\ 1 \in 1..Len(pipe)
    BY <1>1
  <2>2. \A i \in 1..n : i \in 1..Len(pipe)
    OBVIOUS
  <2> QED BY <1>1, <1>2, <2>1, <2>2 DEF OneCommandEach
<1>4. Tail(pipe) \in Seq(Op) /\ Len(Tail(pipe)) = n - 1
  BY <1>1
<1>5. \A p \in Op \ {o} : op'[p] = op[p]
  BY DEF Replied, GoesOn, OnlyMoves
<1>6. CASE pipe' = Tail(pipe) /\ op'[o] = Idle
  <2>1. Len(pipe') = n - 1 /\ Len(pipe') # n
    BY <1>1, <1>4, <1>6
  <2> QED BY <1>1, <1>2, <1>3, <1>5, <1>6, <2>1 DEF MovesUp
<1>7. CASE pipe' = Append(Tail(pipe), o) /\ Timely(o, op'[o])
  <2>1. Len(pipe') = n /\ pipe'[n] = o
        /\ \A i \in 1..(n - 1) : pipe'[i] = Tail(pipe)[i]
    BY <1>1, <1>4, <1>7
  <2>2. \A i \in 1..(n - 1) :
          /\ pipe'[i] = pipe[i + 1] /\ pipe'[i] # o
          /\ op'[pipe'[i]] = op[pipe[i + 1]]
    BY <1>2, <1>3, <1>5, <2>1
  <2> QED BY <1>1, <1>2, <1>7, <2>1, <2>2 DEF MovesUp
<1> QED BY <1>6, <1>7 DEF Replied, GoesOn

\* What a reply does to the times: each is kept or moves to that of the head,
\* which is no later than the clock or any other time in the pipe.
LEMMA ReplyDates ==
  ASSUME TypeOK, TypeOK', RedisInv, OneCommandEach, TimesSorted, NEW o \in Op,
         Replied(o), NEW n, n = Len(pipe)
  PROVE  /\ \A u \in User : /\ lastSeen[u] <= lastSeen'[u]
                            /\ lastSeen'[u] <= clock
         /\ \A k \in 2..n : op[pipe[k]].pc \in DatedPc =>
              \A u \in User : lastSeen'[u] <= op[pipe[k]].now
         /\ Dates(o) => op[o].user \in User /\ lastSeen'[op[o].user] # 0
<1>1. n \in Nat \ {0} /\ pipe[1] = o /\ 1 \in 1..n
  BY PipeAfterReply DEF MovesUp
<1>2. \A k \in 2..n : k \in 1..n /\ 1 < k
  BY <1>1
<1>3. lastSeen \in [User -> Nat] /\ clock \in Nat
  BY DEF TypeOK
<1>4. CASE UNCHANGED lastSeen /\ ~ Dates(o)
  BY <1>1, <1>2, <1>3, <1>4 DEF TimesSorted
<1>5. CASE Dates(o)
  <2>1. op[o].user \in User
    BY <1>5 DEF Dates, DatedPc, RedisInv, OperationInv, OperandsPresent
  <2>2. /\ op[o].now \in 1..clock
        /\ \A u \in User : lastSeen[u] <= op[o].now
        /\ \A k \in 2..n : op[pipe[k]].pc \in DatedPc =>
             op[o].now <= op[pipe[k]].now
    BY <1>1, <1>2, <1>5 DEF TimesSorted, Dates
  <2>3. \A k \in 2..n : op[pipe[k]].pc \in DatedPc =>
          \A u \in User : lastSeen[u] <= op[pipe[k]].now
    BY <1>2 DEF TimesSorted
  <2>4. \A u \in User : lastSeen'[u] \in {lastSeen[u], op[o].now}
    BY <1>3, <1>5 DEF Dates
  <2>5. lastSeen'[op[o].user] = op[o].now
    BY <1>3, <1>5, <2>1 DEF Dates
  <2>6. \A u \in User : lastSeen[u] <= clock
    BY DEF TimesSorted
  <2>7. \A u \in User : lastSeen[u] <= lastSeen'[u] /\ lastSeen'[u] <= clock
    BY <1>3, <2>2, <2>4, <2>6
  <2>8. \A k \in 2..n : op[pipe[k]].pc \in DatedPc =>
          \A u \in User : lastSeen'[u] <= op[pipe[k]].now
    BY <2>2, <2>3, <2>4
  <2> QED BY <1>3, <2>1, <2>2, <2>5, <2>7, <2>8
<1> QED BY <1>4, <1>5 DEF Replied

\* A reply keeps the pipe and its times in order.
LEMMA ReplyKeepsOrder ==
  ASSUME TypeOK, TypeOK', RedisInv, OneCommandEach, TimesSorted, NEW o \in Op,
         Replied(o)
  PROVE  OneCommandEach' /\ TimesSorted'
<1>0. PICK n : n = Len(pipe)
  OBVIOUS
<1>m. MovesUp(o, n)
  BY <1>0, PipeAfterReply
<1>1. /\ n \in Nat \ {0} /\ Len(pipe') \in {n - 1, n}
      /\ \A i \in 1..(n - 1) :
           /\ i + 1 \in 2..n
           /\ pipe'[i] = pipe[i + 1] /\ pipe'[i] # o
           /\ op'[pipe'[i]] = op[pipe[i + 1]]
      /\ Len(pipe') = n => pipe'[n] = o /\ Timely(o, op'[o])
  BY <1>m DEF MovesUp
<1>2. \A i \in 1..Len(pipe') : i \in 1..(n - 1) \/ (i = n /\ Len(pipe') = n)
  <2>1. n \in Nat \ {0} /\ (Len(pipe') = n - 1 \/ Len(pipe') = n)
    BY <1>1
  <2> QED BY ONLY <2>1
<1>3. \A i \in 1..(n - 1) : i + 1 \in 1..n
  BY <1>1
<1>4. OneCommandEach'
  <2>1. \A i \in 1..(n - 1) : op'[pipe'[i]].pc # "idle"
    BY <1>0, <1>1, <1>3 DEF OneCommandEach
  <2>2. \A i, j \in 1..(n - 1) : pipe'[i] = pipe'[j] => i + 1 = j + 1
    BY <1>0, <1>1, <1>3 DEF OneCommandEach
  <2>3. \A i, j \in 1..(n - 1) : i + 1 = j + 1 => i = j
    BY <1>1
  <2> QED BY <1>1, <1>2, <2>1, <2>2, <2>3 DEF OneCommandEach, Timely
<1>5. clock \in Nat \ {0} /\ clock' \in Nat /\ clock <= clock'
  BY DEF Replied, TypeOK
<1>6. /\ \A u \in User : lastSeen'[u] <= clock
      /\ \A k \in 2..n : op[pipe[k]].pc \in DatedPc =>
           \A u \in User : lastSeen'[u] <= op[pipe[k]].now
  BY <1>0, ReplyDates
<1>7. ASSUME NEW i \in 1..(n - 1), op'[pipe'[i]].pc \in DatedPc
      PROVE  /\ op'[pipe'[i]].now \in 1..clock'
             /\ \A u \in User : lastSeen'[u] <= op'[pipe'[i]].now
             /\ \A j \in 1..(n - 1) : i < j /\ op'[pipe'[j]].pc \in DatedPc
                  => op'[pipe'[i]].now <= op'[pipe'[j]].now
  <2>1. op[pipe[i + 1]].now \in 1..clock
        /\ \A j \in 1..n : i + 1 < j /\ op[pipe[j]].pc \in DatedPc
             => op[pipe[i + 1]].now <= op[pipe[j]].now
    BY <1>0, <1>1, <1>3, <1>7 DEF TimesSorted
  <2>2. \A j \in 1..(n - 1) : i < j => i + 1 < j + 1
    BY <1>1
  <2>3. op[pipe[i + 1]].now \in 1..clock'
    BY <1>5, <2>1
  <2> QED BY <1>1, <1>3, <1>6, <1>7, <2>1, <2>2, <2>3
<1>8. ASSUME Len(pipe') = n, op'[pipe'[n]].pc \in DatedPc
      PROVE  op'[pipe'[n]].now = clock'
  BY <1>1, <1>8 DEF Timely
<1>9. \A j \in 1..Len(pipe') : ~ n < j
  BY <1>1
<1>10. \A u \in User : lastSeen'[u] <= clock'
  <2>1. \A u \in User : lastSeen'[u] \in Nat
    BY DEF TypeOK
  <2> QED BY <1>5, <1>6, <2>1
<1>11. ASSUME NEW i \in 1..Len(pipe'), op'[pipe'[i]].pc \in DatedPc
       PROVE  /\ op'[pipe'[i]].now \in 1..clock'
              /\ \A u \in User : lastSeen'[u] <= op'[pipe'[i]].now
              /\ \A j \in 1..Len(pipe') : i < j /\ op'[pipe'[j]].pc \in DatedPc
                   => op'[pipe'[i]].now <= op'[pipe'[j]].now
  <2>1. CASE i \in 1..(n - 1)
    <3>1. op'[pipe'[i]].now <= clock'
      BY <1>5, <1>7, <1>11, <2>1
    <3>2. \A j \in 1..Len(pipe') : i < j /\ op'[pipe'[j]].pc \in DatedPc
            => op'[pipe'[i]].now <= op'[pipe'[j]].now
      BY <1>2, <1>7, <1>8, <1>11, <2>1, <3>1
    <3> QED BY <1>7, <1>11, <2>1, <3>2
  <2>2. CASE i = n /\ Len(pipe') = n
    BY <1>5, <1>8, <1>9, <1>10, <1>11, <2>2
  <2> QED BY <1>2, <2>1, <2>2
<1> QED BY <1>4, <1>5, <1>10, <1>11 DEF TimesSorted

\* A reply announces an end only after its time was written.
LEMMA ReplyKeepsEnds ==
  ASSUME TypeOK, TypeOK', RedisInv, ClockInv, NEW o \in Op, Replied(o)
  PROVE  EndsDated'
<1>0. PICK n : n = Len(pipe)
  OBVIOUS
<1>m. MovesUp(o, n)
  BY <1>0, PipeAfterReply DEF ClockInv
<1>1. /\ n \in Nat \ {0} /\ pipe[1] = o /\ Len(pipe') \in {n - 1, n}
      /\ \A i \in 1..(n - 1) :
           /\ i + 1 \in 2..n
           /\ op'[pipe'[i]] = op[pipe[i + 1]]
      /\ Len(pipe') = n => pipe'[n] = o /\ Timely(o, op'[o])
  BY <1>m DEF MovesUp
<1>2. /\ lastSeen \in [User -> Nat] /\ lastSeen' \in [User -> Nat]
      /\ \A u \in User : lastSeen[u] <= lastSeen'[u]
      /\ Dates(o) => op[o].user \in User /\ lastSeen'[op[o].user] # 0
  BY <1>0, ReplyDates DEF ClockInv, TypeOK
<1>3. \A u \in User : lastSeen[u] # 0 => lastSeen'[u] # 0
  BY <1>2
<1>4. \A p \in Op : op[p].pc \in EndPc => op[p].user \in User
  BY DEF EndPc, RedisInv, OperationInv, OperandsPresent, PublishPc
<1>5. OfflineHasLastSeen'
  <2>1. events \in [User -> Seq(EventType)]
    BY DEF TypeOK
  <2>2. \A u \in User : LastEvent(u)' = "user_offline" =>
          LastEvent(u) = "user_offline" \/ (op[o].pc \in EndPc /\ u = op[o].user)
    <3>0. ASSUME NEW u \in User, events'[u] = events[u]
          PROVE  LastEvent(u)' = LastEvent(u)
      BY <3>0 DEF LastEvent
    <3>1. CASE UNCHANGED events
      BY <3>0, <3>1
    <3>2. ASSUME NEW v \in User, NEW type \in {"user_online", "user_offline"},
                 Publish(v, type)
          PROVE  \A u \in User : LastEvent(u)' = "user_offline" =>
                   LastEvent(u) = "user_offline"
                     \/ (u = v /\ type = "user_offline")
      <4>1. \A u \in User \ {v} : events'[u] = events[u]
        BY <2>1, <3>2 DEF Publish
      <4>2. LastEvent(v)' = type
        <5>1. events'[v] = Append(events[v], type) /\ events[v] \in Seq(EventType)
          BY <2>1, <3>2 DEF Publish
        <5>2. events'[v] # << >> /\ events'[v][Len(events'[v])] = type
          BY <5>1
        <5> QED BY <5>2 DEF LastEvent
      <4> QED BY <3>0, <4>1, <4>2
    <3> QED BY <1>4, <3>1, <3>2 DEF Replied
  <2>3. op[o].pc \in EndPc => lastSeen[op[o].user] # 0
    BY <1>0, <1>1, 1 \in 1..n DEF ClockInv, EndsDated
  <2> QED BY <1>3, <1>4, <2>2, <2>3 DEF ClockInv, EndsDated, OfflineHasLastSeen
<1>6. ASSUME NEW i \in 1..Len(pipe'), op'[pipe'[i]].pc \in EndPc
      PROVE  lastSeen'[op'[pipe'[i]].user] # 0
  <2>1. CASE i \in 1..(n - 1)
    <3>1. i + 1 \in 1..n /\ pipe[i + 1] \in Op
      BY <1>0, <1>1, <2>1 DEF TypeOK
    <3>2. lastSeen[op[pipe[i + 1]].user] # 0 /\ op[pipe[i + 1]].user \in User
      BY <1>0, <1>1, <1>4, <1>6, <2>1, <3>1 DEF ClockInv, EndsDated
    <3> QED BY <1>1, <1>3, <2>1, <3>2
  <2>2. CASE i = n /\ Len(pipe') = n
    BY <1>1, <1>2, <1>6, <2>2 DEF Timely
  <2> QED BY <1>1, <2>1, <2>2
<1> QED BY <1>5, <1>6 DEF EndsDated

\* The first command of an operation writes no time and announces no end.
LEMMA StartsPlain ==
  ASSUME NEW o \in Op, Call(o) \/ ReconcileSessions(o)
  PROVE  /\ \E state : Start(o, state) /\ state.pc \in PlainPc
         /\ UNCHANGED <<lastSeen, clock, events>>
<1> USE DEF PlainPc, Pc, RegisterPc, CleanupPc, RefreshPc, SweepPc, DatedPc,
            EndPc, Idle, redisVars, memoryVars, otherVars
<1>1. ASSUME NEW u \in User, RegisterConnection(o, u)
      PROVE  \E state : Start(o, state) /\ state.pc \in PlainPc
  <2>1. [Idle EXCEPT !.pc = "reg_smembers", !.user = u].pc \in PlainPc
    OBVIOUS
  <2> HIDE DEF PlainPc, Idle
  <2> QED BY <1>1, <2>1 DEF RegisterConnection
<1>2. ASSUME NEW s \in Session, CleanupSession(o, s) \/ DeliverExpired(o, s)
      PROVE  \E state : Start(o, state) /\ state.pc \in PlainPc
  <2>1. CleanupStart(s).pc \in PlainPc
    BY DEF CleanupStart
  <2> HIDE DEF PlainPc, Idle
  <2> QED BY <1>2, <2>1 DEF CleanupSession, DeliverExpired
<1>3. ASSUME NEW s \in Session, RefreshSessionHeartbeat(o, s)
      PROVE  \E state : Start(o, state) /\ state.pc \in PlainPc
  <2>1. [Idle EXCEPT !.pc = "ref_time", !.sid = s].pc \in PlainPc
    OBVIOUS
  <2> HIDE DEF PlainPc, Idle
  <2> QED BY <1>3, <2>1 DEF RefreshSessionHeartbeat
<1>4. ASSUME ReconcileSessions(o)
      PROVE  \E state : Start(o, state) /\ state.pc \in PlainPc
  <2>1. [Idle EXCEPT !.pc = "swp_scan"].pc \in PlainPc
    OBVIOUS
  <2> HIDE DEF PlainPc, Idle
  <2> QED BY <1>4, <2>1 DEF ReconcileSessions
<1>5. UNCHANGED <<lastSeen, clock, events>>
  BY DEF Call, RegisterConnection, CleanupSession, DeliverExpired,
         RefreshSessionHeartbeat, ReconcileSessions
<1> QED BY <1>1, <1>2, <1>3, <1>4, <1>5 DEF Call

\* The start of an operation keeps the times in order.
LEMMA StartKeepsClock ==
  ASSUME TypeOK, ClockInv, NEW o \in Op, Call(o) \/ ReconcileSessions(o)
  PROVE  ClockInv' /\ UNCHANGED lastSeen
<1>0. PICK n : n = Len(pipe)
  OBVIOUS
<1>1. PICK state : Start(o, state) /\ state.pc \in PlainPc
  BY StartsPlain
<1>2. UNCHANGED <<lastSeen, clock, events>>
  BY StartsPlain
<1>3. /\ n \in Nat /\ Len(pipe') = n + 1 /\ pipe'[n + 1] = o
      /\ \A i \in 1..n : pipe'[i] = pipe[i] /\ pipe[i] \in Op
  BY <1>0, <1>1 DEF Start, TypeOK
<1>4. \A i \in 1..n : pipe[i] # o
  BY <1>0, <1>1 DEF Start, ClockInv, OneCommandEach, Idle
<1>5. op'[o] = state /\ OnlyMoves(o)
  BY <1>1, StartMoves
<1>6. \A i \in 1..n : op'[pipe'[i]] = op[pipe[i]]
  BY <1>3, <1>4, <1>5 DEF OnlyMoves
<1>7. op'[pipe'[n + 1]].pc \notin DatedPc \cup EndPc \cup {"idle"}
  BY <1>1, <1>3, <1>5 DEF PlainPc
<1>8. \A i \in 1..Len(pipe') : i \in 1..n \/ i = n + 1
  BY <1>3
<1>9. OneCommandEach'
  BY <1>0, <1>3, <1>4, <1>6, <1>7, <1>8 DEF ClockInv, OneCommandEach
<1>10. TimesSorted'
  BY <1>0, <1>2, <1>6, <1>7, <1>8 DEF ClockInv, TimesSorted
<1>11. EndsDated'
  BY <1>0, <1>2, <1>6, <1>7, <1>8
     DEF ClockInv, EndsDated, OfflineHasLastSeen, LastEvent
<1> QED BY <1>2, <1>9, <1>10, <1>11 DEF ClockInv

\* What happens around the service keeps them in order.
LEMMA EnvironmentKeepsClock ==
  ASSUME TypeOK, ClockInv, Environment \/ UNCHANGED vars
  PROVE  ClockInv' /\ UNCHANGED lastSeen
<1>1. UNCHANGED <<lastSeen, events>>
  BY DEF Environment, Expire, Crash, Restart, Listen, vars, redisVars,
         memoryVars
<1>2. OfflineHasLastSeen'
  BY <1>1 DEF ClockInv, EndsDated, OfflineHasLastSeen, LastEvent
<1>3. clock' = clock
  BY DEF Environment, Expire, Crash, Restart, Listen, vars
<1>4. \A u \in User : lastSeen'[u] <= clock'
  BY <1>1, <1>3 DEF ClockInv, TimesSorted, TypeOK
<1>5. CASE UNCHANGED <<op, pipe>>
  <2>1. OneCommandEach'
    BY <1>5 DEF ClockInv, OneCommandEach
  <2>2. TimesSorted'
    BY <1>1, <1>3, <1>5 DEF ClockInv, TimesSorted
  <2>3. EndsDated'
    BY <1>1, <1>2, <1>5 DEF ClockInv, EndsDated
  <2> QED BY <1>1, <2>1, <2>2, <2>3 DEF ClockInv
<1>6. CASE pipe' = << >>
  <2>1. \A i : i \notin 1..Len(pipe')
    BY <1>6
  <2> QED BY <1>1, <1>2, <1>4, <2>1
          DEF ClockInv, OneCommandEach, TimesSorted, EndsDated
<1> QED BY <1>5, <1>6
        DEF Environment, Expire, Crash, Restart, Listen, vars, flowVars

\* Every step keeps the times in order, and none goes back.
LEMMA ClockStep ==
  ASSUME TypeOK, RedisInv, ClockInv, [Next]_vars
  PROVE  ClockInv' /\ \A u \in User : lastSeen[u] <= lastSeen'[u]
<1>1. TypeOK'
  BY NextInv
<1>2. ASSUME NEW o \in Op, Replied(o)
      PROVE  ClockInv' /\ \A u \in User : lastSeen[u] <= lastSeen'[u]
  <2>1. PICK n : n = Len(pipe)
    OBVIOUS
  <2> QED BY <1>1, <1>2, <2>1, ReplyDates, ReplyKeepsOrder, ReplyKeepsEnds
          DEF ClockInv
<1>3. ASSUME ClockInv', UNCHANGED lastSeen
      PROVE  ClockInv' /\ \A u \in User : lastSeen[u] <= lastSeen'[u]
  BY <1>3 DEF TypeOK
<1>4. ASSUME NEW o \in Op, Call(o) \/ ReconcileSessions(o)
      PROVE  ClockInv' /\ UNCHANGED lastSeen
  BY <1>4, StartKeepsClock
<1>5. ASSUME NEW o \in Op, Step(o) \/ Fault(o)
      PROVE  Replied(o)
  BY <1>5, RegisterReplies, CleanupReplies, SweepReplies, FaultReplies DEF Step
<1>6. CASE Environment \/ UNCHANGED vars
  BY <1>3, <1>6, EnvironmentKeepsClock
<1>7. \A o : o \in Worker \/ o \in Sweeper => o \in Op
  BY DEF Op
<1> QED BY <1>2, <1>3, <1>4, <1>5, <1>6, <1>7 DEF Next

LEMMA InitClock == Init => ClockInv
<1> SUFFICES ASSUME Init PROVE ClockInv
  OBVIOUS
<1>1. \A i : i \notin 1..Len(pipe)
  BY DEF Init
<1>2. (\A u \in User : lastSeen[u] <= clock) /\ OfflineHasLastSeen
  BY DEF Init, OfflineHasLastSeen, LastEvent
<1> QED BY <1>1, <1>2
        DEF ClockInv, OneCommandEach, TimesSorted, EndsDated

\* Times about to be written are sorted along the pipe, whatever operations
\* overlap and whatever fails.
LEMMA ClockHolds == Spec => [](TypeOK /\ RedisInv /\ ClockInv)
<1>1. TypeOK /\ RedisInv /\ ClockInv /\ [Next]_vars
        => (TypeOK /\ RedisInv /\ ClockInv)'
  BY NextInv, ClockStep
<1> QED BY InitInv, InitClock, <1>1, PTL DEF Spec

\* Whoever hears user_offline and asks finds a last_seen: the event is sent
\* only after a write of the time was answered, and nothing takes it away.
THEOREM OfflineDated == Spec => []OfflineHasLastSeen
<1>1. ClockInv => OfflineHasLastSeen
  BY DEF ClockInv, EndsDated
<1> QED BY <1>1, ClockHolds, PTL

\* The time of last_seen never goes back, for any number of cleanups and sweeps
\* that overlap, lost replies and crashes.
THEOREM LastSeenGrows == Spec => LastSeenMonotonic
<1>1. TypeOK /\ RedisInv /\ ClockInv /\ [Next]_vars
        => [\A u \in User : lastSeen[u] <= lastSeen'[u]]_vars
  BY ClockStep
<1> QED BY <1>1, ClockHolds, PTL DEF Spec, LastSeenMonotonic

-----------------------------------------------------------------------------
(* PresenceService implements SessionRegistry: every step is a step of the   *)
(* registry or leaves it alone.                                              *)

Retired == {s \in used : sessionHash[s] = None}

\* Nothing changes in the registry when Redis does not.
LEMMA ReadMaps ==
  ASSUME TypeOK, UNCHANGED <<redisVars, used>>
  PROVE  UNCHANGED Registry!vars
BY DEF redisVars, Registry!vars, Live

\* An SREM of dead ids strikes them off.
LEMMA SremMaps ==
  ASSUME TypeOK, NEW u \in User, NEW ids \in SUBSET Session,
         \A s \in ids : sessionHash[s] = None,
         SremEffect(u, ids), UNCHANGED used
  PROVE  Registry!Next
<1>1. ids \cap Live(u) = {}
  BY DEF Live
<1>2. Registry!Strike(u, ids)
  BY <1>1 DEF TypeOK, SremEffect, Registry!Strike, Live
<1> QED BY <1>2 DEF Registry!Next

\* A registration opens a session.
LEMMA RegisterMaps ==
  ASSUME TypeOK, RedisInv, NEW u \in User, NEW s \in Session,
         RegisterEffect(u, s)
  PROVE  Registry!Next
<1> USE DEF RegisterEffect, TypeOK
<1>1. s \notin Retired /\ \A v \in User : s \notin Live(v) \cup userSessions[v]
  BY DEF Retired, RedisInv, LiveSessionIsMember, MembersWereUsed
<1>2. sessionHash[s] = None
  BY <1>1 DEF Live
<1>3. [v \in User |-> Live(v)]' = [[v \in User |-> Live(v)]
                                     EXCEPT ![u] = @ \cup {s}]
  <2>1. \A v \in User : Live(v)' = IF v = u THEN Live(v) \cup {s} ELSE Live(v)
    BY <1>2 DEF Live
  <2> QED BY <2>1
<1>4. Retired' = Retired
  BY DEF Retired
<1>5. Registry!Open(u, s)
  BY <1>1, <1>3, <1>4 DEF Registry!Open, Retired
<1> QED BY <1>5 DEF Registry!Next

\* A session that dies leaves the live ones and is retired.
LEMMA DeathMaps ==
  ASSUME TypeOK, NEW u \in User, NEW s \in used, sessionHash[s] = u,
         sessionHash' = [sessionHash EXCEPT ![s] = None], UNCHANGED used
  PROVE  /\ s \in Live(u)
         /\ [v \in User |-> Live(v)]' = [[v \in User |-> Live(v)]
                                           EXCEPT ![u] = @ \ {s}]
         /\ Retired' = Retired \cup {s}
<1> USE DEF TypeOK
<1>1. s \in Live(u)
  BY DEF Live
<1>2. \A v \in User : Live(v)' = IF v = u THEN Live(v) \ {s} ELSE Live(v)
  BY DEF Live
<1>3. Retired' = Retired \cup {s}
  BY DEF Retired
<1> QED BY <1>1, <1>2, <1>3

\* A DEL of a dead session, and its cleanup, change nothing in the live ones.
LEMMA DeadMaps ==
  ASSUME TypeOK, NEW s \in Session, sessionHash[s] = None,
         sessionHash' = [sessionHash EXCEPT ![s] = None], UNCHANGED used
  PROVE  /\ UNCHANGED [v \in User |-> Live(v)]
         /\ UNCHANGED Retired
<1>1. sessionHash' = sessionHash
  BY DEF TypeOK
<1> QED BY <1>1 DEF Live, Retired

\* A cleanup ends a live session, or strikes a dead one off.
LEMMA CleanupMaps ==
  ASSUME TypeOK, NEW u \in User, NEW s \in used, NEW now \in Nat,
         sessionHash[s] \in {None, u},
         CleanupEffect(u, s, now), UNCHANGED used
  PROVE  Registry!Next
<1> USE DEF CleanupEffect
<1>0. s \in Session
  BY DEF TypeOK
<1>1. CASE sessionHash[s] = u
  <2>1. Registry!End(u, s)
    BY <1>1, DeathMaps DEF Registry!End, Retired
  <2> QED BY <1>0, <2>1 DEF Registry!Next
<1>2. CASE sessionHash[s] = None
  <2>1. {s} \cap Live(u) = {}
    BY <1>2 DEF Live
  <2>2. Registry!Strike(u, {s})
    BY <1>0, <1>2, <2>1, DeadMaps DEF Registry!Strike, Retired
  <2> QED BY <1>0, <2>2 DEF Registry!Next
<1> QED BY <1>1, <1>2

\* Every write maps to a step of the registry.
LEMMA RedisWriteMaps ==
  ASSUME TypeOK, RedisInv, NEW o \in Op, RedisWrite(o)
  PROVE  Registry!Next \/ UNCHANGED Registry!vars
<1> USE FieldTypes
    DEF OperationInv, OperandsPresent, IdentityAgrees, RegisterPc, CleanupPc
<1>0. OperationInv(o)
  BY DEF RedisInv
<1>1. CASE op[o].pc \in {"reg_srem", "swp_srem"}
             /\ SremEffect(op[o].user, op[o].ids) /\ UNCHANGED used
  <2>1. op[o].user \in User /\ \A s \in op[o].ids : sessionHash[s] = None
    BY <1>0, <1>1 DEF StaleStaysDead
  <2> QED BY <1>1, <2>1, SremMaps
<1>2. ASSUME NEW s \in Session, op[o].pc = "reg_script",
             RegisterEffect(op[o].user, s)
      PROVE  Registry!Next \/ UNCHANGED Registry!vars
  BY <1>0, <1>2, RegisterMaps
<1>3. CASE op[o].pc = "cln_script"
             /\ CleanupEffect(op[o].user, op[o].sid, op[o].now)
             /\ UNCHANGED used
  BY <1>0, <1>3, CleanupMaps
<1>4. CASE op[o].pc = "swp_set"
             /\ SetLastSeenEffect(op[o].user, op[o].now) /\ UNCHANGED used
  BY <1>4 DEF SetLastSeenEffect, Registry!vars, Live
<1>5. CASE op[o].pc = "orph_del" /\ DelHashEffect(op[o].sid) /\ UNCHANGED used
  <2>1. op[o].sid \in Session /\ sessionHash[op[o].sid] = None
    BY <1>0, <1>5 DEF StaleStaysDead
  <2> QED BY <1>5, <2>1, DeadMaps DEF DelHashEffect, Registry!vars, Retired
<1> QED BY <1>1, <1>2, <1>3, <1>4, <1>5 DEF RedisWrite

\* A step of the service reads, or writes one of these.
LEMMA StepWrites ==
  ASSUME TypeOK, NEW o \in Op, Step(o)
  PROVE  RedisWrite(o) \/ UNCHANGED <<redisVars, used>>
<1> USE DEF AtHead, RedisWrite, memoryVars, otherVars
<1>1. CASE RegisterStep(o)
  BY <1>1 DEF RegisterStep, PruneRead, PruneCheck, PruneRemove, RegisterTime,
              RegisterScript, RegisterCollision, PublishOnline
<1>2. CASE CleanupStep(o)
  BY <1>2 DEF CleanupStep, CleanupResolve, CleanupTime, CleanupScript,
              PublishOffline, RefreshTime, RefreshScript
<1>3. CASE SweepStep(o)
  BY <1>3 DEF SweepStep, SweepScan, SweepRead, SweepCheck, SweepRemove,
              SweepCount, SweepTime, SweepSetLastSeen, SweepPublish,
              OrphanScan, OrphanResolve, OrphanCheck, OrphanDelete
<1> QED BY <1>1, <1>2, <1>3 DEF Step

\* The expiry of a session key is the lapse of a session.
LEMMA ExpireMaps ==
  ASSUME TypeOK, RedisInv, NEW s \in Session, Expire(s)
  PROVE  Registry!Next
<1>1. s \in used /\ sessionHash[s] \in User
  BY LiveWasUsed DEF Expire
<1>2. Registry!Lapse(sessionHash[s], s)
  BY <1>1, DeathMaps DEF Expire, Registry!Lapse, Retired
<1> QED BY <1>1, <1>2 DEF Registry!Next

\* The first state of the service is the empty registry.
LEMMA InitMaps == Init => Registry!Init
BY DEF Init, Registry!Init, Live

\* Every step of the service is a step of the registry, or changes nothing in
\* it.
LEMMA NextMaps ==
  TypeOK /\ RedisInv /\ [Next]_vars => [Registry!Next]_Registry!vars
<1> SUFFICES ASSUME TypeOK, RedisInv, [Next]_vars
             PROVE  Registry!Next \/ UNCHANGED Registry!vars
  OBVIOUS
<1>1. ASSUME NEW o \in Op, Call(o) \/ ReconcileSessions(o)
      PROVE  UNCHANGED Registry!vars
  BY <1>1, ReadMaps
     DEF Call, RegisterConnection, CleanupSession, DeliverExpired,
         RefreshSessionHeartbeat, ReconcileSessions, otherVars
<1>2. ASSUME NEW o \in Op, Step(o)
      PROVE  Registry!Next \/ UNCHANGED Registry!vars
  BY <1>2, StepWrites, RedisWriteMaps, ReadMaps
<1>3. ASSUME NEW o \in Op, Fault(o)
      PROVE  Registry!Next \/ UNCHANGED Registry!vars
  <2>1. RedisWrite(o) \/ UNCHANGED <<redisVars, used>>
    BY <1>3 DEF Fault, Reject, LoseReply, Drain, redisVars
  <2> QED BY <2>1, RedisWriteMaps, ReadMaps
<1>4. CASE Environment
  <2>1. ASSUME NEW s \in Session, Expire(s)
        PROVE  Registry!Next
    BY <2>1, ExpireMaps
  <2>2. CASE Crash \/ Restart \/ Listen
    BY <2>2, ReadMaps DEF Crash, Restart, Listen
  <2> QED BY <1>4, <2>1, <2>2 DEF Environment
<1>5. CASE UNCHANGED vars
  BY <1>5, ReadMaps DEF vars, redisVars
<1> QED BY <1>1, <1>2, <1>3, <1>4, <1>5 DEF Next, Op

\* PresenceService implements SessionRegistry: through every interleaving,
\* failure and crash a session id opens once, for one user, and is struck off
\* the list of its user only when it has ended.
THEOREM Refinement == Spec => RegistrySpec
<1>1. TypeOK /\ RedisInv /\ [Next]_vars => [Registry!Next]_Registry!vars
  BY NextMaps
<1> QED BY <1>1, InitMaps, TypeCorrect, RedisInvariant, PTL
        DEF Spec, RegistrySpec, Registry!Spec
=============================================================================
