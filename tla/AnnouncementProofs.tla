-------------------------- MODULE AnnouncementProofs --------------------------
(***************************************************************************)
(* What PresenceService settles to: the identity cache, the session sets   *)
(* and the announcements once nothing is in progress, for any sets of      *)
(* users, sessions and operations.                                         *)
(***************************************************************************)
EXTENDS PresenceServiceProofs

USE PresenceAssumption

-----------------------------------------------------------------------------
(* Nothing is in progress when the pipe is empty *)

\* Every operation in progress has a command in the pipe.
CommandsSent == \A o \in Op : op[o] # Idle => \E i \in 1..Len(pipe) : pipe[i] = o

\* A reply keeps the commands of the others, and o goes on with another.
LEMMA ReplyKeepsCommands ==
  ASSUME TypeOK, OneCommandEach, CommandsSent, NEW o \in Op, Replied(o)
  PROVE  CommandsSent'
<1>0. PICK n : n = Len(pipe)
  OBVIOUS
<1>m. MovesUp(o, n)
  BY <1>0, PipeAfterReply
<1>1. /\ n \in Nat \ {0} /\ pipe[1] = o /\ Len(pipe') \in {n - 1, n}
      /\ \A i \in 1..(n - 1) : pipe'[i] = pipe[i + 1]
      /\ Len(pipe') = n => pipe'[n] = o
      /\ Len(pipe') # n => op'[o] = Idle
  BY <1>m DEF MovesUp
<1>2. ASSUME NEW p \in Op, op'[p] # Idle
      PROVE  \E i \in 1..Len(pipe') : pipe'[i] = p
  <2>1. CASE p = o
    <3>1. Len(pipe') = n /\ pipe'[n] = p /\ n \in 1..n
      BY <1>1, <1>2, <2>1
    <3> QED BY <3>1
  <2>2. CASE p # o
    <3>1. op[p] # Idle
      BY <1>2, <2>2 DEF Replied, GoesOn, OnlyMoves
    <3>2. PICK i \in 1..n : pipe[i] = p
      BY <1>0, <3>1 DEF CommandsSent
    <3>3. i # 1
      BY <1>1, <2>2, <3>2
    <3>4. i - 1 \in 1..(n - 1) /\ (i - 1) + 1 = i /\ i - 1 \in 1..Len(pipe')
      BY <1>1, <3>3
    <3> QED BY <1>1, <3>2, <3>4
  <2> QED BY <2>1, <2>2
<1> QED BY <1>2 DEF CommandsSent

\* The start of an operation sends its first command.
LEMMA StartKeepsCommands ==
  ASSUME TypeOK, CommandsSent, NEW o \in Op, Call(o) \/ ReconcileSessions(o)
  PROVE  CommandsSent'
<1>1. PICK state : Start(o, state)
  BY StartsPlain
<1>2. OnlyMoves(o) /\ pipe' = Append(pipe, o)
  BY <1>1, StartMoves DEF Start
<1>3. /\ Len(pipe) \in Nat /\ Len(pipe') = Len(pipe) + 1
      /\ pipe'[Len(pipe) + 1] = o
      /\ \A i \in 1..Len(pipe) : i \in 1..Len(pipe') /\ pipe'[i] = pipe[i]
  BY <1>2 DEF TypeOK
<1>4. Len(pipe) + 1 \in 1..Len(pipe')
  BY <1>3
<1> QED BY <1>2, <1>3, <1>4 DEF CommandsSent, OnlyMoves

\* What happens in a step of the system: an operation starts, hears of its
\* command, or the world around changes.
LEMMA StepKinds ==
  ASSUME TypeOK, RedisInv, [Next]_vars
  PROVE  \/ \E o \in Op : Call(o) \/ (o \in Sweeper /\ ReconcileSessions(o))
         \/ \E o \in Op : Step(o) /\ Replied(o)
         \/ \E o \in Op : Fault(o) /\ Replied(o)
         \/ Environment
         \/ UNCHANGED vars
<1>1. ASSUME NEW o \in Op, Step(o) \/ Fault(o)
      PROVE  Replied(o)
  BY <1>1, RegisterReplies, CleanupReplies, SweepReplies, FaultReplies DEF Step
<1> QED BY <1>1 DEF Next, Op

LEMMA NextCommands ==
  TypeOK /\ RedisInv /\ OneCommandEach /\ CommandsSent /\ [Next]_vars
    => CommandsSent'
<1> SUFFICES ASSUME TypeOK, RedisInv, OneCommandEach, CommandsSent, [Next]_vars
             PROVE  CommandsSent'
  OBVIOUS
<1>1. CASE Environment \/ UNCHANGED vars
  <2>1. UNCHANGED <<op, pipe>> \/ \A o \in Op : op'[o] = Idle
    BY <1>1
    DEF Environment, Expire, Crash, Restart, Listen, vars, flowVars
  <2> QED BY <2>1 DEF CommandsSent
<1> QED BY <1>1, StepKinds, ReplyKeepsCommands, StartKeepsCommands

\* An empty pipe means that every slot is idle.
LEMMA CommandsHold ==
  Spec => [](TypeOK /\ RedisInv /\ OneCommandEach /\ CommandsSent)
<1>1. Init => CommandsSent
  BY DEF Init, CommandsSent
<1>2. ClockInv => OneCommandEach
  BY DEF ClockInv
<1> QED BY <1>1, <1>2, NextCommands, ClockHolds, PTL DEF Spec

LEMMA EmptyPipe ==
  ASSUME CommandsSent, pipe = << >>
  PROVE  \A o \in Op : op[o] = Idle
<1>1. 1..Len(pipe) = {}
  OBVIOUS
<1> QED BY <1>1 DEF CommandsSent

-----------------------------------------------------------------------------
(* The identity cache *)

\* The commands after which a cleanup forgets its session.
EndingPc == {"cln_time", "cln_script"}

\* Something is about to forget the session.
Undertaken(s) ==
  \/ s \in expired
  \/ \E o \in Op : op[o].pc \in EndingPc /\ op[o].sid = s

\* A dead process remembers nothing; a cached session that died has a cleanup,
\* or a message that will start one.
CacheInv ==
  /\ phase = "down" => \A s \in Session : identityCache[s] = None
  /\ failures = 0 =>
       \A s \in Session :
         identityCache[s] # None /\ sessionHash[s] = None => Undertaken(s)

\* A reply to o leaves no dead session cached that was not, and o drops a
\* cleanup only when it has forgotten the session.
Buries(o) ==
  /\ \A s \in Session :
       identityCache'[s] # None /\ sessionHash'[s] = None
         => identityCache[s] # None /\ sessionHash[s] = None
  /\ op[o].pc \in EndingPc =>
       \/ op'[o].pc \in EndingPc /\ op'[o].sid = op[o].sid
       \/ identityCache'[op[o].sid] = None

\* A reply that changes neither cache nor hashes, to no cleanup.
LEMMA QuietBuries ==
  ASSUME NEW o \in Op, UNCHANGED <<sessionHash, identityCache>>,
         op[o].pc \notin EndingPc
  PROVE  Buries(o)
BY DEF Buries

\* A reply after which sessions are forgotten, and which kills none but them.
LEMMA ForgetBuries ==
  ASSUME TypeOK, NEW o \in Op, NEW ids, Forget(ids),
         \A s \in Session : s \in ids \/ sessionHash'[s] = sessionHash[s],
         op[o].pc \in EndingPc => op[o].sid \in ids \cap Session
  PROVE  Buries(o)
BY DEF TypeOK, Forget, Buries

\* A reply after which the identity of a live session is remembered.
LEMMA LearnBuries ==
  ASSUME TypeOK, NEW o \in Op, NEW s \in Session, NEW u,
         identityCache' = [identityCache EXCEPT ![s] = u],
         sessionHash'[s] # None,
         \A r \in Session : r = s \/ sessionHash'[r] = sessionHash[r],
         op[o].pc \notin EndingPc
  PROVE  Buries(o)
BY DEF TypeOK, Buries

LEMMA RegisterBuries ==
  ASSUME TypeOK, RedisInv, NEW o \in Op, RegisterStep(o)
  PROVE  Buries(o)
<1> USE DEF AtHead, EndingPc
<1>1. CASE \/ PruneRead(o) \/ PruneCheck(o) \/ RegisterTime(o)
           \/ RegisterCollision(o) \/ PublishOnline(o)
  BY <1>1, QuietBuries
     DEF PruneRead, PruneCheck, RegisterTime, RegisterCollision, PublishOnline,
         redisVars, memoryVars
<1>2. CASE PruneRemove(o)
  BY <1>2, ForgetBuries DEF PruneRemove, SremEffect
<1>3. CASE RegisterScript(o)
  <2>1. op[o].user \in User
    BY <1>3 DEF RegisterScript, RedisInv, OperationInv, OperandsPresent,
                RegisterPc
  <2>2. PICK s \in Session :
          /\ sessionHash' = [sessionHash EXCEPT ![s] = op[o].user]
          /\ identityCache' = [identityCache EXCEPT ![s] = op[o].user]
    BY <1>3 DEF RegisterScript, RegisterEffect
  <2>3. op[o].pc \notin EndingPc
    BY <1>3 DEF RegisterScript
  <2>4. sessionHash'[s] # None
        /\ \A r \in Session : r = s \/ sessionHash'[r] = sessionHash[r]
    BY <2>1, <2>2 DEF TypeOK
  <2> QED BY <2>2, <2>3, <2>4, LearnBuries
<1> QED BY <1>1, <1>2, <1>3 DEF RegisterStep

LEMMA CleanupBuries ==
  ASSUME TypeOK, RedisInv, NEW o \in Op, CleanupStep(o)
  PROVE  Buries(o)
<1> USE DEF AtHead, EndingPc
<1>0. op[o].pc \in {"cln_hgetall", "cln_time", "cln_script"}
        => op[o].sid \in Session
  BY DEF RedisInv, OperationInv, OperandsPresent, CleanupPc
<1>1. CASE PublishOffline(o) \/ RefreshTime(o) \/ RefreshScript(o)
  BY <1>1, QuietBuries
     DEF PublishOffline, RefreshTime, RefreshScript, redisVars, memoryVars
<1>2. CASE CleanupResolve(o)
  <2>1. CASE UNCHANGED <<sessionHash, identityCache>>
    BY <1>2, <2>1, QuietBuries DEF CleanupResolve
  <2>2. CASE /\ sessionHash[op[o].sid] # None
             /\ identityCache' = [identityCache EXCEPT
                                    ![op[o].sid] = sessionHash[op[o].sid]]
    BY <1>0, <1>2, <2>2, LearnBuries DEF CleanupResolve, redisVars
  <2> QED BY <1>2, <2>1, <2>2 DEF CleanupResolve, redisVars
<1>3. CASE CleanupTime(o)
  <2>1. op'[o] = [op[o] EXCEPT !.pc = "cln_script", !.now = clock']
    BY <1>3, AwaitMoves DEF CleanupTime
  <2>2. op'[o].pc = "cln_script" /\ op'[o].sid = op[o].sid
    BY <2>1, FieldTypes DEF OpState
  <2> QED BY <1>3, <2>2 DEF CleanupTime, Buries, redisVars, memoryVars
<1>4. CASE CleanupScript(o)
  <2>1. /\ Forget({op[o].sid})
        /\ sessionHash' = [sessionHash EXCEPT ![op[o].sid] = None]
        /\ op[o].pc = "cln_script"
    BY <1>4 DEF CleanupScript, CleanupEffect
  <2> QED BY <1>0, <2>1, ForgetBuries DEF TypeOK
<1> QED BY <1>1, <1>2, <1>3, <1>4 DEF CleanupStep

LEMMA SweepBuries ==
  ASSUME TypeOK, RedisInv, NEW o \in Op, SweepStep(o)
  PROVE  Buries(o)
<1> USE DEF AtHead, EndingPc
<1>0. op[o].pc \in {"orph_hgetall", "orph_del"} => op[o].sid \in Session
  BY DEF RedisInv, OperationInv, OperandsPresent
<1>1. CASE \/ SweepScan(o) \/ SweepRead(o) \/ SweepCheck(o) \/ SweepCount(o)
           \/ SweepTime(o) \/ OrphanScan(o) \/ OrphanCheck(o)
  BY <1>1, QuietBuries
     DEF SweepScan, SweepRead, SweepCheck, SweepCount, SweepTime, OrphanScan,
         OrphanCheck, redisVars, memoryVars
<1>2. CASE SweepSetLastSeen(o) \/ SweepPublish(o)
  BY <1>2, QuietBuries
     DEF SweepSetLastSeen, SetLastSeenEffect, SweepPublish, redisVars,
         memoryVars
<1>3. CASE SweepRemove(o)
  BY <1>3, ForgetBuries DEF SweepRemove, SremEffect
<1>4. CASE OrphanResolve(o)
  <2>1. CASE UNCHANGED <<sessionHash, identityCache>>
    BY <1>4, <2>1, QuietBuries DEF OrphanResolve
  <2>2. CASE /\ sessionHash[op[o].sid] # None
             /\ identityCache' = [identityCache EXCEPT
                                    ![op[o].sid] = sessionHash[op[o].sid]]
    BY <1>0, <1>4, <2>2, LearnBuries DEF OrphanResolve, redisVars
  <2> QED BY <1>4, <2>1, <2>2 DEF OrphanResolve, redisVars
<1>5. CASE OrphanDelete(o)
  <2>1. /\ Forget({op[o].sid})
        /\ sessionHash' = [sessionHash EXCEPT ![op[o].sid] = None]
        /\ op[o].pc = "orph_del"
    BY <1>5 DEF OrphanDelete, DelHashEffect
  <2> QED BY <1>0, <2>1, ForgetBuries DEF TypeOK
<1> QED BY <1>1, <1>2, <1>3, <1>4, <1>5 DEF SweepStep

\* The code of the service leaves the world around it alone.
LEMMA StepLeavesWorld ==
  ASSUME NEW o \in Op, Step(o)
  PROVE  /\ phase # "down"
         /\ UNCHANGED <<phase, expired, failures, crashes>>
<1> USE DEF AtHead, otherVars
<1>1. CASE RegisterStep(o)
  BY <1>1
  DEF RegisterStep, PruneRead, PruneCheck, PruneRemove, RegisterTime,
      RegisterScript, RegisterCollision, PublishOnline
<1>2. CASE CleanupStep(o)
  BY <1>2
  DEF CleanupStep, CleanupResolve, CleanupTime, CleanupScript, PublishOffline,
      RefreshTime, RefreshScript
<1>3. CASE SweepStep(o)
  BY <1>3
  DEF SweepStep, SweepScan, SweepRead, SweepCheck, SweepRemove, SweepCount,
      SweepTime, SweepSetLastSeen, SweepPublish, OrphanScan, OrphanResolve,
      OrphanCheck, OrphanDelete
<1> QED BY <1>1, <1>2, <1>3 DEF Step

\* So do its callers, apart from the message they take.
LEMMA CallLeavesWorld ==
  ASSUME NEW o \in Op, Call(o) \/ ReconcileSessions(o)
  PROVE  /\ phase # "down" /\ op[o] = Idle
         /\ UNCHANGED <<redisVars, memoryVars, clock, phase, used, failures,
                        crashes>>
         /\ \/ expired' = expired
            \/ \E s \in expired : /\ expired' = expired \ {s}
                                  /\ Start(o, CleanupStart(s))
BY DEF Call, RegisterConnection, CleanupSession, DeliverExpired,
       RefreshSessionHeartbeat, ReconcileSessions, otherVars, Start

LEMMA StepKeepsCache ==
  ASSUME TypeOK, RedisInv, CacheInv, NEW o \in Op, Step(o), Replied(o)
  PROVE  CacheInv'
<1>1. Buries(o)
  BY RegisterBuries, CleanupBuries, SweepBuries DEF Step
<1>2. phase # "down" /\ UNCHANGED <<phase, expired, failures>>
  BY StepLeavesWorld
<1>3. \A p \in Op \ {o} : op'[p] = op[p]
  BY DEF Replied, GoesOn, OnlyMoves
<1>4. ASSUME failures' = 0, NEW s \in Session,
             identityCache'[s] # None, sessionHash'[s] = None
      PROVE  Undertaken(s)'
  <2>1. Undertaken(s)
    BY <1>1, <1>2, <1>4 DEF Buries, CacheInv
  <2>2. CASE s \in expired
    BY <1>2, <2>2 DEF Undertaken
  <2>3. ASSUME NEW p \in Op, op[p].pc \in EndingPc, op[p].sid = s
        PROVE  Undertaken(s)'
    <3>1. op'[p].pc \in EndingPc /\ op'[p].sid = s
      BY <1>1, <1>3, <1>4, <2>3 DEF Buries
    <3> QED BY <3>1 DEF Undertaken
  <2> QED BY <2>1, <2>2, <2>3 DEF Undertaken
<1> QED BY <1>2, <1>4 DEF CacheInv

LEMMA CallKeepsCache ==
  ASSUME TypeOK, CacheInv, NEW o \in Op, Call(o) \/ ReconcileSessions(o)
  PROVE  CacheInv'
<1>1. /\ phase # "down" /\ op[o] = Idle
      /\ UNCHANGED <<sessionHash, identityCache, phase, failures>>
  BY CallLeavesWorld DEF redisVars, memoryVars
<1>2. OnlyMoves(o)
  BY StartsPlain, StartMoves
<1>3. ASSUME NEW s \in Session, NEW p \in Op, op[p].pc \in EndingPc,
             op[p].sid = s
      PROVE  Undertaken(s)'
  <2>1. op'[p] = op[p]
    BY <1>1, <1>2, <1>3 DEF OnlyMoves, Idle, EndingPc
  <2> QED BY <1>3, <2>1 DEF Undertaken
<1>4. ASSUME NEW s \in Session, s \in expired, identityCache[s] # None
      PROVE  Undertaken(s)'
  <2>1. CASE s \in expired'
    BY <2>1 DEF Undertaken
  <2>2. CASE Start(o, CleanupStart(s))
    <3>1. op'[o] = CleanupStart(s)
      BY <2>2, StartMoves
    <3>2. op'[o].pc = "cln_time" /\ op'[o].sid = s
      BY <1>4, <3>1 DEF CleanupStart, Idle
    <3> QED BY <3>2 DEF Undertaken, EndingPc
  <2> QED BY <1>4, <2>1, <2>2, CallLeavesWorld
<1> QED BY <1>1, <1>3, <1>4 DEF CacheInv, Undertaken

LEMMA EnvironmentKeepsCache ==
  ASSUME TypeOK, CacheInv, Environment
  PROVE  CacheInv'
<1> USE DEF CacheInv
<1>1. ASSUME NEW s \in Session, Expire(s)
      PROVE  CacheInv'
  <2>1. /\ UNCHANGED <<identityCache, op, phase, failures>>
        /\ phase = "booting" => identityCache[s] = None
        /\ sessionHash' = [sessionHash EXCEPT ![s] = None]
        /\ expired' = IF phase = "listening" THEN expired \cup {s} ELSE expired
    BY <1>1 DEF Expire, memoryVars, flowVars
  <2>2. \A r \in Session : Undertaken(r) => Undertaken(r)'
    BY <2>1 DEF Undertaken
  <2>3. identityCache[s] # None => Undertaken(s)'
    BY <2>1 DEF Undertaken, TypeOK
  <2> QED BY <2>1, <2>2, <2>3 DEF TypeOK
<1>2. CASE Listen
  BY <1>2 DEF Listen, Undertaken, redisVars, memoryVars, flowVars
<1>3. CASE Crash \/ Restart
  BY <1>3 DEF Crash, Restart, redisVars, memoryVars
<1> QED BY <1>1, <1>2, <1>3 DEF Environment

\* Every step keeps it.
LEMMA NextCache == TypeOK /\ RedisInv /\ CacheInv /\ [Next]_vars => CacheInv'
<1> SUFFICES ASSUME TypeOK, RedisInv, CacheInv, [Next]_vars
             PROVE  CacheInv'
  OBVIOUS
<1>1. ASSUME NEW o \in Op, Fault(o)
      PROVE  CacheInv'
  <2>1. UNCHANGED <<identityCache, phase>>
        /\ (phase = "down" \/ failures' = failures + 1)
    BY <1>1 DEF Fault, Reject, LoseReply, Drain, CanFail, memoryVars
  <2>2. failures \in Nat
    BY DEF TypeOK
  <2> QED BY <2>1, <2>2 DEF CacheInv
<1>2. CASE UNCHANGED vars
  BY <1>2 DEF vars, CacheInv, Undertaken
<1> QED BY <1>1, <1>2, StepKinds, StepKeepsCache, CallKeepsCache,
           EnvironmentKeepsCache

LEMMA CacheHolds == Spec => [](TypeOK /\ RedisInv /\ CommandsSent /\ CacheInv)
<1>1. Init => CacheInv
  BY DEF Init, CacheInv
<1> QED BY <1>1, NextCache, CommandsHold, PTL DEF Spec

\* When everything has settled and no command failed, only live sessions are
\* cached, whatever crashed and however sweeps and cleanups overlapped: the
\* entry of a session that died is removed by the cleanup its message started,
\* or by the operation that removed the hash.
THEOREM CacheSettles == Spec => []CacheNotLeaked
<1>1. CommandsSent /\ CacheInv => CacheNotLeaked
  BY EmptyPipe
     DEF CacheInv, CacheNotLeaked, Quiescent, Undertaken, EndingPc, Idle
<1> QED BY <1>1, CacheHolds, PTL

-----------------------------------------------------------------------------
(* The session sets *)

\* The commands that follow a snapshot of a set, and those that name a session
\* of the operation's user.
SnapshotPc == {"reg_exists", "reg_srem", "swp_exists", "swp_srem"}
OwnerPc    == EndingPc \cup {"orph_sismember"}

\* The sessions an operation works on are in no set but that of its user.
Owned(o) ==
  /\ op[o].pc \in SnapshotPc =>
       \A s \in op[o].ids : \A v \in User :
         s \in userSessions[v] => v = op[o].user
  /\ op[o].pc \in OwnerPc =>
       \A v \in User : op[o].sid \in userSessions[v] => v = op[o].user
  /\ op[o].pc = "orph_del" => \A v \in User : op[o].sid \notin userSessions[v]

MembersCached == \A u \in User : \A s \in userSessions[u] : identityCache[s] = u

\* As long as nothing failed, every member of a set is cached: so the cleanup
\* that a dead one waits for will find its user.
SetsInv ==
  NoFault => /\ phase # "down"
             /\ MembersCached
             /\ \A o \in Op : Owned(o)

\* The sets gain no session that was used before.
SetsDecay == \A v \in User : userSessions'[v] \cap used \subseteq userSessions[v]

\* What is owned stays so in the steps of other operations.
LEMMA OthersOwn ==
  ASSUME NEW p \in Op, OperationInv(p), Owned(p), SetsDecay, op'[p] = op[p]
  PROVE  Owned(p)'
<1> USE DEF Owned, SetsDecay, OperationInv
<1>1. op[p].pc \in SnapshotPc => op[p].ids \subseteq used
  BY DEF StaleStaysDead, SnapshotPc
<1>2. op[p].pc \in OwnerPc \cup {"orph_del"} => op[p].sid \in used
  BY DEF IdentityAgrees, OwnerPc, EndingPc
<1> QED BY <1>1, <1>2

\* At other commands nothing is owned.
LEMMA PlainOwns ==
  ASSUME NEW o \in Op, op'[o].pc \notin SnapshotPc \cup OwnerPc \cup {"orph_del"}
  PROVE  Owned(o)'
BY DEF Owned

LEMMA ReturnOwns ==
  ASSUME TypeOK, NEW o \in Op, Return(o)
  PROVE  Owned(o)'
<1>1. op'[o].pc = "idle"
  BY DEF Return, TypeOK, Idle
<1> QED BY <1>1, PlainOwns DEF SnapshotPc, OwnerPc, EndingPc

LEMMA AwaitOwns ==
  ASSUME TypeOK, NEW o \in Op, NEW state, Await(o, state),
         state.pc \notin SnapshotPc \cup OwnerPc \cup {"orph_del"}
  PROVE  Owned(o)'
BY AwaitMoves, PlainOwns

\* The identity that is cached, or that a hash holds, is the owner.
LEMMA CachedOwns ==
  ASSUME MembersCached, NEW o \in Op, NEW s,
         UNCHANGED userSessions,
         op'[o].pc \in OwnerPc, op'[o].sid = s, op'[o].user = identityCache[s]
  PROVE  Owned(o)'
BY DEF MembersCached, Owned, OwnerPc, EndingPc, SnapshotPc

LEMMA HashOwns ==
  ASSUME TypeOK, RedisInv, NEW o \in Op, NEW s \in Session,
         UNCHANGED userSessions, sessionHash[s] # None,
         op'[o].pc \in OwnerPc, op'[o].sid = s, op'[o].user = sessionHash[s]
  PROVE  Owned(o)'
<1>1. sessionHash[s] \in User /\ s \in userSessions[sessionHash[s]]
  BY DEF TypeOK, RedisInv, LiveSessionIsMember, Live
<1>2. \A v \in User : s \in userSessions[v] => v = sessionHash[s]
  BY <1>1 DEF RedisInv, SoleOwner
<1> QED BY <1>2 DEF Owned, OwnerPc, EndingPc, SnapshotPc

LEMMA CleanupStartOwns ==
  ASSUME TypeOK, MembersCached, NEW o \in Op, NEW s \in Session,
         UNCHANGED userSessions, op'[o] = CleanupStart(s)
  PROVE  Owned(o)'
<1> USE DEF OwnerPc, EndingPc, SnapshotPc
<1>1. CASE identityCache[s] # None
  <2>1. /\ op'[o].pc = "cln_time"
        /\ op'[o].sid = s
        /\ op'[o].user = identityCache[s]
    BY <1>1 DEF CleanupStart, Idle
  <2> QED BY <2>1, CachedOwns
<1>2. CASE identityCache[s] = None
  <2>1. op'[o].pc = "cln_hgetall"
    BY <1>2 DEF CleanupStart, Idle
  <2> QED BY <2>1, PlainOwns
<1> QED BY <1>1, <1>2

LEMMA VisitUsersOwns ==
  ASSUME TypeOK, NEW o \in Op, NEW todo, VisitUsers(o, todo)
  PROVE  Owned(o)'
<1> USE DEF OwnerPc, EndingPc, SnapshotPc
<1>1. CASE Await(o, [Idle EXCEPT !.pc = "orph_scan"])
  <2>1. op'[o] = [Idle EXCEPT !.pc = "orph_scan"]
    BY <1>1, AwaitMoves
  <2> QED BY <2>1, PlainOwns DEF Idle
<1>2. ASSUME NEW u \in todo,
             Await(o, [Idle EXCEPT !.pc = "swp_smembers", !.user = u,
                                   !.todoUsers = todo \ {u}])
      PROVE  Owned(o)'
  <2>1. op'[o] = [Idle EXCEPT !.pc = "swp_smembers", !.user = u,
                              !.todoUsers = todo \ {u}]
    BY <1>2, AwaitMoves
  <2>2. op'[o].pc = "swp_smembers"
    BY <2>1 DEF Idle
  <2> QED BY <2>2, PlainOwns
<1> QED BY <1>1, <1>2 DEF VisitUsers

LEMMA VisitHashesOwns ==
  ASSUME TypeOK, MembersCached, NEW o \in Op, NEW todo, VisitHashes(o, todo),
         UNCHANGED userSessions
  PROVE  Owned(o)'
<1> USE DEF OwnerPc, EndingPc, SnapshotPc
<1>1. CASE Return(o)
  <2>1. op'[o] = Idle
    BY <1>1 DEF Return, TypeOK
  <2> QED BY <2>1, PlainOwns DEF Idle
<1>2. ASSUME NEW s \in todo,
             Await(o, [Idle EXCEPT
                         !.pc = IF identityCache[s] = None
                                  THEN "orph_hgetall" ELSE "orph_sismember",
                         !.sid = s, !.user = identityCache[s],
                         !.todoSids = todo \ {s}])
      PROVE  Owned(o)'
  <2> DEFINE state == [Idle EXCEPT
                         !.pc = IF identityCache[s] = None
                                  THEN "orph_hgetall" ELSE "orph_sismember",
                         !.sid = s, !.user = identityCache[s],
                         !.todoSids = todo \ {s}]
  <2>0. op'[o] = state
    <3> HIDE DEF state
    <3> QED BY <1>2, AwaitMoves DEF state
  <2>1. /\ op'[o].sid = s
        /\ op'[o].user = identityCache[s]
        /\ op'[o].pc \in {"orph_hgetall", "orph_sismember"}
    BY <2>0 DEF Idle
  <2> QED BY <2>1, PlainOwns, CachedOwns
<1> QED BY <1>1, <1>2 DEF VisitHashes

\* What a reply to o does to the sets, the cache and what o owns.
SetsKept(o) == MembersCached' /\ SetsDecay /\ Owned(o)'

LEMMA QuietMembers ==
  ASSUME MembersCached, UNCHANGED <<userSessions, identityCache>>
  PROVE  MembersCached' /\ SetsDecay
BY DEF MembersCached, SetsDecay

\* An owner takes sessions out of its set and out of the cache.
LEMMA ForgetMembers ==
  ASSUME TypeOK, MembersCached, NEW u \in User, NEW ids \in SUBSET Session,
         \A s \in ids : \A v \in User : s \in userSessions[v] => v = u,
         userSessions' = [userSessions EXCEPT ![u] = @ \ ids],
         Forget(ids)
  PROVE  MembersCached' /\ SetsDecay
<1>1. \A v \in User : userSessions'[v] = userSessions[v] \ ids
  BY DEF TypeOK
<1>2. \A v \in User : \A s \in userSessions'[v] : s \in Session /\ s \notin ids
  BY <1>1 DEF TypeOK
<1> QED BY <1>1, <1>2 DEF MembersCached, SetsDecay, Forget

LEMMA RegisterMembers ==
  ASSUME TypeOK, RedisInv, MembersCached, NEW u \in User, NEW s \in Session,
         RegisterEffect(u, s),
         identityCache' = [identityCache EXCEPT ![s] = u]
  PROVE  MembersCached' /\ SetsDecay
<1>1. \A v \in User : s \notin userSessions[v]
  BY DEF RegisterEffect, RedisInv, MembersWereUsed
<1>2. \A v \in User : \A r \in userSessions'[v] :
        \/ r \in userSessions[v] /\ r # s
        \/ r = s /\ v = u
  BY <1>1 DEF RegisterEffect, TypeOK
<1>3. \A v \in User : userSessions[v] \subseteq Session
  BY DEF TypeOK
<1> QED BY <1>2, <1>3 DEF MembersCached, SetsDecay, RegisterEffect, TypeOK

LEMMA LearnMembers ==
  ASSUME TypeOK, RedisInv, MembersCached, NEW s \in Session,
         sessionHash[s] # None, UNCHANGED userSessions,
         identityCache' = [identityCache EXCEPT ![s] = sessionHash[s]]
  PROVE  MembersCached' /\ SetsDecay
<1>1. sessionHash[s] \in User /\ s \in userSessions[sessionHash[s]]
  BY DEF TypeOK, RedisInv, LiveSessionIsMember, Live
<1>2. \A v \in User : s \in userSessions[v] => v = sessionHash[s]
  BY <1>1 DEF RedisInv, SoleOwner
<1>3. \A v \in User : userSessions[v] \subseteq Session
  BY DEF TypeOK
<1> QED BY <1>2, <1>3 DEF MembersCached, SetsDecay, TypeOK

LEMMA RegisterKeepsSets ==
  ASSUME TypeOK, RedisInv, MembersCached, NEW o \in Op, Owned(o),
         RegisterStep(o)
  PROVE  SetsKept(o)
<1> USE DEF AtHead, SetsKept, OwnerPc, EndingPc, SnapshotPc
<1>0. op[o].pc \in RegisterPc => op[o].user \in User
  BY DEF RedisInv, OperationInv, OperandsPresent
<1>1. CASE PruneRead(o)
  <2>1. MembersCached' /\ SetsDecay
    BY <1>1, QuietMembers DEF PruneRead, redisVars, memoryVars
  <2>2. CASE op'[o] = [op[o] EXCEPT !.pc = "reg_time"]
    <3>1. op'[o].pc = "reg_time"
      BY <2>2, FieldTypes DEF OpState
    <3> QED BY <2>1, <3>1, PlainOwns
  <2>3. CASE op'[o] = [op[o] EXCEPT !.pc = "reg_exists",
                                    !.ids = userSessions[op[o].user]]
    <3>1. /\ op'[o].pc = "reg_exists"
          /\ op'[o].user = op[o].user
          /\ op'[o].ids = userSessions[op[o].user]
      BY <2>3, FieldTypes DEF OpState
    <3>2. userSessions' = userSessions /\ op[o].user \in User
      BY <1>0, <1>1 DEF PruneRead, RegisterPc, redisVars
    <3> QED BY <2>1, <3>1, <3>2 DEF Owned, RedisInv, SoleOwner
  <2> QED BY <1>1, <2>2, <2>3, AwaitMoves DEF PruneRead
<1>2. CASE PruneCheck(o)
  <2>1. MembersCached' /\ SetsDecay
    BY <1>2, QuietMembers DEF PruneCheck, redisVars, memoryVars
  <2>2. CASE op'[o] = [op[o] EXCEPT !.pc = "reg_time", !.ids = {}]
    <3>1. op'[o].pc = "reg_time"
      BY <2>2, FieldTypes DEF OpState
    <3> QED BY <2>1, <3>1, PlainOwns
  <2>3. CASE op'[o] = [op[o] EXCEPT !.pc = "reg_srem",
                                    !.ids = Stale(op[o].ids)]
    <3>1. /\ op'[o].pc = "reg_srem"
          /\ op'[o].user = op[o].user
          /\ op'[o].ids = Stale(op[o].ids)
      BY <2>3, FieldTypes DEF OpState
    <3>2. userSessions' = userSessions /\ op[o].pc = "reg_exists"
      BY <1>2 DEF PruneCheck, redisVars
    <3> QED BY <2>1, <3>1, <3>2 DEF Owned, Stale
  <2> QED BY <1>2, <2>2, <2>3, AwaitMoves DEF PruneCheck
<1>3. CASE PruneRemove(o)
  <2>1. MembersCached' /\ SetsDecay
    BY <1>0, <1>3, FieldTypes, ForgetMembers
    DEF PruneRemove, SremEffect, Owned, RegisterPc
  <2>2. op'[o] = [op[o] EXCEPT !.pc = "reg_time", !.ids = {}]
    BY <1>3, AwaitMoves DEF PruneRemove
  <2>3. op'[o].pc = "reg_time"
    BY <2>2, FieldTypes DEF OpState
  <2> QED BY <2>1, <2>3, PlainOwns
<1>4. CASE RegisterTime(o) \/ RegisterCollision(o) \/ PublishOnline(o)
  <2>1. MembersCached' /\ SetsDecay
    BY <1>4, QuietMembers
    DEF RegisterTime, RegisterCollision, PublishOnline, redisVars, memoryVars
  <2>2. CASE Return(o)
    BY <2>1, <2>2, ReturnOwns
  <2>3. CASE Await(o, [op[o] EXCEPT !.pc = "reg_script"])
    BY <2>1, <2>3, AwaitOwns, FieldTypes DEF OpState
  <2>4. CASE Await(o, [op[o] EXCEPT !.pc = "reg_time", !.tries = @ + 1])
    BY <2>1, <2>4, AwaitOwns, FieldTypes DEF OpState
  <2> QED BY <1>4, <2>2, <2>3, <2>4
          DEF RegisterTime, RegisterCollision, PublishOnline
<1>5. CASE RegisterScript(o)
  <2>1. MembersCached' /\ SetsDecay
    BY <1>0, <1>5, RegisterMembers DEF RegisterScript, RegisterPc
  <2>2. CASE Return(o)
    BY <2>1, <2>2, ReturnOwns
  <2>3. ASSUME NEW s \in Session,
               Await(o, [Idle EXCEPT !.pc = "pub_online",
                                     !.user = op[o].user, !.sid = s])
        PROVE  SetsKept(o)
    <3>1. [Idle EXCEPT !.pc = "pub_online",
                       !.user = op[o].user, !.sid = s].pc = "pub_online"
      BY DEF Idle
    <3> QED BY <2>1, <2>3, <3>1, AwaitOwns
  <2> QED BY <1>5, <2>2, <2>3 DEF RegisterScript
<1> QED BY <1>1, <1>2, <1>3, <1>4, <1>5 DEF RegisterStep

LEMMA CleanupKeepsSets ==
  ASSUME TypeOK, RedisInv, MembersCached, NEW o \in Op, Owned(o),
         CleanupStep(o)
  PROVE  SetsKept(o)
<1> USE DEF AtHead, SetsKept, OwnerPc, EndingPc, SnapshotPc
<1>0. /\ op[o].pc \in CleanupPc \cup RefreshPc => op[o].sid \in Session
      /\ op[o].pc = "cln_script" => op[o].user \in User
  BY DEF RedisInv, OperationInv, OperandsPresent
<1>1. CASE CleanupResolve(o)
  <2>1. op[o].sid \in Session /\ UNCHANGED userSessions
    BY <1>0, <1>1 DEF CleanupResolve, CleanupPc, redisVars
  <2>2. CASE Return(o) /\ UNCHANGED identityCache
    <3>1. op'[o].pc = "idle"
      BY <2>2 DEF Return, TypeOK, Idle
    <3> QED BY <2>1, <2>2, <3>1, QuietMembers, PlainOwns
  <2>3. CASE /\ sessionHash[op[o].sid] # None
             /\ identityCache' = [identityCache EXCEPT
                                    ![op[o].sid] = sessionHash[op[o].sid]]
             /\ Await(o, [op[o] EXCEPT !.pc = "cln_time",
                                       !.user = sessionHash[op[o].sid]])
    <3>1. op'[o] = [op[o] EXCEPT !.pc = "cln_time",
                                 !.user = sessionHash[op[o].sid]]
      BY <2>3, AwaitMoves
    <3>2. /\ op'[o].pc = "cln_time"
          /\ op'[o].sid = op[o].sid
          /\ op'[o].user = sessionHash[op[o].sid]
      BY <3>1, FieldTypes DEF OpState
    <3> QED BY <2>1, <2>3, <3>2, LearnMembers, HashOwns
  <2> QED BY <1>1, <2>2, <2>3 DEF CleanupResolve
<1>2. CASE CleanupTime(o)
  <2>1. MembersCached' /\ SetsDecay
    BY <1>2, QuietMembers DEF CleanupTime, redisVars, memoryVars
  <2>2. op'[o] = [op[o] EXCEPT !.pc = "cln_script", !.now = clock']
    BY <1>2, AwaitMoves DEF CleanupTime
  <2>3. op'[o].pc = "cln_script" /\ op'[o].sid = op[o].sid
        /\ op'[o].user = op[o].user
    BY <2>2, FieldTypes DEF OpState
  <2>4. op[o].pc = "cln_time" /\ userSessions' = userSessions
    BY <1>2 DEF CleanupTime, redisVars
  <2> QED BY <2>1, <2>3, <2>4 DEF Owned
<1>3. CASE CleanupScript(o)
  <2>1. MembersCached' /\ SetsDecay
    <3>1. /\ op[o].user \in User /\ Forget({op[o].sid})
          /\ \A s \in {op[o].sid} : \A v \in User :
               s \in userSessions[v] => v = op[o].user
      BY <1>0, <1>3 DEF CleanupScript, Owned
    <3>2. userSessions' = [userSessions EXCEPT ![op[o].user] = @ \ {op[o].sid}]
      BY <1>3 DEF CleanupScript, CleanupEffect
    <3>3. {op[o].sid} \in SUBSET Session
      BY <1>0, <1>3 DEF CleanupScript, CleanupPc
    <3> HIDE DEF SetsKept
    <3> QED BY <3>1, <3>2, <3>3, ForgetMembers
  <2>2. CASE Return(o)
    BY <2>1, <2>2, ReturnOwns
  <2>3. CASE Await(o, [Idle EXCEPT !.pc = "pub_offline", !.user = op[o].user])
    <3>1. [Idle EXCEPT !.pc = "pub_offline",
                       !.user = op[o].user].pc = "pub_offline"
      BY DEF Idle
    <3> QED BY <2>1, <2>3, <3>1, AwaitOwns
  <2> QED BY <1>3, <2>2, <2>3 DEF CleanupScript
<1>4. CASE PublishOffline(o) \/ RefreshTime(o)
  <2>1. MembersCached' /\ SetsDecay
    BY <1>4, QuietMembers DEF PublishOffline, RefreshTime, redisVars, memoryVars
  <2>2. op'[o] \in {Idle, [op[o] EXCEPT !.pc = "ref_script"]}
    BY <1>4, AwaitMoves DEF PublishOffline, RefreshTime, Return, TypeOK
  <2>3. op'[o].pc \in {"idle", "ref_script"}
    BY <2>2, FieldTypes DEF OpState, Idle
  <2> QED BY <2>1, <2>3, PlainOwns
<1>5. CASE RefreshScript(o)
  <2>1. /\ MembersCached' /\ SetsDecay
        /\ op[o].sid \in Session /\ UNCHANGED userSessions
    BY <1>0, <1>5, QuietMembers DEF RefreshScript, RefreshPc, redisVars, memoryVars
  <2>2. CASE Return(o)
    <3>1. op'[o].pc = "idle"
      BY <2>2 DEF Return, TypeOK, Idle
    <3> QED BY <2>1, <3>1, PlainOwns
  <2>3. CASE Await(o, CleanupStart(op[o].sid))
    <3>1. op'[o] = CleanupStart(op[o].sid)
      BY <2>3, AwaitMoves
    <3> QED BY <2>1, <3>1, CleanupStartOwns
  <2> QED BY <1>5, <2>2, <2>3 DEF RefreshScript
<1> QED BY <1>1, <1>2, <1>3, <1>4, <1>5 DEF CleanupStep

LEMMA SweepKeepsSets ==
  ASSUME TypeOK, RedisInv, MembersCached, NEW o \in Op, Owned(o),
         SweepStep(o)
  PROVE  SetsKept(o)
<1> USE DEF AtHead, SetsKept, OwnerPc, EndingPc, SnapshotPc
<1>0. /\ op[o].pc \in SweepPc \ {"swp_scan"} => op[o].user \in User
      /\ op[o].pc \in {"orph_hgetall", "orph_sismember", "orph_del"}
           => op[o].sid \in Session
      /\ op[o].pc \in {"orph_sismember", "orph_del"} => op[o].user \in User
  BY DEF RedisInv, OperationInv, OperandsPresent, SweepPc
<1>1. CASE SweepScan(o) \/ SweepCount(o) \/ SweepTime(o) \/ SweepPublish(o)
           \/ SweepSetLastSeen(o)
  <2>1. MembersCached' /\ SetsDecay
    BY <1>1, QuietMembers
    DEF SweepScan, SweepCount, SweepTime, SweepPublish, SweepSetLastSeen,
        SetLastSeenEffect, redisVars, memoryVars
  <2>2. ASSUME NEW todo, VisitUsers(o, todo)
        PROVE  SetsKept(o)
    BY <2>1, <2>2, VisitUsersOwns
  <2>3. ASSUME NEW pc \in {"swp_time", "swp_set", "swp_publish"},
               \/ Await(o, [op[o] EXCEPT !.pc = pc])
               \/ Await(o, [op[o] EXCEPT !.pc = pc, !.now = clock'])
        PROVE  SetsKept(o)
    <3>1. /\ [op[o] EXCEPT !.pc = pc].pc = pc
          /\ [op[o] EXCEPT !.pc = pc, !.now = clock'].pc = pc
      BY FieldTypes DEF OpState
    <3> QED BY <2>1, <2>3, <3>1, AwaitOwns
  <2> QED BY <1>1, <2>2, <2>3
          DEF SweepScan, SweepCount, SweepTime, SweepPublish, SweepSetLastSeen
<1>2. CASE SweepRead(o)
  <2>1. MembersCached' /\ SetsDecay
    BY <1>2, QuietMembers DEF SweepRead, redisVars, memoryVars
  <2>2. CASE VisitUsers(o, op[o].todoUsers)
    BY <2>1, <2>2, VisitUsersOwns
  <2>3. CASE Await(o, [op[o] EXCEPT !.pc = "swp_exists",
                                    !.ids = userSessions[op[o].user]])
    <3>1. op'[o] = [op[o] EXCEPT !.pc = "swp_exists",
                                 !.ids = userSessions[op[o].user]]
      BY <2>3, AwaitMoves
    <3>2. /\ op'[o].pc = "swp_exists"
          /\ op'[o].user = op[o].user
          /\ op'[o].ids = userSessions[op[o].user]
      BY <3>1, FieldTypes DEF OpState
    <3>3. userSessions' = userSessions /\ op[o].user \in User
      BY <1>0, <1>2 DEF SweepRead, SweepPc, redisVars
    <3> QED BY <2>1, <3>2, <3>3 DEF Owned, RedisInv, SoleOwner
  <2> QED BY <1>2, <2>2, <2>3 DEF SweepRead
<1>3. CASE SweepCheck(o)
  <2>1. MembersCached' /\ SetsDecay
    BY <1>3, QuietMembers DEF SweepCheck, redisVars, memoryVars
  <2>2. CASE VisitUsers(o, op[o].todoUsers)
    BY <2>1, <2>2, VisitUsersOwns
  <2>3. CASE Await(o, [op[o] EXCEPT !.pc = "swp_srem",
                                    !.ids = Stale(op[o].ids)])
    <3>1. op'[o] = [op[o] EXCEPT !.pc = "swp_srem", !.ids = Stale(op[o].ids)]
      BY <2>3, AwaitMoves
    <3>2. /\ op'[o].pc = "swp_srem"
          /\ op'[o].user = op[o].user
          /\ op'[o].ids = Stale(op[o].ids)
      BY <3>1, FieldTypes DEF OpState
    <3>3. userSessions' = userSessions /\ op[o].pc = "swp_exists"
      BY <1>3 DEF SweepCheck, redisVars
    <3> QED BY <2>1, <3>2, <3>3 DEF Owned, Stale
  <2> QED BY <1>3, <2>2, <2>3 DEF SweepCheck
<1>4. CASE SweepRemove(o)
  <2>1. MembersCached' /\ SetsDecay
    BY <1>0, <1>4, FieldTypes, ForgetMembers
    DEF SweepRemove, SremEffect, Owned, SweepPc
  <2>2. op'[o] = [op[o] EXCEPT !.pc = "swp_scard", !.ids = {}]
    BY <1>4, AwaitMoves DEF SweepRemove
  <2>3. op'[o].pc = "swp_scard"
    BY <2>2, FieldTypes DEF OpState
  <2> QED BY <2>1, <2>3, PlainOwns
<1>5. CASE OrphanScan(o)
  <2>1. MembersCached' /\ SetsDecay /\ UNCHANGED userSessions
    BY <1>5, QuietMembers DEF OrphanScan, redisVars, memoryVars
  <2> QED BY <1>5, <2>1, VisitHashesOwns DEF OrphanScan
<1>6. CASE OrphanResolve(o)
  <2>1. op[o].sid \in Session /\ UNCHANGED userSessions
    BY <1>0, <1>6 DEF OrphanResolve, redisVars
  <2>2. CASE VisitHashes(o, op[o].todoSids) /\ UNCHANGED identityCache
    BY <2>1, <2>2, QuietMembers, VisitHashesOwns
  <2>3. CASE /\ sessionHash[op[o].sid] # None
             /\ identityCache' = [identityCache EXCEPT
                                    ![op[o].sid] = sessionHash[op[o].sid]]
             /\ Await(o, [op[o] EXCEPT !.pc = "orph_sismember",
                                       !.user = sessionHash[op[o].sid]])
    <3>1. op'[o] = [op[o] EXCEPT !.pc = "orph_sismember",
                                 !.user = sessionHash[op[o].sid]]
      BY <2>3, AwaitMoves
    <3>2. /\ op'[o].pc = "orph_sismember"
          /\ op'[o].sid = op[o].sid
          /\ op'[o].user = sessionHash[op[o].sid]
      BY <3>1, FieldTypes DEF OpState
    <3> QED BY <2>1, <2>3, <3>2, LearnMembers, HashOwns
  <2> QED BY <1>6, <2>2, <2>3 DEF OrphanResolve
<1>7. CASE OrphanCheck(o)
  <2>1. MembersCached' /\ SetsDecay /\ UNCHANGED userSessions
    BY <1>7, QuietMembers DEF OrphanCheck, redisVars, memoryVars
  <2>2. CASE VisitHashes(o, op[o].todoSids)
    BY <2>1, <2>2, VisitHashesOwns
  <2>3. CASE /\ op[o].sid \notin userSessions[op[o].user]
             /\ Await(o, [op[o] EXCEPT !.pc = "orph_del"])
    <3>1. op'[o] = [op[o] EXCEPT !.pc = "orph_del"]
      BY <2>3, AwaitMoves
    <3>2. op'[o].pc = "orph_del" /\ op'[o].sid = op[o].sid
      BY <3>1, FieldTypes DEF OpState
    <3>3. \A v \in User : op[o].sid \notin userSessions[v]
      BY <1>7, <2>3 DEF OrphanCheck, Owned
    <3> QED BY <2>1, <3>2, <3>3 DEF Owned
  <2> QED BY <1>7, <2>2, <2>3 DEF OrphanCheck
<1>8. CASE OrphanDelete(o)
  <2>1. \A v \in User : op[o].sid \notin userSessions[v]
    BY <1>8 DEF OrphanDelete, Owned
  <2>2. UNCHANGED userSessions /\ Forget({op[o].sid})
    BY <1>8 DEF OrphanDelete, DelHashEffect
  <2>3. MembersCached' /\ SetsDecay
    BY <2>1, <2>2 DEF MembersCached, SetsDecay, Forget, TypeOK
  <2> QED BY <1>8, <2>2, <2>3, VisitHashesOwns DEF OrphanDelete
<1> QED BY <1>1, <1>2, <1>3, <1>4, <1>5, <1>6, <1>7, <1>8 DEF SweepStep

\* What callers start owns the session they name, or nothing.
LEMMA CallKeepsSets ==
  ASSUME TypeOK, MembersCached, NEW o \in Op, Call(o) \/ ReconcileSessions(o)
  PROVE  SetsKept(o)
<1> USE DEF SetsKept, OwnerPc, EndingPc, SnapshotPc
<1>1. MembersCached' /\ SetsDecay /\ UNCHANGED userSessions
  BY CallLeavesWorld, QuietMembers DEF redisVars, memoryVars
<1>2. ASSUME NEW u \in User, RegisterConnection(o, u)
      PROVE  Owned(o)'
  <2>1. op'[o] = [Idle EXCEPT !.pc = "reg_smembers", !.user = u]
    BY <1>2, StartMoves DEF RegisterConnection
  <2>2. op'[o].pc = "reg_smembers"
    BY <2>1 DEF Idle
  <2> QED BY <2>2, PlainOwns
<1>3. ASSUME NEW s \in Session, CleanupSession(o, s) \/ DeliverExpired(o, s)
      PROVE  Owned(o)'
  <2>1. op'[o] = CleanupStart(s)
    BY <1>3, StartMoves DEF CleanupSession, DeliverExpired
  <2> QED BY <1>1, <2>1, CleanupStartOwns
<1>4. ASSUME NEW s \in Session, RefreshSessionHeartbeat(o, s)
      PROVE  Owned(o)'
  <2>1. op'[o] = [Idle EXCEPT !.pc = "ref_time", !.sid = s]
    BY <1>4, StartMoves DEF RefreshSessionHeartbeat
  <2>2. op'[o].pc = "ref_time"
    BY <2>1 DEF Idle
  <2> QED BY <2>2, PlainOwns
<1>5. CASE ReconcileSessions(o)
  <2>1. op'[o] = [Idle EXCEPT !.pc = "swp_scan"]
    BY <1>5, StartMoves DEF ReconcileSessions
  <2>2. op'[o].pc = "swp_scan"
    BY <2>1 DEF Idle
  <2> QED BY <1>1, <2>2, PlainOwns
<1> QED BY <1>1, <1>2, <1>3, <1>4, <1>5 DEF Call

\* Without a fault so far, the process has not ended and no command failed:
\* what may happen is a call, a reply, an expiry, or the time going on.
LEMMA FaultFreeKinds ==
  ASSUME TypeOK, RedisInv, [Next]_vars, NoFault', NoFault => phase # "down"
  PROVE  /\ NoFault /\ phase' # "down"
         /\ \/ \E o \in Op : Call(o) \/ (o \in Sweeper /\ ReconcileSessions(o))
            \/ \E o \in Op : Step(o) /\ Replied(o)
            \/ \E s \in Session : Expire(s)
            \/ Listen
            \/ UNCHANGED vars
<1> USE DEF NoFault
<1>0. failures \in Nat /\ crashes \in Nat
  BY DEF TypeOK
<1>1. ASSUME NEW o \in Op, Fault(o)
      PROVE  FALSE
  BY <1>0, <1>1 DEF Fault, Reject, LoseReply, Drain, CanFail
<1>2. ASSUME NEW o \in Op, Call(o) \/ ReconcileSessions(o)
      PROVE  NoFault /\ phase' # "down"
  BY <1>2, CallLeavesWorld
<1>3. ASSUME NEW o \in Op, Step(o)
      PROVE  NoFault /\ phase' # "down"
  BY <1>3, StepLeavesWorld
<1>4. CASE Environment
  <2>1. ~ Crash /\ ~ Restart
    BY <1>0 DEF Crash, Restart
  <2>2. NoFault /\ phase' # "down"
    BY <1>4, <2>1 DEF Environment, Expire, Listen
  <2> QED BY <1>4, <2>1, <2>2 DEF Environment
<1>5. CASE UNCHANGED vars
  BY <1>5 DEF vars
<1> QED BY <1>1, <1>2, <1>3, <1>4, <1>5, StepKinds

LEMMA NextSets == TypeOK /\ RedisInv /\ SetsInv /\ [Next]_vars => SetsInv'
<1> SUFFICES ASSUME TypeOK, RedisInv, SetsInv, [Next]_vars, NoFault'
             PROVE  /\ phase' # "down"
                    /\ MembersCached'
                    /\ \A o \in Op : Owned(o)'
  BY DEF SetsInv
<1>1. NoFault /\ phase' # "down"
  BY FaultFreeKinds DEF SetsInv
<1>2. MembersCached /\ \A o \in Op : Owned(o) /\ OperationInv(o)
  BY <1>1 DEF SetsInv, RedisInv
<1>3. ASSUME NEW o \in Op, SetsKept(o), OnlyMoves(o)
      PROVE  MembersCached' /\ \A p \in Op : Owned(p)'
  BY <1>2, <1>3, OthersOwn DEF SetsKept, OnlyMoves
<1>4. ASSUME NEW o \in Op, Step(o) /\ Replied(o)
      PROVE  MembersCached' /\ \A p \in Op : Owned(p)'
  <2>1. SetsKept(o)
    BY <1>2, <1>4, RegisterKeepsSets, CleanupKeepsSets, SweepKeepsSets DEF Step
  <2> QED BY <1>3, <1>4, <2>1 DEF Replied, GoesOn
<1>5. ASSUME NEW o \in Op, Call(o) \/ ReconcileSessions(o)
      PROVE  MembersCached' /\ \A p \in Op : Owned(p)'
  BY <1>2, <1>3, <1>5, CallKeepsSets, StartsPlain, StartMoves
<1>6. ASSUME UNCHANGED <<userSessions, identityCache, op>>
      PROVE  MembersCached' /\ \A p \in Op : Owned(p)'
  BY <1>2, <1>6 DEF MembersCached, Owned
<1>7. (\E s \in Session : Expire(s)) \/ Listen \/ UNCHANGED vars
        => UNCHANGED <<userSessions, identityCache, op>>
  BY DEF Expire, Listen, vars, redisVars, memoryVars, flowVars
<1> QED BY <1>1, <1>4, <1>5, <1>6, <1>7, FaultFreeKinds DEF SetsInv

\* What the process knows of sessions and sets as long as nothing failed.
SettledInv == TypeOK /\ RedisInv /\ CommandsSent /\ CacheInv /\ SetsInv

LEMMA SetsHold == Spec => []SettledInv
<1>1. Init => SetsInv
  BY DEF Init, SetsInv, MembersCached, Owned, Idle, SnapshotPc, OwnerPc,
         EndingPc
<1>2. TypeOK /\ RedisInv /\ SetsInv /\ [Next]_vars => SetsInv'
  BY NextSets
<1> QED BY <1>1, <1>2, CacheHolds, PTL DEF Spec, SettledInv

\* When nothing is in progress every member is live: a dead one is cached, and
\* a cached session that died is about to be cleaned up.
LEMMA SettledSets ==
  ASSUME SettledInv
  PROVE  SetsMatchSessions
<1> USE DEF SettledInv
<1>1. SUFFICES ASSUME Quiescent, NoFault, NEW u \in User, NEW s \in userSessions[u]
               PROVE  sessionHash[s] = u
  BY DEF SetsMatchSessions, RedisInv, LiveSessionIsMember, Live, TypeOK
<1>2. s \in Session /\ identityCache[s] = u /\ u # None
  BY <1>1 DEF SetsInv, MembersCached, TypeOK
<1>3. ~ Undertaken(s)
  BY <1>1, EmptyPipe DEF Quiescent, Undertaken, EndingPc, Idle
<1>4. sessionHash[s] # None
  BY <1>1, <1>2, <1>3 DEF CacheInv, NoFault
<1> QED BY <1>2, <1>4 DEF RedisInv, CacheAgrees

\* As long as no command failed and no process died, the sets agree with the
\* live sessions whenever nothing is in progress, with any number of sweeps
\* and any ids that collide: every session that dies is followed by exactly
\* the cleanup that strikes it off, and nobody strikes off another's.
THEOREM SetsSettle == Spec => []SetsMatchSessions
BY SettledSets, SetsHold, PTL

-----------------------------------------------------------------------------
(* The announcements, where no sweep makes one *)

\* The commands between a sweep's decision to announce an end and its event:
\* where a registration comes in between, the finding SweepRace.
AnnouncingPc == {"swp_time", "swp_set", "swp_publish"}

\* Sweeps may run and take stale members out of the sets, but so far none of
\* them finds a set empty at its SCARD.
SweepsAnnounceNothing == \A o \in Op : op[o].pc # "swp_time"

\* No registration prunes the last stale session of a user and then gives up
\* on its collisions: with one user, what it collided with is a session of
\* that user.
NobodyGivesUp ==
  \/ MaxCollisions <= SESSION_COLLISION_RETRY_LIMIT
  \/ \A u, v \in User : u = v

\* What the operation is about to announce of a user.
Says(state, u) ==
  CASE state.pc = "pub_online" /\ state.user = u -> "user_online"
    [] state.pc = "pub_offline" /\ state.user = u -> "user_offline"
    [] OTHER -> "none"

\* What a reply to o does to the events and the sets of the users.
Told(o) ==
  /\ op'[o].pc \notin AnnouncingPc
  /\ \A u \in User :
       /\ events'[u] = IF Says(op[o], u) = "none" THEN events[u]
                       ELSE Append(events[u], Says(op[o], u))
       /\ Says(op'[o], u) = "user_offline" =>
            userSessions[u] # {} /\ userSessions'[u] = {}
       /\ Says(op'[o], u) = "user_online" => userSessions'[u] # {}
       /\ Says(op'[o], u) = "none" =>
            /\ userSessions'[u] # {} => userSessions[u] # {}
            /\ userSessions'[u] = {} /\ userSessions[u] # {} =>
                 op'[o].pc \in {"reg_time", "swp_scard"} /\ op'[o].user = u

\* What has pruned a set goes on until the set has a member: a registration
\* adds one, a sweep that announces nothing counts one.
RefillPc == {"reg_time", "reg_script", "swp_scard"}

RefillsOn(o) ==
  op[o].pc \in RefillPc =>
    \/ op'[o].pc \in RefillPc /\ op'[o].user = op[o].user
    \/ userSessions'[op[o].user] # {}

LEMMA SaysKinds ==
  /\ \A state, u : Says(state, u) \in {"user_online", "user_offline", "none"}
  /\ \A state, u : state.pc \notin PublishPc => Says(state, u) = "none"
  /\ \A u : Says(Idle, u) = "none"
BY DEF Says, PublishPc, Idle

\* A reply to a command that announces nothing and changes no set, and after
\* which there is nothing to announce.
LEMMA QuietTells ==
  ASSUME NEW o \in Op, UNCHANGED <<userSessions, events>>,
         op[o].pc \notin PublishPc,
         op'[o].pc \notin PublishPc \cup AnnouncingPc
  PROVE  Told(o)
BY SaysKinds DEF Told

LEMMA RegisterTells ==
  ASSUME TypeOK, RedisInv, NEW o \in Op, RegisterStep(o)
  PROVE  Told(o)
<1> USE DEF AtHead, PublishPc, AnnouncingPc
<1>0. op[o].pc \in RegisterPc \cup {"pub_online"} => op[o].user \in User
  BY DEF RedisInv, OperationInv, OperandsPresent
<1>1. ASSUME UNCHANGED <<userSessions, events>>, op[o].pc \notin PublishPc
      PROVE  /\ Return(o) => Told(o)
             /\ \A state : /\ Await(o, state)
                           /\ state.pc \in {"reg_exists", "reg_srem",
                                            "reg_time", "reg_script"}
                           => Told(o)
  <2>1. ASSUME op'[o].pc \in {"idle", "reg_exists", "reg_srem", "reg_time",
                              "reg_script"}
        PROVE  Told(o)
    BY <1>1, <2>1, QuietTells
  <2>2. Return(o) => op'[o].pc = "idle"
    BY DEF Return, TypeOK, Idle
  <2> QED BY <2>1, <2>2, AwaitMoves
<1>2. /\ [op[o] EXCEPT !.pc = "reg_time"].pc = "reg_time"
      /\ [op[o] EXCEPT !.pc = "reg_script"].pc = "reg_script"
      /\ [op[o] EXCEPT !.pc = "reg_time", !.ids = {}].pc = "reg_time"
      /\ [op[o] EXCEPT !.pc = "reg_time",
                       !.tries = op[o].tries + 1].pc = "reg_time"
      /\ [op[o] EXCEPT !.pc = "reg_exists",
                       !.ids = userSessions[op[o].user]].pc = "reg_exists"
      /\ [op[o] EXCEPT !.pc = "reg_srem",
                       !.ids = Stale(op[o].ids)].pc = "reg_srem"
  BY FieldTypes DEF OpState
<1>3. CASE PruneRead(o) \/ PruneCheck(o)
  <2>1. UNCHANGED <<userSessions, events>> /\ op[o].pc \notin PublishPc
    BY <1>3 DEF PruneRead, PruneCheck, redisVars, memoryVars
  <2> QED BY <1>1, <1>2, <1>3, <2>1 DEF PruneRead, PruneCheck
<1>4. CASE PruneRemove(o)
  <2>1. op'[o] = [op[o] EXCEPT !.pc = "reg_time", !.ids = {}]
    BY <1>4, AwaitMoves DEF PruneRemove
  <2>2. op'[o].pc = "reg_time" /\ op'[o].user = op[o].user
    BY <2>1, FieldTypes DEF OpState
  <2>3. \A u \in User : userSessions'[u] \subseteq userSessions[u]
          /\ (u = op[o].user \/ userSessions'[u] = userSessions[u])
    BY <1>4 DEF PruneRemove, SremEffect, TypeOK
  <2>4. op[o].pc = "reg_srem" /\ UNCHANGED events
    BY <1>4 DEF PruneRemove
  <2> QED BY <2>2, <2>3, <2>4, SaysKinds DEF Told
<1>5. CASE RegisterTime(o) \/ RegisterCollision(o)
  <2>1. UNCHANGED <<userSessions, events>> /\ op[o].pc \notin PublishPc
    BY <1>5 DEF RegisterTime, RegisterCollision, redisVars, memoryVars
  <2> QED BY <1>1, <1>2, <1>5, <2>1 DEF RegisterTime, RegisterCollision
<1>6. CASE RegisterScript(o)
  <2>1. op[o].user \in User /\ op[o].pc = "reg_script" /\ UNCHANGED events
    BY <1>0, <1>6 DEF RegisterScript, RegisterPc
  <2>2. PICK s \in Session :
          /\ userSessions' = [userSessions EXCEPT ![op[o].user] = @ \cup {s}]
          /\ \/ Await(o, [Idle EXCEPT !.pc = "pub_online", !.user = op[o].user,
                                      !.sid = s])
             \/ /\ ~ (userSessions[op[o].user] \subseteq {s})
                /\ Return(o)
    BY <1>6 DEF RegisterScript, RegisterEffect
  <2>3. \A u \in User : userSessions'[u] =
          IF u = op[o].user THEN userSessions[u] \cup {s} ELSE userSessions[u]
    BY <2>1, <2>2 DEF TypeOK
  <2>4. CASE Await(o, [Idle EXCEPT !.pc = "pub_online", !.user = op[o].user,
                                   !.sid = s])
    <3>1. op'[o] = [Idle EXCEPT !.pc = "pub_online", !.user = op[o].user,
                                !.sid = s]
      BY <2>4, AwaitMoves
    <3>2. op'[o].pc = "pub_online" /\ op'[o].user = op[o].user
      BY <3>1 DEF Idle
    <3>3. \A u \in User : Says(op'[o], u) = IF u = op[o].user
                                              THEN "user_online" ELSE "none"
      BY <3>2 DEF Says
    <3>4. \A u : Says(op[o], u) = "none"
      BY <2>1, SaysKinds
    <3>5. op'[o].pc \notin AnnouncingPc
      BY <3>2
    <3>6. userSessions'[op[o].user] # {}
      BY <2>1, <2>3
    <3> HIDE DEF PublishPc, AnnouncingPc, AtHead
    <3> QED BY <2>1, <2>3, <3>3, <3>4, <3>5, <3>6 DEF Told
  <2>5. CASE ~ (userSessions[op[o].user] \subseteq {s}) /\ Return(o)
    <3>1. op'[o].pc = "idle"
      BY <2>5 DEF Return, TypeOK, Idle
    <3>2. userSessions[op[o].user] # {}
      BY <2>5
    <3> QED BY <2>1, <2>3, <3>1, <3>2, SaysKinds DEF Told
  <2> QED BY <2>2, <2>4, <2>5
<1>7. CASE PublishOnline(o)
  <2>1. /\ op[o].user \in User /\ op[o].pc = "pub_online"
        /\ UNCHANGED userSessions
        /\ events' = [events EXCEPT ![op[o].user] = Append(@, "user_online")]
    BY <1>0, <1>7 DEF PublishOnline, Publish, redisVars
  <2>2. op'[o].pc = "idle"
    BY <1>7 DEF PublishOnline, Return, TypeOK, Idle
  <2>3. \A u \in User : Says(op[o], u) = IF u = op[o].user
                                           THEN "user_online" ELSE "none"
    BY <2>1 DEF Says
  <2> QED BY <2>1, <2>2, <2>3, SaysKinds DEF Told, TypeOK
<1> QED BY <1>3, <1>4, <1>5, <1>6, <1>7 DEF RegisterStep

LEMMA CleanupTells ==
  ASSUME TypeOK, RedisInv, NEW o \in Op, CleanupStep(o)
  PROVE  Told(o)
<1> USE DEF AtHead, PublishPc, AnnouncingPc
<1>0. op[o].pc \in {"cln_script", "pub_offline"} => op[o].user \in User
  BY DEF RedisInv, OperationInv, OperandsPresent, PublishPc
<1>1. ASSUME UNCHANGED <<userSessions, events>>, op[o].pc \notin PublishPc
      PROVE  /\ Return(o) => Told(o)
             /\ \A state : /\ Await(o, state)
                           /\ state.pc \in {"cln_hgetall", "cln_time",
                                            "cln_script", "ref_script"}
                           => Told(o)
  <2>1. ASSUME op'[o].pc \in {"idle", "cln_hgetall", "cln_time", "cln_script",
                              "ref_script"}
        PROVE  Told(o)
    BY <1>1, <2>1, QuietTells
  <2>2. Return(o) => op'[o].pc = "idle"
    BY DEF Return, TypeOK, Idle
  <2> QED BY <2>1, <2>2, AwaitMoves
<1>2. /\ [op[o] EXCEPT !.pc = "ref_script"].pc = "ref_script"
      /\ [op[o] EXCEPT !.pc = "cln_script", !.now = clock'].pc = "cln_script"
      /\ [op[o] EXCEPT !.pc = "cln_time",
                       !.user = sessionHash[op[o].sid]].pc = "cln_time"
      /\ CleanupStart(op[o].sid).pc \in {"cln_hgetall", "cln_time"}
  BY FieldTypes DEF OpState, CleanupStart, Idle
<1>3. CASE \/ CleanupResolve(o) \/ CleanupTime(o) \/ RefreshTime(o)
           \/ RefreshScript(o)
  <2>1. UNCHANGED <<userSessions, events>> /\ op[o].pc \notin PublishPc
    BY <1>3
    DEF CleanupResolve, CleanupTime, RefreshTime, RefreshScript, redisVars,
        memoryVars
  <2> QED BY <1>1, <1>2, <1>3, <2>1
          DEF CleanupResolve, CleanupTime, RefreshTime, RefreshScript
<1>4. CASE CleanupScript(o)
  <2>1. /\ op[o].user \in User /\ op[o].pc = "cln_script" /\ UNCHANGED events
        /\ \A u \in User : userSessions'[u] =
             IF u = op[o].user THEN userSessions[u] \ {op[o].sid}
                               ELSE userSessions[u]
    BY <1>0, <1>4 DEF CleanupScript, CleanupEffect, TypeOK
  <2>2. \A u : Says(op[o], u) = "none"
    BY <2>1, SaysKinds
  <2>3. CASE /\ userSessions[op[o].user] = {op[o].sid}
             /\ Await(o, [Idle EXCEPT !.pc = "pub_offline", !.user = op[o].user])
    <3>1. op'[o] = [Idle EXCEPT !.pc = "pub_offline", !.user = op[o].user]
      BY <2>3, AwaitMoves
    <3>2. op'[o].pc = "pub_offline" /\ op'[o].user = op[o].user
      BY <3>1 DEF Idle
    <3>3. \A u \in User : Says(op'[o], u) = IF u = op[o].user
                                              THEN "user_offline" ELSE "none"
      BY <3>2 DEF Says
    <3>4. userSessions[op[o].user] # {} /\ userSessions'[op[o].user] = {}
      BY <2>1, <2>3
    <3>5. op'[o].pc \notin AnnouncingPc
      BY <3>2
    <3> HIDE DEF PublishPc, AnnouncingPc, AtHead
    <3> QED BY <2>1, <2>2, <3>3, <3>4, <3>5 DEF Told
  <2>4. CASE userSessions[op[o].user] # {op[o].sid} /\ Return(o)
    <3>1. op'[o].pc = "idle"
      BY <2>4 DEF Return, TypeOK, Idle
    <3>2. \A u : Says(op'[o], u) = "none"
      BY <3>1, SaysKinds
    <3>3. userSessions'[op[o].user] = {} => userSessions[op[o].user] = {}
      <4>1. userSessions'[op[o].user] = userSessions[op[o].user] \ {op[o].sid}
        BY <2>1
      <4>2. \A set, s : set \ {s} = {} /\ set # {s} => set = {}
        OBVIOUS
      <4> QED BY ONLY <2>4, <4>1, <4>2
    <3>4. \A u \in User : userSessions'[u] # {} => userSessions[u] # {}
      BY <2>1
    <3>5. op'[o].pc \notin AnnouncingPc
      BY <3>1
    <3> HIDE DEF PublishPc, AnnouncingPc, AtHead
    <3> QED BY <2>1, <2>2, <3>2, <3>3, <3>4, <3>5 DEF Told
  <2> QED BY <1>4, <2>3, <2>4 DEF CleanupScript, LeavesNone
<1>5. CASE PublishOffline(o)
  <2>1. /\ op[o].user \in User /\ op[o].pc = "pub_offline"
        /\ UNCHANGED userSessions
        /\ events' = [events EXCEPT ![op[o].user] = Append(@, "user_offline")]
    BY <1>0, <1>5 DEF PublishOffline, Publish, redisVars
  <2>2. op'[o].pc = "idle"
    BY <1>5 DEF PublishOffline, Return, TypeOK, Idle
  <2>3. \A u \in User : Says(op[o], u) = IF u = op[o].user
                                           THEN "user_offline" ELSE "none"
    BY <2>1 DEF Says
  <2> QED BY <2>1, <2>2, <2>3, SaysKinds DEF Told, TypeOK
<1> QED BY <1>3, <1>4, <1>5 DEF CleanupStep

\* A sweep turns to its next user, or to the session hashes.
LEMMA VisitUsersMoves ==
  ASSUME TypeOK, NEW o \in Op, NEW todo, VisitUsers(o, todo)
  PROVE  OnlyMoves(o) /\ op'[o].pc \in {"swp_smembers", "orph_scan"}
<1>1. CASE todo = {} /\ Await(o, [Idle EXCEPT !.pc = "orph_scan"])
  <2>1. OnlyMoves(o) /\ op'[o] = [Idle EXCEPT !.pc = "orph_scan"]
    BY <1>1, AwaitMoves
  <2> QED BY <2>1 DEF Idle
<1>2. ASSUME NEW u \in todo,
             Await(o, [Idle EXCEPT !.pc = "swp_smembers", !.user = u,
                                   !.todoUsers = todo \ {u}])
      PROVE  OnlyMoves(o) /\ op'[o].pc = "swp_smembers"
  <2>1. /\ OnlyMoves(o)
        /\ op'[o] = [Idle EXCEPT !.pc = "swp_smembers", !.user = u,
                                 !.todoUsers = todo \ {u}]
    BY <1>2, AwaitMoves
  <2> QED BY <2>1 DEF Idle
<1> QED BY <1>1, <1>2 DEF VisitUsers

\* After a return the operation is idle.
LEMMA ReturnIdles ==
  ASSUME TypeOK, NEW o \in Op, Return(o)
  PROVE  OnlyMoves(o) /\ op'[o] = Idle
BY DEF TypeOK, Return, OnlyMoves

\* A sweep turns to its next session, or ends.
LEMMA VisitHashesMoves ==
  ASSUME TypeOK, NEW o \in Op, NEW todo, VisitHashes(o, todo)
  PROVE  /\ OnlyMoves(o)
         /\ op'[o] = Idle \/ op'[o].pc \in {"orph_hgetall", "orph_sismember"}
<1>1. CASE todo = {} /\ Return(o)
  BY <1>1, ReturnIdles
<1>2. ASSUME NEW s \in todo,
             Await(o, [Idle EXCEPT
                         !.pc = IF identityCache[s] = None
                                  THEN "orph_hgetall" ELSE "orph_sismember",
                         !.sid = s, !.user = identityCache[s],
                         !.todoSids = todo \ {s}])
      PROVE  OnlyMoves(o) /\ op'[o].pc \in {"orph_hgetall", "orph_sismember"}
  <2> DEFINE state == [Idle EXCEPT
                         !.pc = IF identityCache[s] = None
                                  THEN "orph_hgetall" ELSE "orph_sismember",
                         !.sid = s, !.user = identityCache[s],
                         !.todoSids = todo \ {s}]
  <2>1. OnlyMoves(o) /\ op'[o] = state
    <3> HIDE DEF state
    <3> QED BY <1>2, AwaitMoves DEF state
  <2>2. state.pc \in {"orph_hgetall", "orph_sismember"}
    BY DEF Idle
  <2> QED BY <2>1, <2>2
<1> QED BY <1>1, <1>2 DEF VisitHashes

LEMMA SweepTells ==
  ASSUME TypeOK, RedisInv, NEW o \in Op, SweepStep(o),
         op[o].pc \notin AnnouncingPc, op'[o].pc # "swp_time"
  PROVE  Told(o)
<1> USE DEF AtHead, PublishPc, AnnouncingPc
<1>1. CASE SweepRemove(o)
  <2>1. op'[o] = [op[o] EXCEPT !.pc = "swp_scard", !.ids = {}]
    BY <1>1, AwaitMoves DEF SweepRemove
  <2>2. op'[o].pc = "swp_scard" /\ op'[o].user = op[o].user
    BY <2>1, FieldTypes DEF OpState
  <2>3. \A u \in User : userSessions'[u] \subseteq userSessions[u]
          /\ (u = op[o].user \/ userSessions'[u] = userSessions[u])
    BY <1>1 DEF SweepRemove, SremEffect, TypeOK
  <2>4. op[o].pc = "swp_srem" /\ UNCHANGED events
    BY <1>1 DEF SweepRemove
  <2> QED BY <2>2, <2>3, <2>4, SaysKinds DEF Told
<1>2. CASE \/ SweepScan(o) \/ SweepRead(o) \/ SweepCheck(o) \/ SweepCount(o)
           \/ OrphanScan(o) \/ OrphanResolve(o) \/ OrphanCheck(o)
           \/ OrphanDelete(o)
  <2>1. UNCHANGED <<userSessions, events>> /\ op[o].pc \notin PublishPc
    BY <1>2
    DEF SweepScan, SweepRead, SweepCheck, SweepCount, OrphanScan,
        OrphanResolve, OrphanCheck, OrphanDelete, DelHashEffect, redisVars,
        memoryVars
  <2>2. ASSUME NEW todo, VisitUsers(o, todo) \/ VisitHashes(o, todo)
        PROVE  Told(o)
    <3>1. op'[o].pc \notin PublishPc \cup AnnouncingPc
      BY <2>2, VisitUsersMoves, VisitHashesMoves DEF Idle
    <3> QED BY <2>1, <3>1, QuietTells
  <2>3. ASSUME NEW state, Await(o, state),
               state.pc \in {"swp_exists", "swp_srem", "orph_sismember",
                             "orph_del"}
        PROVE  Told(o)
    <3>1. op'[o].pc \notin PublishPc \cup AnnouncingPc
      BY <2>3, AwaitMoves
    <3> QED BY <2>1, <3>1, QuietTells
  <2>4. /\ [op[o] EXCEPT !.pc = "swp_exists",
                         !.ids = userSessions[op[o].user]].pc = "swp_exists"
        /\ [op[o] EXCEPT !.pc = "swp_srem",
                         !.ids = Stale(op[o].ids)].pc = "swp_srem"
        /\ [op[o] EXCEPT !.pc = "orph_sismember",
                         !.user = sessionHash[op[o].sid]].pc = "orph_sismember"
        /\ [op[o] EXCEPT !.pc = "orph_del"].pc = "orph_del"
        /\ [op[o] EXCEPT !.pc = "swp_time"].pc = "swp_time"
    BY FieldTypes DEF OpState
  <2>5. ~ Await(o, [op[o] EXCEPT !.pc = "swp_time"])
    BY <2>4, AwaitMoves
  <2>6. CASE SweepScan(o) \/ OrphanScan(o) \/ OrphanDelete(o) \/ SweepCount(o)
    BY <2>2, <2>5, <2>6 DEF SweepScan, OrphanScan, OrphanDelete, SweepCount
  <2>7. CASE SweepRead(o) \/ SweepCheck(o)
    BY <2>2, <2>3, <2>4, <2>7 DEF SweepRead, SweepCheck
  <2>8. CASE OrphanResolve(o) \/ OrphanCheck(o)
    BY <2>2, <2>3, <2>4, <2>8 DEF OrphanResolve, OrphanCheck
  <2> QED BY <1>2, <2>6, <2>7, <2>8
<1> QED BY <1>1, <1>2
        DEF SweepStep, SweepTime, SweepSetLastSeen, SweepPublish

LEMMA RefillGoesOn ==
  ASSUME TypeOK, RedisInv, NobodyGivesUp, NEW o \in Op, Step(o),
         op'[o].pc # "swp_time"
  PROVE  RefillsOn(o)
<1> USE DEF AtHead, RefillsOn, RefillPc
<1>0. SUFFICES ASSUME op[o].pc \in RefillPc
               PROVE  RefillsOn(o)
  OBVIOUS
<1>1. \/ RegisterTime(o) \/ RegisterScript(o) \/ RegisterCollision(o)
      \/ SweepCount(o)
  BY <1>0
  DEF Step, RegisterStep, PruneRead, PruneCheck, PruneRemove, PublishOnline,
      CleanupStep, CleanupResolve, CleanupTime, CleanupScript, PublishOffline,
      RefreshTime, RefreshScript,
      SweepStep, SweepScan, SweepRead, SweepCheck, SweepRemove,
      SweepTime, SweepSetLastSeen, SweepPublish, OrphanScan, OrphanResolve,
      OrphanCheck, OrphanDelete
<1>2. op[o].user \in User
  BY <1>0 DEF RedisInv, OperationInv, OperandsPresent, RegisterPc, SweepPc
<1>3. CASE \/ Await(o, [op[o] EXCEPT !.pc = "reg_script"])
           \/ Await(o, [op[o] EXCEPT !.pc = "reg_time", !.tries = @ + 1])
  <2>1. \/ op'[o] = [op[o] EXCEPT !.pc = "reg_script"]
        \/ op'[o] = [op[o] EXCEPT !.pc = "reg_time", !.tries = @ + 1]
    BY <1>3, AwaitMoves
  <2> QED BY <2>1, FieldTypes DEF OpState
<1>4. CASE RegisterScript(o)
  <2>1. PICK s \in Session :
          userSessions' = [userSessions EXCEPT ![op[o].user] = @ \cup {s}]
    BY <1>4 DEF RegisterScript, RegisterEffect
  <2>2. s \in userSessions'[op[o].user]
    BY <1>2, <2>1 DEF TypeOK
  <2> QED BY <2>2
<1>5. CASE RegisterCollision(o) /\ op[o].tries >= SESSION_COLLISION_RETRY_LIMIT
  <2>1. PICK s \in Session : sessionHash[s] # None
    BY <1>5 DEF RegisterCollision
  <2>2. sessionHash[s] \in User /\ s \in userSessions[sessionHash[s]]
    BY <2>1 DEF TypeOK, RedisInv, LiveSessionIsMember, Live
  <2>3. ~ MaxCollisions <= SESSION_COLLISION_RETRY_LIMIT
    BY <1>5, FieldTypes
    DEF RegisterCollision, SESSION_COLLISION_RETRY_LIMIT, PresenceAssumption
  <2>4. sessionHash[s] = op[o].user
    BY <1>2, <2>2, <2>3 DEF NobodyGivesUp
  <2> QED BY <1>5, <2>2, <2>4 DEF RegisterCollision, redisVars
<1>6. CASE SweepCount(o)
  <2>1. [op[o] EXCEPT !.pc = "swp_time"].pc = "swp_time"
    BY FieldTypes DEF OpState
  <2>2. ~ Await(o, [op[o] EXCEPT !.pc = "swp_time"])
    BY <2>1, AwaitMoves
  <2> QED BY <1>6, <2>2 DEF SweepCount, redisVars
<1> QED BY <1>1, <1>3, <1>4, <1>5, <1>6 DEF RegisterTime, RegisterCollision

\* After the last event and the first n of the announcements f still to come,
\* the user counts as online.
OnlineAfter(last, f, n) ==
  \/ \E i \in 1..n : /\ f[i] = "user_online"
                     /\ \A k \in (i + 1)..n : f[k] = "none"
  \/ (\A k \in 1..n : f[k] = "none") /\ last = "user_online"

\* The first announcement is made.
LEMMA OnlineShift ==
  ASSUME NEW f, NEW g, NEW last, NEW then, NEW n \in Nat \ {0},
         \A i \in 1..(n - 1) : g[i] = f[i + 1],
         then = IF f[1] = "none" THEN last ELSE f[1]
  PROVE  OnlineAfter(then, g, n - 1) <=> OnlineAfter(last, f, n)
<1>1. ASSUME OnlineAfter(then, g, n - 1)
      PROVE  OnlineAfter(last, f, n)
  <2>1. ASSUME NEW i \in 1..(n - 1), g[i] = "user_online",
               \A k \in (i + 1)..(n - 1) : g[k] = "none"
        PROVE  OnlineAfter(last, f, n)
    <3>1. i + 1 \in 1..n /\ f[i + 1] = "user_online"
      BY <2>1
    <3>2. ASSUME NEW k \in (i + 1 + 1)..n
          PROVE  f[k] = "none"
      <4>1. k - 1 \in 1..(n - 1) /\ k - 1 \in (i + 1)..(n - 1) /\ (k - 1) + 1 = k
        OBVIOUS
      <4> QED BY <2>1, <4>1
    <3> QED BY <3>1, <3>2 DEF OnlineAfter
  <2>2. ASSUME \A k \in 1..(n - 1) : g[k] = "none", then = "user_online"
        PROVE  OnlineAfter(last, f, n)
    <3>1. ASSUME NEW k \in 2..n
          PROVE  f[k] = "none"
      <4>1. k - 1 \in 1..(n - 1) /\ (k - 1) + 1 = k
        OBVIOUS
      <4> QED BY <2>2, <4>1
    <3>2. 1 \in 1..n /\ \A k \in 1..n : k = 1 \/ k \in 2..n
      OBVIOUS
    <3> QED BY <2>2, <3>1, <3>2 DEF OnlineAfter
  <2> QED BY <1>1, <2>1, <2>2 DEF OnlineAfter
<1>2. ASSUME OnlineAfter(last, f, n)
      PROVE  OnlineAfter(then, g, n - 1)
  <2>0. \A k \in 1..(n - 1) : k + 1 \in 1..n /\ g[k] = f[k + 1]
    OBVIOUS
  <2>1. ASSUME NEW i \in 1..n, f[i] = "user_online",
               \A k \in (i + 1)..n : f[k] = "none"
        PROVE  OnlineAfter(then, g, n - 1)
    <3>1. CASE i = 1
      <4>1. then = "user_online"
        BY <2>1, <3>1
      <4>2. \A k \in 1..(n - 1) : k + 1 \in (1 + 1)..n
        OBVIOUS
      <4> QED BY <2>0, <2>1, <3>1, <4>1, <4>2 DEF OnlineAfter
    <3>2. CASE i # 1
      <4>1. i - 1 \in 1..(n - 1) /\ (i - 1) + 1 = i
        BY <3>2
      <4>2. \A k \in ((i - 1) + 1)..(n - 1) : k \in 1..(n - 1) /\ k + 1 \in (i + 1)..n
        BY <4>1
      <4>3. g[i - 1] = "user_online"
        BY <2>0, <2>1, <4>1
      <4>4. \A k \in ((i - 1) + 1)..(n - 1) : g[k] = "none"
        BY <2>0, <2>1, <4>2
      <4> QED BY <4>1, <4>3, <4>4 DEF OnlineAfter
    <3> QED BY <3>1, <3>2
  <2>2. ASSUME \A k \in 1..n : f[k] = "none", last = "user_online"
        PROVE  OnlineAfter(then, g, n - 1)
    <3>1. 1 \in 1..n
      OBVIOUS
    <3> QED BY <2>0, <2>2, <3>1 DEF OnlineAfter
  <2> QED BY <1>2, <2>1, <2>2 DEF OnlineAfter
<1> QED BY <1>1, <1>2

\* An announcement is added at the end, or a command that announces nothing.
LEMMA OnlineExtend ==
  ASSUME NEW f, NEW last, NEW n \in Nat
  PROVE  OnlineAfter(last, f, n + 1) <=>
           \/ f[n + 1] = "user_online"
           \/ f[n + 1] = "none" /\ OnlineAfter(last, f, n)
<1>0. /\ n + 1 \in 1..(n + 1)
      /\ \A k \in 1..n : k \in 1..(n + 1)
      /\ \A k \in 1..(n + 1) : k \in 1..n \/ k = n + 1
      /\ \A k : k \notin (n + 1 + 1)..(n + 1)
      /\ \A i \in 1..n :
           /\ n + 1 \in (i + 1)..(n + 1)
           /\ \A k \in (i + 1)..(n + 1) : k \in (i + 1)..n \/ k = n + 1
           /\ \A k \in (i + 1)..n : k \in (i + 1)..(n + 1)
  OBVIOUS
<1>1. ASSUME OnlineAfter(last, f, n + 1), f[n + 1] # "user_online"
      PROVE  f[n + 1] = "none" /\ OnlineAfter(last, f, n)
  BY <1>0, <1>1 DEF OnlineAfter
<1>2. ASSUME f[n + 1] = "user_online"
      PROVE  OnlineAfter(last, f, n + 1)
  BY <1>0, <1>2 DEF OnlineAfter
<1>3. ASSUME f[n + 1] = "none", OnlineAfter(last, f, n)
      PROVE  OnlineAfter(last, f, n + 1)
  BY <1>0, <1>3 DEF OnlineAfter
<1> QED BY <1>1, <1>2, <1>3

\* Announcements beyond the n-th do not matter.
LEMMA OnlineAgree ==
  ASSUME NEW f, NEW g, NEW last, NEW n \in Nat, \A i \in 1..n : f[i] = g[i]
  PROVE  OnlineAfter(last, f, n) <=> OnlineAfter(last, g, n)
<1>1. \A i \in 1..n : \A k \in (i + 1)..n : k \in 1..n
  OBVIOUS
<1> QED BY <1>1 DEF OnlineAfter

\* The announcements of a user on their way.
Said(u) == [i \in 1..Len(pipe) |-> Says(op[pipe[i]], u)]
OnlineThrough(u, n) == OnlineAfter(LastEvent(u), Said(u), n)
LatestOnline(u) == OnlineThrough(u, Len(pipe))

Refilling(u) == \E o \in Op : op[o].pc \in RefillPc /\ op[o].user = u

\* NoRepeatedOffline, whatever failed.
OfflinesApart ==
  \A u \in User : \A i \in 1 .. Len(events[u]) - 1 :
    events[u][i] = "user_offline" => events[u][i + 1] = "user_online"

\* An end is announced only after a beginning, and a user with members was
\* announced as online or is about to be.
Ordered ==
  /\ \A o \in Op : op[o].pc \notin AnnouncingPc
  /\ OfflinesApart
  /\ \A u \in User : \A j \in 1..Len(pipe) :
       Said(u)[j] = "user_offline" => OnlineThrough(u, j - 1)
  /\ \A u \in User : userSessions[u] # {} => LatestOnline(u)

\* A user without members who was announced as online is registering again, or
\* a sweep has yet to count.
Founded ==
  \A u \in User : LatestOnline(u) /\ userSessions[u] = {} => Refilling(u)

OrderInv   == NoFault => Ordered
FoundedInv == NoFault => Founded

\* The last event is the old one, or that of the command that was answered.
LEMMA LastEventTold ==
  ASSUME TypeOK, NEW o \in Op, Told(o), NEW u \in User
  PROVE  LastEvent(u)' = IF Says(op[o], u) = "none" THEN LastEvent(u)
                                                    ELSE Says(op[o], u)
<1>1. CASE events'[u] = events[u] /\ Says(op[o], u) = "none"
  BY <1>1 DEF LastEvent
<1>2. CASE events'[u] = Append(events[u], Says(op[o], u))
           /\ Says(op[o], u) # "none"
  <2>1. events[u] \in Seq(EventType) /\ Says(op[o], u) \in EventType
    BY <1>2, SaysKinds DEF TypeOK, EventType
  <2>2. events'[u] # << >> /\ events'[u][Len(events'[u])] = Says(op[o], u)
    BY <1>2, <2>1
  <2> QED BY <1>2, <2>2 DEF LastEvent
<1> QED BY <1>1, <1>2 DEF Told

\* How the announcements of a user move on with a reply to o.
LEMMA SaidAfterReply ==
  ASSUME TypeOK, OneCommandEach, NEW o \in Op, Replied(o), Told(o),
         NEW u \in User
  PROVE  /\ Len(pipe) \in Nat \ {0} /\ Said(u)[1] = Says(op[o], u)
         /\ Len(pipe') \in {Len(pipe) - 1, Len(pipe)}
         /\ \A i \in 1..(Len(pipe) - 1) : Said(u)'[i] = Said(u)[i + 1]
         /\ Len(pipe') = Len(pipe) => Said(u)'[Len(pipe)] = Says(op'[o], u)
         /\ Len(pipe') # Len(pipe) => Says(op'[o], u) = "none"
<1>0. PICK n : n = Len(pipe)
  OBVIOUS
<1>m. MovesUp(o, n)
  BY <1>0, PipeAfterReply
<1>1. /\ n \in Nat \ {0} /\ pipe[1] = o /\ Len(pipe') \in {n - 1, n}
      /\ \A i \in 1..(n - 1) : /\ pipe'[i] = pipe[i + 1]
                               /\ op'[pipe'[i]] = op[pipe[i + 1]]
      /\ Len(pipe') = n => pipe'[n] = o
      /\ Len(pipe') # n => op'[o] = Idle
  BY <1>m DEF MovesUp
<1>2. /\ 1 \in 1..n /\ n \in 1..n
      /\ \A i \in 1..(n - 1) : i + 1 \in 1..n /\ i \in 1..Len(pipe')
  BY <1>1
<1>3. /\ Said(u) = [i \in 1..n |-> Says(op[pipe[i]], u)]
      /\ Said(u)' = [i \in 1..Len(pipe') |-> Says(op'[pipe'[i]], u)]
  BY <1>0 DEF Said, Says
<1>4. \A i \in 1..(n - 1) : Said(u)'[i] = Said(u)[i + 1]
  BY <1>1, <1>2, <1>3
<1> QED BY <1>0, <1>1, <1>2, <1>3, <1>4, SaysKinds

\* So what a user counts as moves on with them.
LEMMA OnlineAfterReply ==
  ASSUME TypeOK, OneCommandEach, NEW o \in Op, Replied(o), Told(o),
         NEW u \in User
  PROVE  /\ \A k \in 1..Len(pipe) :
              OnlineThrough(u, k - 1)' <=> OnlineThrough(u, k)
         /\ LatestOnline(u)' <=>
              \/ Says(op'[o], u) = "user_online"
              \/ Says(op'[o], u) = "none" /\ LatestOnline(u)
<1>0. PICK n : n = Len(pipe)
  OBVIOUS
<1>1. /\ n \in Nat \ {0} /\ Said(u)[1] = Says(op[o], u)
      /\ Len(pipe') \in {n - 1, n}
      /\ \A i \in 1..(n - 1) : Said(u)'[i] = Said(u)[i + 1]
      /\ Len(pipe') = n => Said(u)'[n] = Says(op'[o], u)
      /\ Len(pipe') # n => Says(op'[o], u) = "none"
  BY <1>0, SaidAfterReply
<1>2. LastEvent(u)' = IF Said(u)[1] = "none" THEN LastEvent(u)
                                             ELSE Said(u)[1]
  BY <1>1, LastEventTold
<1>3. ASSUME NEW k \in 1..n
      PROVE  OnlineThrough(u, k - 1)' <=> OnlineThrough(u, k)
  <2>1. k \in Nat \ {0} /\ \A i \in 1..(k - 1) : i \in 1..(n - 1)
    BY <1>1
  <2>2. \A i \in 1..(k - 1) : Said(u)'[i] = Said(u)[i + 1]
    BY <1>1, <2>1
  <2> QED BY <1>2, <2>1, <2>2, OnlineShift DEF OnlineThrough
<1>4. OnlineThrough(u, n - 1)' <=> OnlineThrough(u, n)
  BY <1>1, <1>3
<1>5. CASE Len(pipe') = n - 1
  <2>1. Len(pipe') # n
    BY <1>1, <1>5
  <2>2. LatestOnline(u)' <=> OnlineThrough(u, n - 1)'
    BY <1>5 DEF LatestOnline, OnlineThrough
  <2> QED BY <1>0, <1>1, <1>3, <1>4, <2>1, <2>2 DEF LatestOnline
<1>6. CASE Len(pipe') = n
  <2>1. n - 1 \in Nat /\ (n - 1) + 1 = n
    BY <1>1
  <2>2. OnlineAfter(LastEvent(u)', Said(u)', n) <=>
          \/ Said(u)'[n] = "user_online"
          \/ /\ Said(u)'[n] = "none"
             /\ OnlineAfter(LastEvent(u)', Said(u)', n - 1)
    BY <2>1, OnlineExtend
  <2>3. LatestOnline(u)' <=> OnlineAfter(LastEvent(u)', Said(u)', n)
    BY <1>6 DEF LatestOnline, OnlineThrough
  <2> QED BY <1>0, <1>1, <1>3, <1>4, <1>6, <2>2, <2>3
          DEF LatestOnline, OnlineThrough
<1> QED BY <1>0, <1>1, <1>5, <1>6

LEMMA ReplyKeepsOrdered ==
  ASSUME TypeOK, OneCommandEach, Ordered, NEW o \in Op, Replied(o), Told(o)
  PROVE  Ordered'
<1>0. PICK n : n = Len(pipe)
  OBVIOUS
<1>m. MovesUp(o, n)
  BY <1>0, PipeAfterReply
<1>1. n \in Nat \ {0} /\ (Len(pipe') = n - 1 \/ Len(pipe') = n)
  BY <1>m DEF MovesUp
<1>2. \A p \in Op : op'[p].pc \notin AnnouncingPc
  BY DEF Told, Ordered, Replied, GoesOn, OnlyMoves
<1>3. ASSUME NEW u \in User, NEW j \in 1..Len(pipe'),
             Said(u)'[j] = "user_offline"
      PROVE  OnlineThrough(u, j - 1)'
  <2>0. /\ Said(u)[1] = Says(op[o], u)
        /\ \A i \in 1..(n - 1) : Said(u)'[i] = Said(u)[i + 1]
        /\ Len(pipe') = n => Said(u)'[n] = Says(op'[o], u)
    BY <1>0, SaidAfterReply
  <2>1. CASE j \in 1..(n - 1)
    <3>1. j + 1 \in 1..n /\ (j + 1) - 1 = j /\ j \in 1..n
      BY <1>1, <2>1
    <3>2. Said(u)[j + 1] = "user_offline"
      BY <1>3, <2>0, <2>1
    <3>3. OnlineThrough(u, j)
      BY <1>0, <3>1, <3>2 DEF Ordered
    <3> QED BY <1>0, <3>1, <3>3, OnlineAfterReply
  <2>2. CASE j = n /\ Len(pipe') = n
    <3>1. Says(op'[o], u) = "user_offline"
      BY <1>3, <2>0, <2>2
    <3>2. LatestOnline(u)
      BY <3>1 DEF Told, Ordered
    <3>3. n \in 1..n
      BY <1>1
    <3> QED BY <1>0, <2>2, <3>2, <3>3, OnlineAfterReply DEF LatestOnline
  <2>3. j \in 1..(n - 1) \/ (j = n /\ Len(pipe') = n)
    BY <1>1
  <2> QED BY <2>1, <2>2, <2>3
<1>4. ASSUME NEW u \in User, userSessions'[u] # {}
      PROVE  LatestOnline(u)'
  <2>1. Says(op'[o], u) \in {"user_online", "none"}
    BY <1>4, SaysKinds DEF Told
  <2>2. Says(op'[o], u) = "none" => LatestOnline(u)
    BY <1>4 DEF Told, Ordered
  <2> QED BY <2>1, <2>2, OnlineAfterReply
<1>5. OfflinesApart'
  <2>1. ASSUME NEW u \in User, NEW i \in 1..(Len(events'[u]) - 1),
               events'[u][i] = "user_offline"
        PROVE  events'[u][i + 1] = "user_online"
    <3>1. CASE events'[u] = events[u]
      BY <2>1, <3>1 DEF Ordered, OfflinesApart
    <3>2. CASE Says(op[o], u) # "none"
               /\ events'[u] = Append(events[u], Says(op[o], u))
      <4>0. PICK m : m = Len(events[u])
        OBVIOUS
      <4>1. /\ m \in Nat /\ Len(events'[u]) = m + 1
            /\ events'[u][m + 1] = Says(op[o], u)
            /\ \A k \in 1..m : events'[u][k] = events[u][k]
        BY <3>2, <4>0 DEF TypeOK
      <4>2. CASE i \in 1..(m - 1)
        <5>1. i \in 1..m /\ i + 1 \in 1..m
          BY <4>1, <4>2
        <5> QED BY <2>1, <4>0, <4>1, <4>2, <5>1 DEF Ordered, OfflinesApart
      <4>3. CASE i = m /\ m # 0
        <5>1. m \in 1..m /\ events[u] # << >>
          BY <4>0, <4>1, <4>3
        <5>2. LastEvent(u) = "user_offline"
          BY <2>1, <4>0, <4>1, <4>3, <5>1 DEF LastEvent
        <5>3. CASE Says(op[o], u) = "user_offline"
          <6>1. Said(u)[1] = "user_offline" /\ 1 \in 1..n /\ 1 - 1 = 0
            BY <1>0, <1>1, <5>3, SaidAfterReply
          <6>2. OnlineThrough(u, 0)
            BY <1>0, <6>1 DEF Ordered
          <6>3. LastEvent(u) = "user_online"
            BY <6>2 DEF OnlineThrough, OnlineAfter
          <6> QED BY <5>2, <6>3
        <5> QED BY <3>2, <4>1, <4>3, <5>3, SaysKinds
      <4>4. i \in 1..(m - 1) \/ (i = m /\ m # 0)
        BY <4>1
      <4> QED BY <4>2, <4>3, <4>4
    <3> QED BY <3>1, <3>2 DEF Told
  <2> QED BY <2>1 DEF OfflinesApart
<1> QED BY <1>2, <1>3, <1>4, <1>5 DEF Ordered

LEMMA ReplyKeepsFounded ==
  ASSUME TypeOK, OneCommandEach, Founded, NEW o \in Op, Replied(o), Told(o),
         RefillsOn(o)
  PROVE  Founded'
<1>1. ASSUME NEW u \in User, LatestOnline(u)', userSessions'[u] = {}
      PROVE  Refilling(u)'
  <2>1. Says(op'[o], u) = "none" /\ LatestOnline(u)
    BY <1>1, OnlineAfterReply DEF Told
  <2>2. CASE userSessions[u] # {}
    BY <1>1, <2>1, <2>2 DEF Told, Refilling, RefillPc
  <2>3. ASSUME NEW p \in Op, op[p].pc \in RefillPc,
               op[p].user = u
        PROVE  Refilling(u)'
    <3>1. CASE p = o
      BY <1>1, <2>3, <3>1 DEF RefillsOn, Refilling
    <3>2. CASE p # o
      <4>1. op'[p] = op[p]
        BY <3>2 DEF Replied, GoesOn, OnlyMoves
      <4> QED BY <2>3, <4>1 DEF Refilling
    <3> QED BY <3>1, <3>2
  <2> QED BY <2>1, <2>2, <2>3 DEF Founded, Refilling
<1> QED BY <1>1 DEF Founded

\* The first commands of what sockets, messages and the timer start.
LEMMA CallStarts ==
  ASSUME TypeOK, NEW o \in Op, Call(o) \/ ReconcileSessions(o)
  PROVE  /\ OnlyMoves(o) /\ pipe' = Append(pipe, o) /\ op[o] = Idle
         /\ op'[o].pc \in {"reg_smembers", "cln_hgetall", "cln_time", "ref_time",
                           "swp_scan"}
<1> USE DEF Idle
<1>1. ASSUME NEW u \in User, RegisterConnection(o, u)
      PROVE  op'[o].pc = "reg_smembers"
  <2>1. op'[o] = [Idle EXCEPT !.pc = "reg_smembers", !.user = u]
    BY <1>1, StartMoves DEF RegisterConnection
  <2> QED BY <2>1
<1>2. ASSUME NEW s \in Session, CleanupSession(o, s) \/ DeliverExpired(o, s)
      PROVE  op'[o].pc \in {"cln_hgetall", "cln_time"}
  <2>1. op'[o] = CleanupStart(s)
    BY <1>2, StartMoves DEF CleanupSession, DeliverExpired
  <2> QED BY <2>1 DEF CleanupStart
<1>3. ASSUME NEW s \in Session, RefreshSessionHeartbeat(o, s)
      PROVE  op'[o].pc = "ref_time"
  <2>1. op'[o] = [Idle EXCEPT !.pc = "ref_time", !.sid = s]
    BY <1>3, StartMoves DEF RefreshSessionHeartbeat
  <2> QED BY <2>1
<1>4. ASSUME ReconcileSessions(o)
      PROVE  op'[o].pc = "swp_scan"
  <2>1. op'[o] = [Idle EXCEPT !.pc = "swp_scan"]
    BY <1>4, StartMoves DEF ReconcileSessions
  <2> QED BY <2>1
<1>5. OnlyMoves(o) /\ pipe' = Append(pipe, o) /\ op[o] = Idle
  <2> HIDE DEF Idle
  <2> QED BY StartsPlain, StartMoves DEF Start
<1> QED BY <1>1, <1>2, <1>3, <1>4, <1>5 DEF Call

\* A call announces nothing.
LEMMA CallTells ==
  ASSUME TypeOK, OneCommandEach, NEW o \in Op, Call(o) \/ ReconcileSessions(o)
  PROVE  /\ UNCHANGED <<userSessions, events>>
         /\ Len(pipe') = Len(pipe) + 1
         /\ \A u \in User :
              /\ \A i \in 1..Len(pipe) : Said(u)'[i] = Said(u)[i]
              /\ Said(u)'[Len(pipe) + 1] = "none"
              /\ \A k \in 0..Len(pipe) :
                   OnlineThrough(u, k)' <=> OnlineThrough(u, k)
              /\ LatestOnline(u)' <=> LatestOnline(u)
<1>0. PICK n : n = Len(pipe)
  OBVIOUS
<1>1. UNCHANGED <<userSessions, events>>
  BY CallLeavesWorld DEF redisVars, memoryVars
<1>2. /\ OnlyMoves(o) /\ pipe' = Append(pipe, o) /\ op[o] = Idle
      /\ op'[o].pc \notin PublishPc
  BY CallStarts DEF PublishPc
<1>3. /\ n \in Nat /\ Len(pipe') = n + 1 /\ pipe'[n + 1] = o
      /\ \A i \in 1..n : /\ i \in 1..(n + 1) /\ pipe'[i] = pipe[i]
                         /\ pipe[i] \in Op
      /\ n + 1 \in 1..(n + 1)
  BY <1>0, <1>2 DEF TypeOK
<1>4. \A i \in 1..n : op'[pipe'[i]] = op[pipe[i]]
  BY <1>0, <1>2, <1>3 DEF OneCommandEach, OnlyMoves, Idle
<1>5. ASSUME NEW u \in User
      PROVE  /\ \A i \in 1..n : Said(u)'[i] = Said(u)[i]
             /\ Said(u)'[n + 1] = "none"
             /\ \A k \in 0..n : OnlineThrough(u, k)' <=> OnlineThrough(u, k)
             /\ LatestOnline(u)' <=> LatestOnline(u)
  <2>1. /\ Said(u) = [i \in 1..n |-> Says(op[pipe[i]], u)]
        /\ Said(u)' = [i \in 1..(n + 1) |-> Says(op'[pipe'[i]], u)]
    BY <1>0, <1>3 DEF Said, Says
  <2>2. \A i \in 1..n : Said(u)'[i] = Said(u)[i]
    BY <1>3, <1>4, <2>1
  <2>3. Said(u)'[n + 1] = "none"
    BY <1>2, <1>3, <2>1, SaysKinds
  <2>4. LastEvent(u)' = LastEvent(u)
    BY <1>1 DEF LastEvent
  <2>5. ASSUME NEW k \in 0..n
        PROVE  OnlineThrough(u, k)' <=> OnlineThrough(u, k)
    <3>1. k \in Nat /\ \A i \in 1..k : i \in 1..n
      BY <1>3
    <3>2. \A i \in 1..k : Said(u)'[i] = Said(u)[i]
      BY <2>2, <3>1
    <3> QED BY <2>4, <3>1, <3>2, OnlineAgree DEF OnlineThrough
  <2>6. n \in 0..n
    BY <1>3
  <2>7. OnlineAfter(LastEvent(u), Said(u)', n + 1)
          <=> OnlineAfter(LastEvent(u), Said(u)', n)
    BY <1>3, <2>3, OnlineExtend
  <2> QED BY <1>0, <1>3, <2>2, <2>3, <2>4, <2>5, <2>6, <2>7
          DEF LatestOnline, OnlineThrough
<1> QED BY <1>0, <1>1, <1>3, <1>5

\* Apart from replies and calls, nothing that happens without a fault touches
\* the operations, the sets or the announcements.
LEMMA OthersTell ==
  ASSUME (\E s \in Session : Expire(s)) \/ Listen \/ UNCHANGED vars
  PROVE  UNCHANGED <<op, pipe, events, userSessions>>
BY DEF Expire, Listen, vars, redisVars, memoryVars, flowVars

LEMMA SilenceTells ==
  ASSUME UNCHANGED <<op, pipe, events>>, NEW u \in User
  PROVE  /\ Said(u)' = Said(u)
         /\ \A n : OnlineThrough(u, n)' <=> OnlineThrough(u, n)
         /\ LatestOnline(u)' <=> LatestOnline(u)
<1>1. Said(u)' = Said(u)
  BY DEF Said, Says
<1>2. LastEvent(u)' = LastEvent(u)
  BY DEF LastEvent
<1>3. ASSUME NEW n
      PROVE  OnlineThrough(u, n)' <=> OnlineThrough(u, n)
  <2>1. OnlineThrough(u, n)' <=> OnlineAfter(LastEvent(u)', Said(u)', n)
    BY DEF OnlineThrough, OnlineAfter
  <2> QED BY <1>1, <1>2, <2>1 DEF OnlineThrough
<1>4. LatestOnline(u)' <=> OnlineThrough(u, Len(pipe))'
  BY DEF LatestOnline, OnlineThrough, OnlineAfter
<1> QED BY <1>1, <1>3, <1>4 DEF LatestOnline

LEMMA StepTells ==
  ASSUME TypeOK, RedisInv, Ordered, SweepsAnnounceNothing', NEW o \in Op, Step(o)
  PROVE  Told(o)
<1>1. op[o].pc \notin AnnouncingPc /\ op'[o].pc # "swp_time"
  BY DEF Ordered, SweepsAnnounceNothing
<1> QED BY <1>1, RegisterTells, CleanupTells, SweepTells DEF Step

LEMMA CallKeepsOrdered ==
  ASSUME TypeOK, OneCommandEach, Ordered, NEW o \in Op,
         Call(o) \/ ReconcileSessions(o)
  PROVE  Ordered'
<1>0. PICK n : n = Len(pipe)
  OBVIOUS
<1>1. /\ n \in Nat /\ UNCHANGED <<userSessions, events>> /\ Len(pipe') = n + 1
      /\ \A u \in User :
           /\ \A i \in 1..n : Said(u)'[i] = Said(u)[i]
           /\ Said(u)'[n + 1] = "none"
           /\ \A k \in 0..n : OnlineThrough(u, k)' <=> OnlineThrough(u, k)
           /\ LatestOnline(u)' <=> LatestOnline(u)
  BY <1>0, CallTells DEF TypeOK
<1>2. \A p \in Op : op'[p].pc \notin AnnouncingPc
  BY CallStarts DEF Ordered, OnlyMoves, AnnouncingPc
<1>3. ASSUME NEW u \in User, NEW j \in 1..Len(pipe'),
             Said(u)'[j] = "user_offline"
      PROVE  OnlineThrough(u, j - 1)'
  <2>1. j \in 1..n \/ j = n + 1
    BY <1>1
  <2>2. j \in 1..n /\ j - 1 \in 0..n
    BY <1>1, <1>3, <2>1
  <2>3. Said(u)[j] = "user_offline"
    BY <1>1, <1>3, <2>2
  <2> QED BY <1>0, <1>1, <2>2, <2>3 DEF Ordered
<1>4. OfflinesApart'
  BY <1>1 DEF Ordered, OfflinesApart
<1> QED BY <1>1, <1>2, <1>3, <1>4 DEF Ordered

\* The order of the announcements, kept by every step.
LEMMA NextOrder ==
  ASSUME TypeOK, RedisInv, OneCommandEach, SetsInv, OrderInv, [Next]_vars,
         SweepsAnnounceNothing'
  PROVE  OrderInv'
<1>0. SUFFICES ASSUME NoFault' PROVE Ordered'
  BY DEF OrderInv
<1>1. NoFault => phase # "down"
  BY DEF SetsInv
<1>2. NoFault /\ Ordered
  BY <1>0, <1>1, FaultFreeKinds DEF OrderInv
<1>3. ASSUME NEW o \in Op, Call(o) \/ ReconcileSessions(o)
      PROVE  Ordered'
  BY <1>2, <1>3, CallKeepsOrdered
<1>4. ASSUME NEW o \in Op, Step(o) /\ Replied(o)
      PROVE  Ordered'
  BY <1>2, <1>4, StepTells, ReplyKeepsOrdered
<1>5. CASE UNCHANGED <<op, pipe, events, userSessions>>
  <2>1. OfflinesApart'
    BY <1>2, <1>5 DEF Ordered, OfflinesApart
  <2> QED BY <1>2, <1>5, <2>1, SilenceTells DEF Ordered
<1> QED BY <1>0, <1>1, <1>3, <1>4, <1>5, FaultFreeKinds, OthersTell

LEMMA NextFounded ==
  ASSUME NobodyGivesUp, TypeOK, RedisInv, OneCommandEach, SetsInv, OrderInv,
         FoundedInv, [Next]_vars, SweepsAnnounceNothing'
  PROVE  FoundedInv'
<1>0. SUFFICES ASSUME NoFault' PROVE Founded'
  BY DEF FoundedInv
<1>1. NoFault => phase # "down"
  BY DEF SetsInv
<1>2. NoFault /\ Ordered /\ Founded
  BY <1>0, <1>1, FaultFreeKinds DEF OrderInv, FoundedInv
<1>3. ASSUME NEW o \in Op, Call(o) \/ ReconcileSessions(o)
      PROVE  Founded'
  <2>1. \A u \in User : Refilling(u) => Refilling(u)'
    BY <1>3, CallStarts DEF Refilling, RefillPc, OnlyMoves, Idle
  <2> QED BY <1>2, <1>3, <2>1, CallTells DEF Founded
<1>4. ASSUME NEW o \in Op, Step(o) /\ Replied(o)
      PROVE  Founded'
  <2>1. Told(o)
    BY <1>2, <1>4, StepTells
  <2>2. RefillsOn(o)
    BY <1>4, RefillGoesOn DEF SweepsAnnounceNothing
  <2> QED BY <1>2, <1>4, <2>1, <2>2, ReplyKeepsFounded
<1>5. CASE UNCHANGED <<op, pipe, events, userSessions>>
  BY <1>2, <1>5, SilenceTells DEF Founded, Refilling
<1> QED BY <1>0, <1>1, <1>3, <1>4, <1>5, FaultFreeKinds, OthersTell

LEMMA InitOrdered == Init => Ordered /\ Founded
<1> SUFFICES ASSUME Init PROVE Ordered /\ Founded
  OBVIOUS
<1>1. /\ \A o \in Op : op[o].pc \notin AnnouncingPc
      /\ pipe = << >>
      /\ \A u \in User : userSessions[u] = {} /\ events[u] = << >>
  BY DEF Init, Idle, AnnouncingPc
<1>2. Len(pipe) = 0 /\ \A u \in User : Len(events[u]) = 0
  BY <1>1
<1>3. \A u \in User : ~ LatestOnline(u)
  BY <1>1, <1>2 DEF LatestOnline, OnlineThrough, OnlineAfter, LastEvent
<1> QED BY <1>1, <1>2, <1>3 DEF Ordered, Founded, OfflinesApart

LEMMA OrderHolds ==
  Spec /\ []SweepsAnnounceNothing
    => [](SettledInv /\ OneCommandEach /\ OrderInv)
<1>1. Init => OrderInv
  BY InitOrdered DEF OrderInv
<1>2. TypeOK /\ RedisInv /\ OneCommandEach /\ SetsInv /\ OrderInv /\ [Next]_vars
        /\ SweepsAnnounceNothing' => OrderInv'
  BY NextOrder
<1> QED BY <1>1, <1>2, SetsHold, CommandsHold, PTL DEF Spec, SettledInv

\* As long as no command failed, no process died and no sweep found a set empty,
\* the cleanups of a user announce user_offline in alternation with the
\* registrations that announce user_online, in whatever order the commands of
\* theirs meet in the pipe. (With a sweep that announces it fails: SweepRace.)
THEOREM OfflineAlternates ==
  Spec /\ []SweepsAnnounceNothing => []NoRepeatedOffline
<1>1. OrderInv => NoRepeatedOffline
  BY DEF OrderInv, Ordered, OfflinesApart, NoRepeatedOffline
<1> QED BY <1>1, OrderHolds, PTL

\* When nothing is in progress, whoever has a live session was last announced
\* as online: the half of AnnouncementMatchesSessions that registrations which
\* give up cannot break.
LiveAreAnnounced ==
  Quiescent /\ NoFault =>
    \A u \in User : Live(u) # {} => LastEvent(u) = "user_online"

\* No cleanup of an earlier session has the last word about a user who is
\* connected, with any number of collisions: its user_offline is in the pipe
\* before the user_online of the registration that found the set empty.
THEOREM ConnectedAreAnnounced ==
  Spec /\ []SweepsAnnounceNothing => []LiveAreAnnounced
<1>1. SettledInv /\ OrderInv => LiveAreAnnounced
  <2> SUFFICES ASSUME SettledInv, OrderInv, Quiescent, NoFault, NEW u \in User,
                      Live(u) # {}
               PROVE  LastEvent(u) = "user_online"
    BY DEF LiveAreAnnounced
  <2>1. userSessions[u] # {}
    BY SettledSets DEF SetsMatchSessions
  <2>2. LatestOnline(u) /\ Len(pipe) = 0
    BY <2>1 DEF OrderInv, Ordered, Quiescent
  <2> QED BY <2>2 DEF LatestOnline, OnlineThrough, OnlineAfter
<1> QED BY <1>1, OrderHolds, PTL

\* What the invariants say of a state in which nothing is in progress.
LEMMA SettledAnnouncements ==
  ASSUME SettledInv, OrderInv, FoundedInv
  PROVE  AnnouncementMatchesSessions
<1> SUFFICES ASSUME Quiescent, NoFault, NEW u \in User
             PROVE  LastEvent(u) = "user_online" <=> Live(u) # {}
  BY DEF AnnouncementMatchesSessions
<1>1. userSessions[u] = Live(u)
  BY SettledSets DEF SetsMatchSessions
<1>2. pipe = << >> /\ Len(pipe) = 0
  BY DEF Quiescent
<1>3. ~ Refilling(u)
  BY <1>2, EmptyPipe DEF SettledInv, Refilling, RefillPc, Idle
<1>4. LatestOnline(u) <=> LastEvent(u) = "user_online"
  BY <1>2 DEF LatestOnline, OnlineThrough, OnlineAfter
<1> QED BY <1>1, <1>3, <1>4 DEF OrderInv, FoundedInv, Ordered, Founded

LEMMA FoundedHolds ==
  ASSUME NobodyGivesUp
  PROVE  Spec /\ []SweepsAnnounceNothing
           => [](SettledInv /\ OneCommandEach /\ OrderInv /\ FoundedInv)
<1>1. Init => FoundedInv
  BY InitOrdered DEF FoundedInv
<1>2. TypeOK /\ RedisInv /\ OneCommandEach /\ SetsInv /\ OrderInv /\ FoundedInv
        /\ [Next]_vars /\ SweepsAnnounceNothing' => FoundedInv'
  BY NextFounded
<1> QED BY <1>1, <1>2, OrderHolds, PTL DEF Spec, SettledInv

\* As long as no command failed, no process died and no sweep found a set empty,
\* and no registration gives up on its collisions, the last announcement of a
\* user is user_online exactly when the user has a live session, whenever
\* nothing is in progress: a cleanup and a registration that race for the last
\* and the first member of the set announce what they did in that order.
THEOREM AnnouncementsSettle ==
  ASSUME NobodyGivesUp
  PROVE  Spec /\ []SweepsAnnounceNothing => []AnnouncementMatchesSessions
BY SettledAnnouncements, FoundedHolds, PTL
=============================================================================
