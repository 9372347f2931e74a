------------------------ MODULE PresenceGatewayProofs ------------------------
(***************************************************************************)
(* Theorems about PresenceGateway for any sets of users, sessions, sockets *)
(* and operations and any bounds: its behaviours are behaviours of         *)
(* PresenceService, and no handler ends the session of an open socket.     *)
(***************************************************************************)
EXTENDS PresenceGateway, AnnouncementProofs

USE PresenceAssumption, GatewayAssumption

-----------------------------------------------------------------------------
(* What a step of an operation does to the sessions *)

Opens(o) ==
  \E s \in Session :
    /\ op[o].pc = "reg_script"
    /\ RegisterEffect(op[o].user, s)
    /\ \/ /\ op'[o].pc = "pub_online"
          /\ op'[o].user = op[o].user
          /\ op'[o].sid = s
          /\ UNCHANGED assigned
       \/ /\ op'[o] = Idle
          /\ assigned' = assigned \cup {s}

Announces(o) ==
  /\ op[o].pc = "pub_online"
  /\ op'[o] = Idle
  /\ assigned' = assigned \cup {op[o].sid}
  /\ UNCHANGED <<sessionHash, used>>

Ends(o) ==
  /\ op[o].pc = "cln_script"
  /\ sessionHash' = [sessionHash EXCEPT ![op[o].sid] = None]
  /\ op'[o] = Idle \/ op'[o].pc = "pub_offline"
  /\ UNCHANGED <<used, assigned>>

\* The step reads or does what concerns no session that is live.
Carries(o) ==
  /\ UNCHANGED <<sessionHash, used, assigned>>
  /\ \/ op'[o] = Idle
     \/ /\ op[o].pc \in RegisterPc /\ op'[o].pc \in RegisterPc
        /\ op'[o].user = op[o].user
     \/ /\ op[o].pc \in CleanupPc /\ op'[o].pc \in CleanupPc
        /\ op'[o].sid = op[o].sid
     \/ /\ op[o].pc \in RefreshPc /\ op'[o].pc \in RefreshPc
        /\ op'[o].sid = op[o].sid
     \/ /\ op[o].pc = "ref_script" /\ op'[o].pc \in CleanupPc
        /\ op'[o].sid = op[o].sid
        /\ sessionHash[op[o].sid] = None
     \/ /\ op[o].pc \in SweepPc \cup OrphanPc
        /\ op'[o].pc \in SweepPc \cup OrphanPc

Shape(o) ==
  /\ phase # "down"
  /\ UNCHANGED <<phase, expired>>
  /\ OnlyMoves(o)
  /\ Opens(o) \/ Announces(o) \/ Ends(o) \/ Carries(o)

\* The steps of a registration.
LEMMA RegisterShape ==
  ASSUME TypeOK, NEW o \in Op, RegisterStep(o)
  PROVE  Shape(o)
<1> USE FieldTypes DEF AtHead, Shape, redisVars, memoryVars, otherVars
<1>1. CASE PruneRead(o)
  <2>1. /\ OnlyMoves(o)
        /\ \/ op'[o] = [op[o] EXCEPT !.pc = "reg_time"]
           \/ op'[o] = [op[o] EXCEPT !.pc = "reg_exists",
                                     !.ids = userSessions[op[o].user]]
    BY <1>1, AwaitMoves DEF PruneRead
  <2>2. op'[o].pc \in RegisterPc /\ op'[o].user = op[o].user
    BY <2>1 DEF OpState, RegisterPc
  <2> QED BY <1>1, <2>1, <2>2 DEF PruneRead, Carries, RegisterPc
<1>2. CASE PruneCheck(o)
  <2>1. /\ OnlyMoves(o)
        /\ \/ op'[o] = [op[o] EXCEPT !.pc = "reg_time", !.ids = {}]
           \/ op'[o] = [op[o] EXCEPT !.pc = "reg_srem",
                                     !.ids = Stale(op[o].ids)]
    BY <1>2, AwaitMoves DEF PruneCheck
  <2>2. op'[o].pc \in RegisterPc /\ op'[o].user = op[o].user
    BY <2>1 DEF OpState, RegisterPc
  <2> QED BY <1>2, <2>1, <2>2 DEF PruneCheck, Carries, RegisterPc
<1>3. CASE PruneRemove(o)
  <2>1. /\ OnlyMoves(o)
        /\ op'[o] = [op[o] EXCEPT !.pc = "reg_time", !.ids = {}]
    BY <1>3, AwaitMoves DEF PruneRemove
  <2>2. op'[o].pc \in RegisterPc /\ op'[o].user = op[o].user
    BY <2>1 DEF OpState, RegisterPc
  <2> QED BY <1>3, <2>1, <2>2 DEF PruneRemove, SremEffect, Carries, RegisterPc
<1>4. CASE RegisterTime(o)
  <2>1. OnlyMoves(o) /\ op'[o] = [op[o] EXCEPT !.pc = "reg_script"]
    BY <1>4, AwaitMoves DEF RegisterTime
  <2>2. op'[o].pc \in RegisterPc /\ op'[o].user = op[o].user
    BY <2>1 DEF OpState, RegisterPc
  <2> QED BY <1>4, <2>1, <2>2 DEF RegisterTime, Carries, RegisterPc
<1>5. CASE RegisterScript(o)
  <2>1. PICK s \in Session :
          /\ RegisterEffect(op[o].user, s)
          /\ \/ /\ Await(o, [Idle EXCEPT !.pc = "pub_online",
                                         !.user = op[o].user, !.sid = s])
                /\ UNCHANGED assigned
             \/ /\ Return(o)
                /\ assigned' = assigned \cup {s}
    BY <1>5 DEF RegisterScript
  <2>2. CASE Await(o, [Idle EXCEPT !.pc = "pub_online",
                                   !.user = op[o].user, !.sid = s])
               /\ UNCHANGED assigned
    <3>1. /\ OnlyMoves(o)
          /\ op'[o] = [Idle EXCEPT !.pc = "pub_online",
                                   !.user = op[o].user, !.sid = s]
      BY <2>2, AwaitMoves
    <3>2. /\ op'[o].pc = "pub_online"
          /\ op'[o].user = op[o].user
          /\ op'[o].sid = s
      BY <3>1 DEF Idle
    <3> QED BY <1>5, <2>1, <2>2, <3>1, <3>2 DEF RegisterScript, Opens
  <2>3. CASE Return(o) /\ assigned' = assigned \cup {s}
    BY <1>5, <2>1, <2>3, ReturnIdles DEF RegisterScript, Opens
  <2> QED BY <2>1, <2>2, <2>3
<1>6. CASE RegisterCollision(o)
  <2>1. CASE Await(o, [op[o] EXCEPT !.pc = "reg_time",
                                    !.tries = op[o].tries + 1])
    <3>1. /\ OnlyMoves(o)
          /\ op'[o] = [op[o] EXCEPT !.pc = "reg_time",
                                    !.tries = op[o].tries + 1]
      BY <2>1, AwaitMoves
    <3>2. op'[o].pc \in RegisterPc /\ op'[o].user = op[o].user
      BY <3>1 DEF OpState, RegisterPc
    <3> QED BY <1>6, <3>1, <3>2 DEF RegisterCollision, Carries, RegisterPc
  <2>2. CASE Return(o)
    BY <1>6, <2>2, ReturnIdles DEF RegisterCollision, Carries
  <2> QED BY <1>6, <2>1, <2>2 DEF RegisterCollision
<1>7. CASE PublishOnline(o)
  BY <1>7, ReturnIdles DEF PublishOnline, Announces
<1> QED BY <1>1, <1>2, <1>3, <1>4, <1>5, <1>6, <1>7 DEF RegisterStep

\* A cleanup that starts works on the session it was called for.
LEMMA CleanupStartSid ==
  ASSUME NEW s \in Session
  PROVE  CleanupStart(s).pc \in CleanupPc /\ CleanupStart(s).sid = s
<1>1. CASE identityCache[s] # None
  BY <1>1 DEF CleanupStart, Idle, CleanupPc
<1>2. CASE identityCache[s] = None
  BY <1>2 DEF CleanupStart, Idle, CleanupPc
<1> QED BY <1>1, <1>2

\* The steps of a cleanup and of a heartbeat.
LEMMA CleanupShape ==
  ASSUME TypeOK, NEW o \in Op, OperandsPresent(o), CleanupStep(o)
  PROVE  Shape(o)
<1> USE FieldTypes DEF AtHead, Shape, redisVars, memoryVars, otherVars
<1>1. CASE CleanupResolve(o)
  <2>1. CASE Return(o)
    BY <1>1, <2>1, ReturnIdles DEF CleanupResolve, Carries
  <2>2. CASE Await(o, [op[o] EXCEPT !.pc = "cln_time",
                                    !.user = sessionHash[op[o].sid]])
    <3>1. /\ OnlyMoves(o)
          /\ op'[o] = [op[o] EXCEPT !.pc = "cln_time",
                                    !.user = sessionHash[op[o].sid]]
      BY <2>2, AwaitMoves
    <3>2. op'[o].pc \in CleanupPc /\ op'[o].sid = op[o].sid
      BY <3>1 DEF OpState, CleanupPc
    <3> QED BY <1>1, <3>1, <3>2 DEF CleanupResolve, Carries, CleanupPc
  <2> QED BY <1>1, <2>1, <2>2 DEF CleanupResolve
<1>2. CASE CleanupTime(o)
  <2>1. /\ OnlyMoves(o)
        /\ op'[o] = [op[o] EXCEPT !.pc = "cln_script", !.now = clock']
    BY <1>2, AwaitMoves DEF CleanupTime
  <2>2. op'[o].pc \in CleanupPc /\ op'[o].sid = op[o].sid
    BY <2>1 DEF OpState, CleanupPc
  <2> QED BY <1>2, <2>1, <2>2 DEF CleanupTime, Carries, CleanupPc
<1>3. CASE CleanupScript(o)
  <2>1. CASE Return(o)
    BY <1>3, <2>1, ReturnIdles DEF CleanupScript, CleanupEffect, Ends
  <2>2. CASE Await(o, [Idle EXCEPT !.pc = "pub_offline",
                                   !.user = op[o].user])
    <3>1. /\ OnlyMoves(o)
          /\ op'[o] = [Idle EXCEPT !.pc = "pub_offline", !.user = op[o].user]
      BY <2>2, AwaitMoves
    <3>2. op'[o].pc = "pub_offline"
      BY <3>1 DEF Idle
    <3> QED BY <1>3, <3>1, <3>2 DEF CleanupScript, CleanupEffect, Ends
  <2> QED BY <1>3, <2>1, <2>2 DEF CleanupScript
<1>4. CASE PublishOffline(o)
  BY <1>4, ReturnIdles DEF PublishOffline, Carries
<1>5. CASE RefreshTime(o)
  <2>1. OnlyMoves(o) /\ op'[o] = [op[o] EXCEPT !.pc = "ref_script"]
    BY <1>5, AwaitMoves DEF RefreshTime
  <2>2. op'[o].pc \in RefreshPc /\ op'[o].sid = op[o].sid
    BY <2>1 DEF OpState, RefreshPc
  <2> QED BY <1>5, <2>1, <2>2 DEF RefreshTime, Carries, RefreshPc
<1>6. CASE RefreshScript(o)
  <2>1. CASE Return(o)
    BY <1>6, <2>1, ReturnIdles DEF RefreshScript, Carries
  <2>2. CASE sessionHash[op[o].sid] = None /\ Await(o, CleanupStart(op[o].sid))
    <3>1. op[o].sid \in Session
      BY <1>6 DEF RefreshScript, OperandsPresent, RefreshPc
    <3>2. /\ OnlyMoves(o)
          /\ op'[o].pc \in CleanupPc /\ op'[o].sid = op[o].sid
      BY <2>2, <3>1, AwaitMoves, CleanupStartSid
    <3> QED BY <1>6, <2>2, <3>2 DEF RefreshScript, Carries
  <2> QED BY <1>6, <2>1, <2>2 DEF RefreshScript, Refreshes
<1> QED BY <1>1, <1>2, <1>3, <1>4, <1>5, <1>6 DEF CleanupStep

Sweeps(o) ==
  /\ OnlyMoves(o)
  /\ op'[o] = Idle \/ op'[o].pc \in SweepPc \cup OrphanPc

\* A sweep that issues its next command stays a sweep.
LEMMA SweepAwaits ==
  ASSUME TypeOK, NEW o \in Op, NEW pc \in SweepPc \cup OrphanPc,
         \/ Await(o, [op[o] EXCEPT !.pc = pc])
         \/ \E x : \/ Await(o, [op[o] EXCEPT !.pc = pc, !.ids = x])
                   \/ Await(o, [op[o] EXCEPT !.pc = pc, !.now = x])
                   \/ Await(o, [op[o] EXCEPT !.pc = pc, !.user = x])
  PROVE  Sweeps(o)
<1>1. CASE Await(o, [op[o] EXCEPT !.pc = pc])
  <2>1. [op[o] EXCEPT !.pc = pc].pc = pc
    BY FieldTypes DEF OpState
  <2> QED BY <1>1, <2>1, AwaitMoves DEF Sweeps
<1>2. ASSUME NEW x, Await(o, [op[o] EXCEPT !.pc = pc, !.ids = x])
      PROVE  Sweeps(o)
  <2>1. [op[o] EXCEPT !.pc = pc, !.ids = x].pc = pc
    BY FieldTypes DEF OpState
  <2> QED BY <1>2, <2>1, AwaitMoves DEF Sweeps
<1>3. ASSUME NEW x, Await(o, [op[o] EXCEPT !.pc = pc, !.now = x])
      PROVE  Sweeps(o)
  <2>1. [op[o] EXCEPT !.pc = pc, !.now = x].pc = pc
    BY FieldTypes DEF OpState
  <2> QED BY <1>3, <2>1, AwaitMoves DEF Sweeps
<1>4. ASSUME NEW x, Await(o, [op[o] EXCEPT !.pc = pc, !.user = x])
      PROVE  Sweeps(o)
  <2>1. [op[o] EXCEPT !.pc = pc, !.user = x].pc = pc
    BY FieldTypes DEF OpState
  <2> QED BY <1>4, <2>1, AwaitMoves DEF Sweeps
<1> QED BY <1>1, <1>2, <1>3, <1>4

\* The steps of a sweep concern no live session: the hash that the orphan pass
\* deletes is gone already.
LEMMA SweepShape ==
  ASSUME TypeOK, NEW o \in Op, StaleStaysDead(o), SweepStep(o)
  PROVE  Shape(o)
<1>1. Sweeps(o)
  <2>1. ASSUME NEW todo, VisitUsers(o, todo) \/ VisitHashes(o, todo)
        PROVE  Sweeps(o)
    BY <2>1, VisitUsersMoves, VisitHashesMoves DEF Sweeps, SweepPc, OrphanPc
  <2>2. ASSUME SweepRead(o) \/ SweepCheck(o) \/ SweepRemove(o)
                 \/ SweepCount(o) \/ SweepTime(o) \/ SweepSetLastSeen(o)
        PROVE  Sweeps(o)
    BY <2>1, <2>2, SweepAwaits
    DEF SweepPc, SweepRead, SweepCheck, SweepRemove, SweepCount, SweepTime,
        SweepSetLastSeen
  <2>3. ASSUME OrphanResolve(o) \/ OrphanCheck(o)
        PROVE  Sweeps(o)
    BY <2>1, <2>3, SweepAwaits DEF OrphanPc, OrphanResolve, OrphanCheck
  <2>4. ASSUME SweepScan(o) \/ SweepPublish(o) \/ OrphanScan(o)
                 \/ OrphanDelete(o)
        PROVE  Sweeps(o)
    BY <2>1, <2>4 DEF SweepScan, SweepPublish, OrphanScan, OrphanDelete
  <2> QED BY <2>2, <2>3, <2>4 DEF SweepStep
<1>2. op[o].pc \in SweepPc \cup OrphanPc /\ phase # "down"
  BY DEF SweepStep, SweepScan, SweepRead, SweepCheck, SweepRemove,
         SweepCount, SweepTime, SweepSetLastSeen, SweepPublish, OrphanScan,
         OrphanResolve, OrphanCheck, OrphanDelete, AtHead, SweepPc, OrphanPc
<1>3. UNCHANGED <<phase, expired, used, assigned>>
  BY DEF SweepStep, SweepScan, SweepRead, SweepCheck, SweepRemove,
         SweepCount, SweepTime, SweepSetLastSeen, SweepPublish, OrphanScan,
         OrphanResolve, OrphanCheck, OrphanDelete, otherVars, memoryVars
<1>4. UNCHANGED sessionHash
  <2>1. CASE OrphanDelete(o)
    <3>1. sessionHash[op[o].sid] = None
      BY <2>1 DEF OrphanDelete, AtHead, StaleStaysDead
    <3> QED BY <2>1, <3>1 DEF OrphanDelete, DelHashEffect, TypeOK
  <2>2. CASE ~ OrphanDelete(o)
    BY <2>2
    DEF SweepStep, SweepScan, SweepRead, SweepCheck, SweepRemove, SweepCount,
        SweepTime, SweepSetLastSeen, SweepPublish, OrphanScan, OrphanResolve,
        OrphanCheck, redisVars, SremEffect, SetLastSeenEffect
  <2> QED BY <2>1, <2>2
<1> QED BY <1>1, <1>2, <1>3, <1>4 DEF Shape, Carries, Sweeps

\* Every step of an operation has one of the shapes.
LEMMA StepShape ==
  ASSUME TypeOK, RedisInv, NEW o \in Op, Step(o)
  PROVE  Shape(o)
<1>1. OperationInv(o)
  BY DEF RedisInv
<1> QED BY <1>1, RegisterShape, CleanupShape, SweepShape DEF Step, OperationInv

-----------------------------------------------------------------------------
(* What the gateway knows survives what others do *)

\* Sessions are lost to time only, entries are new or old, closed sockets stay
\* closed.
GatewayGrows ==
  /\ used \subseteq used'
  /\ assigned \subseteq assigned'
  /\ lapsed \subseteq lapsed'
  /\ \A k \in Socket : link[k] = "closed" => link'[k] = "closed"
  /\ \A k \in Socket :
       connectionBySocketId'[k] \in
         {connectionBySocketId[k], None} \cup (assigned' \ assigned)

\* What holds of an operation holds after the step of another, if the session
\* it is about to announce is left alone.
LEMMA HandlerKeeps ==
  ASSUME TypeOK, GTypeOK, GatewayGrows, NEW p \in Op, OperandsPresent(p),
         HandlerInv(p), op'[p] = op[p], caller'[p] = caller[p],
         caller[p].handler = "connect" =>
           account'[caller[p].socket] = account[caller[p].socket],
         op[p].pc = "pub_online" =>
           /\ op[p].sid \notin assigned'
           /\ op[p].sid \in lapsed'
                \/ sessionHash'[op[p].sid] = sessionHash[op[p].sid]
  PROVE  HandlerInv(p)'
<1> USE DEF HandlerInv, GatewayGrows
<1>1. /\ op'[p].pc = "idle" => caller'[p] = NoCaller
      /\ caller'[p].handler = "connect" =>
           /\ op'[p].pc \in RegisterPc \cup {"pub_online"}
           /\ op'[p].user = account'[caller'[p].socket]
      /\ op'[p].pc \in RefreshPc => op'[p].sid \in assigned'
  OBVIOUS
<1>2. op'[p].pc = "pub_online" =>
        /\ op'[p].sid \in used' \ assigned'
        /\ op'[p].sid \notin lapsed' => sessionHash'[op'[p].sid] = op'[p].user
  OBVIOUS
<1>3. ASSUME op[p].pc \in CleanupPc, op[p].sid \notin lapsed'
      PROVE  /\ op[p].sid \in assigned'
             /\ \A k \in Socket :
                  connectionBySocketId'[k] = op[p].sid => link'[k] = "closed"
  <2>1. op[p].sid \in assigned /\ op[p].sid # None
    BY <1>3 DEF OperandsPresent
  <2> QED BY <1>3, <2>1
<1> QED BY <1>1, <1>2, <1>3

\* An operation that is idle, with no caller, knows nothing.
LEMMA HandlerIdles ==
  ASSUME NEW o \in Op, op'[o] = Idle, caller'[o] = NoCaller
  PROVE  HandlerInv(o)'
BY DEF HandlerInv, Idle, NoCaller, RegisterPc, CleanupPc, RefreshPc

-----------------------------------------------------------------------------
(* A handler proceeds *)

\* What the proofs below start from.
GInv == TypeOK /\ RedisInv /\ GTypeOK /\ GatewayInv

\* A socket's map entry and link after a step of a handler.
LEMMA StepGrows ==
  ASSUME GInv, NEW o \in Op, GStep(o)
  PROVE  GatewayGrows
<1> USE DEF GatewayGrows, socketVars, mapVars
<1>1. Shape(o)
  BY StepShape DEF GStep, GInv
<1>2. used \subseteq used' /\ assigned \subseteq assigned'
  BY <1>1 DEF Shape, Opens, Announces, Ends, Carries, RegisterEffect
<1>3. lapsed \subseteq lapsed'
  BY DEF GStep
<1>4. CASE UNCHANGED <<socketVars, mapVars>>
  BY <1>2, <1>3, <1>4
<1>5. ASSUME NEW k, AfterConnect(k)
      PROVE  GatewayGrows
  BY <1>2, <1>3, <1>5 DEF AfterConnect, GInv, GTypeOK
<1>6. ASSUME NEW k, NEW s, AfterDisconnect(k, s)
      PROVE  GatewayGrows
  BY <1>2, <1>3, <1>6 DEF AfterDisconnect, RemoveEntry, GInv, GTypeOK
<1>7. ASSUME NEW k, NEW s, AfterPing(o, k, s)
      PROVE  GatewayGrows
  BY <1>2, <1>3, <1>7 DEF AfterPing, RemoveEntry, GInv, GTypeOK
<1> QED BY <1>4, <1>5, <1>6, <1>7 DEF GStep

\* The other operations.
LEMMA StepOthers ==
  ASSUME GInv, NEW o \in Op, GStep(o), NEW p \in Op \ {o}
  PROVE  HandlerInv(p)'
<1> USE DEF GInv, HandlerInv
<1>1. Shape(o) /\ GatewayGrows
  BY StepShape, StepGrows DEF GStep
<1>2. /\ HandlerInv(p) /\ HandlerInv(o) /\ AnnouncedOnce
      /\ OperandsPresent(p) /\ OperandsPresent(o)
      /\ assigned \subseteq used
  BY <1>1 DEF Shape, GatewayInv, RedisInv, OperationInv
<1>3. op'[p] = op[p]
  BY <1>1 DEF Shape, OnlyMoves
<1>4. caller'[p] = caller[p] /\ UNCHANGED <<account, lapsed>>
  BY DEF GStep, GTypeOK, socketVars, mapVars, AfterConnect, AfterDisconnect,
         AfterPing
<1>5. ASSUME op[p].pc = "pub_online"
      PROVE  /\ op[p].sid \notin assigned'
             /\ op[p].sid \in lapsed'
                  \/ sessionHash'[op[p].sid] = sessionHash[op[p].sid]
  <2>1. op[p].sid \in used \ assigned /\ op[p].sid \in Session
    BY <1>2, <1>5 DEF OperandsPresent
  <2>2. CASE Opens(o)
    BY <2>1, <2>2 DEF Opens, RegisterEffect, TypeOK
  <2>3. CASE Announces(o)
    BY <1>2, <1>5, <2>1, <2>3 DEF Announces, AnnouncedOnce
  <2>4. CASE Ends(o)
    <3>1. op[o].sid \in assigned \/ op[o].sid \in lapsed
      BY <1>2, <2>4 DEF Ends, CleanupPc
    <3> QED BY <1>4, <2>1, <2>4, <3>1 DEF Ends, TypeOK
  <2>5. CASE Carries(o)
    BY <2>1, <2>5 DEF Carries
  <2> QED BY <1>1, <2>2, <2>3, <2>4, <2>5 DEF Shape
<1> QED BY <1>1, <1>2, <1>3, <1>4, <1>5, HandlerKeeps

\* The operation itself, while its handler still waits.
LEMMA StepWaits ==
  ASSUME GInv, NEW o \in Op, Step(o), ~ Returns(o),
         UNCHANGED <<socketVars, mapVars, caller, lapsed>>
  PROVE  HandlerInv(o)'
<1> USE DEF GInv
<1>1. Shape(o) /\ op'[o] # Idle
  BY StepShape DEF Returns
<1>2. HandlerInv(o) /\ OperandsPresent(o) /\ assigned \subseteq used
  BY <1>1 DEF Shape, GatewayInv, RedisInv, OperationInv
<1> USE DEF socketVars, mapVars
<1>3. CASE Opens(o)
  <2>1. PICK s \in Session :
          /\ op[o].pc = "reg_script"
          /\ RegisterEffect(op[o].user, s)
          /\ op'[o].pc = "pub_online"
          /\ op'[o].user = op[o].user
          /\ op'[o].sid = s
          /\ UNCHANGED assigned
    BY <1>1, <1>3 DEF Opens
  <2>2. s \in used' \ assigned' /\ sessionHash'[s] = op[o].user
    BY <1>2, <2>1 DEF RegisterEffect, TypeOK
  <2> QED BY <1>2, <2>1, <2>2
          DEF HandlerInv, RegisterPc, CleanupPc, RefreshPc
<1>4. CASE Ends(o)
  <2>1. op[o].pc = "cln_script" /\ op'[o].pc = "pub_offline"
    BY <1>1, <1>4 DEF Ends
  <2> QED BY <1>2, <2>1 DEF HandlerInv, RegisterPc, CleanupPc, RefreshPc
<1>5. CASE Carries(o)
  <2>1. UNCHANGED <<sessionHash, used, assigned>>
    BY <1>5 DEF Carries
  <2>2. CASE /\ op[o].pc \in RegisterPc /\ op'[o].pc \in RegisterPc
             /\ op'[o].user = op[o].user
    BY <1>2, <2>1, <2>2 DEF HandlerInv, RegisterPc, CleanupPc, RefreshPc
  <2>3. CASE /\ op[o].pc \in CleanupPc /\ op'[o].pc \in CleanupPc
             /\ op'[o].sid = op[o].sid
    BY <1>2, <2>1, <2>3 DEF HandlerInv, RegisterPc, CleanupPc, RefreshPc
  <2>4. CASE /\ op[o].pc \in RefreshPc /\ op'[o].pc \in RefreshPc
             /\ op'[o].sid = op[o].sid
    BY <1>2, <2>1, <2>4 DEF HandlerInv, RegisterPc, CleanupPc, RefreshPc
  <2>5. CASE /\ op[o].pc = "ref_script" /\ op'[o].pc \in CleanupPc
             /\ op'[o].sid = op[o].sid
             /\ sessionHash[op[o].sid] = None
    <3> DEFINE s == op[o].sid
    <3>1. s \in assigned /\ s # None
      BY <1>2, <2>5 DEF HandlerInv, RefreshPc, OperandsPresent
    <3>2. ASSUME s \notin lapsed, NEW k \in Socket, connectionBySocketId[k] = s
          PROVE  link[k] = "closed"
      <4>1. link[k] # "new" /\ account[k] # None
        BY <3>1, <3>2 DEF GatewayInv, SocketsHaveAccounts
      <4>2. link[k] # "open"
        BY <2>5, <3>1, <3>2, <4>1 DEF GatewayInv, SocketKeepsSession
      <4> QED BY <4>1, <4>2 DEF GTypeOK
    <3> QED BY <1>2, <2>1, <2>5, <3>1, <3>2
            DEF HandlerInv, RegisterPc, CleanupPc, RefreshPc
  <2>6. CASE /\ op[o].pc \in SweepPc \cup OrphanPc
             /\ op'[o].pc \in SweepPc \cup OrphanPc
    BY <1>2, <2>1, <2>6
    DEF HandlerInv, RegisterPc, CleanupPc, RefreshPc, SweepPc, OrphanPc
  <2> QED BY <1>1, <1>5, <2>2, <2>3, <2>4, <2>5, <2>6 DEF Carries
<1>6. ~ Announces(o)
  BY <1>1 DEF Announces
<1> QED BY <1>1, <1>3, <1>4, <1>5, <1>6 DEF Shape

\* A session in the map, while no entry is added, keeps its socket and its hash.
LEMMA EntriesKeep ==
  ASSUME GInv, GatewayGrows,
         UNCHANGED account,
         \A k \in Socket :
           /\ connectionBySocketId'[k] \in {connectionBySocketId[k], None}
           /\ link'[k] = "open" => link[k] = "open",
         \A s \in assigned : s \in lapsed' \/ sessionHash'[s] = sessionHash[s]
                               \/ \A k \in Socket : connectionBySocketId[k] = s
                                                      => link[k] = "closed"
  PROVE  SocketKeepsSession' /\ EntriesAssigned'
<1> USE DEF GInv, GatewayInv, GatewayGrows
<1>1. SocketKeepsSession'
  <2> SUFFICES ASSUME NEW k \in Socket, link'[k] = "open",
                      connectionBySocketId'[k] # None,
                      connectionBySocketId'[k] \notin lapsed'
               PROVE  sessionHash'[connectionBySocketId'[k]] = account'[k]
    BY DEF SocketKeepsSession
  <2> DEFINE s == connectionBySocketId[k]
  <2>1. /\ connectionBySocketId'[k] = s /\ s # None /\ s \notin lapsed
        /\ link[k] = "open"
    OBVIOUS
  <2>2. s \in assigned
    BY <2>1 DEF EntriesAssigned
  <2>3. sessionHash[s] = account[k]
    BY <2>1 DEF SocketKeepsSession
  <2> QED BY <2>1, <2>2, <2>3
<1>2. EntriesAssigned'
  BY DEF EntriesAssigned
<1> QED BY <1>1, <1>2
\* The session a registration returns belongs to the user of its socket, and no
\* other socket has it.
LEMMA StepConnects ==
  ASSUME GInv, NEW o \in Op, GStep(o), Returns(o),
         caller[o].handler = "connect", AfterConnect(caller[o].socket)
  PROVE  SocketKeepsSession' /\ EntriesAssigned'
<1> DEFINE k == caller[o].socket
<1> USE DEF GInv
<1>1. Shape(o) /\ GatewayGrows /\ phase # "down"
  BY StepShape, StepGrows DEF GStep, Shape
<1>2. HandlerInv(o) /\ assigned \subseteq used /\ SocketKeepsSession
      /\ EntriesAssigned
  BY <1>1 DEF GatewayInv
<1>3. op'[o] = Idle /\ op'[o].pc = "idle"
  BY DEF Returns, Idle
<1>4. UNCHANGED <<link, account, lapsed>>
  BY DEF AfterConnect, GStep, socketVars
<1>5. op[o].pc \in RegisterPc \cup {"pub_online"}
      /\ op[o].user = account[k]
  BY <1>2 DEF HandlerInv
<1>6. \A s \in assigned : sessionHash'[s] = sessionHash[s]
  <2>1. CASE Opens(o)
    BY <1>2, <2>1 DEF Opens, RegisterEffect, TypeOK
  <2>2. CASE Announces(o) \/ Carries(o)
    BY <2>2 DEF Announces, Carries
  <2>3. ~ Ends(o)
    BY <1>5 DEF Ends, RegisterPc
  <2> QED BY <1>1, <2>1, <2>2, <2>3 DEF Shape
<1>7. CASE assigned' = assigned /\ UNCHANGED connectionBySocketId
  BY <1>1, <1>4, <1>6, <1>7, EntriesKeep
<1>8. ASSUME NEW s \in assigned' \ assigned,
             connectionBySocketId' = [connectionBySocketId EXCEPT ![k] = s]
      PROVE  SocketKeepsSession' /\ EntriesAssigned'
  <2>1. s \notin lapsed => sessionHash'[s] = op[o].user
    <3>1. CASE Opens(o)
      BY <1>3, <1>8, <3>1 DEF Opens, RegisterEffect, TypeOK
    <3>2. CASE Announces(o)
      BY <1>2, <1>8, <3>2 DEF Announces, HandlerInv
    <3>3. ~ Ends(o) /\ ~ Carries(o)
      BY <1>5, <1>8 DEF Ends, Carries, RegisterPc
    <3> QED BY <1>1, <3>1, <3>2, <3>3 DEF Shape
  <2>2. SocketKeepsSession'
    BY <1>2, <1>4, <1>5, <1>6, <1>8, <2>1
    DEF SocketKeepsSession, EntriesAssigned, GTypeOK
  <2>3. EntriesAssigned'
    BY <1>1, <1>2, <1>8 DEF EntriesAssigned, GTypeOK, GatewayGrows
  <2> QED BY <2>2, <2>3
<1> QED BY <1>7, <1>8 DEF AfterConnect

\* No step of a handler ends the session of an open socket.
LEMMA StepEntries ==
  ASSUME GInv, NEW o \in Op, GStep(o)
  PROVE  SocketKeepsSession' /\ EntriesAssigned'
<1> USE DEF GInv
<1>1. Shape(o) /\ GatewayGrows
  BY StepShape, StepGrows DEF GStep
<1>2. HandlerInv(o) /\ assigned \subseteq used
  BY <1>1 DEF Shape, GatewayInv
<1>3. ASSUME NEW s \in assigned
      PROVE  \/ s \in lapsed' \/ sessionHash'[s] = sessionHash[s]
             \/ \A k \in Socket : connectionBySocketId[k] = s
                                    => link[k] = "closed"
  <2>1. CASE Opens(o)
    BY <1>2, <2>1 DEF Opens, RegisterEffect, TypeOK
  <2>2. CASE Announces(o) \/ Carries(o)
    BY <2>2 DEF Announces, Carries
  <2>3. CASE Ends(o)
    BY <1>1, <1>2, <2>3
    DEF Ends, HandlerInv, CleanupPc, TypeOK, GatewayGrows
  <2> QED BY <1>1, <2>1, <2>2, <2>3 DEF Shape
<1>4. CASE Returns(o) /\ caller[o].handler = "connect"
             /\ AfterConnect(caller[o].socket)
  BY <1>4, StepConnects
<1>5. CASE UNCHANGED <<socketVars, mapVars>>
  BY <1>1, <1>3, <1>5, EntriesKeep DEF socketVars, mapVars
<1>6. CASE AfterDisconnect(caller[o].socket, caller[o].sid)
  BY <1>1, <1>3, <1>6, EntriesKeep
  DEF AfterDisconnect, RemoveEntry, socketVars, GTypeOK
<1>7. CASE AfterPing(o, caller[o].socket, caller[o].sid)
  BY <1>1, <1>3, <1>7, EntriesKeep
  DEF AfterPing, RemoveEntry, socketVars, mapVars, GTypeOK
<1> QED BY <1>4, <1>5, <1>6, <1>7 DEF GStep

\* No two registrations announce one session.
LEMMA StepAnnounces ==
  ASSUME GInv, NEW o \in Op, GStep(o)
  PROVE  AnnouncedOnce'
<1> USE DEF GInv
<1>1. Shape(o) /\ AnnouncedOnce
  BY StepShape DEF GStep, Shape, GatewayInv
<1>2. \A p \in Op : op[p].pc = "pub_online" => op[p].sid \in used
  BY <1>1 DEF Shape, GatewayInv, HandlerInv
<1>3. op'[o].pc = "pub_online" => op'[o].sid \notin used
  BY <1>1 DEF Shape, Opens, Announces, Ends, Carries, RegisterEffect, Idle,
              RegisterPc, CleanupPc, RefreshPc, SweepPc, OrphanPc
<1> QED BY <1>1, <1>2, <1>3 DEF Shape, OnlyMoves, AnnouncedOnce

\* The steps of a handler keep GatewayInv.
LEMMA StepKeepsGateway ==
  ASSUME GInv, NEW o \in Op, GStep(o)
  PROVE  GatewayInv'
<1> USE DEF GInv
<1>1. Shape(o) /\ GatewayGrows /\ phase # "down" /\ phase' # "down"
  BY StepShape, StepGrows DEF GStep, Shape
<1>2. SocketKeepsSession' /\ EntriesAssigned' /\ AnnouncedOnce'
  BY StepEntries, StepAnnounces
<1>3. SocketsHaveAccounts'
  <2>0. SocketsHaveAccounts
    BY DEF GatewayInv
  <2> USE DEF SocketsHaveAccounts, GStep, GTypeOK, NoCaller
  <2>1. CASE ~ Returns(o)
    BY <2>0, <2>1 DEF socketVars, mapVars
  <2>2. CASE Returns(o) /\ UNCHANGED <<socketVars, mapVars>>
    BY <2>0, <2>2 DEF socketVars, mapVars
  <2>3. CASE Returns(o) /\ caller[o].handler = "connect"
               /\ AfterConnect(caller[o].socket)
    BY <2>0, <2>3 DEF AfterConnect, socketVars
  <2>4. CASE Returns(o) /\ AfterDisconnect(caller[o].socket, caller[o].sid)
    BY <2>0, <2>4 DEF AfterDisconnect, RemoveEntry, socketVars
  <2>5. CASE Returns(o) /\ caller[o].handler = "ping"
               /\ AfterPing(o, caller[o].socket, caller[o].sid)
    <3>1. caller[o].socket \in Socket /\ link[caller[o].socket] # "new"
      BY <2>0, <2>5
    <3>3. \A k \in Socket : link'[k] = "new" <=> link[k] = "new"
      BY <2>5, <3>1 DEF AfterPing, RemoveEntry, socketVars
    <3>4. UNCHANGED <<account, handshakes>>
      BY <2>5 DEF AfterPing, socketVars
    <3>5. \A k \in Socket : connectionBySocketId'[k]
                              \in {connectionBySocketId[k], None}
      BY <2>5 DEF AfterPing, RemoveEntry, mapVars
    <3> QED BY <2>0, <2>5, <3>1, <3>3, <3>4, <3>5
  <2> QED BY <2>1, <2>2, <2>3, <2>4, <2>5 DEF GStep
<1>4. assigned' \subseteq used'
  <2>1. assigned \subseteq used /\ HandlerInv(o)
    BY <1>1 DEF GatewayInv
  <2> QED BY <1>1, <2>1
          DEF Shape, Opens, Announces, Ends, Carries, RegisterEffect,
              HandlerInv
<1>5. expired' \subseteq lapsed'
  BY <1>1 DEF Shape, GatewayInv, GatewayGrows
<1>6. ASSUME NEW p \in Op
      PROVE  HandlerInv(p)'
  <2>1. CASE p # o
    BY <2>1, StepOthers
  <2>2. CASE p = o /\ ~ Returns(o)
    BY <2>2, StepWaits DEF GStep
  <2>3. CASE p = o /\ Returns(o)
    BY <2>3, HandlerIdles DEF GStep, Returns, GTypeOK
  <2> QED BY <2>1, <2>2, <2>3
<1> QED BY <1>1, <1>2, <1>3, <1>4, <1>5, <1>6 DEF GatewayInv

-----------------------------------------------------------------------------
(* A command fails, or Redis executes what a dead process had sent *)

\* A fault touches the session of a cleanup in progress, or a fresh one.
LEMMA FaultShape ==
  ASSUME TypeOK, RedisInv, NEW o \in Op, Fault(o)
  PROVE  /\ UNCHANGED <<phase, expired, assigned>>
         /\ OnlyMoves(o) /\ op'[o] = Idle
         /\ used \subseteq used'
         /\ \A s \in used : \/ sessionHash'[s] = sessionHash[s]
                            \/ op[o].pc = "cln_script" /\ s = op[o].sid
<1> USE DEF Fault, Reject, LoseReply, Drain, redisVars, memoryVars
<1>1. OnlyMoves(o) /\ op'[o] = Idle
  BY ReturnIdles
<1>2. StaleStaysDead(o)
  BY DEF RedisInv, OperationInv
<1>3. ASSUME RedisWrite(o)
      PROVE  /\ used \subseteq used'
             /\ \A s \in used : \/ sessionHash'[s] = sessionHash[s]
                                \/ op[o].pc = "cln_script" /\ s = op[o].sid
  BY <1>2, <1>3 DEF RedisWrite, SremEffect, RegisterEffect, CleanupEffect,
                    SetLastSeenEffect, DelHashEffect, StaleStaysDead, TypeOK
<1> QED BY <1>1, <1>3

\* A handler that is rejected leaves the map as it is.
LEMMA FaultKeepsGateway ==
  ASSUME GInv, NEW o \in Op, GFault(o)
  PROVE  GatewayInv'
<1> USE DEF GInv
<1>1. /\ UNCHANGED <<phase, expired, assigned>>
      /\ OnlyMoves(o) /\ op'[o] = Idle
      /\ used \subseteq used'
      /\ \A s \in used : \/ sessionHash'[s] = sessionHash[s]
                         \/ op[o].pc = "cln_script" /\ s = op[o].sid
  BY FaultShape DEF GFault
<1>2. /\ caller' = [caller EXCEPT ![o] = NoCaller]
      /\ UNCHANGED <<link, account, handshakes, connectionBySocketId, lapsed>>
  BY DEF GFault, socketVars, mapVars
<1>3. GatewayGrows /\ caller'[o] = NoCaller
  BY <1>1, <1>2 DEF GatewayGrows, GTypeOK
<1>4. assigned \subseteq used
  BY DEF GatewayInv
<1>5. ASSUME NEW s \in assigned
      PROVE  \/ s \in lapsed' \/ sessionHash'[s] = sessionHash[s]
             \/ \A k \in Socket : connectionBySocketId[k] = s
                                    => link[k] = "closed"
  <2>1. CASE phase = "down"
    <3>1. \A k \in Socket : connectionBySocketId[k] = None
      BY <2>1 DEF GatewayInv
    <3>2. s # None
      BY DEF TypeOK
    <3> QED BY <3>1, <3>2
  <2>2. CASE phase # "down"
    BY <1>1, <1>2, <1>4, <2>2 DEF GatewayInv, HandlerInv, CleanupPc
  <2> QED BY <2>1, <2>2
<1>6. SocketKeepsSession' /\ EntriesAssigned'
  BY <1>2, <1>3, <1>5, EntriesKeep
<1>7. SocketsHaveAccounts'
  BY <1>2 DEF GatewayInv, SocketsHaveAccounts, GTypeOK, NoCaller
<1>8. ASSUME phase # "down"
      PROVE  AnnouncedOnce' /\ \A p \in Op : HandlerInv(p)'
  <2>1. AnnouncedOnce /\ HandlerInv(o)
    BY <1>8 DEF GatewayInv
  <2>2. AnnouncedOnce'
    BY <1>1, <2>1 DEF AnnouncedOnce, OnlyMoves, Idle
  <2>3. ASSUME NEW p \in Op \ {o}
        PROVE  HandlerInv(p)'
    <3>1. HandlerInv(p) /\ OperandsPresent(p) /\ op'[p] = op[p]
          /\ caller'[p] = caller[p]
      BY <1>1, <1>2, <1>8
      DEF GatewayInv, RedisInv, OperationInv, OnlyMoves, GTypeOK
    <3>2. ASSUME op[p].pc = "pub_online"
          PROVE  /\ op[p].sid \notin assigned'
                 /\ op[p].sid \in lapsed'
                      \/ sessionHash'[op[p].sid] = sessionHash[op[p].sid]
      BY <1>1, <1>2, <2>1, <3>1, <3>2 DEF HandlerInv, CleanupPc
    <3> QED BY <1>2, <1>3, <3>1, <3>2, HandlerKeeps
  <2>4. HandlerInv(o)'
    BY <1>1, <1>3, HandlerIdles
  <2> QED BY <2>2, <2>3, <2>4
<1>9. phase = "down" => /\ \A p \in Op : caller'[p] = NoCaller
                        /\ \A k \in Socket : connectionBySocketId'[k] = None
  BY <1>2 DEF GatewayInv, GTypeOK
<1> QED BY <1>1, <1>2, <1>4, <1>6, <1>7, <1>8, <1>9 DEF GatewayInv

-----------------------------------------------------------------------------
(* A call, of a socket or in the background *)

\* A call leaves every session alone, and every operation but its own.
LEMMA CallShape ==
  ASSUME GInv, NEW o \in Op, NEW state, Start(o, state),
         UNCHANGED <<sessionHash, used, assigned, phase, lapsed>>,
         phase # "down",
         GatewayGrows, UNCHANGED account,
         \A p \in Op \ {o} : caller'[p] = caller[p],
         \A k \in Socket :
           /\ connectionBySocketId'[k] = connectionBySocketId[k]
           /\ link'[k] = "open" => link[k] = "open",
         expired' \subseteq expired,
         SocketsHaveAccounts',
         state.pc # "pub_online",
         HandlerInv(o)'
  PROVE  GatewayInv'
<1> USE DEF GInv
<1>1. OnlyMoves(o) /\ op'[o] = state
  BY StartMoves
<1>2. SocketKeepsSession' /\ EntriesAssigned'
  BY EntriesKeep
<1>3. AnnouncedOnce'
  BY <1>1 DEF GatewayInv, AnnouncedOnce, OnlyMoves
<1>4. ASSUME NEW p \in Op \ {o}
      PROVE  HandlerInv(p)'
  <2>1. HandlerInv(p) /\ OperandsPresent(p) /\ op'[p] = op[p]
    BY <1>1 DEF GatewayInv, RedisInv, OperationInv, OnlyMoves
  <2>2. op[p].pc = "pub_online" => op[p].sid \notin assigned
    BY <2>1 DEF HandlerInv
  <2> QED BY <2>1, <2>2, HandlerKeeps
<1> QED BY <1>2, <1>3, <1>4 DEF GatewayInv

\* An operation that is free has no caller.
LEMMA FreeHasNoCaller ==
  ASSUME GInv, NEW o \in Op, op[o] = Idle, phase # "down"
  PROVE  caller[o] = NoCaller
BY DEF GInv, GatewayInv, HandlerInv, Idle

\* handleConnection goes on to register.
LEMMA AcceptKeeps ==
  ASSUME GInv, NEW k \in Socket, NEW o \in Op, Accept(k, o)
  PROVE  GatewayInv'
<1> USE DEF GInv, Accept, RegisterConnection
<1> DEFINE state == [Idle EXCEPT !.pc = "reg_smembers", !.user = account[k]]
<1>1. link[k] # "new"
  BY DEF GatewayInv, SocketsHaveAccounts
<1>2. /\ UNCHANGED <<sessionHash, used, assigned, phase, lapsed, expired>>
      /\ UNCHANGED <<link, account, connectionBySocketId>>
      /\ phase # "down"
      /\ handshakes' \subseteq handshakes
  BY DEF redisVars, memoryVars, otherVars, mapVars
<1>3. GatewayGrows
  BY <1>2 DEF GatewayGrows
<1>4. /\ \A p \in Op \ {o} : caller'[p] = caller[p]
      /\ caller'[o] = [handler |-> "connect", socket |-> k, sid |-> None]
  BY DEF GTypeOK
<1>5. SocketsHaveAccounts'
  BY <1>1, <1>2, <1>4 DEF GatewayInv, SocketsHaveAccounts
<1>6. state.pc = "reg_smembers" /\ state.user = account[k]
  BY DEF Idle
<1>7. Start(o, state) /\ op'[o] = state
  BY StartMoves
<1>8. HandlerInv(o)'
  BY <1>2, <1>4, <1>6, <1>7 DEF HandlerInv, RegisterPc, CleanupPc, RefreshPc
<1> HIDE DEF state
<1> QED BY <1>2, <1>3, <1>4, <1>5, <1>6, <1>7, <1>8, CallShape

\* handleDisconnect starts to clean up the session of its socket, which no
\* other socket has.
LEMMA LeaveKeeps ==
  ASSUME GInv, NEW k \in Socket, NEW o \in Op, Leave(k, o)
  PROVE  GatewayInv'
<1> DEFINE s == connectionBySocketId[k]
<1> USE DEF GInv, Leave, CleanupSession
<1>1. s \in Session /\ s \in assigned
  BY DEF GTypeOK
<1>2. /\ UNCHANGED <<sessionHash, used, assigned, phase, lapsed, expired>>
      /\ UNCHANGED <<account, handshakes, connectionBySocketId>>
      /\ link' = [link EXCEPT ![k] = "closed"]
      /\ phase # "down"
  BY DEF redisVars, memoryVars, otherVars, mapVars
<1>3. /\ GatewayGrows
      /\ \A l \in Socket : link'[l] = "open" => link[l] = "open"
  BY <1>2 DEF GatewayGrows, GTypeOK
<1>4. /\ \A p \in Op \ {o} : caller'[p] = caller[p]
      /\ caller'[o] = [handler |-> "disconnect", socket |-> k, sid |-> s]
  BY DEF GTypeOK
<1>5. SocketsHaveAccounts'
  BY <1>1, <1>2, <1>4 DEF GatewayInv, SocketsHaveAccounts, GTypeOK
<1>6. CleanupStart(s).pc \in CleanupPc /\ CleanupStart(s).sid = s
  BY <1>1, CleanupStartSid
<1>7. Start(o, CleanupStart(s)) /\ op'[o] = CleanupStart(s)
  BY StartMoves
<1>8. \A l \in Socket : connectionBySocketId'[l] = s => link'[l] = "closed"
  BY <1>1, <1>2 DEF GatewayInv, EntriesAssigned, GTypeOK
<1>9. HandlerInv(o)'
  BY <1>1, <1>2, <1>4, <1>6, <1>7, <1>8
  DEF HandlerInv, RegisterPc, CleanupPc, RefreshPc
<1>10. CleanupStart(s).pc # "pub_online"
  BY <1>6 DEF CleanupPc
<1> QED BY <1>2, <1>3, <1>4, <1>5, <1>7, <1>9, <1>10, CallShape

\* handlePing starts to refresh the session of its socket.
LEMMA PingKeeps ==
  ASSUME GInv, NEW k \in Socket, NEW o \in Op, Ping(k, o)
  PROVE  GatewayInv'
<1> DEFINE s == connectionBySocketId[k]
           state == [Idle EXCEPT !.pc = "ref_time", !.sid = s]
<1> USE DEF GInv, Ping, RefreshSessionHeartbeat
<1>1. /\ UNCHANGED <<sessionHash, used, assigned, phase, lapsed, expired>>
      /\ UNCHANGED <<link, account, handshakes, connectionBySocketId>>
      /\ phase # "down" /\ s \in assigned
  BY DEF redisVars, memoryVars, otherVars, socketVars
<1>2. GatewayGrows
  BY <1>1 DEF GatewayGrows
<1>3. /\ \A p \in Op \ {o} : caller'[p] = caller[p]
      /\ caller'[o] = [handler |-> "ping", socket |-> k, sid |-> s]
  BY DEF GTypeOK
<1>4. SocketsHaveAccounts'
  BY <1>1, <1>3 DEF GatewayInv, SocketsHaveAccounts
<1>5. state.pc = "ref_time" /\ state.sid = s
  BY DEF Idle
<1>6. Start(o, state) /\ op'[o] = state
  BY StartMoves
<1>7. HandlerInv(o)'
  BY <1>1, <1>3, <1>5, <1>6 DEF HandlerInv, RegisterPc, CleanupPc, RefreshPc
<1> HIDE DEF state
<1> QED BY <1>1, <1>2, <1>3, <1>4, <1>5, <1>6, <1>7, CallShape

\* An expiry message or the interval timer starts an operation: the message
\* concerns a session whose time ran out.
LEMMA BackgroundKeeps ==
  ASSUME GInv, NEW o \in Op, Background(o)
  PROVE  GatewayInv'
<1> USE DEF GInv, Background
<1>1. UNCHANGED <<link, account, handshakes, connectionBySocketId, caller,
                  lapsed>>
  BY DEF socketVars, mapVars
<1>2. SocketsHaveAccounts'
  BY <1>1 DEF GatewayInv, SocketsHaveAccounts
<1>3. ASSUME NEW s \in Session, DeliverExpired(o, s)
      PROVE  GatewayInv'
  <2>1. /\ UNCHANGED <<sessionHash, used, assigned, phase>>
        /\ expired' \subseteq expired /\ phase # "down" /\ s \in lapsed
    BY <1>3 DEF DeliverExpired, redisVars, memoryVars, GatewayInv
  <2>2. /\ Start(o, CleanupStart(s))
        /\ op[o] = Idle /\ op'[o] = CleanupStart(s)
    BY <1>3, StartMoves DEF DeliverExpired, Start
  <2>3. CleanupStart(s).pc \in CleanupPc /\ CleanupStart(s).sid = s
    BY CleanupStartSid
  <2>4. caller[o] = NoCaller
    BY <2>1, <2>2, FreeHasNoCaller
  <2>5. HandlerInv(o)'
    BY <1>1, <2>1, <2>2, <2>3, <2>4
    DEF HandlerInv, NoCaller, RegisterPc, CleanupPc, RefreshPc
  <2>6. GatewayGrows /\ CleanupStart(s).pc # "pub_online"
    BY <1>1, <2>1, <2>3 DEF GatewayGrows, CleanupPc
  <2> QED BY <1>1, <1>2, <2>1, <2>2, <2>5, <2>6, CallShape
<1>4. CASE ReconcileSessions(o)
  <2> DEFINE state == [Idle EXCEPT !.pc = "swp_scan"]
  <2>1. /\ UNCHANGED <<sessionHash, used, assigned, phase, expired>>
        /\ phase # "down"
    BY <1>4 DEF ReconcileSessions, redisVars, memoryVars, otherVars
  <2>2. Start(o, state) /\ op[o] = Idle /\ op'[o] = state
    BY <1>4, StartMoves DEF ReconcileSessions, Start
  <2>3. state.pc = "swp_scan"
    BY DEF Idle
  <2>4. caller[o] = NoCaller
    BY <2>1, <2>2, FreeHasNoCaller
  <2>5. HandlerInv(o)'
    BY <1>1, <2>2, <2>3, <2>4
    DEF HandlerInv, NoCaller, RegisterPc, CleanupPc, RefreshPc
  <2>6. GatewayGrows
    BY <1>1, <2>1 DEF GatewayGrows
  <2> HIDE DEF state
  <2> QED BY <1>1, <1>2, <2>1, <2>2, <2>3, <2>5, <2>6, CallShape
<1> QED BY <1>3, <1>4

-----------------------------------------------------------------------------
(* Sockets that start no operation, and the environment *)

\* A socket connects, is refused, is forgotten by a handshake that failed, or
\* leaves without an entry.
LEMMA SocketKeeps ==
  ASSUME GInv, NEW k \in Socket,
         \/ \E u \in User : Connect(k, u)
         \/ Refuse(k) \/ HandshakeFails(k) \/ LeaveWithoutEntry(k)
  PROVE  GatewayInv'
<1> USE DEF GInv
<1>1. UNCHANGED <<vars, connectionBySocketId, caller, lapsed>>
  BY DEF Connect, Refuse, HandshakeFails, LeaveWithoutEntry, mapVars
<1>2. /\ UNCHANGED <<op, phase, expired, used, assigned, sessionHash>>
      /\ UNCHANGED <<connectionBySocketId, caller, lapsed>>
  BY <1>1 DEF vars
<1> DEFINE Ages ==
      /\ \A l \in Socket : link[l] # "new" =>
           /\ account'[l] = account[l]
           /\ link'[l] \in {link[l], "closed"}
      /\ \A l \in Socket : link[l] = "new" =>
           \/ link'[l] = "new" /\ l \notin handshakes'
           \/ link'[l] # "new" /\ account'[l] \in User
<1>3. Ages
  <2>1. SocketsHaveAccounts
    BY DEF GatewayInv
  <2> USE DEF GTypeOK, SocketsHaveAccounts
  <2>2. ASSUME NEW u \in User, Connect(k, u)
        PROVE  Ages
    BY <2>1, <2>2 DEF Connect
  <2>3. CASE Refuse(k)
    BY <2>1, <2>3 DEF Refuse
  <2>4. CASE HandshakeFails(k)
    BY <2>1, <2>4 DEF HandshakeFails
  <2>5. CASE LeaveWithoutEntry(k)
    BY <2>1, <2>5 DEF LeaveWithoutEntry
  <2> QED BY <2>2, <2>3, <2>4, <2>5
<1>4. \A l \in Socket : connectionBySocketId[l] # None => link[l] # "new"
  BY DEF GatewayInv, SocketsHaveAccounts
<1>5. SocketKeepsSession'
  BY <1>2, <1>3, <1>4 DEF GatewayInv, SocketKeepsSession
<1>6. EntriesAssigned'
  BY <1>2 DEF GatewayInv, EntriesAssigned
<1>7. SocketsHaveAccounts'
  BY <1>2, <1>3 DEF GatewayInv, SocketsHaveAccounts, GTypeOK
<1>8. ASSUME phase # "down", NEW p \in Op
      PROVE  HandlerInv(p)'
  <2>1. HandlerInv(p) /\ OperandsPresent(p)
    BY <1>8 DEF GatewayInv, RedisInv, OperationInv
  <2>2. caller[p].handler = "connect" =>
          account'[caller[p].socket] = account[caller[p].socket]
    BY <1>3 DEF GatewayInv, SocketsHaveAccounts
  <2>3. GatewayGrows
    BY <1>2, <1>3 DEF GatewayGrows
  <2>4. op[p].pc = "pub_online" => op[p].sid \notin assigned
    BY <2>1 DEF HandlerInv
  <2> QED BY <1>2, <2>1, <2>2, <2>3, <2>4, HandlerKeeps
<1>9. AnnouncedOnce <=> AnnouncedOnce'
  BY <1>2 DEF AnnouncedOnce
<1> QED BY <1>2, <1>5, <1>6, <1>7, <1>8, <1>9 DEF GatewayInv

\* A session runs out of time.
LEMMA ExpireKeepsGateway ==
  ASSUME GInv, NEW s \in Session, GExpire(s)
  PROVE  GatewayInv'
<1> USE DEF GInv, GExpire, Expire
<1>1. /\ UNCHANGED <<op, phase, used, assigned>>
      /\ UNCHANGED <<link, account, handshakes, connectionBySocketId, caller>>
      /\ lapsed' = lapsed \cup {s}
      /\ expired' \subseteq expired \cup {s}
      /\ sessionHash' = [sessionHash EXCEPT ![s] = None]
  BY DEF flowVars, memoryVars, socketVars, mapVars
<1>2. GatewayGrows
  BY <1>1 DEF GatewayGrows
<1>3. \A r \in Session : r \in lapsed' \/ sessionHash'[r] = sessionHash[r]
  BY <1>1 DEF TypeOK
<1>4. SocketKeepsSession' /\ EntriesAssigned'
  BY <1>1, <1>2, <1>3, EntriesKeep DEF TypeOK
<1>5. SocketsHaveAccounts'
  BY <1>1 DEF GatewayInv, SocketsHaveAccounts
<1>6. ASSUME phase # "down", NEW p \in Op
      PROVE  HandlerInv(p)'
  <2>1. HandlerInv(p) /\ OperandsPresent(p)
    BY <1>6 DEF GatewayInv, RedisInv, OperationInv
  <2>2. op[p].pc = "pub_online" =>
          /\ op[p].sid \notin assigned
          /\ op[p].sid \in lapsed'
               \/ sessionHash'[op[p].sid] = sessionHash[op[p].sid]
    BY <1>3, <2>1 DEF HandlerInv, OperandsPresent
  <2> QED BY <1>1, <1>2, <2>1, <2>2, HandlerKeeps
<1>7. AnnouncedOnce <=> AnnouncedOnce'
  BY <1>1 DEF AnnouncedOnce
<1> QED BY <1>1, <1>4, <1>5, <1>6, <1>7 DEF GatewayInv

\* What happens around the gateway keeps its invariant.
LEMMA EnvironmentKeepsGateway ==
  ASSUME GInv, GEnvironment
  PROVE  GatewayInv'
<1> USE DEF GInv
<1>1. ASSUME NEW s \in Session, GExpire(s)
      PROVE  GatewayInv'
  BY <1>1, ExpireKeepsGateway
<1>2. CASE GCrash
  <2>1. /\ phase' = "down" /\ assigned' = {} /\ expired' = {}
        /\ \A k \in Socket : connectionBySocketId'[k] = None
        /\ \A p \in Op : caller'[p] = NoCaller
    BY <1>2 DEF GCrash, Crash
  <2>2. SocketKeepsSession' /\ EntriesAssigned'
    BY <2>1 DEF SocketKeepsSession, EntriesAssigned
  <2>3. SocketsHaveAccounts'
    BY <1>2, <2>1
    DEF GCrash, GatewayInv, SocketsHaveAccounts, GTypeOK, NoCaller
  <2> QED BY <2>1, <2>2, <2>3 DEF GatewayInv
<1>3. ASSUME Restart \/ Listen,
             UNCHANGED <<socketVars, mapVars, caller, lapsed>>
      PROVE  GatewayInv'
  <2>1. /\ UNCHANGED <<sessionHash, used, assigned, expired>>
        /\ UNCHANGED <<link, account, handshakes, connectionBySocketId, caller,
                       lapsed>>
    BY <1>3 DEF Restart, Listen, redisVars, memoryVars, socketVars,
                mapVars
  <2>2. SocketKeepsSession' /\ EntriesAssigned' /\ SocketsHaveAccounts'
    BY <2>1 DEF GatewayInv, SocketKeepsSession, EntriesAssigned,
                SocketsHaveAccounts
  <2>3. CASE Listen
    <3>1. UNCHANGED op /\ (phase' = "down" <=> phase = "down")
      BY <2>3 DEF Listen, flowVars
    <3>2. (\A p \in Op : HandlerInv(p)) <=> (\A p \in Op : HandlerInv(p)')
      BY <2>1, <3>1 DEF HandlerInv
    <3>3. AnnouncedOnce <=> AnnouncedOnce'
      BY <3>1 DEF AnnouncedOnce
    <3> QED BY <2>1, <2>2, <3>1, <3>2, <3>3 DEF GatewayInv
  <2>4. CASE Restart
    <3>1. phase = "down" /\ phase' = "booting"
          /\ \A p \in Op : op'[p] = Idle /\ caller'[p] = NoCaller
      BY <2>1, <2>4 DEF Restart, GatewayInv
    <3>2. AnnouncedOnce' /\ \A p \in Op : HandlerInv(p)'
      BY <3>1, HandlerIdles DEF AnnouncedOnce, Idle
    <3> QED BY <2>1, <2>2, <3>1, <3>2 DEF GatewayInv
  <2> QED BY <1>3, <2>3, <2>4
<1> QED BY <1>1, <1>2, <1>3 DEF GEnvironment

-----------------------------------------------------------------------------
(* Theorems *)

\* Every step of the gateway is a step of PresenceService, or leaves it alone.
LEMMA NextRefines ==
  GTypeOK /\ SocketsHaveAccounts /\ [GNext]_gvars => [Next]_vars
<1> SUFFICES ASSUME GTypeOK, SocketsHaveAccounts, [GNext]_gvars
             PROVE  Next \/ UNCHANGED vars
  OBVIOUS
<1>1. ASSUME NEW k \in Socket, SocketStep(k)
      PROVE  Next \/ UNCHANGED vars
  <2>1. ASSUME NEW o \in Worker, Accept(k, o)
        PROVE  Next
    <3>1. account[k] \in User
      BY <2>1 DEF Accept, SocketsHaveAccounts
    <3> QED BY <2>1, <3>1 DEF Accept, Next, Call
  <2>2. ASSUME NEW o \in Worker, Leave(k, o) \/ Ping(k, o)
        PROVE  Next
    <3>1. connectionBySocketId[k] \in Session
      BY <2>2 DEF Leave, Ping, GTypeOK
    <3> QED BY <2>2, <3>1 DEF Leave, Ping, Next, Call
  <2> QED BY <1>1, <2>1, <2>2
          DEF SocketStep, Connect, Refuse, HandshakeFails, LeaveWithoutEntry
<1>2. ASSUME NEW o \in Op, GStep(o) \/ GFault(o) \/ Background(o)
      PROVE  Next
  BY <1>2 DEF GStep, GFault, Background, Next, Call
<1>3. CASE GEnvironment
  BY <1>3 DEF GEnvironment, GExpire, GCrash, Environment, Next
<1> QED BY <1>1, <1>2, <1>3 DEF GNext, gvars, vars

\* The variables of the gateway keep their types.
LEMMA GTypeNext ==
  ASSUME GTypeOK, TypeOK', [GNext]_gvars
  PROVE  GTypeOK'
<1> USE DEF GTypeOK, socketVars, mapVars
<1>0. NoCaller \in Caller /\ assigned' \subseteq Session
  BY DEF NoCaller, Caller, Handler, TypeOK
<1>1. ASSUME NEW k \in Socket, SocketStep(k)
      PROVE  GTypeOK'
  <2>1. ASSUME NEW o \in Worker, Accept(k, o)
        PROVE  GTypeOK'
    <3>1. [handler |-> "connect", socket |-> k, sid |-> None] \in Caller
      BY DEF Caller, Handler
    <3> QED BY <2>1, <3>1 DEF Accept
  <2>2. ASSUME NEW o \in Worker, Leave(k, o)
        PROVE  GTypeOK'
    <3>1. [handler |-> "disconnect", socket |-> k,
           sid |-> connectionBySocketId[k]] \in Caller
      BY DEF Caller, Handler
    <3> QED BY <2>2, <3>1 DEF Leave
  <2>3. ASSUME NEW o \in Worker, Ping(k, o)
        PROVE  GTypeOK'
    <3>1. [handler |-> "ping", socket |-> k,
           sid |-> connectionBySocketId[k]] \in Caller
      BY DEF Caller, Handler
    <3> QED BY <2>3, <3>1 DEF Ping
  <2>4. ASSUME NEW u \in User, Connect(k, u)
        PROVE  GTypeOK'
    BY <2>4 DEF Connect
  <2>5. CASE Refuse(k) \/ HandshakeFails(k) \/ LeaveWithoutEntry(k)
    BY <2>5 DEF Refuse, HandshakeFails, LeaveWithoutEntry
  <2> QED BY <1>1, <2>1, <2>2, <2>3, <2>4, <2>5 DEF SocketStep
<1>2. ASSUME NEW o \in Op, GStep(o)
      PROVE  GTypeOK'
  <2>1. caller' \in [Op -> Caller] /\ lapsed' \in SUBSET Session
    BY <1>0, <1>2 DEF GStep
  <2>2. CASE UNCHANGED <<socketVars, mapVars>>
    BY <2>1, <2>2
  <2>3. ASSUME NEW k, AfterConnect(k)
        PROVE  GTypeOK'
    BY <1>0, <2>1, <2>3 DEF AfterConnect
  <2>4. ASSUME NEW k, NEW s, AfterDisconnect(k, s) \/ AfterPing(o, k, s)
        PROVE  GTypeOK'
    BY <2>1, <2>4 DEF AfterDisconnect, AfterPing, RemoveEntry
  <2> QED BY <1>2, <2>2, <2>3, <2>4 DEF GStep
<1>3. ASSUME NEW o \in Op, GFault(o) \/ Background(o)
      PROVE  GTypeOK'
  BY <1>0, <1>3 DEF GFault, Background
<1>4. CASE GEnvironment
  BY <1>0, <1>4 DEF GEnvironment, GExpire, GCrash
<1>5. CASE UNCHANGED gvars
  BY <1>5 DEF gvars
<1> QED BY <1>1, <1>2, <1>3, <1>4, <1>5 DEF GNext

\* The inductive invariant holds at first.
LEMMA GInitInv == GInit => GInv
<1> SUFFICES ASSUME GInit
             PROVE  GInv
  OBVIOUS
<1>1. TypeOK /\ RedisInv
  BY InitInv DEF GInit
<1>2. GTypeOK
  BY DEF GInit, GTypeOK, NoCaller, Caller, Handler
<1>3. GatewayInv
  BY DEF GInit, Init, GatewayInv, SocketKeepsSession, EntriesAssigned,
         SocketsHaveAccounts, AnnouncedOnce, HandlerInv, NoCaller, Idle,
         RegisterPc, CleanupPc, RefreshPc
<1> QED BY <1>1, <1>2, <1>3 DEF GInv

\* Every step keeps the inductive invariant.
LEMMA GNextInv == GInv /\ [GNext]_gvars => GInv'
<1> SUFFICES ASSUME GInv, [GNext]_gvars
             PROVE  GInv'
  OBVIOUS
<1>1. TypeOK' /\ RedisInv'
  BY NextRefines, NextInv DEF GInv, GatewayInv
<1>2. GTypeOK'
  BY <1>1, GTypeNext DEF GInv
<1>3. ASSUME NEW k \in Socket, SocketStep(k)
      PROVE  GatewayInv'
  BY <1>3, SocketKeeps, AcceptKeeps, LeaveKeeps, PingKeeps DEF SocketStep, Op
<1>4. ASSUME NEW o \in Op, GStep(o) \/ GFault(o) \/ Background(o)
      PROVE  GatewayInv'
  BY <1>4, StepKeepsGateway, FaultKeepsGateway, BackgroundKeeps
<1>5. ASSUME GEnvironment
      PROVE  GatewayInv'
  BY <1>5, EnvironmentKeepsGateway
<1>6. ASSUME UNCHANGED gvars
      PROVE  GatewayInv'
  <2>1. GatewayInv
    BY DEF GInv
  <2>2. (\A o \in Op : HandlerInv(o)) => \A o \in Op : HandlerInv(o)'
    BY <1>6 DEF gvars, vars, HandlerInv
  <2>3. AnnouncedOnce => AnnouncedOnce'
    BY <1>6 DEF gvars, vars, AnnouncedOnce
  <2> QED BY <1>6, <2>1, <2>2, <2>3
          DEF gvars, vars, GatewayInv, SocketKeepsSession, EntriesAssigned,
              SocketsHaveAccounts
<1>7. GatewayInv'
  BY <1>3, <1>4, <1>5, <1>6 DEF GNext
<1> QED BY <1>1, <1>2, <1>7 DEF GInv

\* The gateway makes only the calls that PresenceService is specified for:
\* whatever holds of PresenceService holds of it under its gateway.
THEOREM GatewayRefines == GSpec => Spec
<1>1. GInit => Init
  BY DEF GInit
<1>2. GInv /\ [GNext]_gvars => [Next]_vars
  BY NextRefines DEF GInv, GatewayInv
<1> QED BY <1>1, <1>2, GInitInv, GNextInv, PTL DEF GSpec, Spec

\* The variables of the gateway always have their types: in particular the maps
\* hold session ids, and a handler that waits knows its socket.
THEOREM GatewayTypeCorrect == GSpec => []GTypeOK
<1>1. GInv => GTypeOK
  BY DEF GInv
<1> QED BY <1>1, GInitInv, GNextInv, PTL DEF GSpec

\* Handlers, map entries and sessions fit together in every reachable state.
THEOREM GatewayInvariant == GSpec => []GatewayInv
<1>1. GInv => GatewayInv
  BY DEF GInv
<1> QED BY <1>1, GInitInv, GNextInv, PTL DEF GSpec

\* For as long as a socket is open, the session in its map entry is live under
\* the user who connected, unless its time to live ran out: no sweep, no prune,
\* no late cleanup, no failed command and no other socket ends it.
THEOREM OpenSocketsKeepSessions == GSpec => []SocketKeepsSession
<1>1. GatewayInv => SocketKeepsSession
  BY DEF GatewayInv
<1> QED BY <1>1, GatewayInvariant, PTL

\* Through its gateway the service still implements SessionRegistry.
THEOREM GatewayImplementsRegistry == GSpec => RegistrySpec
<1> QED BY GatewayRefines, Refinement, PTL

-----------------------------------------------------------------------------
(* Entries and live sessions: OnlineMatchesSockets *)

Serves(o, k) == caller[o].handler # "none" /\ caller[o].socket = k

\* The handlers that end with the removal of their socket's entry.
Ending(o) == caller[o].handler \in {"disconnect", "ping"}

\* Registrations and refreshes have a handler, and so have the cleanups of
\* sessions whose time has not run out; a socket that connects has no entry and
\* one handler; a handler that ends a session works on the entry of its socket,
\* and announces only after the session is gone.
Attends(o) ==
  LET c == caller[o] IN
  /\ op[o].pc \in RegisterPc \cup {"pub_online"} => c.handler = "connect"
  /\ op[o].pc \in RefreshPc => c.handler = "ping"
  /\ op[o].pc \in CleanupPc /\ op[o].sid \notin lapsed => Ending(o)
  /\ c.handler = "connect" =>
       /\ connectionBySocketId[c.socket] = None
       /\ \A p \in Op : Serves(p, c.socket) => p = o
  /\ Ending(o) =>
       /\ c.sid \in assigned
       /\ op[o].pc \in CleanupPc \cup RefreshPc \cup {"pub_offline"}
       /\ op[o].pc \in CleanupPc \cup RefreshPc => op[o].sid = c.sid
       /\ op[o].pc = "pub_offline" => sessionHash[c.sid] = None
       /\ connectionBySocketId[c.socket] \in {None, c.sid}
       /\ \A k \in Socket : connectionBySocketId[k] = c.sid => k = c.socket

\* A socket at its handshake has neither an entry nor a handler.
Unattended(k) ==
  /\ connectionBySocketId[k] = None
  /\ \A o \in Op : ~ Serves(o, k)

\* The session of an entry is live, or about to lose the entry, or its time ran
\* out.
Backed(k) ==
  \/ connectionBySocketId[k] \in {None} \cup lapsed
  \/ sessionHash[connectionBySocketId[k]] = account[k]
  \/ \E o \in Op : /\ Ending(o) /\ op[o].pc = "pub_offline"
                   /\ caller[o].sid = connectionBySocketId[k]

\* A live session has an entry, or its registration is about to announce it.
Held(s) ==
  sessionHash[s] # None =>
    /\ s \notin lapsed
    /\ \/ \E k \in Socket : /\ connectionBySocketId[k] = s
                            /\ account[k] = sessionHash[s]
       \/ \E o \in Op : op[o].pc = "pub_online" /\ op[o].sid = s

AttendInv ==
  /\ \A o \in Op : Attends(o)
  /\ \A k \in handshakes : Unattended(k)
  /\ \A k \in Socket : Backed(k)
  /\ \A s \in Session : Held(s)
  /\ lapsed \subseteq used

\* A session that was used and is gone does not come back.
DeadStaysDead ==
  \A s \in used : sessionHash[s] = None => sessionHash'[s] = None

\* What Attends says of an operation survives what others do.
LEMMA AttendsKeeps ==
  ASSUME GInv, NEW p \in Op, Attends(p), op'[p] = op[p],
         caller'[p] = caller[p], assigned \subseteq assigned',
         lapsed \subseteq lapsed', DeadStaysDead,
         caller[p].handler = "connect" =>
           \A q \in Op : Serves(q, caller[p].socket)'
                           => Serves(q, caller[p].socket),
         \A k \in Socket :
           \/ connectionBySocketId'[k] \in {connectionBySocketId[k], None}
           \/ connectionBySocketId'[k] \notin assigned /\ ~ Serves(p, k)
  PROVE  Attends(p)'
<1> DEFINE c == caller[p]
<1>0. c.handler # "none" => c.socket \in Socket
  BY DEF GInv, GatewayInv, SocketsHaveAccounts
<1>1. ASSUME c.handler = "connect"
      PROVE  /\ connectionBySocketId'[c.socket] = None
             /\ \A q \in Op : Serves(q, c.socket)' => q = p
  BY <1>0, <1>1 DEF Attends, Serves
<1>2. ASSUME Ending(p)
      PROVE  /\ c.sid \in assigned'
             /\ op[p].pc = "pub_offline" => sessionHash'[c.sid] = None
             /\ connectionBySocketId'[c.socket] \in {None, c.sid}
             /\ \A k \in Socket :
                  connectionBySocketId'[k] = c.sid => k = c.socket
  <2>1. c.sid \in assigned /\ c.sid \in used /\ c.sid # None
        /\ c.handler # "none"
    BY <1>2 DEF Attends, GInv, GatewayInv, TypeOK, Ending
  <2>2. Serves(p, c.socket) /\ c.socket \in Socket
    BY <1>0, <2>1 DEF Serves
  <2> QED BY <1>2, <2>1, <2>2 DEF Attends, DeadStaysDead
<1>3. Ending(p)' <=> Ending(p)
  BY DEF Ending
<1>4. \A k : Serves(p, k)' <=> Serves(p, k)
  BY DEF Serves
<1> QED BY <1>1, <1>2, <1>3, <1>4 DEF Attends, Serves

LEMMA AttendsIdle ==
  ASSUME NEW o \in Op, op'[o] = Idle, caller'[o] = NoCaller
  PROVE  Attends(o)'
BY DEF Attends, Ending, Idle, NoCaller, RegisterPc, CleanupPc, RefreshPc

\* The entry of a socket that nothing touches stays backed.
LEMMA BackedKeeps ==
  ASSUME NEW k \in Socket, Backed(k), lapsed \subseteq lapsed',
         connectionBySocketId'[k] = connectionBySocketId[k],
         connectionBySocketId[k] # None => account'[k] = account[k],
         connectionBySocketId[k] # None /\ connectionBySocketId[k] \notin lapsed' =>
           sessionHash'[connectionBySocketId[k]]
             = sessionHash[connectionBySocketId[k]],
         \A o \in Op :
           Ending(o) /\ op[o].pc = "pub_offline"
               /\ caller[o].sid = connectionBySocketId[k]
             => op'[o] = op[o] /\ caller'[o] = caller[o]
  PROVE  Backed(k)'
BY DEF Backed, Ending

\* A session that nothing touches stays held.
LEMMA HeldKeeps ==
  ASSUME NEW s \in Session, Held(s),
         sessionHash'[s] \in {sessionHash[s], None},
         s \in lapsed' => s \in lapsed \/ sessionHash'[s] = None,
         \A k \in Socket : connectionBySocketId[k] = s =>
           connectionBySocketId'[k] = s /\ account'[k] = account[k],
         \A o \in Op : op[o].pc = "pub_online" /\ op[o].sid = s =>
           op'[o] = op[o]
  PROVE  Held(s)'
BY DEF Held

\* How an operation returns.
LEMMA ReturnKinds ==
  ASSUME TypeOK, NEW o \in Op, Step(o), Returns(o)
  PROVE  /\ \/ op[o].pc \in {"reg_script", "pub_online", "cln_script",
                             "pub_offline", "ref_script"}
                              \cup SweepPc \cup OrphanPc
            \/ op[o].pc = "cln_hgetall" /\ sessionHash[op[o].sid] = None
         /\ op[o].pc = "pub_online" => assigned' = assigned \cup {op[o].sid}
<1> USE FieldTypes DEF AtHead
<1>0. op'[o].pc = "idle"
  BY DEF Returns, Idle
<1>1. ASSUME NEW pc \in RegisterPc \cup CleanupPc \cup RefreshPc, NEW x,
             \/ Await(o, [op[o] EXCEPT !.pc = pc])
             \/ Await(o, [op[o] EXCEPT !.pc = pc, !.ids = x])
             \/ Await(o, [op[o] EXCEPT !.pc = pc, !.now = x])
             \/ Await(o, [op[o] EXCEPT !.pc = pc, !.user = x])
      PROVE  FALSE
  <2>1. \/ op'[o] = [op[o] EXCEPT !.pc = pc]
        \/ op'[o] = [op[o] EXCEPT !.pc = pc, !.ids = x]
        \/ op'[o] = [op[o] EXCEPT !.pc = pc, !.now = x]
        \/ op'[o] = [op[o] EXCEPT !.pc = pc, !.user = x]
    BY <1>1, AwaitMoves
  <2>2. op'[o].pc = pc
    BY <2>1 DEF OpState
  <2> QED BY <1>0, <1>1, <2>2 DEF RegisterPc, CleanupPc, RefreshPc
<1>2. CASE RegisterStep(o)
  <2>1. ~ PruneRead(o) /\ ~ PruneCheck(o) /\ ~ PruneRemove(o)
          /\ ~ RegisterTime(o)
    BY <1>1 DEF PruneRead, PruneCheck, PruneRemove, RegisterTime, RegisterPc
  <2> QED BY <1>2, <2>1
          DEF RegisterStep, RegisterScript, RegisterCollision, PublishOnline
<1>3. CASE CleanupStep(o)
  <2>1. ~ CleanupTime(o) /\ ~ RefreshTime(o)
    BY <1>1 DEF CleanupTime, RefreshTime, CleanupPc, RefreshPc
  <2>2. CleanupResolve(o) => sessionHash[op[o].sid] = None
    BY <1>1 DEF CleanupResolve, CleanupPc
  <2> QED BY <1>3, <2>1, <2>2
          DEF CleanupStep, CleanupResolve, CleanupScript, PublishOffline,
              RefreshScript
<1>4. CASE SweepStep(o)
  BY <1>4
  DEF SweepStep, SweepScan, SweepRead, SweepCheck, SweepRemove, SweepCount,
      SweepTime, SweepSetLastSeen, SweepPublish, OrphanScan, OrphanResolve,
      OrphanCheck, OrphanDelete, SweepPc, OrphanPc
<1> QED BY <1>2, <1>3, <1>4 DEF Step

\* The step of an operation leaves the others alone, and brings no session back.
LEMMA StepFrame ==
  ASSUME GInv, NEW o \in Op, GStep(o)
  PROVE  /\ Step(o) /\ Shape(o) /\ HandlerInv(o) /\ OperandsPresent(o)
         /\ \A p \in Op \ {o} : op'[p] = op[p] /\ caller'[p] = caller[p]
         /\ UNCHANGED <<account, handshakes, lapsed>>
         /\ assigned \subseteq assigned' /\ used \subseteq used'
         /\ assigned \subseteq used /\ DeadStaysDead
<1> USE DEF GInv
<1>1. Step(o) /\ Shape(o)
  BY StepShape DEF GStep
<1>2. HandlerInv(o) /\ OperandsPresent(o) /\ assigned \subseteq used
  BY <1>1 DEF Shape, GatewayInv, RedisInv, OperationInv
<1>3. \A p \in Op \ {o} : op'[p] = op[p]
  BY <1>1 DEF Shape, OnlyMoves
<1>4. \A p \in Op \ {o} : caller'[p] = caller[p]
  BY DEF GStep, GTypeOK
<1>5. UNCHANGED <<account, handshakes, lapsed>>
  BY DEF GStep, socketVars, AfterConnect, AfterDisconnect, AfterPing
<1>6. DeadStaysDead
  BY <1>1 DEF DeadStaysDead, Shape, Opens, Announces, Ends, Carries,
              RegisterEffect, TypeOK
<1>7. assigned \subseteq assigned' /\ used \subseteq used'
  BY StepGrows DEF GatewayGrows
<1> QED BY <1>1, <1>2, <1>3, <1>4, <1>5, <1>6, <1>7

\* So what Attends says of the others survives, if entries are only removed, or
\* added for the socket of a connecting handler.
LEMMA StepOthersAttend ==
  ASSUME GInv, AttendInv, NEW o \in Op, GStep(o),
         \A k \in Socket :
           \/ connectionBySocketId'[k] \in {connectionBySocketId[k], None}
           \/ /\ connectionBySocketId'[k] \notin assigned
              /\ caller[o].handler = "connect" /\ k = caller[o].socket
  PROVE  \A p \in Op \ {o} : Attends(p)'
<1> SUFFICES ASSUME NEW p \in Op \ {o}
             PROVE  Attends(p)'
  OBVIOUS
<1>1. /\ op'[p] = op[p] /\ caller'[p] = caller[p]
      /\ assigned \subseteq assigned' /\ lapsed \subseteq lapsed'
      /\ DeadStaysDead
  BY StepFrame
<1>2. caller'[o] \in {caller[o], NoCaller}
  BY DEF GStep, GInv, GTypeOK
<1>3. \A q \in Op : \A k : Serves(q, k)' => Serves(q, k)
  BY <1>2, StepFrame DEF Serves, NoCaller
<1>4. caller[o].handler = "connect" => ~ Serves(p, caller[o].socket)
  BY DEF AttendInv, Attends
<1> QED BY <1>1, <1>3, <1>4, AttendsKeeps DEF AttendInv

\* A socket at its handshake still has no handler, if it gets no entry.
LEMMA StepUnattended ==
  ASSUME GInv, AttendInv, NEW o \in Op, GStep(o),
         \A k \in handshakes :
           connectionBySocketId'[k] \in {connectionBySocketId[k], None}
  PROVE  \A k \in handshakes' : Unattended(k)'
<1>1. caller'[o] \in {caller[o], NoCaller} /\ handshakes' = handshakes
  BY StepFrame DEF GStep, GInv, GTypeOK
<1>2. \A q \in Op : \A k : Serves(q, k)' => Serves(q, k)
  BY <1>1, StepFrame DEF Serves, NoCaller
<1> QED BY <1>1, <1>2 DEF AttendInv, Unattended

\* The handler still waits.
LEMMA WaitingAttends ==
  ASSUME GInv, AttendInv, NEW o \in Op, GStep(o), ~ Returns(o)
  PROVE  AttendInv'
<1> USE DEF GInv, socketVars, mapVars
<1>1. /\ Shape(o) /\ op'[o] # Idle /\ HandlerInv(o) /\ OperandsPresent(o)
      /\ assigned \subseteq used
  BY StepFrame DEF Returns
<1>2. UNCHANGED <<account, handshakes, connectionBySocketId, caller, lapsed>>
  BY DEF GStep
<1>3. \A p \in Op \ {o} : op'[p] = op[p] /\ Attends(p)'
  BY <1>2, StepFrame, StepOthersAttend
<1>4. \A k \in handshakes' : Unattended(k)'
  BY <1>2, StepUnattended
<1>5. lapsed' \subseteq used'
  BY <1>2, StepFrame DEF AttendInv
<1>6. Attends(o)
  BY DEF AttendInv
<1>7. CASE Opens(o)
  <2>1. PICK s \in Session :
          /\ op[o].pc = "reg_script"
          /\ s \notin used
          /\ sessionHash' = [sessionHash EXCEPT ![s] = op[o].user]
          /\ op'[o].pc = "pub_online" /\ op'[o].sid = s
          /\ UNCHANGED assigned
    BY <1>1, <1>7 DEF Opens, RegisterEffect
  <2>2. Attends(o)'
    BY <1>2, <1>6, <2>1
    DEF Attends, Serves, Ending, RegisterPc, CleanupPc, RefreshPc
  <2>3. ASSUME NEW k \in Socket
        PROVE  Backed(k)'
    <3>1. connectionBySocketId[k] # None
            => connectionBySocketId[k] \in Session \ {s}
      BY <1>1, <2>1 DEF GatewayInv, EntriesAssigned, GTypeOK
    <3> QED BY <1>2, <1>3, <2>1, <3>1, BackedKeeps DEF AttendInv, TypeOK
  <2>4. ASSUME NEW r \in Session
        PROVE  Held(r)'
    <3>1. CASE r = s
      BY <1>2, <2>1, <3>1 DEF Held, AttendInv, TypeOK
    <3>2. CASE r # s
      BY <1>2, <1>3, <2>1, <3>2, HeldKeeps DEF AttendInv, TypeOK
    <3> QED BY <3>1, <3>2
  <2> QED BY <1>3, <1>4, <1>5, <2>2, <2>3, <2>4 DEF AttendInv
<1>8. CASE Ends(o)
  <2> DEFINE s == op[o].sid
  <2>1. /\ op[o].pc = "cln_script" /\ op'[o].pc = "pub_offline"
        /\ sessionHash' = [sessionHash EXCEPT ![s] = None]
        /\ UNCHANGED <<used, assigned>> /\ s \in Session
    BY <1>1, <1>8 DEF Ends, OperandsPresent, CleanupPc
  <2>2. Attends(o)'
    BY <1>2, <1>6, <2>1
    DEF Attends, Serves, Ending, RegisterPc, CleanupPc, RefreshPc, TypeOK
  <2>3. ASSUME NEW k \in Socket
        PROVE  Backed(k)'
    <3>1. CASE connectionBySocketId[k] = s /\ s \notin lapsed
      <4>1. Ending(o) /\ caller[o].sid = s
        BY <1>6, <2>1, <3>1 DEF Attends, CleanupPc
      <4> QED BY <1>2, <2>1, <3>1, <4>1 DEF Backed, Ending
    <3>2. CASE connectionBySocketId[k] # s \/ s \in lapsed
      BY <1>2, <1>3, <2>1, <3>2, BackedKeeps DEF AttendInv, GTypeOK, TypeOK
    <3> QED BY <3>1, <3>2
  <2>4. ASSUME NEW r \in Session
        PROVE  Held(r)'
    BY <1>2, <1>3, <2>1, HeldKeeps DEF AttendInv, TypeOK
  <2> QED BY <1>3, <1>4, <1>5, <2>2, <2>3, <2>4 DEF AttendInv
<1>9. CASE Carries(o)
  <2>1. UNCHANGED <<sessionHash, used, assigned>>
    BY <1>9 DEF Carries
  <2>2. op[o].pc \notin PublishPc
    BY <1>1, <1>9 DEF Carries, RegisterPc, CleanupPc, RefreshPc, SweepPc,
                      OrphanPc, PublishPc
  <2>3. Attends(o)'
    BY <1>1, <1>2, <1>6, <1>9, <2>1
    DEF Carries, Attends, Serves, Ending, RegisterPc, CleanupPc, RefreshPc,
        SweepPc, OrphanPc
  <2>4. ASSUME NEW k \in Socket
        PROVE  Backed(k)'
    BY <1>2, <1>3, <2>1, <2>2, BackedKeeps DEF AttendInv, PublishPc
  <2>5. ASSUME NEW r \in Session
        PROVE  Held(r)'
    BY <1>2, <1>3, <2>1, <2>2, HeldKeeps DEF AttendInv, PublishPc
  <2> QED BY <1>3, <1>4, <1>5, <2>3, <2>4, <2>5 DEF AttendInv
<1>10. ~ Announces(o)
  BY <1>1 DEF Announces
<1> QED BY <1>1, <1>7, <1>8, <1>9, <1>10 DEF Shape

\* registerConnection returned a session: the socket gets its entry.
LEMMA ConnectingAttends ==
  ASSUME GInv, AttendInv, NEW o \in Op, GStep(o), Returns(o),
         NEW s \in Session, s \notin assigned, assigned' = assigned \cup {s},
         caller[o].handler = "connect", AfterConnect(caller[o].socket),
         \A r \in Session \ {s} : sessionHash'[r] = sessionHash[r],
         sessionHash'[s] # None =>
           s \notin lapsed /\ sessionHash'[s] = account[caller[o].socket],
         sessionHash'[s] = None => s \in lapsed,
         op[o].pc = "pub_online" => op[o].sid = s
  PROVE  AttendInv'
<1> DEFINE k == caller[o].socket
<1> USE DEF GInv
<1>1. /\ UNCHANGED <<account, handshakes, lapsed>> /\ assigned \subseteq used
      /\ op'[o] = Idle /\ caller'[o] = NoCaller
      /\ \A p \in Op \ {o} : op'[p] = op[p] /\ caller'[p] = caller[p]
      /\ lapsed' \subseteq used' /\ Attends(o) /\ k \in Socket
  BY StepFrame
  DEF Returns, GStep, GTypeOK, AttendInv, GatewayInv, SocketsHaveAccounts
<1>2. connectionBySocketId' = [connectionBySocketId EXCEPT ![k] = s]
  BY DEF AfterConnect
<1>3. \A l \in Socket \ {k} :
        connectionBySocketId'[l] = connectionBySocketId[l]
  BY <1>2 DEF GTypeOK
<1>4. /\ connectionBySocketId'[k] = s /\ connectionBySocketId[k] = None
      /\ k \notin handshakes
  BY <1>1, <1>2 DEF GTypeOK, Attends, AttendInv, Unattended, Serves
<1>5. \A p \in Op : Attends(p)'
  BY <1>1, <1>3, <1>4, AttendsIdle, StepOthersAttend
<1>6. \A l \in handshakes' : Unattended(l)'
  BY <1>1, <1>3, <1>4, StepUnattended DEF GTypeOK
<1>7. ASSUME NEW l \in Socket
      PROVE  Backed(l)'
  <2>1. CASE l = k
    BY <1>1, <1>4, <2>1 DEF Backed
  <2>2. CASE l # k
    <3>1. /\ connectionBySocketId'[l] = connectionBySocketId[l]
          /\ connectionBySocketId[l] # None
               => connectionBySocketId[l] \in Session \ {s}
      BY <1>3, <2>2 DEF GatewayInv, EntriesAssigned, GTypeOK
    <3>2. ~ Ending(o)
      BY DEF Ending
    <3> QED BY <1>1, <3>1, <3>2, BackedKeeps DEF AttendInv
  <2> QED BY <2>1, <2>2
<1>8. ASSUME NEW r \in Session
      PROVE  Held(r)'
  <2>1. CASE r = s
    BY <1>1, <1>4, <2>1 DEF Held
  <2>2. CASE r # s
    BY <1>1, <1>3, <1>4, <2>2, HeldKeeps DEF AttendInv
  <2> QED BY <2>1, <2>2
<1> QED BY <1>1, <1>5, <1>6, <1>7, <1>8 DEF AttendInv

\* A handler returns and leaves the maps as they are: nothing was ended.
LEMMA LeavingAlone ==
  ASSUME GInv, AttendInv, NEW o \in Op, GStep(o), Returns(o), ~ Opens(o),
         op[o].pc # "pub_online",
         UNCHANGED <<sessionHash, connectionBySocketId>>,
         ~ (Ending(o) /\ op[o].pc = "pub_offline")
  PROVE  AttendInv'
<1>1. /\ UNCHANGED <<account, handshakes, lapsed>>
      /\ op'[o] = Idle /\ caller'[o] = NoCaller
      /\ \A p \in Op \ {o} : op'[p] = op[p] /\ caller'[p] = caller[p]
      /\ lapsed' \subseteq used'
  BY StepFrame DEF Returns, GStep, GTypeOK, AttendInv, GInv
<1>2. \A p \in Op : Attends(p)'
  BY <1>1, AttendsIdle, StepOthersAttend
<1>3. \A l \in handshakes' : Unattended(l)'
  BY <1>1, StepUnattended
<1>4. ASSUME NEW l \in Socket
      PROVE  Backed(l)'
  BY <1>1, BackedKeeps DEF AttendInv
<1>5. ASSUME NEW r \in Session
      PROVE  Held(r)'
  BY <1>1, HeldKeeps DEF AttendInv
<1> QED BY <1>1, <1>2, <1>3, <1>4, <1>5 DEF AttendInv

\* A handler returns from the end of its session and removes the entry.
LEMMA RemovingAttends ==
  ASSUME GInv, AttendInv, NEW o \in Op, GStep(o), Returns(o),
         Ending(o), op[o].pc \notin RefreshPc,
         RemoveEntry(caller[o].socket, caller[o].sid)
  PROVE  AttendInv'
<1> DEFINE c == caller[o]
<1> USE DEF GInv
<1>1. /\ UNCHANGED <<account, handshakes, lapsed>>
      /\ op'[o] = Idle /\ caller'[o] = NoCaller
      /\ \A p \in Op \ {o} : op'[p] = op[p] /\ caller'[p] = caller[p]
      /\ lapsed' \subseteq used' /\ Attends(o) /\ Shape(o)
  BY StepFrame DEF Returns, GStep, GTypeOK, AttendInv
<1>2. /\ c.sid \in Session /\ c.sid \in assigned /\ c.socket \in Socket
      /\ op[o].pc \in CleanupPc \cup {"pub_offline"}
  BY <1>1 DEF Attends, TypeOK, GatewayInv, SocketsHaveAccounts, Ending
<1>3. /\ \A r \in Session \ {c.sid} : sessionHash'[r] = sessionHash[r]
      /\ sessionHash'[c.sid] = None
  <2>1. CASE op[o].pc = "cln_script"
    <3>1. op[o].sid = c.sid
      BY <1>1, <2>1 DEF Attends, CleanupPc
    <3>2. sessionHash' = [sessionHash EXCEPT ![op[o].sid] = None]
      BY <2>1, StepFrame
      DEF Step, RegisterStep, PruneRead, PruneCheck, PruneRemove,
          RegisterTime, RegisterScript, RegisterCollision, PublishOnline,
          CleanupStep, CleanupResolve, CleanupTime, CleanupScript,
          CleanupEffect, PublishOffline, RefreshTime, RefreshScript,
          SweepStep, SweepScan, SweepRead, SweepCheck, SweepRemove, SweepCount,
          SweepTime, SweepSetLastSeen, SweepPublish, OrphanScan,
          OrphanResolve, OrphanCheck, OrphanDelete, AtHead
    <3> QED BY <1>2, <3>1, <3>2 DEF TypeOK
  <2>2. CASE op[o].pc # "cln_script"
    <3>1. UNCHANGED sessionHash
      BY <1>1, <1>2, <2>2
      DEF Shape, Opens, Announces, Ends, Carries, CleanupPc
    <3>2. \/ op[o].pc = "pub_offline"
          \/ op[o].pc = "cln_hgetall" /\ sessionHash[op[o].sid] = None
      BY <1>2, <2>2, ReturnKinds, StepFrame DEF CleanupPc, SweepPc, OrphanPc
    <3>3. sessionHash[c.sid] = None
      BY <1>1, <3>2 DEF Attends, CleanupPc
    <3> QED BY <3>1, <3>3
  <2> QED BY <2>1, <2>2
<1>4. /\ connectionBySocketId'[c.socket] = None
      /\ \A l \in Socket \ {c.socket} :
           connectionBySocketId'[l] = connectionBySocketId[l]
      /\ \A l \in Socket \ {c.socket} : connectionBySocketId[l] # c.sid
      /\ connectionBySocketId[c.socket] \in {None, c.sid}
  BY <1>1, <1>2 DEF RemoveEntry, GTypeOK, Attends
<1>5. \A l \in Socket :
        connectionBySocketId'[l] \in {connectionBySocketId[l], None}
  BY <1>4
<1>6. \A p \in Op : Attends(p)'
  BY <1>1, <1>5, AttendsIdle, StepOthersAttend
<1>7. \A l \in handshakes' : Unattended(l)'
  BY <1>5, StepUnattended DEF GTypeOK
<1>8. ASSUME NEW l \in Socket
      PROVE  Backed(l)'
  <2>1. CASE l = c.socket
    BY <1>4, <2>1 DEF Backed
  <2>2. CASE l # c.socket
    <3>1. connectionBySocketId[l] # c.sid
          /\ connectionBySocketId[l] \in Session \cup {None}
      BY <1>4, <2>2 DEF GTypeOK
    <3> QED BY <1>1, <1>3, <1>4, <2>2, <3>1, BackedKeeps DEF AttendInv
  <2> QED BY <2>1, <2>2
<1>9. ASSUME NEW r \in Session
      PROVE  Held(r)'
  <2>1. CASE r = c.sid
    BY <1>3, <2>1 DEF Held
  <2>2. CASE r # c.sid
    <3>1. \A l \in Socket : connectionBySocketId[l] = r =>
            connectionBySocketId'[l] = r
      BY <1>4, <2>2
    <3>2. op[o].pc # "pub_online"
      BY <1>2 DEF CleanupPc
    <3> QED BY <1>1, <1>3, <2>2, <3>1, <3>2, HeldKeeps DEF AttendInv
  <2> QED BY <2>1, <2>2
<1> QED BY <1>1, <1>6, <1>7, <1>8, <1>9 DEF AttendInv

\* So every step of a handler keeps entries and live sessions together.
LEMMA StepAttends ==
  ASSUME GInv, AttendInv, NEW o \in Op, GStep(o)
  PROVE  AttendInv'
<1> DEFINE c == caller[o]
<1> USE DEF GInv
<1>1. CASE ~ Returns(o)
  BY <1>1, WaitingAttends
<1>2. CASE Returns(o) /\ c.handler = "connect" /\ AfterConnect(c.socket)
  <2>1. /\ Step(o) /\ Shape(o) /\ HandlerInv(o) /\ OperandsPresent(o)
        /\ assigned \subseteq used /\ lapsed \subseteq used
    BY StepFrame DEF AttendInv
  <2>2. op[o].pc \in {"reg_script", "pub_online"} /\ op[o].user = account[c.socket]
    BY <1>2, <2>1, ReturnKinds
    DEF HandlerInv, RegisterPc, SweepPc, OrphanPc
  <2>3. CASE Opens(o)
    <3>1. PICK s \in Session :
            /\ s \notin used /\ op[o].pc = "reg_script"
            /\ sessionHash' = [sessionHash EXCEPT ![s] = op[o].user]
            /\ assigned' = assigned \cup {s}
      <4>1. op'[o].pc # "pub_online"
        BY <1>2 DEF Returns, Idle
      <4> QED BY <2>3, <4>1 DEF Opens, RegisterEffect
    <3>2. /\ \A r \in Session \ {s} : sessionHash'[r] = sessionHash[r]
          /\ sessionHash'[s] = account[c.socket]
          /\ op[o].user # None
      BY <2>1, <2>2, <3>1 DEF TypeOK, OperandsPresent, RegisterPc
    <3> QED BY <1>2, <2>1, <2>2, <3>1, <3>2, ConnectingAttends
  <2>4. CASE op[o].pc = "pub_online"
    <3>1. /\ op[o].sid \in Session /\ op[o].sid \notin assigned
          /\ op[o].sid \notin lapsed => sessionHash[op[o].sid] = op[o].user
          /\ op[o].user # None
      BY <2>1, <2>4 DEF HandlerInv, OperandsPresent, PublishPc
    <3>2. assigned' = assigned \cup {op[o].sid} /\ UNCHANGED sessionHash
      BY <1>2, <2>1, <2>4, ReturnKinds
      DEF Shape, Opens, Announces, Ends, Carries
    <3>3. sessionHash[op[o].sid] # None => op[o].sid \notin lapsed
      BY <3>1 DEF AttendInv, Held
    <3> QED BY <1>2, <2>2, <3>1, <3>2, <3>3, ConnectingAttends
  <2>5. CASE op[o].pc = "reg_script" /\ ~ Opens(o)
    <3>1. UNCHANGED <<sessionHash, assigned>>
      BY <2>1, <2>5 DEF Shape, Announces, Ends, Carries
    <3>2. UNCHANGED connectionBySocketId
      BY <1>2, <3>1 DEF AfterConnect
    <3> QED BY <1>2, <2>5, <3>1, <3>2, LeavingAlone
  <2> QED BY <2>2, <2>3, <2>4, <2>5
<1>3. CASE Returns(o) /\ c.handler = "disconnect"
             /\ AfterDisconnect(c.socket, c.sid)
  <2>1. op[o].pc \notin RefreshPc /\ Ending(o)
    BY <1>3 DEF AttendInv, Attends, Ending
  <2> QED BY <1>3, <2>1, RemovingAttends DEF AfterDisconnect
<1>4. CASE Returns(o) /\ c.handler = "ping" /\ AfterPing(o, c.socket, c.sid)
  <2>1. Attends(o) /\ Ending(o) /\ Step(o) /\ Shape(o)
    BY <1>4, StepFrame DEF AttendInv, Ending
  <2>2. CASE op[o].pc = "ref_script"
    <3>1. UNCHANGED <<sessionHash, connectionBySocketId>> /\ ~ Opens(o)
      BY <1>4, <2>1, <2>2
      DEF Shape, Opens, Announces, Ends, Carries, AfterPing, mapVars
    <3> QED BY <1>4, <2>2, <3>1, LeavingAlone
  <2>3. CASE op[o].pc # "ref_script"
    <3>1. op[o].pc \notin RefreshPc
      BY <1>4, <2>1, <2>3, ReturnKinds DEF RefreshPc, SweepPc, OrphanPc
    <3> QED BY <1>4, <2>1, <2>3, <3>1, RemovingAttends DEF AfterPing
  <2> QED BY <2>2, <2>3
<1>5. CASE Returns(o) /\ c.handler = "none" /\ UNCHANGED <<socketVars, mapVars>>
  <2>1. /\ Attends(o) /\ Shape(o) /\ OperandsPresent(o) /\ ~ Ending(o)
        /\ UNCHANGED connectionBySocketId
    BY <1>5, StepFrame DEF AttendInv, Ending, mapVars
  <2>2. op[o].pc \notin RegisterPc \cup {"pub_online"}
    BY <1>5, <2>1 DEF Attends
  <2>3. ~ Opens(o)
    BY <2>2 DEF Opens, RegisterPc
  <2>4. UNCHANGED sessionHash
    <3>1. CASE Ends(o)
      <4>1. op[o].sid \in Session /\ op[o].sid \in lapsed
        BY <2>1, <3>1 DEF Ends, CleanupPc, OperandsPresent, Attends
      <4>2. sessionHash[op[o].sid] = None
        BY <4>1 DEF AttendInv, Held
      <4> QED BY <3>1, <4>1, <4>2 DEF Ends, TypeOK
    <3>2. CASE Announces(o) \/ Carries(o)
      BY <3>2 DEF Announces, Carries
    <3> QED BY <2>1, <2>3, <3>1, <3>2 DEF Shape
  <2> QED BY <1>5, <2>1, <2>2, <2>3, <2>4, LeavingAlone
<1> QED BY <1>1, <1>2, <1>3, <1>4, <1>5 DEF GStep

\* A socket or the background calls: no session, entry or announcement changes,
\* and the operation that starts is no announcement.
LEMMA CallAttends ==
  ASSUME GInv, AttendInv, NEW o \in Op, NEW state, Start(o, state),
         state.pc \notin PublishPc, phase # "down",
         UNCHANGED <<sessionHash, used, assigned, lapsed, account,
                     connectionBySocketId>>,
         \A p \in Op \ {o} : caller'[p] = caller[p],
         handshakes' \subseteq handshakes,
         \A k \in handshakes' : ~ Serves(o, k)',
         \A p \in Op \ {o} : caller[p].handler = "connect" =>
           ~ Serves(o, caller[p].socket)',
         Attends(o)'
  PROVE  AttendInv'
<1>1. OnlyMoves(o) /\ op'[o] = state /\ op[o] = Idle
  BY StartMoves DEF GInv, Start
<1>2. op[o].pc \notin PublishPc
  BY <1>1 DEF Idle, PublishPc
<1>3. ASSUME NEW p \in Op \ {o}
      PROVE  Attends(p)'
  <2>1. op'[p] = op[p] /\ caller'[p] = caller[p] /\ Attends(p)
    BY <1>1 DEF OnlyMoves, AttendInv
  <2>2. caller[p].handler = "connect" =>
          \A q \in Op : Serves(q, caller[p].socket)'
                          => Serves(q, caller[p].socket)
    BY DEF Serves
  <2> QED BY <2>1, <2>2, AttendsKeeps DEF DeadStaysDead
<1>4. ASSUME NEW k \in handshakes'
      PROVE  Unattended(k)'
  BY <1>4 DEF AttendInv, Unattended, Serves
<1>5. ASSUME NEW k \in Socket
      PROVE  Backed(k)'
  <2>1. \A p \in Op : Ending(p) /\ op[p].pc = "pub_offline"
                        => op'[p] = op[p] /\ caller'[p] = caller[p]
    BY <1>1, <1>2 DEF OnlyMoves, PublishPc
  <2> QED BY <2>1, BackedKeeps DEF AttendInv
<1>6. ASSUME NEW s \in Session
      PROVE  Held(s)'
  <2>1. \A p \in Op : op[p].pc = "pub_online" => op'[p] = op[p]
    BY <1>1, <1>2 DEF OnlyMoves, PublishPc
  <2> QED BY <2>1, HeldKeeps DEF AttendInv
<1> QED BY <1>3, <1>4, <1>5, <1>6 DEF AttendInv

LEMMA AcceptAttends ==
  ASSUME GInv, AttendInv, NEW k \in Socket, NEW o \in Op, Accept(k, o)
  PROVE  AttendInv'
<1> USE DEF GInv
<1> DEFINE state == [Idle EXCEPT !.pc = "reg_smembers", !.user = account[k]]
<1>1. /\ Start(o, state) /\ phase # "down"
      /\ UNCHANGED <<sessionHash, used, assigned, lapsed, account,
                     connectionBySocketId>>
      /\ handshakes' = handshakes \ {k} /\ k \in handshakes
      /\ \A p \in Op \ {o} : caller'[p] = caller[p]
      /\ caller'[o] = [handler |-> "connect", socket |-> k, sid |-> None]
  BY DEF Accept, RegisterConnection, redisVars, memoryVars, otherVars, mapVars,
         GTypeOK
<1>2. state.pc = "reg_smembers" /\ op'[o] = state
  BY <1>1, StartMoves DEF Idle
<1>3. /\ Unattended(k) /\ k \in Socket /\ \A l : Serves(o, l)' <=> l = k
      /\ \A p \in Op \ {o} : \A l : Serves(p, l)' <=> Serves(p, l)
  BY <1>1 DEF AttendInv, Serves
<1>4. Attends(o)'
  BY <1>1, <1>2, <1>3
  DEF Attends, Unattended, Ending, RegisterPc, CleanupPc, RefreshPc
<1>5. \A p \in Op \ {o} : caller[p].handler = "connect" =>
        ~ Serves(o, caller[p].socket)'
  BY <1>3 DEF Unattended, Serves
<1> HIDE DEF state
<1> QED BY <1>1, <1>2, <1>3, <1>4, <1>5, CallAttends DEF PublishPc

LEMMA LeaveAttends ==
  ASSUME GInv, AttendInv, NEW k \in Socket, NEW o \in Op,
         Leave(k, o) \/ Ping(k, o)
  PROVE  AttendInv'
<1> USE DEF GInv
<1> DEFINE s == connectionBySocketId[k]
<1>1. /\ s \in Session /\ s \in assigned /\ s # None /\ phase # "down"
      /\ UNCHANGED <<sessionHash, used, assigned, lapsed, account,
                     connectionBySocketId, handshakes>>
      /\ \A p \in Op \ {o} : caller'[p] = caller[p]
      /\ caller'[o].handler \in {"disconnect", "ping"}
      /\ caller'[o].socket = k /\ caller'[o].sid = s
  BY DEF Leave, Ping, CleanupSession, RefreshSessionHeartbeat, redisVars,
         memoryVars, otherVars, mapVars, socketVars, GTypeOK
<1>2. PICK state :
        /\ Start(o, state) /\ state.sid = s
        /\ \/ state.pc \in CleanupPc
           \/ state.pc \in RefreshPc /\ caller'[o].handler = "ping"
  <2>1. CASE Leave(k, o)
    BY <1>1, <2>1, CleanupStartSid DEF Leave, CleanupSession
  <2>2. CASE Ping(k, o)
    <3> DEFINE state == [Idle EXCEPT !.pc = "ref_time", !.sid = s]
    <3>1. state.pc = "ref_time" /\ state.sid = s
      BY DEF Idle
    <3>2. Start(o, state) /\ caller'[o].handler = "ping"
      BY <2>2 DEF Ping, RefreshSessionHeartbeat, GTypeOK
    <3> QED BY <3>1, <3>2 DEF RefreshPc
  <2> QED BY <2>1, <2>2
<1>3. op'[o] = state
  BY <1>2, StartMoves
<1>4. \A l \in Socket : connectionBySocketId[l] = s => l = k
  BY <1>1 DEF GatewayInv, EntriesAssigned
<1>5. Attends(o)'
  BY <1>1, <1>2, <1>3, <1>4
  DEF Attends, Ending, RegisterPc, CleanupPc, RefreshPc
<1>6. \A l : Serves(o, l)' <=> l = k
  BY <1>1 DEF Serves
<1>7. k \notin handshakes
  BY <1>1 DEF AttendInv, Unattended
<1>8. \A p \in Op \ {o} : caller[p].handler = "connect" =>
        ~ Serves(o, caller[p].socket)'
  BY <1>1, <1>6 DEF AttendInv, Attends
<1>9. state.pc \notin PublishPc
  BY <1>2 DEF CleanupPc, RefreshPc, PublishPc
<1> QED BY <1>1, <1>2, <1>5, <1>6, <1>7, <1>8, <1>9, CallAttends

LEMMA BackgroundAttends ==
  ASSUME GInv, AttendInv, NEW o \in Op, Background(o)
  PROVE  AttendInv'
<1> USE DEF GInv
<1>1. UNCHANGED <<account, handshakes, connectionBySocketId, caller, lapsed>>
  BY DEF Background, socketVars, mapVars
<1>2. PICK state :
        /\ Start(o, state)
        /\ \/ state.pc \in CleanupPc /\ state.sid \in lapsed
           \/ state.pc = "swp_scan"
  <2>1. ASSUME NEW s \in Session, DeliverExpired(o, s)
        PROVE  /\ Start(o, CleanupStart(s)) /\ s \in lapsed
               /\ CleanupStart(s).pc \in CleanupPc /\ CleanupStart(s).sid = s
    BY <2>1, CleanupStartSid DEF DeliverExpired, GatewayInv
  <2>2. [Idle EXCEPT !.pc = "swp_scan"].pc = "swp_scan"
    BY DEF Idle
  <2> QED BY <2>1, <2>2 DEF Background, ReconcileSessions
<1>3. UNCHANGED <<sessionHash, used, assigned>> /\ phase # "down"
  BY DEF Background, DeliverExpired, ReconcileSessions, redisVars, memoryVars,
         otherVars
<1>4. op'[o] = state /\ op[o] = Idle
  BY <1>2, StartMoves DEF Start
<1>5. caller[o] = NoCaller
  BY <1>3, <1>4, FreeHasNoCaller
<1>6. Attends(o)' /\ \A l : ~ Serves(o, l)'
  BY <1>1, <1>2, <1>4, <1>5
  DEF Attends, Ending, Serves, NoCaller, RegisterPc, CleanupPc, RefreshPc
<1>7. state.pc \notin PublishPc
  BY <1>2 DEF CleanupPc, PublishPc
<1> QED BY <1>1, <1>2, <1>3, <1>6, <1>7, CallAttends

\* A socket connects, is refused, is forgotten or leaves without an entry.
LEMMA SocketAttends ==
  ASSUME GInv, AttendInv, NEW k \in Socket,
         \/ \E u \in User : Connect(k, u)
         \/ Refuse(k) \/ HandshakeFails(k) \/ LeaveWithoutEntry(k)
  PROVE  AttendInv'
<1> USE DEF GInv
<1>1. /\ UNCHANGED <<op, sessionHash, used, assigned>>
      /\ UNCHANGED <<connectionBySocketId, caller, lapsed>>
  BY DEF Connect, Refuse, HandshakeFails, LeaveWithoutEntry, mapVars, vars
<1>2. /\ \A p \in Op : Attends(p)' <=> Attends(p)
      /\ \A l : Unattended(l)' <=> Unattended(l)
  BY <1>1 DEF Attends, Ending, Serves, Unattended
<1>3. /\ \A l \in Socket : link[l] # "new" => account'[l] = account[l]
      /\ \A l \in handshakes' : l \in handshakes \/ link[l] = "new"
  BY DEF Connect, Refuse, HandshakeFails, LeaveWithoutEntry, GTypeOK
<1>4. SocketsHaveAccounts
  BY DEF GatewayInv
<1>5. ASSUME NEW l \in handshakes'
      PROVE  Unattended(l)'
  <2>1. CASE link[l] = "new"
    <3>1. l \in Socket
      BY DEF Connect, Refuse, HandshakeFails, LeaveWithoutEntry, GTypeOK
    <3>2. Unattended(l)
      BY <1>4, <2>1, <3>1 DEF SocketsHaveAccounts, Unattended, Serves
    <3> QED BY <1>2, <3>2
  <2> QED BY <1>2, <1>3, <1>5, <2>1 DEF AttendInv
<1>6. \A l \in Socket : connectionBySocketId[l] # None =>
        account'[l] = account[l]
  BY <1>3, <1>4 DEF SocketsHaveAccounts
<1>7. ASSUME NEW l \in Socket
      PROVE  Backed(l)'
  BY <1>1, <1>6, BackedKeeps DEF AttendInv
<1>8. ASSUME NEW s \in Session
      PROVE  Held(s)'
  BY <1>1, <1>6, HeldKeeps DEF AttendInv
<1> QED BY <1>1, <1>2, <1>5, <1>7, <1>8 DEF AttendInv

\* A session runs out of time.
LEMMA ExpireAttends ==
  ASSUME GInv, AttendInv, NEW s \in Session, GExpire(s)
  PROVE  AttendInv'
<1> USE DEF GInv
<1>1. /\ UNCHANGED <<op, used, assigned>>
      /\ UNCHANGED <<account, handshakes, connectionBySocketId, caller>>
      /\ lapsed' = lapsed \cup {s}
      /\ sessionHash[s] # None
      /\ sessionHash' = [sessionHash EXCEPT ![s] = None]
  BY DEF GExpire, Expire, flowVars, memoryVars, socketVars, mapVars
<1>2. s \in used
  BY <1>1 DEF RedisInv, LiveSessionIsMember, Live, MembersWereUsed, TypeOK
<1>3. ASSUME NEW p \in Op
      PROVE  Attends(p)'
  <2>1. DeadStaysDead
    BY <1>1 DEF DeadStaysDead, TypeOK
  <2>2. \A q : \A k : Serves(q, k)' <=> Serves(q, k)
    BY <1>1 DEF Serves
  <2> QED BY <1>1, <2>1, <2>2, AttendsKeeps DEF AttendInv
<1>4. \A l \in handshakes' : Unattended(l)'
  BY <1>1 DEF AttendInv, Unattended, Serves
<1>5. ASSUME NEW l \in Socket
      PROVE  Backed(l)'
  <2>1. connectionBySocketId[l] \in Session \cup {None}
    BY DEF GTypeOK
  <2> QED BY <1>1, <2>1, BackedKeeps DEF AttendInv, TypeOK
<1>6. ASSUME NEW r \in Session
      PROVE  Held(r)'
  <2>1. sessionHash'[r] = IF r = s THEN None ELSE sessionHash[r]
    BY <1>1 DEF TypeOK
  <2> QED BY <1>1, <2>1, HeldKeeps DEF AttendInv
<1> QED BY <1>1, <1>2, <1>3, <1>4, <1>5, <1>6 DEF AttendInv

OnlineInv == NoFault => AttendInv

\* A fault of the process that runs is counted, and so is a crash.
LEMMA FaultsCount ==
  ASSUME TypeOK, NoFault', phase # "down"
  PROVE  /\ \A o \in Op : ~ Fault(o)
         /\ ~ Crash
<1>1. failures \in Nat /\ crashes \in Nat
  BY DEF TypeOK
<1>2. ASSUME NEW o \in Op, Fault(o)
      PROVE  FALSE
  BY <1>1, <1>2 DEF NoFault, Fault, Reject, LoseReply, Drain, CanFail
<1>3. ~ Crash
  BY <1>1 DEF NoFault, Crash
<1> QED BY <1>2, <1>3

LEMMA NextAttends ==
  ASSUME GInv, SetsInv, OnlineInv, [GNext]_gvars
  PROVE  OnlineInv'
<1> SUFFICES ASSUME NoFault' PROVE AttendInv'
  BY DEF OnlineInv
<1> USE DEF GInv
<1>1. [Next]_vars
  BY NextRefines DEF GatewayInv
<1>2. NoFault /\ phase # "down"
  BY <1>1, FaultFreeKinds DEF SetsInv
<1>3. AttendInv
  BY <1>2 DEF OnlineInv
<1>4. ASSUME NEW k \in Socket, SocketStep(k)
      PROVE  AttendInv'
  BY <1>3, <1>4, SocketAttends, AcceptAttends, LeaveAttends DEF SocketStep, Op
<1>5. ASSUME NEW o \in Op, GStep(o) \/ GFault(o) \/ Background(o)
      PROVE  AttendInv'
  BY <1>2, <1>3, <1>5, StepAttends, BackgroundAttends, FaultsCount DEF GFault
<1>6. CASE GEnvironment
  <2>1. ~ GCrash /\ ~ Restart
    BY <1>2, FaultsCount DEF GCrash, Restart
  <2>2. CASE \E s \in Session : GExpire(s)
    BY <1>3, <2>2, ExpireAttends
  <2>3. CASE /\ Listen
             /\ UNCHANGED <<socketVars, mapVars, caller, lapsed>>
    <3>1. UNCHANGED <<op, sessionHash, used, assigned, account, handshakes,
                      connectionBySocketId, caller, lapsed>>
      BY <2>3 DEF Listen, redisVars, memoryVars, flowVars, socketVars,
                  mapVars
    <3> QED BY <1>3, <3>1
            DEF AttendInv, Attends, Ending, Serves, Unattended, Backed, Held
  <2> QED BY <1>6, <2>1, <2>2, <2>3 DEF GEnvironment
<1>7. CASE UNCHANGED gvars
  BY <1>3, <1>7
  DEF gvars, vars, AttendInv, Attends, Ending, Serves, Unattended, Backed, Held
<1> QED BY <1>4, <1>5, <1>6, <1>7 DEF GNext

LEMMA AttendHolds == GSpec => [](GInv /\ SettledInv /\ OnlineInv)
<1>1. GInit => OnlineInv
  <2> SUFFICES ASSUME GInit PROVE AttendInv
    BY DEF OnlineInv
  <2>1. /\ \A o \in Op : op[o] = Idle /\ caller[o] = NoCaller
        /\ \A k \in Socket : connectionBySocketId[k] = None
        /\ \A s \in Session : sessionHash[s] = None
        /\ handshakes = {} /\ lapsed = {}
    BY DEF GInit, Init
  <2>2. \A o \in Op : Attends(o)
    BY <2>1
    DEF Attends, Ending, Idle, NoCaller, RegisterPc, CleanupPc, RefreshPc
  <2> QED BY <2>1, <2>2 DEF AttendInv, Backed, Held
<1>2. GInv /\ SettledInv /\ OnlineInv /\ [GNext]_gvars => OnlineInv'
  BY NextAttends DEF SettledInv
<1> QED BY <1>1, <1>2, GInitInv, GNextInv, GatewayRefines, SetsHold, PTL
        DEF GSpec

\* A user has a live session exactly when the gateway holds an entry for it.
HeldAgrees ==
  GSettled /\ NoFault =>
    \A u \in User :
      Live(u) # {} <=>
        \E k \in Socket : /\ account[k] = u
                          /\ connectionBySocketId[k] \notin {None} \cup lapsed

LEMMA SettledEntries ==
  ASSUME GInv, SettledInv, OnlineInv
  PROVE  HeldAgrees
<1> SUFFICES ASSUME GSettled, NoFault, NEW u \in User
             PROVE  Live(u) # {} <=>
                      \E k \in Socket :
                        /\ account[k] = u
                        /\ connectionBySocketId[k] \notin {None} \cup lapsed
  BY DEF HeldAgrees
<1>1. AttendInv /\ \A o \in Op : op[o].pc = "idle"
  BY EmptyPipe DEF OnlineInv, GSettled, Quiescent, SettledInv, Idle
<1>2. ASSUME NEW s \in Live(u)
      PROVE  \E k \in Socket :
               /\ account[k] = u
               /\ connectionBySocketId[k] \notin {None} \cup lapsed
  <2>1. s \in Session /\ sessionHash[s] = u /\ u # None /\ s # None
    BY DEF Live
  <2>2. Held(s)
    BY <1>1, <2>1 DEF AttendInv
  <2> QED BY <1>1, <2>1, <2>2 DEF Held
<1>3. ASSUME NEW k \in Socket, account[k] = u,
             connectionBySocketId[k] \notin {None} \cup lapsed
      PROVE  Live(u) # {}
  <2>1. connectionBySocketId[k] \in Session
    BY <1>3 DEF GInv, GTypeOK
  <2>2. sessionHash[connectionBySocketId[k]] = u
    BY <1>1, <1>3 DEF AttendInv, Backed
  <2> QED BY <2>1, <2>2 DEF Live
<1> QED BY <1>2, <1>3

\* When everything has settled without a fault, a user has a live session
\* exactly when one of the sockets the gateway still has an entry for is the
\* user's and its time did not run out, with sweeps and with registrations that
\* give up: no session is left without a handler to end it, and no entry without
\* a session.
THEOREM EntriesMatchSessions == GSpec => []HeldAgrees
<1>1. GInv /\ SettledInv /\ OnlineInv => HeldAgrees
  BY SettledEntries
<1> QED BY <1>1, AttendHolds, PTL

\* So where the announcements agree with the sessions, they agree with the
\* sockets: without a fault, a sweep that announces or a registration that gives
\* up, a user was last announced as online exactly when the gateway has an entry
\* for the user whose session did not run out of time, whenever everything has
\* settled.
THEOREM AnnouncementsMatchSockets ==
  ASSUME NobodyGivesUp
  PROVE  GSpec /\ []SweepsAnnounceNothing => []OnlineMatchesSockets
<1>1. HeldAgrees /\ AnnouncementMatchesSessions => OnlineMatchesSockets
  <2> SUFFICES ASSUME HeldAgrees, AnnouncementMatchesSessions, GSettled /\ NoFault, NEW u \in User
               PROVE  LastEvent(u) = "user_online" <=>
                        \E k \in Socket :
                          /\ account[k] = u
                          /\ connectionBySocketId[k] \notin {None} \cup lapsed
    BY DEF OnlineMatchesSockets
  <2>1. LastEvent(u) = "user_online" <=> Live(u) # {}
    BY DEF AnnouncementMatchesSessions, GSettled
  <2> QED BY <2>1 DEF HeldAgrees
<1>2. GSpec /\ []SweepsAnnounceNothing => []AnnouncementMatchesSessions
  BY GatewayRefines, AnnouncementsSettle, PTL
<1> QED BY <1>1, <1>2, EntriesMatchSessions, PTL
=============================================================================
