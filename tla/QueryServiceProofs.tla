-------------------------- MODULE QueryServiceProofs --------------------------
(***************************************************************************)
(* What the answers of query-service are worth, for every instance: an     *)
(* online answer is true, an offline answer is true unless somebody        *)
(* connected meanwhile.  The argument needs what PresenceServiceProofs     *)
(* shows of the keys, and that an id is never used twice.                  *)
(***************************************************************************)
EXTENDS QueryService, PresenceServiceProofs

-----------------------------------------------------------------------------
(* Queries only read *)

\* A step of a query changes nothing of ws-service and of Redis.
LEMMA QueryReads ==
  ASSUME NEW q \in Asker, QueryStep(q)
  PROVE  UNCHANGED vars
BY DEF QueryStep, GetPresence, GetPresenceBatch, Ask, ReadCount, ReadLastSeen,
       ReadMembers, CheckMembers, QueryFails, Answer, Becomes

LEMMA QueryStepMaps == [QNext]_qvars => [Next]_vars
BY QueryReads DEF QNext, qvars

\* ws-service among queries behaves as it does without them.
THEOREM QueryRefines == QSpec => Spec
BY QueryStepMaps, PTL DEF QSpec, QInit, Spec

-----------------------------------------------------------------------------
(* The keys between two reads of a query *)

\* Whatever happens, a used id keeps the identity in its hash or loses the hash.
LEMMA NextDecays ==
  ASSUME TypeOK, RedisInv, [Next]_vars
  PROVE  HashDecay
<1>0. MemberInv /\ \A o \in Op : OperationInv(o)
  BY DEF RedisInv, MemberInv
<1>1. ASSUME UNCHANGED <<redisVars, used>>
      PROVE  HashDecay
  BY <1>0, <1>1, ReadKeeps
<1>2. ASSUME NEW o \in Op, RedisWrite(o)
      PROVE  HashDecay
  BY <1>0, <1>2, RedisWriteKeeps
<1>3. ASSUME NEW o \in Op, Call(o) \/ ReconcileSessions(o)
      PROVE  HashDecay
  BY <1>1, <1>3
     DEF Call, RegisterConnection, CleanupSession, DeliverExpired,
         RefreshSessionHeartbeat, ReconcileSessions, otherVars
<1>4. ASSUME NEW o \in Op, Step(o)
      PROVE  HashDecay
  BY <1>1, <1>2, <1>4, StepWrites
<1>5. ASSUME NEW o \in Op, Fault(o)
      PROVE  HashDecay
  BY <1>1, <1>2, <1>5 DEF Fault, Reject, LoseReply, Drain, redisVars
<1>6. CASE Environment
  <2>1. ASSUME NEW s \in Session, Expire(s)
        PROVE  HashDecay
    BY <2>1 DEF Expire, HashDecay, TypeOK
  <2>2. CASE Crash \/ Restart \/ Listen
    BY <1>1, <2>2 DEF Crash, Restart, Listen
  <2> QED BY <1>6, <2>1, <2>2 DEF Environment
<1>7. CASE UNCHANGED vars
  BY <1>1, <1>7 DEF vars, redisVars
<1> QED BY <1>3, <1>4, <1>5, <1>6, <1>7 DEF Next, Op

\* When nobody was registered, nobody comes to life.
LEMMA LiveShrinks ==
  ASSUME TypeOK', RedisInv', HashDecay, used' = used, NEW u \in User
  PROVE  Live(u)' \subseteq Live(u)
<1> SUFFICES ASSUME NEW s \in Session, sessionHash'[s] = u
             PROVE  sessionHash[s] = u
  BY DEF Live
<1>1. s \in used'
  BY DEF RedisInv, LiveSessionIsMember, MembersWereUsed, Live
<1> QED BY <1>1, PresenceAssumption DEF HashDecay

-----------------------------------------------------------------------------
(* The invariant *)

\* The members a query has read were used, and belong to its user for as long as
\* they live.
MembersOwned(q) ==
  query[q].pc = "exists" =>
    \A s \in query[q].ids :
      s \in used /\ sessionHash[s] \in {None, query[q].user}

\* Without a registration since the query began, what it has found gone is gone,
\* and what it has not read yet is in what it has read.
NothingMissed(q) ==
  used = query[q].before =>
    /\ \A u \in User : query[q].status[u] = "offline" => Live(u) = {}
    /\ query[q].pc = "get" /\ ~ query[q].counted => Live(query[q].user) = {}
    /\ query[q].pc = "exists" => Live(query[q].user) \subseteq query[q].ids

\* A query that awaits a reply is about somebody.
Asking(q) == query[q].pc \notin {"idle", "done"} => query[q].user \in User

\* getPresence says online last.
NoneYet(q) ==
  query[q].kind = "single" /\ query[q].pc # "done" =>
    \A u \in User : query[q].status[u] # "online"

QueryInv(q) ==
  /\ query[q].before \subseteq used
  /\ NoneYet(q)
  /\ Asking(q)
  /\ MembersOwned(q)
  /\ NothingMissed(q)

QInv == QTypeOK /\ \A q \in Asker : QueryInv(q)

\* No query has begun.
LEMMA QInitInv == QInit => QInv
<1> SUFFICES ASSUME QInit
             PROVE  QInv
  OBVIOUS
<1>1. NoQuery \in QueryState
  BY DEF NoQuery, NoAnswer, QueryState
<1>2. QTypeOK
  BY <1>1 DEF QInit, QTypeOK
<1>3. ASSUME NEW q \in Asker
      PROVE  QueryInv(q)
  <2>1. query[q] = NoQuery
    BY DEF QInit
  <2> QED BY <2>1 DEF QueryInv, Asking, MembersOwned, NothingMissed, NoneYet,
                      NoQuery, NoAnswer
<1> QED BY <1>2, <1>3 DEF QInv

\* A step of ws-service takes nothing from what a query knows.
LEMMA ServiceKeeps ==
  ASSUME TypeOK, TypeOK', RedisInv, RedisInv', QInv, [Next]_vars,
         UNCHANGED query
  PROVE  QInv'
<1>1. HashDecay
  BY NextDecays
<1>2. QTypeOK'
  BY DEF QInv, QTypeOK, QueryState
<1>3. ASSUME NEW q \in Asker
      PROVE  QueryInv(q)'
  <2>0. QueryInv(q) /\ query[q].before \in SUBSET Session
    BY DEF QInv, QTypeOK, QueryState
  <2>1. (query[q].before \subseteq used)' /\ Asking(q)' /\ NoneYet(q)'
    BY <1>1, <2>0 DEF QueryInv, Asking, NoneYet, HashDecay
  <2>2. MembersOwned(q)'
    BY <1>1, <2>0 DEF QueryInv, MembersOwned, HashDecay
  <2>3. ASSUME used' = query[q].before
        PROVE  used' = used
    BY <1>1, <2>0, <2>3 DEF QueryInv, HashDecay
  <2>4. ASSUME used' = query[q].before, NEW u \in User
        PROVE  Live(u)' \subseteq Live(u)
    BY <1>1, <2>3, <2>4, LiveShrinks
  <2>5. NothingMissed(q)'
    BY <2>0, <2>3, <2>4 DEF QueryInv, Asking, NothingMissed
  <2> QED BY <2>1, <2>2, <2>5 DEF QueryInv
<1> QED BY <1>2, <1>3 DEF QInv

\* The other queries stay where they are.
OnlyAsks(q) == \A r \in Asker \ {q} : query'[r] = query[r]

\* One query moves, all keep their types.
LEMMA BecomesType ==
  ASSUME QTypeOK, NEW q \in Asker, NEW state \in QueryState, Becomes(q, state)
  PROVE  QTypeOK' /\ OnlyAsks(q) /\ query'[q] = state /\ UNCHANGED vars
BY DEF QTypeOK, Becomes, OnlyAsks

\* Its state is the given one.
LEMMA BecomesIs ==
  ASSUME QTypeOK, NEW q \in Asker, NEW state, Becomes(q, state)
  PROVE  query'[q] = state
BY DEF QTypeOK, Becomes

\* The answer about a user is an answer.
LEMMA ToldType ==
  ASSUME QTypeOK, NEW q \in Asker, query[q].user \in User,
         NEW status \in {"online", "offline"}
  PROVE  /\ Told(q, status) \in [User -> {"none", "online", "offline"}]
         /\ \A u \in User :
              Told(q, status)[u] = IF u = query[q].user
                                     THEN status ELSE query[q].status[u]
<1>1. query[q].status \in [User -> {"none", "online", "offline"}]
  BY DEF QTypeOK, QueryState
<1> QED BY <1>1 DEF Told

\* What GET of last_seen adds is a time.
LEMMA SeenType ==
  ASSUME TypeOK, QTypeOK, NEW q \in Asker, query[q].user \in User
  PROVE  Seen(q) \in [User -> Nat]
<1>1. query[q].seen \in [User -> Nat] /\ lastSeen[query[q].user] \in Nat
  BY DEF QTypeOK, QueryState, TypeOK
<1> QED BY <1>1 DEF Seen

\* What a query found is not disturbed by the steps of others.
LEMMA OtherQueriesKeep ==
  ASSUME QInv, UNCHANGED vars, NEW r \in Asker, query'[r] = query[r]
  PROVE  QueryInv(r)'
BY DEF QInv, QueryInv, Asking, MembersOwned, NothingMissed, NoneYet, Live,
       vars

\* A query begins, knowing nothing.
LEMMA AskKeeps ==
  ASSUME TypeOK, QInv, NEW q \in Asker, NEW kind \in {"single", "batch"},
         NEW u \in User, NEW others \in SUBSET User, Ask(q, kind, u, others)
  PROVE  QTypeOK' /\ OnlyAsks(q) /\ QueryInv(q)'
<1> DEFINE r == [NoQuery EXCEPT !.pc = "scard", !.kind = kind, !.user = u,
                                !.todo = others, !.before = used,
                                !.heard = Heard]
<1>1. /\ r \in QueryState
      /\ r.pc = "scard" /\ r.user = u /\ r.before = used /\ r.status = NoAnswer
  <2>1. /\ NoQuery \in QueryState /\ used \in SUBSET Session
        /\ Heard \in SUBSET User /\ NoQuery.status = NoAnswer
    BY DEF NoQuery, NoAnswer, QueryState, TypeOK, Heard
  <2> QED BY <2>1 DEF QueryState
<1>2. Becomes(q, r)
  BY DEF Ask
<1> HIDE DEF r
<1>3. QTypeOK' /\ OnlyAsks(q) /\ query'[q] = r /\ UNCHANGED vars
  BY <1>1, <1>2, BecomesType DEF QInv
<1>4. QueryInv(q)'
  BY <1>1, <1>3 DEF QueryInv, Asking, MembersOwned, NothingMissed, NoneYet,
                    NoAnswer, vars
<1> QED BY <1>3, <1>4

\* SCARD: no members, no live session.
LEMMA ReadCountKeeps ==
  ASSUME TypeOK, RedisInv, QInv, NEW q \in Asker, ReadCount(q)
  PROVE  QTypeOK' /\ OnlyAsks(q) /\ QueryInv(q)'
<1> DEFINE u == query[q].user
           r == [query[q] EXCEPT !.pc = "get", !.counted = userSessions[u] # {}]
<1>0. /\ u \in User /\ QueryInv(q) /\ query[q] \in QueryState
      /\ query[q].pc = "scard"
  BY DEF ReadCount, QInv, QueryInv, Asking, QTypeOK
<1>1. /\ r \in QueryState
      /\ r.pc = "get" /\ r.user = u
      /\ r.counted <=> userSessions[u] # {}
      /\ r.status = query[q].status /\ r.before = query[q].before
      /\ r.kind = query[q].kind
  BY <1>0 DEF QueryState
<1>2. Becomes(q, r)
  BY DEF ReadCount
<1> HIDE DEF r
<1>3. QTypeOK' /\ OnlyAsks(q) /\ query'[q] = r /\ UNCHANGED vars
  BY <1>1, <1>2, BecomesType DEF QInv
<1>4. userSessions[u] = {} => Live(u) = {}
  BY <1>0 DEF RedisInv, LiveSessionIsMember
<1>5. NothingMissed(q)'
  BY <1>0, <1>1, <1>3, <1>4 DEF QueryInv, NothingMissed, Live, vars
<1>6. QueryInv(q)'
  BY <1>0, <1>1, <1>3, <1>5 DEF QueryInv, Asking, MembersOwned, NoneYet, vars
<1> QED BY <1>3, <1>6

\* An answer about the user that is read, true if it says offline.
LEMMA AnswerKeeps ==
  ASSUME TypeOK, QInv, NEW q \in Asker, query[q].user \in User,
         NEW status \in {"online", "offline"}, Answer(q, status),
         status = "offline" /\ used = query[q].before
           => Live(query[q].user) = {}
  PROVE  QTypeOK' /\ OnlyAsks(q) /\ QueryInv(q)'
<1> DEFINE r == [query[q] EXCEPT !.pc = "done", !.status = Told(q, status)]
<1>0. QueryInv(q) /\ query[q] \in QueryState
  BY DEF QInv, QTypeOK
<1>1. /\ r \in QueryState
      /\ r.pc = "done" /\ r.before = query[q].before
      /\ r.status = Told(q, status)
  BY <1>0, ToldType DEF QueryState, QInv
<1>2. Becomes(q, r)
  BY DEF Answer
<1> HIDE DEF r
<1>3. QTypeOK' /\ OnlyAsks(q) /\ query'[q] = r /\ UNCHANGED vars
  BY <1>1, <1>2, BecomesType DEF QInv
<1>4. \A u \in User : r.status[u] = "offline" /\ used = r.before
                        => Live(u) = {}
  BY <1>0, <1>1, ToldType DEF QueryInv, NothingMissed, QInv
<1>5. QueryInv(q)'
  BY <1>0, <1>1, <1>3, <1>4
     DEF QueryInv, Asking, MembersOwned, NothingMissed, NoneYet, Live,
           vars
<1> QED BY <1>3, <1>5

\* GET of last_seen, with what it leads to.
LEMMA ReadLastSeenKeeps ==
  ASSUME TypeOK, RedisInv, QInv, NEW q \in Asker, ReadLastSeen(q)
  PROVE  QTypeOK' /\ OnlyAsks(q) /\ QueryInv(q)'
<1> DEFINE u == query[q].user
           told == Told(q, Counted(q))
<1>0. /\ u \in User /\ QueryInv(q) /\ query[q] \in QueryState
      /\ query[q].pc = "get"
  BY DEF ReadLastSeen, QInv, QueryInv, Asking, QTypeOK
<1>1. Seen(q) \in [User -> Nat]
  BY <1>0, SeenType DEF QInv
<1>2. /\ told \in [User -> {"none", "online", "offline"}]
      /\ \A v \in User : told[v] = IF v = u THEN Counted(q)
                                            ELSE query[q].status[v]
  BY <1>0, ToldType DEF QInv, Counted
<1>3. used = query[q].before =>
        \A v \in User : told[v] = "offline" => Live(v) = {}
  BY <1>0, <1>2 DEF QueryInv, NothingMissed, Counted
<1> HIDE DEF told
<1>4. ASSUME NEW r \in QueryState, Becomes(q, r),
             r.pc \in {"smembers", "done", "scard"}, r.kind = query[q].kind,
             r.pc = "smembers" => r.status = query[q].status,
             r.pc = "scard" => r.kind = "batch",
             r.status \in {query[q].status, told},
             r.before = query[q].before, r.user \in User
      PROVE  QTypeOK' /\ OnlyAsks(q) /\ QueryInv(q)'
  <2>1. QTypeOK' /\ OnlyAsks(q) /\ query'[q] = r /\ UNCHANGED vars
    BY <1>4, BecomesType DEF QInv
  <2>2. \A v \in User : r.status[v] = "offline" /\ used = r.before
                          => Live(v) = {}
    BY <1>0, <1>3, <1>4 DEF QueryInv, NothingMissed
  <2>3. QueryInv(q)'
    BY <1>0, <1>4, <2>1, <2>2
       DEF QueryInv, Asking, MembersOwned, NothingMissed, NoneYet, Live,
           vars
  <2> QED BY <2>1, <2>3
<1>5. CASE Becomes(q, [query[q] EXCEPT !.pc = "smembers", !.seen = Seen(q)])
  BY <1>0, <1>1, <1>4, <1>5 DEF QueryState
<1>6. CASE Becomes(q, [query[q] EXCEPT !.pc = "done", !.seen = Seen(q),
                                       !.status = told])
  BY <1>0, <1>1, <1>2, <1>4, <1>6 DEF QueryState
<1>7. ASSUME NEW v \in query[q].todo,
             Becomes(q, [query[q] EXCEPT !.pc = "scard", !.seen = Seen(q),
                                         !.status = told, !.user = v,
                                         !.todo = @ \ {v}]),
             query[q].kind = "batch"
      PROVE  QTypeOK' /\ OnlyAsks(q) /\ QueryInv(q)'
  BY <1>0, <1>1, <1>2, <1>4, <1>7 DEF QueryState
<1> QED BY <1>5, <1>6, <1>7 DEF ReadLastSeen, told

\* SMEMBERS: what is read is the user's own, and all that lives.
LEMMA ReadMembersKeeps ==
  ASSUME TypeOK, RedisInv, QInv, NEW q \in Asker, ReadMembers(q)
  PROVE  QTypeOK' /\ OnlyAsks(q) /\ QueryInv(q)'
<1> DEFINE u == query[q].user
           members == userSessions[u]
           r == [query[q] EXCEPT !.pc = "exists", !.ids = members]
<1>0. /\ u \in User /\ QueryInv(q) /\ query[q] \in QueryState
      /\ query[q].pc = "smembers"
  BY DEF ReadMembers, QInv, QueryInv, Asking, QTypeOK
<1>1. Live(u) \subseteq members /\ members \in SUBSET Session
  BY <1>0 DEF RedisInv, LiveSessionIsMember, TypeOK
<1>2. \A s \in members : s \in used /\ sessionHash[s] \in {None, u}
  BY <1>0, <1>1 DEF RedisInv, MembersWereUsed, SoleOwner, LiveSessionIsMember,
                    Live, TypeOK
<1>3. CASE members = {} /\ Answer(q, "offline")
  BY <1>0, <1>1, <1>3, AnswerKeeps
<1>4. CASE Becomes(q, r)
  <2>1. /\ r \in QueryState
        /\ r.pc = "exists" /\ r.ids = members /\ r.user = u
        /\ r.status = query[q].status /\ r.before = query[q].before
        /\ r.kind = query[q].kind
    BY <1>0, <1>1 DEF QueryState
  <2> HIDE DEF r
  <2>2. QTypeOK' /\ OnlyAsks(q) /\ query'[q] = r /\ UNCHANGED vars
    BY <1>4, <2>1, BecomesType DEF QInv
  <2>3. NothingMissed(q)'
    BY <1>0, <1>1, <2>1, <2>2 DEF QueryInv, NothingMissed, Live, vars
  <2>4. MembersOwned(q)'
    BY <1>2, <2>1, <2>2 DEF MembersOwned, vars
  <2>5. QueryInv(q)'
    BY <1>0, <2>1, <2>2, <2>3, <2>4 DEF QueryInv, Asking, NoneYet, vars
  <2> QED BY <2>2, <2>5
<1> QED BY <1>3, <1>4 DEF ReadMembers

\* EXISTS: if none of the members lives, nobody does who lived at SMEMBERS.
LEMMA CheckMembersKeeps ==
  ASSUME TypeOK, QInv, NEW q \in Asker, CheckMembers(q)
  PROVE  QTypeOK' /\ OnlyAsks(q) /\ QueryInv(q)'
<1>0. query[q].user \in User /\ QueryInv(q) /\ query[q].pc = "exists"
  BY DEF CheckMembers, QInv, QueryInv, Asking
<1>1. CASE Stale(query[q].ids) = query[q].ids /\ Answer(q, "offline")
  <2>1. used = query[q].before => Live(query[q].user) = {}
    BY <1>0, <1>1, PresenceAssumption
       DEF QueryInv, NothingMissed, Stale, Live
  <2> QED BY <1>0, <1>1, <2>1, AnswerKeeps
<1>2. CASE Answer(q, "online")
  BY <1>0, <1>2, AnswerKeeps
<1> QED BY <1>1, <1>2 DEF CheckMembers

\* A query that fails forgets what it knew.
LEMMA QueryFailsKeeps ==
  ASSUME TypeOK, QInv, NEW q \in Asker, QueryFails(q)
  PROVE  QTypeOK' /\ OnlyAsks(q) /\ QueryInv(q)'
<1>1. NoQuery \in QueryState
  BY DEF NoQuery, NoAnswer, QueryState
<1>2. QTypeOK' /\ OnlyAsks(q) /\ query'[q] = NoQuery /\ UNCHANGED vars
  BY <1>1, BecomesType DEF QueryFails, QInv
<1>3. QueryInv(q)'
  BY <1>2 DEF QueryInv, Asking, MembersOwned, NothingMissed, NoneYet, NoQuery,
              NoAnswer
<1> QED BY <1>2, <1>3

\* Any step of a query.
LEMMA QueryStepKeeps ==
  ASSUME TypeOK, RedisInv, QInv, NEW q \in Asker, QueryStep(q)
  PROVE  QTypeOK' /\ OnlyAsks(q) /\ QueryInv(q)'
<1>1. ASSUME NEW u \in User, GetPresence(q, u)
      PROVE  QTypeOK' /\ OnlyAsks(q) /\ QueryInv(q)'
  BY <1>1, AskKeeps DEF GetPresence
<1>2. ASSUME NEW us \in SUBSET User, GetPresenceBatch(q, us)
      PROVE  QTypeOK' /\ OnlyAsks(q) /\ QueryInv(q)'
  BY <1>2, AskKeeps DEF GetPresenceBatch
<1> QED BY <1>1, <1>2, ReadCountKeeps, ReadLastSeenKeeps, ReadMembersKeeps,
        CheckMembersKeeps, QueryFailsKeeps DEF QueryStep

\* The invariant of the queries is kept by every step.
LEMMA QNextInv ==
  ASSUME TypeOK, TypeOK', RedisInv, RedisInv', QInv, [QNext]_qvars
  PROVE  QInv'
<1>1. ASSUME NEW q \in Asker, QueryStep(q)
      PROVE  QInv'
  <2>1. UNCHANGED vars
    BY <1>1, QueryReads
  <2>2. QTypeOK' /\ OnlyAsks(q) /\ QueryInv(q)'
    BY <1>1, QueryStepKeeps
  <2>3. ASSUME NEW r \in Asker
        PROVE  QueryInv(r)'
    BY <2>1, <2>2, OtherQueriesKeep DEF OnlyAsks
  <2> QED BY <2>2, <2>3 DEF QInv
<1>2. CASE Next /\ UNCHANGED query
  BY <1>2, ServiceKeeps
<1>3. CASE UNCHANGED qvars
  BY <1>3, ServiceKeeps DEF qvars
<1> QED BY <1>1, <1>2, <1>3 DEF QNext

-----------------------------------------------------------------------------
(* The theorems *)

\* All that is known of ws-service and of its queries holds in every state.
LEMMA QueryInvariant == QSpec => [](TypeOK /\ RedisInv /\ QInv)
<1>1. QSpec => [](TypeOK /\ RedisInv)
  BY QueryRefines, TypeCorrect, RedisInvariant, PTL
<1>2. TypeOK /\ TypeOK' /\ RedisInv /\ RedisInv' /\ QInv /\ [QNext]_qvars
        => QInv'
  BY QNextInv
<1> QED BY <1>1, <1>2, QInitInv, PTL DEF QSpec

\* The queries keep their types, whatever ws-service does between their reads.
THEOREM QueryTypeCorrect == QSpec => []QTypeOK
<1>1. QInv => QTypeOK
  BY DEF QInv
<1> QED BY <1>1, QueryInvariant, PTL


\* An answer is given by a step of its query, while the keys stand still.
LEMMA AnsweredStep ==
  ASSUME TypeOK, RedisInv, QInv, [QNext]_qvars, NEW q \in Asker, Answered(q)
  PROVE  QueryStep(q) /\ UNCHANGED vars
<1>1. query'[q] # query[q]
  BY DEF Answered
<1>2. PICK p \in Asker : QueryStep(p)
  BY <1>1 DEF QNext, qvars
<1>3. OnlyAsks(p)
  BY <1>2, QueryStepKeeps
<1>4. p = q
  BY <1>1, <1>3 DEF OnlyAsks
<1> QED BY <1>2, <1>4, QueryReads

\* getPresence answers online about the user who was asked for, of whom an
\* EXISTS has just found a session.
LEMMA OnlineStep ==
  ASSUME TypeOK, RedisInv, QInv, [QNext]_qvars,
         NEW q \in Asker, NEW u \in User, Answered(q), query[q].kind = "single",
         Says(q, u, "online")
  PROVE  Live(u) # {}
<1>0. /\ QueryInv(q) /\ query[q] \in QueryState
      /\ query[q].pc # "done" /\ query[q].status[u] # "online"
  BY DEF QInv, QueryInv, NoneYet, QTypeOK, Answered
<1>1. ASSUME NEW status, query'[q].status = Told(q, status)
      PROVE  u = query[q].user /\ status = "online"
  BY <1>0, <1>1 DEF Told, QueryState, Says
<1>2. ASSUME NEW status \in {"online", "offline"}, Answer(q, status)
      PROVE  u = query[q].user /\ status = "online"
  <2> DEFINE r == [query[q] EXCEPT !.pc = "done", !.status = Told(q, status)]
  <2>1. r.status = Told(q, status)
    BY <1>0 DEF QueryState
  <2> HIDE DEF r
  <2>2. query'[q] = r
    BY <1>2, BecomesIs DEF Answer, r, QInv
  <2> QED BY <1>1, <2>1, <2>2
<1>3. CASE CheckMembers(q)
  <2>1. u = query[q].user /\ Stale(query[q].ids) # query[q].ids
    BY <1>2, <1>3 DEF CheckMembers
  <2>2. PICK s \in query[q].ids : sessionHash[s] # None
    BY <2>1 DEF Stale
  <2>3. s \in Session /\ sessionHash[s] = u
    BY <1>0, <1>3, <2>1, <2>2
       DEF QueryInv, MembersOwned, CheckMembers, QueryState
  <2> QED BY <2>3 DEF Live
<1>4. ~ ReadMembers(q)
  <2> DEFINE r == [query[q] EXCEPT !.pc = "exists",
                                   !.ids = userSessions[query[q].user]]
  <2>1. ~ Answer(q, "offline")
    BY <1>2
  <2>2. r.pc = "exists"
    BY <1>0 DEF QueryState
  <2> HIDE DEF r
  <2>3. ~ Becomes(q, r)
    BY <2>2, BecomesIs DEF Answered, QInv
  <2> QED BY <2>1, <2>3 DEF ReadMembers, r
<1>5. ~ ReadLastSeen(q)
  <2> DEFINE r == [query[q] EXCEPT !.pc = "smembers", !.seen = Seen(q)]
             d == [query[q] EXCEPT !.pc = "done", !.seen = Seen(q),
                                   !.status = Told(q, Counted(q))]
  <2>1. r.pc = "smembers" /\ d.status = Told(q, Counted(q))
    BY <1>0 DEF QueryState
  <2> HIDE DEF r, d
  <2>2. ~ Becomes(q, r)
    BY <2>1, BecomesIs DEF Answered, QInv
  <2>3. ~ query[q].counted => ~ Becomes(q, d)
    BY <1>1, <2>1, BecomesIs DEF Counted, QInv
  <2> QED BY <2>2, <2>3 DEF ReadLastSeen, r, d
<1>6. ASSUME NEW kind, NEW v, NEW others
      PROVE  ~ Ask(q, kind, v, others)
  BY <1>0 DEF Ask, Becomes, Answered, NoQuery, QInv, QTypeOK
<1>7. ~ ReadCount(q)
  <2> DEFINE r == [query[q] EXCEPT !.pc = "get",
                     !.counted = userSessions[query[q].user] # {}]
  <2>1. r.pc = "get"
    BY <1>0 DEF QueryState
  <2> HIDE DEF r
  <2> QED BY <2>1, BecomesIs DEF ReadCount, Answered, QInv, r
<1>8. ~ QueryFails(q)
  BY <1>0 DEF QueryFails, Becomes, NoQuery, Answered, QInv, QTypeOK
<1>9. QueryStep(q)
  BY AnsweredStep
<1> QED BY <1>3, <1>4, <1>5, <1>6, <1>7, <1>8, <1>9
        DEF QueryStep, GetPresence, GetPresenceBatch

\* An online answer of getPresence about a user means a live session of that
\* very user, whatever was registered, removed, swept or lost since it began.
THEOREM OnlineAnswersAreTrue == QSpec => OnlineAnswerTrue
<1>1. TypeOK /\ RedisInv /\ QInv /\ [QNext]_qvars
        => [\A q \in Asker : \A u \in User :
              Answered(q) /\ query[q].kind = "single" /\ Says(q, u, "online")
                => Live(u) # {}]_qvars
  BY OnlineStep
<1> QED BY <1>1, QueryInvariant, PTL DEF QSpec, OnlineAnswerTrue

\* An offline answer, of a single or a batch query, is true when it leaves
\* unless a session was registered while the query was in progress.
THEOREM OfflineAnswersAreTrue == QSpec => OfflineAnswerTrue
<1>1. ASSUME TypeOK, RedisInv, QInv, QInv', [QNext]_qvars,
             NEW q \in Asker, NEW u \in User, Answered(q),
             Says(q, u, "offline"), used = query'[q].before
      PROVE  Live(u) = {}
  <2>1. UNCHANGED vars
    BY <1>1, AnsweredStep
  <2>2. QueryInv(q)'
    BY <1>1 DEF QInv
  <2> QED BY <1>1, <2>1, <2>2 DEF QueryInv, NothingMissed, Says, Live, vars
<1>2. TypeOK /\ RedisInv /\ QInv /\ QInv' /\ [QNext]_qvars
        => [\A q \in Asker : \A u \in User :
              Answered(q) /\ Says(q, u, "offline") /\ used = query'[q].before
                => Live(u) = {}]_qvars
  BY <1>1
<1> QED BY <1>2, QueryInvariant, PTL DEF QSpec, OfflineAnswerTrue

-----------------------------------------------------------------------------
(* The last_seen of an offline answer *)

\* Who was announced offline when the query began has a last_seen, and the
\* query has read it before it says so.
HeardInv(q) ==
  \A u \in query[q].heard :
    /\ lastSeen[u] # 0
    /\ query[q].status[u] = "offline" => query[q].seen[u] # 0
    /\ query[q].pc \in {"smembers", "exists"} /\ query[q].user = u
         => query[q].seen[u] # 0

AllHeard == \A q \in Asker : HeardInv(q)

\* A query goes on with an answer it has a time for.
LEMMA HeardGoesOn ==
  ASSUME QTypeOK, NEW q \in Asker, HeardInv(q), NEW r, Becomes(q, r),
         r.heard = query[q].heard,
         \A u \in query[q].heard :
           lastSeen[u] # 0 =>
             /\ r.status[u] = "offline" => r.seen[u] # 0
             /\ r.pc \in {"smembers", "exists"} /\ r.user = u => r.seen[u] # 0
  PROVE  HeardInv(q)'
<1>1. query'[q] = r /\ UNCHANGED lastSeen
  BY BecomesIs DEF Becomes, vars
<1> QED BY <1>1 DEF HeardInv

\* A query begins with what has been heard.
LEMMA AskHears ==
  ASSUME TypeOK, QTypeOK, ClockInv, NEW q \in Asker, NEW kind, NEW u,
         NEW others, Ask(q, kind, u, others)
  PROVE  HeardInv(q)'
<1> DEFINE r == [NoQuery EXCEPT !.pc = "scard", !.kind = kind, !.user = u,
                                !.todo = others, !.before = used,
                                !.heard = Heard]
<1>1. r.pc = "scard" /\ r.heard = Heard /\ r.status = NoAnswer
  BY DEF NoQuery
<1>2. Becomes(q, r)
  BY DEF Ask
<1> HIDE DEF r
<1>3. query'[q] = r /\ UNCHANGED lastSeen
  BY <1>2, BecomesIs DEF Becomes, vars
<1>4. \A v \in Heard : v \in User /\ lastSeen[v] # 0
  BY DEF Heard, ClockInv, EndsDated, OfflineHasLastSeen
<1> QED BY <1>1, <1>3, <1>4 DEF HeardInv, NoAnswer

\* The replies: GET comes before any answer about the user.
LEMMA ReplyHears ==
  ASSUME TypeOK, QTypeOK, NEW q \in Asker, HeardInv(q), Asking(q),
         ReadCount(q) \/ ReadLastSeen(q) \/ ReadMembers(q) \/ CheckMembers(q)
  PROVE  HeardInv(q)'
<1> DEFINE u == query[q].user
<1>0. /\ u \in User /\ query[q] \in QueryState
      /\ query[q].heard \in SUBSET User
      /\ query[q].seen \in [User -> Nat]
      /\ query[q].status \in [User -> {"none", "online", "offline"}]
  BY DEF ReadCount, ReadLastSeen, ReadMembers, CheckMembers, Asking, QTypeOK,
         QueryState
<1>1. CASE ReadCount(q)
  <2> DEFINE r == [query[q] EXCEPT !.pc = "get",
                                   !.counted = userSessions[u] # {}]
  <2>1. /\ r.pc = "get" /\ r.heard = query[q].heard
        /\ r.status = query[q].status /\ r.seen = query[q].seen
    BY <1>0 DEF QueryState
  <2>2. Becomes(q, r)
    BY <1>1 DEF ReadCount
  <2> HIDE DEF r
  <2> QED BY <2>1, <2>2, HeardGoesOn DEF HeardInv
<1>2. ASSUME NEW status \in {"online", "offline"}, Answer(q, status),
             query[q].pc \in {"smembers", "exists"}
      PROVE  HeardInv(q)'
  <2> DEFINE r == [query[q] EXCEPT !.pc = "done", !.status = Told(q, status)]
  <2>1. /\ r.pc = "done" /\ r.heard = query[q].heard
        /\ r.status = Told(q, status) /\ r.seen = query[q].seen
    BY <1>0 DEF QueryState
  <2>2. Becomes(q, r)
    BY <1>2 DEF Answer
  <2>3. \A v \in User : Told(q, status)[v] = IF v = u THEN status
                                             ELSE query[q].status[v]
    BY <1>0, ToldType
  <2> HIDE DEF r
  <2> QED BY <1>0, <1>2, <2>1, <2>2, <2>3, HeardGoesOn DEF HeardInv
<1>3. CASE ReadMembers(q)
  <2> DEFINE r == [query[q] EXCEPT !.pc = "exists", !.ids = userSessions[u]]
  <2>1. /\ r.heard = query[q].heard /\ r.user = u
        /\ r.status = query[q].status /\ r.seen = query[q].seen
    BY <1>0 DEF QueryState
  <2> HIDE DEF r
  <2>2. CASE Becomes(q, r)
    BY <1>3, <2>1, <2>2, HeardGoesOn DEF HeardInv, ReadMembers
  <2>3. CASE Answer(q, "offline")
    BY <1>2, <1>3, <2>3 DEF ReadMembers
  <2> QED BY <1>3, <2>2, <2>3 DEF ReadMembers, r
<1>4. CASE CheckMembers(q)
  BY <1>2, <1>4 DEF CheckMembers
<1>5. CASE ReadLastSeen(q)
  <2>1. \A v \in User : Seen(q)[v] = IF v = u THEN lastSeen[u]
                                              ELSE query[q].seen[v]
    BY <1>0 DEF Seen
  <2>2. \A v \in User : Told(q, Counted(q))[v] = IF v = u THEN Counted(q)
                                                ELSE query[q].status[v]
    BY <1>0, ToldType DEF Counted
  <2>3. ASSUME NEW r, Becomes(q, r), r.heard = query[q].heard,
               r.seen = Seen(q),
               \/ r.pc = "smembers" /\ r.user = u /\ r.status = query[q].status
               \/ r.pc \in {"done", "scard"} /\ r.status = Told(q, Counted(q))
        PROVE  HeardInv(q)'
    BY <1>0, <2>1, <2>2, <2>3, HeardGoesOn DEF HeardInv
  <2> DEFINE a == [query[q] EXCEPT !.pc = "smembers", !.seen = Seen(q)]
             b == [query[q] EXCEPT !.pc = "done", !.seen = Seen(q),
                                   !.status = Told(q, Counted(q))]
             c(v) == [query[q] EXCEPT !.pc = "scard", !.seen = Seen(q),
                                      !.status = Told(q, Counted(q)),
                                      !.user = v, !.todo = @ \ {v}]
  <2>4. /\ a.pc = "smembers" /\ a.user = u /\ a.status = query[q].status
        /\ a.heard = query[q].heard /\ a.seen = Seen(q)
    BY <1>0 DEF QueryState
  <2>5. /\ b.pc = "done" /\ b.status = Told(q, Counted(q))
        /\ b.heard = query[q].heard /\ b.seen = Seen(q)
    BY <1>0 DEF QueryState
  <2>6. \A v : /\ c(v).pc = "scard" /\ c(v).status = Told(q, Counted(q))
               /\ c(v).heard = query[q].heard /\ c(v).seen = Seen(q)
    BY <1>0 DEF QueryState
  <2> HIDE DEF a, b, c
  <2>7. CASE Becomes(q, a)
    BY <2>3, <2>4, <2>7
  <2>8. CASE Becomes(q, b)
    BY <2>3, <2>5, <2>8
  <2>9. ASSUME NEW v, Becomes(q, c(v))
        PROVE  HeardInv(q)'
    BY <2>3, <2>6, <2>9
  <2> QED BY <1>5, <2>7, <2>8, <2>9 DEF ReadLastSeen, a, b, c
<1> QED BY <1>1, <1>3, <1>4, <1>5

\* Every step keeps it: last_seen never goes back.
LEMMA HeardStep ==
  ASSUME TypeOK, RedisInv, ClockInv, QInv, AllHeard, [QNext]_qvars
  PROVE  AllHeard'
<1> USE DEF QInv, AllHeard
<1>1. ASSUME NEW q \in Asker, query'[q] = query[q]
      PROVE  HeardInv(q)'
  <2>1. \A u \in User : lastSeen[u] <= lastSeen'[u]
    BY QueryStepMaps, ClockStep
  <2>2. TypeOK'
    BY QueryStepMaps, NextInv
  <2>3. lastSeen \in [User -> Nat] /\ lastSeen' \in [User -> Nat]
    BY <2>2 DEF TypeOK
  <2>4. \A u \in User : lastSeen[u] # 0 => lastSeen'[u] # 0
    BY <2>1, <2>3
  <2>5. query[q].heard \in SUBSET User
    BY DEF QTypeOK, QueryState
  <2> QED BY <1>1, <2>4, <2>5 DEF HeardInv
<1>2. ASSUME NEW q \in Asker, QueryStep(q)
      PROVE  HeardInv(q)'
  <2>1. ASSUME NEW kind, NEW u, NEW others, Ask(q, kind, u, others)
        PROVE  HeardInv(q)'
    BY <2>1, AskHears
  <2>2. CASE ReadCount(q) \/ ReadLastSeen(q) \/ ReadMembers(q)
               \/ CheckMembers(q)
    BY <2>2, ReplyHears DEF QueryInv
  <2>3. CASE QueryFails(q)
    <3>1. query'[q] = NoQuery
      BY <2>3, BecomesIs DEF QueryFails
    <3> QED BY <3>1 DEF HeardInv, NoQuery
  <2> QED BY <1>2, <2>1, <2>2, <2>3
          DEF QueryStep, GetPresence, GetPresenceBatch
<1>3. ASSUME NEW q \in Asker, NEW r \in Asker \ {q}, QueryStep(q)
      PROVE  query'[r] = query[r]
  <2>1. \A state : Becomes(q, state) => query'[r] = query[r]
    BY DEF Becomes, QTypeOK
  <2> QED BY <1>3, <2>1
          DEF QueryStep, GetPresence, GetPresenceBatch, Ask, ReadCount,
              ReadLastSeen, ReadMembers, CheckMembers, QueryFails, Answer
<1>4. CASE UNCHANGED query
  BY <1>1, <1>4
<1>5. ASSUME NEW q \in Asker, QueryStep(q)
      PROVE  \A r \in Asker : HeardInv(r)'
  BY <1>1, <1>2, <1>3, <1>5
<1> QED BY <1>4, <1>5 DEF QNext, qvars

\* Whoever hears user_offline and then asks gets a last_seen with an offline
\* answer, single or batch, whatever happens while the query is in progress.
THEOREM OfflineAnswersAreDated == QSpec => []OfflineAnswerHasLastSeen
<1>1. QInit => AllHeard
  BY DEF QInit, AllHeard, HeardInv, NoQuery
<1>2. TypeOK /\ RedisInv /\ ClockInv /\ QInv /\ AllHeard /\ [QNext]_qvars
        => AllHeard'
  BY HeardStep
<1>3. AllHeard => OfflineAnswerHasLastSeen
  BY DEF AllHeard, HeardInv, OfflineAnswerHasLastSeen
<1> QED BY <1>1, <1>2, <1>3, QueryInvariant, QueryRefines, ClockHolds, PTL
        DEF QSpec
=============================================================================
