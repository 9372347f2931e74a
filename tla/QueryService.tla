----------------------------- MODULE QueryService -----------------------------
(***************************************************************************)
(* Presence queries: PresenceService of query-service                      *)
(* (apps/query-service/src/app.service.ts), reading the Redis keys that    *)
(* PresenceService of ws-service writes meanwhile.                         *)
(*                                                                         *)
(* query-service has a Redis connection of its own.  Its commands keep     *)
(* their order among themselves, also inside a pipeline, but commands of   *)
(* ws-service can be executed between any two of them; so each is a step.  *)
(* Queries write nothing.                                                  *)
(***************************************************************************)
EXTENDS PresenceService

CONSTANT Asker   \* slots for queries in progress

VARIABLE query

qvars == <<vars, query>>

NoAnswer == [u \in User |-> "none"]

\* The locals of a query: the command it awaits, the users still to read, the
\* user it reads, whether SCARD was positive, the members read, and the answer.
\* before and heard are history: the ids registered, and the users last
\* announced offline, when it began.
NoQuery == [pc |-> "idle", kind |-> "single", todo |-> {}, user |-> None,
            counted |-> FALSE, ids |-> {}, status |-> NoAnswer,
            seen |-> [u \in User |-> 0], before |-> {}, heard |-> {}]

QueryState ==
  [pc: {"idle", "scard", "get", "smembers", "exists", "done"},
   kind: {"single", "batch"}, todo: SUBSET User, user: User \cup {None},
   counted: BOOLEAN, ids: SUBSET Session,
   status: [User -> {"none", "online", "offline"}], seen: [User -> Nat],
   before: SUBSET Session, heard: SUBSET User]

QTypeOK == query \in [Asker -> QueryState]

QInit == Init /\ query = [q \in Asker |-> NoQuery]

-----------------------------------------------------------------------------
(* The calls *)

\* Query q goes on in the given state; ws-service does not notice.
Becomes(q, state) ==
  /\ query' = [query EXCEPT ![q] = state]
  /\ UNCHANGED vars

Heard == {u \in User : LastEvent(u) = "user_offline"}

Ask(q, kind, u, others) ==
  /\ query[q].pc \in {"idle", "done"}
  /\ Becomes(q, [NoQuery EXCEPT !.pc = "scard", !.kind = kind, !.user = u,
                                !.todo = others, !.before = used,
                                !.heard = Heard])

GetPresence(q, u) == Ask(q, "single", u, {})

\* The order of userIds is the caller's; an empty list is answered at once.
GetPresenceBatch(q, us) == \E u \in us : Ask(q, "batch", u, us \ {u})

-----------------------------------------------------------------------------
(* The replies *)

\* The answer about the user that q reads.
Told(q, status) == [query[q].status EXCEPT ![query[q].user] = status]

Answer(q, status) ==
  Becomes(q, [query[q] EXCEPT !.pc = "done", !.status = Told(q, status)])

ReadCount(q) ==
  /\ query[q].pc = "scard"
  /\ Becomes(q, [query[q] EXCEPT !.pc = "get",
                    !.counted = userSessions[query[q].user] # {}])

Counted(q) == IF query[q].counted THEN "online" ELSE "offline"

\* A missing key is not told from a time.
MutSeenRaw(q) ==
  LET u == query[q].user IN
  [query[q].seen EXCEPT ![u] = IF lastSeen[u] = 0 THEN None ELSE lastSeen[u]]

Seen(q) == [query[q].seen EXCEPT ![query[q].user] = lastSeen[query[q].user]]

\* GET of last_seen: the end of a query about a user without members, and of the
\* reads about one user of a batch.
ReadLastSeen(q) ==
  LET r == query[q] IN
  /\ r.pc = "get"
  /\ \/ /\ r.kind = "single" /\ r.counted
        /\ Becomes(q, [r EXCEPT !.pc = "smembers", !.seen = Seen(q)])
     \/ /\ IF r.kind = "single" THEN ~ r.counted ELSE r.todo = {}
        /\ Becomes(q, [r EXCEPT !.pc = "done", !.seen = Seen(q),
                                !.status = Told(q, Counted(q))])
     \/ /\ r.kind = "batch"
        /\ \E v \in r.todo :
             Becomes(q, [r EXCEPT !.pc = "scard", !.seen = Seen(q),
                                  !.status = Told(q, Counted(q)),
                                  !.user = v, !.todo = @ \ {v}])

\* hasAnyActiveSession: SMEMBERS, then one pipeline of EXISTS.
ReadMembers(q) ==
  LET members == userSessions[query[q].user] IN
  /\ query[q].pc = "smembers"
  /\ \/ /\ members = {}
        /\ Answer(q, "offline")
     \/ /\ members # {}
        /\ Becomes(q, [query[q] EXCEPT !.pc = "exists", !.ids = members])

MutCheckMembersTrusting(q) == query[q].pc = "exists" /\ Answer(q, "online")

\* Every instead of some.
MutCheckMembersAll(q) ==
  /\ query[q].pc = "exists"
  /\ Answer(q, IF Stale(query[q].ids) = {} THEN "online" ELSE "offline")

\* An id that was found gone stays gone: other commands between two EXISTS of
\* the pipeline make no difference to whether one of them finds a key.
CheckMembers(q) ==
  LET ids == query[q].ids IN
  /\ query[q].pc = "exists"
  /\ \/ Stale(ids) = ids /\ Answer(q, "offline")
     \/ Stale(ids) # ids /\ Answer(q, "online")

\* withRedisTimeout rejects, or a reply of a pipeline is an error: no answer.
QueryFails(q) ==
  /\ query[q].pc \notin {"idle", "done"}
  /\ Becomes(q, NoQuery)

-----------------------------------------------------------------------------
(* Specification *)

QueryStep(q) ==
  \/ \E u \in User : GetPresence(q, u)
  \/ \E us \in SUBSET User : GetPresenceBatch(q, us)
  \/ ReadCount(q) \/ ReadLastSeen(q) \/ ReadMembers(q) \/ CheckMembers(q)
  \/ QueryFails(q)

QNext ==
  \/ Next /\ UNCHANGED query
  \/ \E q \in Asker : QueryStep(q)

QSpec == QInit /\ [][QNext]_qvars

-----------------------------------------------------------------------------
(* Properties *)

Answered(q) == query[q].pc # "done" /\ query'[q].pc = "done"
Says(q, u, status) == query'[q].status[u] = status

\* getPresence answers online only about a user who has a live session at that
\* moment, however old the SCARD and the SMEMBERS are that led there, and though
\* EXISTS does not look at whose session it is.  (A batch does not look at
\* sessions at all: until a stale member is removed it answers online.)
OnlineAnswerTrue ==
  [][\A q \in Asker : \A u \in User :
       Answered(q) /\ query[q].kind = "single" /\ Says(q, u, "online")
         => Live(u) # {}]_qvars

\* Whoever is answered to be offline, by a single or a batch query, is offline
\* when the answer leaves, unless somebody connected while the query was in
\* progress: then the members that were read may be those of the past.
OfflineAnswerTrue ==
  [][\A q \in Asker : \A u \in User :
       Answered(q) /\ Says(q, u, "offline") /\ used = query'[q].before
         => Live(u) = {}]_qvars

\* A subscriber who hears user_offline and then asks finds a last_seen with the
\* answer, whatever happens during the query.
OfflineAnswerHasLastSeen ==
  \A q \in Asker : \A u \in query[q].heard :
    query[q].pc = "done" /\ query[q].status[u] = "offline"
      => query[q].seen[u] # 0
=============================================================================
