------------------------------ MODULE ReactHooks ------------------------------
(***************************************************************************)
(* What a component sees of one user: usePresence, usePresenceBatch and    *)
(* useTyping (packages/sdk-react/src/index.tsx) over a PresenceClient, its *)
(* subscriptions and requests (packages/sdk/src/index.ts).                 *)
(*                                                                         *)
(* A change is in history once Redis has it; its event, with its time, is  *)
(* under way from then on, and what is under way reaches the sockets in    *)
(* the room in order.  Events that find no socket there are lost.  That    *)
(* every change is announced, and in time, is the subject of               *)
(* PresenceService and Typing; sessions that come and go without an event  *)
(* are here.  query-service reads Redis in several commands, each at a     *)
(* place in history of its own (QueryService).                             *)
(***************************************************************************)
EXTENDS PresenceClient, Sequences

CONSTANTS
  User, None,
  MaxEvents  \* bound: announcements

ASSUME HooksAssumption == None \notin User /\ MaxEvents \in Nat

VARIABLES
  history,        \* what happened; the time of an event is its place
  arrived,        \* how much of it has arrived or is lost
  hook,           \* the hook of the component, with its last state
  subscriptions   \* the users whose events call its callback

hookVars == <<history, arrived, hook, subscriptions>>
vars == <<clientVars, hookVars>>

PresenceEvent == {"user_online", "user_offline"}
TypingEvent == {"typing_start", "typing_stop"}

\* "cleanup" is no event: a session of the user was cleaned up, and either others
\* are left, or the user was offline already.
Happening == PresenceEvent \cup TypingEvent \cup {"cleanup"}
Event == [user: User, type: Happening]

\* A fetch is at the command of query-service it waits for, or its answer is on the
\* way: told and seen are the status and the last_seen in it.  upto is the place in
\* history of what the status rests on.
\* A hook of one user: on is its status or isTyping, at is lastUpdatedMs.  For
\* usePresenceBatch known is whether the user is in the record.
\* History: own, on is about user; failed, the last fetch was; stale, an event has
\* been missed or was overwritten by an answer read before it; mixed, a session of
\* the user was cleaned up without an event between the commands of the fetch.
HookState == [kind: {"none", "presence", "batch", "typing"}, user: User \cup {None},
              fetch: {"none", "scard", "get", "smembers", "exists", "answer"},
              upto: 0..MaxEvents, told: BOOLEAN, seen: 0..MaxEvents,
              on: BOOLEAN, at: 0..MaxEvents, known: BOOLEAN,
              own: BOOLEAN, failed: BOOLEAN, stale: BOOLEAN, mixed: BOOLEAN]
NoHook == [kind |-> "none", user |-> None, fetch |-> "none",
           upto |-> 0, told |-> FALSE, seen |-> 0,
           on |-> FALSE, at |-> 0, known |-> FALSE,
           own |-> TRUE, failed |-> FALSE, stale |-> FALSE, mixed |-> FALSE]

TypeOK ==
  /\ ClientTypeOK
  /\ history \in Seq(Event) /\ Len(history) <= MaxEvents
  /\ arrived \in 0..Len(history)
  /\ hook \in HookState
  /\ subscriptions \in SUBSET User

Init ==
  /\ ClientInit
  /\ history = <<>> /\ arrived = 0
  /\ hook = NoHook
  /\ subscriptions = {}

-----------------------------------------------------------------------------
(* The users *)

About(u, types, i) == history[i].user = u /\ history[i].type \in types
Quiet(u, types, m, n) == \A i \in m + 1 .. n : ~ About(u, types, i)

\* The last event about u of one of the types, among the first n, is type.
LastIs(u, types, type, n) ==
  \E i \in 1..n : About(u, {type}, i) /\ Quiet(u, types, i, n)
OnlineAt(u, n) == LastIs(u, PresenceEvent, "user_online", n)
TypingAt(u, n) == LastIs(u, TypingEvent, "typing_start", n)

\* What last_seen may be after n places; 0 is null.  Every cleanup sets it, whether
\* an event follows or not, to a time it read some commands before; a sweep sets it
\* some commands after the change.
LastSeenTimes(u, n) ==
  {0} \cup {time \in 1..n : ~ Quiet(u, {"user_offline", "cleanup"}, time - 1, n)}

MutRelevant(h) ==
  IF h.kind = "typing" THEN TypingEvent ELSE PresenceEvent \cup TypingEvent

\* The events a hook of its kind looks at.
Relevant(h) == IF h.kind = "typing" THEN TypingEvent ELSE PresenceEvent

InRoom == Running(session)

Pass(missed) == hook' = IF missed THEN [hook EXCEPT !.stale = TRUE] ELSE hook

\* publishEvent: a user comes, goes, starts or stops; ws-service may say so again.
Announce(u, type) ==
  LET n == Len(history) IN
  /\ n < MaxEvents                                 \* bound
  /\ history' = Append(history, [user |-> u, type |-> type])
  /\ IF InRoom THEN UNCHANGED <<arrived, hook>>
     ELSE arrived' = n + 1 /\ Pass(u = hook.user /\ type \in Relevant(hook))
  /\ UNCHANGED <<clientVars, subscriptions>>

\* The commands between which a read can be crossed.
Reading == {"get", "smembers", "exists"}

\* cleanupSession without an event.
Cleanup(u) ==
  LET n == Len(history) IN
  /\ n < MaxEvents                                 \* bound
  /\ history' = Append(history, [user |-> u, type |-> "cleanup"])
  /\ arrived' = IF InRoom THEN arrived ELSE n + 1
  /\ hook' = IF u = hook.user /\ hook.fetch \in Reading
             THEN [hook EXCEPT !.mixed = TRUE] ELSE hook
  /\ UNCHANGED <<clientVars, subscriptions>>

\* A step of the connection; events under way to a socket are lost with it.
ClientActs ==
  /\ ClientStep
  /\ UNCHANGED <<history, subscriptions>>
  /\ IF InRoom' THEN UNCHANGED <<arrived, hook>>
     ELSE LET n == Len(history) IN
          arrived' = n /\ Pass(~ Quiet(hook.user, Relevant(hook), arrived, n))

-----------------------------------------------------------------------------
(* Effects *)

Fetches(kind) == kind \in {"presence", "batch"}

\* The effect asks and subscribes.
Mount(kind, u) ==
  /\ hook = NoHook
  /\ hook' = [NoHook EXCEPT !.kind = kind, !.user = u,
                            !.fetch = IF Fetches(kind) THEN "scard" ELSE "none"]
  /\ subscriptions' = subscriptions \cup {u}
  /\ UNCHANGED <<clientVars, history, arrived>>

Unmount ==
  /\ hook # NoHook
  /\ hook' = NoHook
  /\ subscriptions' = subscriptions \ {hook.user}
  /\ UNCHANGED <<clientVars, history, arrived>>

\* Another user: cleanup and effect.  useTyping resets its state, usePresence keeps
\* that of the user before; the record of usePresenceBatch lacks the new one.
MutChangeUser(u) ==
  /\ hook # NoHook /\ u # hook.user
  /\ hook' = [hook EXCEPT !.user = u, !.own = (hook.kind = "batch"), !.known = FALSE,
                          !.fetch = IF Fetches(hook.kind) THEN "scard" ELSE "none",
                          !.upto = 0, !.told = FALSE, !.seen = 0,
                          !.failed = FALSE, !.stale = FALSE, !.mixed = FALSE]
  /\ subscriptions' = (subscriptions \ {hook.user}) \cup {u}
  /\ UNCHANGED <<clientVars, history, arrived>>

ChangeUser(u) ==
  LET keeps == hook.kind = "presence" IN
  /\ hook # NoHook /\ u # hook.user
  /\ hook' = [hook EXCEPT !.user = u, !.own = ~ keeps, !.known = FALSE,
                          !.fetch = IF Fetches(hook.kind) THEN "scard" ELSE "none",
                          !.on = keeps /\ @, !.at = IF keeps THEN @ ELSE 0,
                          !.upto = 0, !.told = FALSE, !.seen = 0,
                          !.failed = FALSE, !.stale = FALSE, !.mixed = FALSE]
  /\ subscriptions' = (subscriptions \ {hook.user}) \cup {u}
  /\ UNCHANGED <<clientVars, history, arrived>>

-----------------------------------------------------------------------------
(* Fetches: the reads of getPresence and getPresenceBatch of query-service,   *)
(* and their answers                                                         *)

\* The fetch goes on at the next command, or its answer leaves.
Reads(fetch, upto, told, seen) ==
  /\ hook' = [hook EXCEPT !.fetch = fetch, !.upto = upto, !.told = told, !.seen = seen]
  /\ UNCHANGED <<clientVars, history, arrived, subscriptions>>

ReadCount == hook.fetch = "scard" /\ Reads("get", Len(history), FALSE, 0)

\* GET of last_seen; with it a batch, and a read about a user without members, ends.
ReadLastSeen ==
  LET counted == OnlineAt(hook.user, hook.upto) IN
  /\ hook.fetch = "get"
  /\ \/ /\ hook.kind = "batch"
        /\ Reads("answer", hook.upto, counted, 0)
     \/ /\ hook.kind = "presence"
        /\ \E time \in LastSeenTimes(hook.user, Len(history)) :
             Reads(IF counted THEN "smembers" ELSE "answer", hook.upto, FALSE, time)

ReadMembers ==
  LET n == Len(history) IN
  /\ hook.fetch = "smembers"
  /\ Reads(IF OnlineAt(hook.user, n) THEN "exists" ELSE "answer", n, FALSE, hook.seen)

\* Online, whatever has become of the members.
MutCheckMembers == hook.fetch = "exists" /\ Reads("answer", Len(history), TRUE, hook.seen)

\* EXISTS of the members read.  An event since then, also user_online again, says that
\* they are all gone; a cleanup without one, that some are.
CheckMembers ==
  LET n == Len(history)
      quiet(types) == Quiet(hook.user, types, hook.upto, n)
  IN
  /\ hook.fetch = "exists"
  /\ \/ /\ quiet(PresenceEvent)
        /\ Reads("answer", n, TRUE, hook.seen)
     \/ /\ ~ quiet(PresenceEvent \cup {"cleanup"})
        /\ Reads("answer", hook.upto, FALSE, hook.seen)

\* The answer replaces what the hook shows, events that came before it included.
Show(on, at, stale, failed) ==
  hook' = [hook EXCEPT !.fetch = "none", !.upto = 0, !.told = FALSE, !.seen = 0,
                       !.on = on, !.at = at,
                       !.known = (hook.kind = "batch"), !.own = TRUE,
                       !.stale = stale, !.failed = failed]

FetchAnswered ==
  /\ hook.fetch = "answer"
  /\ Show(hook.told, hook.seen,
          ~ Quiet(hook.user, PresenceEvent, hook.upto, arrived), FALSE)
  /\ UNCHANGED <<clientVars, history, arrived, subscriptions>>

\* The promise rejects, and the hook stays as it is; getPresence turns a 404 into
\* a user who is offline.
FetchFails ==
  /\ hook.fetch # "none"
  /\ \/ hook' = [hook EXCEPT !.fetch = "none", !.upto = 0, !.told = FALSE, !.seen = 0,
                             !.failed = TRUE]
     \/ hook.kind = "presence" /\ Show(FALSE, 0, FALSE, TRUE)
  /\ UNCHANGED <<clientVars, history, arrived, subscriptions>>

-----------------------------------------------------------------------------
(* Events: dispatchPresenceEvent and the callbacks *)

\* updateOrderedPresenceState and updateTypingState ignore what is older than what
\* they know, updateBatchPresenceState who is not in its record.
Heeds(h, event, time) ==
  /\ event.type \in Relevant(h)
  /\ IF h.kind = "batch" THEN h.known ELSE time >= h.at

Updated(h, event, time) ==
  [h EXCEPT !.on = event.type \in {"user_online", "typing_start"},
            !.at = IF h.kind = "batch" THEN 0 ELSE time,
            !.own = TRUE, !.failed = FALSE, !.stale = FALSE,
            !.mixed = @ /\ h.fetch # "none"]

Deliver ==
  LET time == arrived + 1
      event == history[time]
  IN
  /\ arrived < Len(history)
  /\ arrived' = time
  /\ hook' = IF event.user \in subscriptions /\ Heeds(hook, event, time)
             THEN Updated(hook, event, time) ELSE hook
  /\ UNCHANGED <<clientVars, history, subscriptions>>

Next ==
  \/ ClientActs
  \/ \E u \in User : \/ \E type \in PresenceEvent \cup TypingEvent : Announce(u, type)
                     \/ \E kind \in {"presence", "batch", "typing"} : Mount(kind, u)
                     \/ ChangeUser(u) \/ Cleanup(u)
  \/ ReadCount \/ ReadLastSeen \/ ReadMembers \/ CheckMembers
  \/ Unmount \/ FetchAnswered \/ FetchFails \/ Deliver

Spec == Init /\ [][Next]_vars

-----------------------------------------------------------------------------
(* Properties *)

Settled == hook.fetch = "none" /\ arrived = Len(history)
Trusted == Settled /\ ~ hook.failed /\ ~ hook.stale

\* usePresence shows the user as he is when no answer and no event is under way,
\* however the four commands of its read, the events and the answer fell, unless the
\* fetch failed, or events were missed or overwritten, or a session of the user was
\* cleaned up without an event between the commands: then the answer may be offline
\* about a user who was never without a session, and nothing corrects it.
PresenceSettles ==
  hook.kind = "presence" /\ Trusted /\ ~ hook.mixed
    => hook.on = OnlineAt(hook.user, Len(history))

\* So does usePresenceBatch, for a user that is in its record; its one SCARD about the
\* user mixes nothing.
BatchSettles ==
  hook.kind = "batch" /\ hook.known /\ Trusted
    => hook.on = OnlineAt(hook.user, Len(history))

\* useTyping shows no one typing who has stopped, unless it missed an event.
TypingSettles ==
  hook.kind = "typing" /\ hook.on /\ Trusted => TypingAt(hook.user, Len(history))

\* What is shown is about the user that was asked for, but for usePresence while
\* its fetch is under way or when it failed.
ShownIsOwn == hook.own \/ hook.fetch # "none" \/ hook.failed
=============================================================================
