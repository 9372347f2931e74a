-------------------------------- MODULE Typing --------------------------------
(***************************************************************************)
(* Typing indicators: startTyping, stopTyping and the expiry of typing     *)
(* keys in PresenceService                                                 *)
(* (apps/ws-service/src/presence/presence.service.ts), called by the       *)
(* handlers startTyping and stopTyping of PresenceGateway.                 *)
(*                                                                         *)
(* As in the module PresenceService, an operation has one Redis command in *)
(* flight between two awaits, the commands of the process are executed and *)
(* answered in order (pipe), and a step is the reply to the first of them. *)
(* Typing touches no key of the session core and needs no live session.    *)
(***************************************************************************)
EXTENDS Integers, Sequences

CONSTANTS
  User,        \* identities: (tenantId, userId) pairs
  ColonUser,   \* the identities whose userId contains the key separator
  Worker,      \* slots for operations in progress
  None,        \* absence of a user
  MaxCalls,    \* bound: calls of startTyping
  MaxFailures, \* bound: commands that fail or whose reply is lost
  MaxCrashes   \* bound: crashes of the process

ASSUME TypingAssumption ==
  /\ ColonUser \subseteq User
  /\ None \notin User
  /\ MaxCalls \in Nat /\ MaxFailures \in Nat /\ MaxCrashes \in Nat

VARIABLES
  typing,    \* the users whose typing:{tenant}:{user} key exists
  phase,     \* "down", "booting", "listening", as in PresenceService
  op, pipe,  \* operations in progress and the order of their commands
  expired,   \* expired-key messages on their way, per user
  announced, \* the last typing event broadcast about a user
  starts, stops, \* history: how many of each event were broadcast
  lost,      \* history: users about whom a command or a message was lost
  calls, failures, crashes

countVars == <<calls, failures, crashes>>
eventVars == <<announced, starts, stops>>
vars == <<typing, phase, op, pipe, expired, announced, starts, stops, lost,
          calls, failures, crashes>>

Pc == {"idle", "set_nx", "expire", "del", "pub_start", "pub_stop"}
Idle == [pc |-> "idle", user |-> None]

TypeOK ==
  /\ typing \in SUBSET User
  /\ phase \in {"down", "booting", "listening"}
  /\ op \in [Worker -> [pc: Pc, user: User \cup {None}]]
  /\ pipe \in Seq(Worker)
  /\ expired \in [User -> Nat]
  /\ announced \in [User -> {"none", "typing_start", "typing_stop"}]
  /\ starts \in [User -> Nat] /\ stops \in [User -> Nat]
  /\ lost \in SUBSET User
  /\ calls \in Nat /\ failures \in Nat /\ crashes \in Nat

Init ==
  /\ typing = {}
  /\ phase = "booting"
  /\ op = [o \in Worker |-> Idle]
  /\ pipe = << >>
  /\ expired = [u \in User |-> 0]
  /\ announced = [u \in User |-> "none"]
  /\ starts = [u \in User |-> 0]
  /\ stops = [u \in User |-> 0]
  /\ lost = {}
  /\ calls = 0 /\ failures = 0 /\ crashes = 0

-----------------------------------------------------------------------------
(* Commands, as in PresenceService *)

Issue(o, pc, u) ==
  /\ phase # "down"
  /\ op[o] = Idle
  /\ op' = [op EXCEPT ![o] = [pc |-> pc, user |-> u]]
  /\ pipe' = Append(pipe, o)

AtHead(o, pc) ==
  /\ phase # "down"
  /\ pipe # << >> /\ Head(pipe) = o
  /\ op[o].pc = pc

Await(o, pc) ==
  /\ op' = [op EXCEPT ![o].pc = pc]
  /\ pipe' = Append(Tail(pipe), o)

Return(o) ==
  /\ op' = [op EXCEPT ![o] = Idle]
  /\ pipe' = Tail(pipe)

-----------------------------------------------------------------------------
(* startTyping: SET NX, then the event or EXPIRE *)

StartTyping(o, u) ==
  /\ calls < MaxCalls                              \* bound
  /\ calls' = calls + 1
  /\ Issue(o, "set_nx", u)
  /\ UNCHANGED <<typing, phase, expired, eventVars, lost, failures, crashes>>

SetTyping(o) ==
  LET u == op[o].user IN
  /\ AtHead(o, "set_nx")
  /\ \/ /\ u \notin typing
        /\ typing' = typing \cup {u}
        /\ Await(o, "pub_start")
     \/ /\ u \in typing
        /\ Await(o, "expire")
        /\ UNCHANGED typing
  /\ UNCHANGED <<phase, expired, eventVars, lost, countVars>>

\* EXPIRE only moves the time to live, which is not kept; nobody looks at its
\* answer, not even when the key is gone by now.
RefreshTyping(o) ==
  /\ AtHead(o, "expire")
  /\ Return(o)
  /\ UNCHANGED <<typing, phase, expired, eventVars, lost, countVars>>

-----------------------------------------------------------------------------
(* stopTyping: DEL, then the event if there was a key.  Definitions named    *)
(* Mut... are faults a change could introduce; no action uses them.          *)

StopTyping(o, u) ==
  /\ Issue(o, "del", u)
  /\ UNCHANGED <<typing, phase, expired, eventVars, lost, countVars>>

MutDeleteTypingSilent(o) ==
  /\ AtHead(o, "del")
  /\ typing' = typing \ {op[o].user}
  /\ Return(o)
  /\ UNCHANGED <<phase, expired, eventVars, lost, countVars>>

DeleteTyping(o) ==
  LET u == op[o].user IN
  /\ AtHead(o, "del")
  /\ \/ /\ u \notin typing
        /\ Return(o)
     \/ /\ u \in typing
        /\ Await(o, "pub_stop")
  /\ typing' = typing \ {u}
  /\ UNCHANGED <<phase, expired, eventVars, lost, countVars>>

-----------------------------------------------------------------------------
(* The expiry of a typing key and its message *)

\* Redis publishes once, to those subscribed.  A typing key lives 3 s and the
\* two commands of startExpiryListener may take as long, so a key can expire
\* while the process that set it is still booting.
ExpireTyping(u) ==
  /\ u \in typing
  /\ typing' = typing \ {u}
  /\ \/ /\ phase = "listening"
        /\ expired' = [expired EXCEPT ![u] = @ + 1]
        /\ UNCHANGED lost
     \/ /\ phase # "listening"
        /\ lost' = lost \cup {u}
        /\ UNCHANGED expired
  /\ UNCHANGED <<phase, op, pipe, eventVars, countVars>>

\* The users extractTypingIdentity can read back from the key.
Parsable == User \ ColonUser

\* Without the comparison of the rebuilt key with the expired one: for a userId
\* with a separator the event is about the part before it, which is nobody's id.
MutDeliverFirstPart(o, u) ==
  /\ phase = "listening"
  /\ expired[u] > 0
  /\ expired' = [expired EXCEPT ![u] = @ - 1]
  /\ Issue(o, "pub_stop", IF u \in Parsable THEN u ELSE <<u>>)
  /\ UNCHANGED <<typing, phase, eventVars, lost, countVars>>

\* Silent when the user has started again meanwhile.
MutDeliverUnlessTyping(o, u) ==
  /\ phase = "listening"
  /\ expired[u] > 0
  /\ expired' = [expired EXCEPT ![u] = @ - 1]
  /\ \/ u \notin typing /\ Issue(o, "pub_stop", u)
     \/ u \in typing /\ UNCHANGED <<op, pipe>>
  /\ UNCHANGED <<typing, phase, eventVars, lost, countVars>>

\* A listener for session keys only.
MutDeliverSessionsOnly(o, u) ==
  /\ phase = "listening"
  /\ expired[u] > 0
  /\ expired' = [expired EXCEPT ![u] = @ - 1]
  /\ UNCHANGED <<typing, phase, op, pipe, eventVars, lost, countVars>>

\* processExpiredKey announces the end of typing without looking at the key.
DeliverTyping(o, u) ==
  /\ phase = "listening"
  /\ expired[u] > 0
  /\ expired' = [expired EXCEPT ![u] = @ - 1]
  /\ \/ u \in Parsable /\ Issue(o, "pub_stop", u)
     \/ u \notin Parsable /\ UNCHANGED <<op, pipe>>
  /\ UNCHANGED <<typing, phase, eventVars, lost, countVars>>

-----------------------------------------------------------------------------
(* publishEvent: TIME, then the broadcast *)

PublishStart(o) ==
  LET u == op[o].user IN
  /\ AtHead(o, "pub_start")
  /\ announced' = [announced EXCEPT ![u] = "typing_start"]
  /\ starts' = [starts EXCEPT ![u] = @ + 1]
  /\ Return(o)
  /\ UNCHANGED <<typing, phase, expired, stops, lost, countVars>>

PublishStop(o) ==
  LET u == op[o].user IN
  /\ AtHead(o, "pub_stop")
  /\ announced' = [announced EXCEPT ![u] = "typing_stop"]
  /\ stops' = [stops EXCEPT ![u] = @ + 1]
  /\ Return(o)
  /\ UNCHANGED <<typing, phase, expired, starts, lost, countVars>>

-----------------------------------------------------------------------------
(* Failures and crashes *)

\* What Redis does with a write, whether the code learns of it or not.
TypingWrite(o) ==
  typing' = CASE op[o].pc = "set_nx" -> typing \cup {op[o].user}
              [] op[o].pc = "del"    -> typing \ {op[o].user}
              [] OTHER               -> typing

\* withRedisTimeout rejects, or the process is dead: the operation ends where it
\* is, its command executed or not.
Lose(o) ==
  /\ pipe # << >> /\ Head(pipe) = o
  /\ \/ /\ phase # "down"
        /\ failures < MaxFailures                  \* bound
        /\ failures' = failures + 1
     \/ /\ phase = "down"
        /\ UNCHANGED failures
  /\ TypingWrite(o) \/ UNCHANGED typing
  /\ lost' = lost \cup {op[o].user}
  /\ Return(o)
  /\ UNCHANGED <<phase, expired, eventVars, calls, crashes>>

\* The messages on their way are lost, and whatever was in progress.
Crash ==
  /\ phase # "down"
  /\ crashes < MaxCrashes                          \* bound
  /\ crashes' = crashes + 1
  /\ phase' = "down"
  /\ lost' = lost \cup {u \in User : expired[u] > 0}
                  \cup ({op[o].user : o \in Worker} \ {None})
  /\ expired' = [u \in User |-> 0]
  /\ UNCHANGED <<typing, op, pipe, eventVars, calls, failures>>

Restart ==
  /\ phase = "down"
  /\ phase' = "booting"
  /\ op' = [o \in Worker |-> Idle]
  /\ pipe' = << >>
  /\ UNCHANGED <<typing, expired, eventVars, lost, countVars>>

Listen ==
  /\ phase = "booting"
  /\ phase' = "listening"
  /\ UNCHANGED <<typing, op, pipe, expired, eventVars, lost, countVars>>

-----------------------------------------------------------------------------
(* Specification *)

Step(o) ==
  \/ SetTyping(o) \/ RefreshTyping(o) \/ DeleteTyping(o)
  \/ PublishStart(o) \/ PublishStop(o)

Next ==
  \/ \E o \in Worker :
       \/ \E u \in User :
            StartTyping(o, u) \/ StopTyping(o, u) \/ DeliverTyping(o, u)
       \/ Step(o) \/ Lose(o)
  \/ \E u \in User : ExpireTyping(u)
  \/ Crash \/ Restart \/ Listen

Spec == Init /\ [][Next]_vars

\* Redis answers, and a message that was not lost arrives; it needs a slot, for
\* which the code never waits.
Fairness ==
  /\ WF_vars(\E o \in Worker : Step(o))
  /\ \A u \in User : SF_vars(\E o \in Worker : DeliverTyping(o, u))

FairSpec == Spec /\ Fairness

-----------------------------------------------------------------------------
(* Properties *)

Undisturbed == Parsable \ lost
Pending(u, pc) == \E o \in Worker : op[o].user = u /\ op[o].pc = pc
Settled(u) ==
  expired[u] = 0 /\ ~ Pending(u, "pub_start") /\ ~ Pending(u, "pub_stop")

\* Each time a user starts to type there is one typing_start and one typing_stop
\* whether a call or the time to live ended it, however calls and messages
\* overlap: when nothing is on its way, the two are balanced.
EveryStartStopped ==
  \A u \in Undisturbed :
    Settled(u) => starts[u] = stops[u] + (IF u \in typing THEN 1 ELSE 0)

\* A user who was last announced as typing is typing: no typing_stop overtakes
\* the typing_start it ends.
NoGhostTyping ==
  \A u \in Undisturbed :
    Settled(u) /\ announced[u] = "typing_start" => u \in typing

\* A user who has stopped is announced as such in the end.
TypingEnds ==
  \A u \in User :
    announced[u] = "typing_start" /\ u \notin typing
      ~> announced[u] = "typing_stop" \/ u \in typing \/ u \notin Undisturbed
=============================================================================
