--------------------------- MODULE PresenceGateway ---------------------------
(***************************************************************************)
(* The sockets of ws-service: PresenceGateway                              *)
(* (apps/ws-service/src/presence/presence.gateway.ts) on top of            *)
(* PresenceService.                                                        *)
(*                                                                         *)
(* A handler of the gateway is a call of PresenceService in progress and   *)
(* what the handler does when the call returns: caller[o] says whose call  *)
(* the operation o is.  When o returns, the rest of the handler runs in    *)
(* the same step; when o is rejected, so is the handler, and the rest does *)
(* not run.  Nothing keeps a socket from leaving, or from sending, while a *)
(* handler of its own is at an await.                                      *)
(***************************************************************************)
EXTENDS PresenceService

CONSTANT Socket  \* socket.io connections: an id is never used again

ASSUME GatewayAssumption == None \notin Socket

VARIABLES
  link,        \* socket.io's view of a socket: "new", "open", "closed"
  account,     \* the user in its connection payload, None before it connects
  handshakes,  \* sockets at the rate limit and the key check
  connectionBySocketId,
  lastPingAt,  \* the keys of lastPingAtBySessionId
  caller,      \* the handler that awaits an operation
  lapsed       \* history: sessions whose time to live ran out

socketVars == <<link, account, handshakes>>
mapVars == <<connectionBySocketId, lastPingAt>>
gvars == <<vars, link, account, handshakes, connectionBySocketId, lastPingAt,
           caller, lapsed>>

Handler == {"none", "connect", "disconnect", "ping"}

\* The locals of a handler: its socket, and the session it read from the map.
Caller == [handler: Handler, socket: Socket \cup {None},
           sid: Session \cup {None}]

NoCaller == [handler |-> "none", socket |-> None, sid |-> None]

GTypeOK ==
  /\ link \in [Socket -> {"new", "open", "closed"}]
  /\ account \in [Socket -> User \cup {None}]
  /\ handshakes \in SUBSET Socket
  /\ connectionBySocketId \in [Socket -> Session \cup {None}]
  /\ lastPingAt \in SUBSET Session
  /\ caller \in [Op -> Caller]
  /\ lapsed \in SUBSET Session

GInit ==
  /\ Init
  /\ link = [k \in Socket |-> "new"]
  /\ account = [k \in Socket |-> None]
  /\ handshakes = {}
  /\ connectionBySocketId = [k \in Socket |-> None]
  /\ lastPingAt = {}
  /\ caller = [o \in Op |-> NoCaller]
  /\ lapsed = {}

-----------------------------------------------------------------------------
(* handleConnection *)

\* A client connects: its handshake is counted and its key is looked up.
Connect(k, u) ==
  /\ phase # "down"
  /\ link[k] = "new"
  /\ link' = [link EXCEPT ![k] = "open"]
  /\ account' = [account EXCEPT ![k] = u]
  /\ handshakes' = handshakes \cup {k}
  /\ UNCHANGED <<vars, mapVars, caller, lapsed>>

\* Too many attempts, or a payload that is not valid.
Refuse(k) ==
  /\ k \in handshakes
  /\ handshakes' = handshakes \ {k}
  /\ link' = [link EXCEPT ![k] = "closed"]
  /\ UNCHANGED <<vars, account, mapVars, caller, lapsed>>

\* A command of the handshake fails, and handleConnection with it: nothing
\* closes the socket.
HandshakeFails(k) ==
  /\ k \in handshakes
  /\ handshakes' = handshakes \ {k}
  /\ UNCHANGED <<vars, link, account, mapVars, caller, lapsed>>

\* The key is valid: handleConnection calls registerConnection, whether or not
\* the socket is still there.
Accept(k, o) ==
  /\ k \in handshakes
  /\ handshakes' = handshakes \ {k}
  /\ RegisterConnection(o, account[k])
  /\ caller' = [caller EXCEPT ![o] = [handler |-> "connect", socket |-> k,
                                      sid |-> None]]
  /\ UNCHANGED <<link, account, mapVars, lapsed>>

-----------------------------------------------------------------------------
(* handleDisconnect *)

\* The socket has no entry (yet): nothing to clean up.
LeaveWithoutEntry(k) ==
  /\ link[k] = "open"
  /\ connectionBySocketId[k] = None
  /\ link' = [link EXCEPT ![k] = "closed"]
  /\ UNCHANGED <<vars, account, handshakes, mapVars, caller, lapsed>>

Leave(k, o) ==
  LET s == connectionBySocketId[k] IN
  /\ link[k] = "open"
  /\ s # None
  /\ link' = [link EXCEPT ![k] = "closed"]
  /\ CleanupSession(o, s)
  /\ caller' = [caller EXCEPT ![o] = [handler |-> "disconnect", socket |-> k,
                                      sid |-> s]]
  /\ UNCHANGED <<account, handshakes, mapVars, lapsed>>

-----------------------------------------------------------------------------
(* handlePing: pings that the throttle drops change nothing.  Definitions     *)
(* named Mut... are faults a change could introduce, as in PresenceService.   *)

MutPingKeyedBySocket(k, o) ==
  LET s == connectionBySocketId[k] IN
  /\ link[k] = "open"
  /\ s # None
  /\ lastPingAt' = lastPingAt \cup {k}
  /\ RefreshSessionHeartbeat(o, s)
  /\ caller' = [caller EXCEPT ![o] = [handler |-> "ping", socket |-> k,
                                      sid |-> s]]
  /\ UNCHANGED <<socketVars, connectionBySocketId, lapsed>>

Ping(k, o) ==
  LET s == connectionBySocketId[k] IN
  /\ link[k] = "open"
  /\ s # None
  /\ lastPingAt' = lastPingAt \cup {s}
  /\ RefreshSessionHeartbeat(o, s)
  /\ caller' = [caller EXCEPT ![o] = [handler |-> "ping", socket |-> k,
                                      sid |-> s]]
  /\ UNCHANGED <<socketVars, connectionBySocketId, lapsed>>

-----------------------------------------------------------------------------
(* What a handler does when its call returns *)

MutRemoveNoEntry(k, s) == UNCHANGED mapVars

RemoveEntry(k, s) ==
  /\ connectionBySocketId' = [connectionBySocketId EXCEPT ![k] = None]
  /\ lastPingAt' = lastPingAt \ {s}

MutAfterConnectByUser(k) ==
  /\ connectionBySocketId' =
       [l \in Socket |-> IF account[l] = account[k] /\ assigned' # assigned
                          THEN CHOOSE s \in assigned' \ assigned : TRUE
                          ELSE connectionBySocketId[l]]
  /\ UNCHANGED <<socketVars, lastPingAt>>

\* registerConnection returned a session, or threw after its last collision.
AfterConnect(k) ==
  /\ \/ \E s \in assigned' \ assigned :
          connectionBySocketId' = [connectionBySocketId EXCEPT ![k] = s]
     \/ /\ assigned' = assigned
        /\ UNCHANGED connectionBySocketId
  /\ UNCHANGED <<socketVars, lastPingAt>>

AfterDisconnect(k, s) ==
  /\ RemoveEntry(k, s)
  /\ UNCHANGED socketVars

MutAfterPingStaysOpen(o, k, s) ==
  \/ /\ op[o].pc = "ref_script"
     /\ UNCHANGED <<mapVars, socketVars>>
  \/ /\ op[o].pc # "ref_script"
     /\ RemoveEntry(k, s)
     /\ UNCHANGED socketVars

\* The heartbeat was refreshed, or the session is gone and was cleaned up: then
\* the gateway closes the socket, whose handleDisconnect finds no entry.
AfterPing(o, k, s) ==
  \/ /\ op[o].pc = "ref_script"
     /\ UNCHANGED <<mapVars, socketVars>>
  \/ /\ op[o].pc # "ref_script"
     /\ RemoveEntry(k, s)
     /\ link' = [link EXCEPT ![k] = "closed"]
     /\ UNCHANGED <<account, handshakes>>

Returns(o) == op'[o] = Idle

GStep(o) ==
  LET c == caller[o] IN
  /\ Step(o)
  /\ \/ /\ ~ Returns(o)
        /\ UNCHANGED <<socketVars, mapVars, caller>>
     \/ /\ Returns(o)
        /\ caller' = [caller EXCEPT ![o] = NoCaller]
        /\ \/ c.handler = "connect" /\ AfterConnect(c.socket)
           \/ c.handler = "disconnect" /\ AfterDisconnect(c.socket, c.sid)
           \/ c.handler = "ping" /\ AfterPing(o, c.socket, c.sid)
           \/ c.handler = "none" /\ UNCHANGED <<socketVars, mapVars>>
  /\ UNCHANGED lapsed

GFault(o) ==
  /\ Fault(o)
  /\ caller' = [caller EXCEPT ![o] = NoCaller]
  /\ UNCHANGED <<socketVars, mapVars, lapsed>>

-----------------------------------------------------------------------------
(* Calls that no socket makes, and the environment *)

Background(o) ==
  /\ \/ o \in Worker /\ \E s \in Session : DeliverExpired(o, s)
     \/ o \in Sweeper /\ ReconcileSessions(o)
  /\ UNCHANGED <<socketVars, mapVars, caller, lapsed>>

GExpire(s) ==
  /\ Expire(s)
  /\ lapsed' = lapsed \cup {s}
  /\ UNCHANGED <<socketVars, mapVars, caller>>

GCrash ==
  /\ Crash
  /\ link' = [k \in Socket |-> IF link[k] = "open" THEN "closed" ELSE link[k]]
  /\ handshakes' = {}
  /\ connectionBySocketId' = [k \in Socket |-> None]
  /\ lastPingAt' = {}
  /\ caller' = [o \in Op |-> NoCaller]
  /\ UNCHANGED <<account, lapsed>>

GEnvironment ==
  \/ \E s \in Session : GExpire(s)
  \/ GCrash
  \/ /\ Restart \/ Listen
     /\ UNCHANGED <<socketVars, mapVars, caller, lapsed>>

SocketStep(k) ==
  \/ \E u \in User : Connect(k, u)
  \/ Refuse(k)
  \/ HandshakeFails(k)
  \/ LeaveWithoutEntry(k)
  \/ \E o \in Worker : Accept(k, o) \/ Leave(k, o) \/ Ping(k, o)

GNext ==
  \/ \E k \in Socket : SocketStep(k)
  \/ \E o \in Op : GStep(o) \/ GFault(o) \/ Background(o)
  \/ GEnvironment

GSpec == GInit /\ [][GNext]_gvars

\* Redis answers, the process comes back, the interval timer fires; a session
\* that no open socket refreshes runs out of time, and a message about it that
\* was not lost arrives; an open socket that has a session goes on pinging, and
\* a handshake ends.  The last three need a free slot, which the code never
\* waits for: they get strong fairness.
GFairness ==
  /\ WF_gvars(\E o \in Op : GStep(o))
  /\ WF_gvars(GEnvironment /\ (Restart \/ Listen))
  /\ WF_gvars(\E o \in Sweeper : Background(o) /\ ReconcileSessions(o))
  /\ \A s \in Session :
       /\ WF_gvars(/\ GExpire(s)
                   /\ \A k \in Socket :
                        connectionBySocketId[k] = s => link[k] = "closed")
       /\ SF_gvars(\E o \in Worker : Background(o) /\ DeliverExpired(o, s))
  /\ \A k \in Socket :
       /\ SF_gvars(\E o \in Worker : Ping(k, o))
       /\ SF_gvars(Refuse(k) \/ \E o \in Worker : Accept(k, o))

GFairSpec == GSpec /\ GFairness

-----------------------------------------------------------------------------
(* Properties *)

GSettled == Quiescent /\ handshakes = {}

\* For as long as a socket is open, the session it was given is live, under the
\* user who connected, unless its time to live ran out: no sweep, no pruning, no
\* late cleanup and no other socket ends it.
SocketKeepsSession ==
  \A k \in Socket :
    LET s == connectionBySocketId[k] IN
    link[k] = "open" /\ s # None /\ s \notin lapsed
      => sessionHash[s] = account[k]

\* The gateway only ever passes back session ids that PresenceService gave it,
\* and never one id for two sockets.
EntriesAssigned ==
  /\ \A k \in Socket : connectionBySocketId[k] \in assigned \cup {None}
  /\ \A k, l \in Socket :
       connectionBySocketId[k] = connectionBySocketId[l]
         => k = l \/ connectionBySocketId[k] = None

\* A socket with an entry, a handshake or a handler has connected, as a user.
SocketsHaveAccounts ==
  /\ \A k \in Socket : link[k] = "new"
       => k \notin handshakes /\ connectionBySocketId[k] = None
  /\ \A k \in Socket : link[k] # "new" => account[k] \in User
  /\ \A o \in Op : caller[o].handler # "none"
       => /\ caller[o].socket \in Socket
          /\ link[caller[o].socket] # "new"

\* No handler ends the session of a socket that is still open, and a session
\* that its caller has not heard of yet is left alone.
HandlerInv(o) ==
  LET s == op[o].sid IN
  /\ op[o].pc = "idle" => caller[o] = NoCaller
  /\ caller[o].handler = "connect" =>
       /\ op[o].pc \in RegisterPc \cup {"pub_online"}
       /\ op[o].user = account[caller[o].socket]
  /\ op[o].pc = "pub_online" =>
       /\ s \in used \ assigned
       /\ s \notin lapsed => sessionHash[s] = op[o].user
  /\ op[o].pc \in RefreshPc => s \in assigned
  /\ op[o].pc \in CleanupPc /\ s \notin lapsed =>
       /\ s \in assigned
       /\ \A k \in Socket : connectionBySocketId[k] = s => link[k] = "closed"

\* Two registrations never announce one session.
AnnouncedOnce ==
  \A o, p \in Op :
    op[o].pc = "pub_online" /\ op[p].pc = "pub_online" /\ op[o].sid = op[p].sid
      => o = p

\* The invariant that makes SocketKeepsSession inductive.  After a crash the
\* operations of the dead process have no callers any more.
GatewayInv ==
  /\ SocketKeepsSession
  /\ EntriesAssigned
  /\ SocketsHaveAccounts
  /\ assigned \subseteq used
  /\ expired \subseteq lapsed
  /\ phase # "down" => AnnouncedOnce /\ \A o \in Op : HandlerInv(o)
  /\ phase = "down" => /\ \A o \in Op : caller[o] = NoCaller
                       /\ \A k \in Socket : connectionBySocketId[k] = None

\* When everything has settled without a fault, a user was last announced as
\* online exactly when the gateway holds an entry for the user whose session did
\* not run out of time.
OnlineMatchesSockets ==
  GSettled /\ NoFault =>
    \A u \in User :
      LastEvent(u) = "user_online" <=>
        \E k \in Socket : /\ account[k] = u
                           /\ connectionBySocketId[k] \notin {None} \cup lapsed

\* A user none of whose sockets is left, even one that left before its
\* registration was complete, is announced as offline in the end.
Absent(u) ==
  \A k \in Socket : account[k] = u => link[k] = "closed" /\ k \notin handshakes
AbsentUserTurnsOffline ==
  \A u \in User :
    Absent(u) /\ LastEvent(u) = "user_online"
      ~> LastEvent(u) = "user_offline" \/ ~ Absent(u) \/ ~ NoFault

\* An open socket whose session ran out of time learns of it by its next ping
\* and is closed, so that the client connects again.
LapsedSocketCloses ==
  \A k \in Socket :
    link[k] = "open" /\ connectionBySocketId[k] \in lapsed
      ~> link[k] = "closed" \/ ~ NoFault
=============================================================================
