# Pretzel presence: TLA+ models, checks and proofs

Pretzel tells subscribers which users of a tenant are online. A user is online
when at least one session is active (`src/README.md:8`). Sessions live in
Redis; `ws-service` opens and ends them for its sockets and broadcasts
`user_online` and `user_offline`; `query-service` answers REST queries from the
same keys; an SDK and React hooks sit on both.

The difficulty is that every operation of `ws-service` is a chain of Redis
commands with an `await` between them. Registrations, disconnects, heartbeats,
expiry messages and a periodic sweep interleave at each `await`, a command can
time out, and the process can die at any of them.

## 1. Inventory

| Component | State it keeps | Operations | What is hard, and what makes it correct |
|---|---|---|---|
| `PresenceService` (ws-service) | Redis `session:*`, `user_sessions:*`, `last_seen:*`; in memory `sessionIdentityBySessionId` | register (prune, script with retry), cleanup, heartbeat, expiry listener, reconciliation sweep, orphan pass | interleaving at each await, lost expiry messages, crashes. A live session stays listed; sets, hashes, cache and announcements agree |
| Redis keys and client (libs/redis) | one shared connection, one subscriber connection | key construction, keyspace check | user ids with the separator `:`; order of commands |
| Gateway sockets | `connectionBySocketId`, `lastPingAtBySessionId`, tenant rooms | connect, disconnect, ping, typing | a disconnect during a registration, a registration that fails. Each session has a socket or is cleaned up |
| Handshake rate limit | Redis counter per address | `INCR`, then `EXPIRE` on the first | two commands, one may fail: a refused address is let in again after the window |
| API keys, validation, revocation | table of keys, `auth.revoked` messages | issue, resolve, revoke, validate at the handshake, disconnect a tenant's sockets | a revocation during a handshake, a publication that fails. A revocation empties the room of its tenant |
| Typing | Redis `typing:*` with 3 s to live | start, stop, expiry | late expiry messages. Each start is stopped once, and nobody is shown typing who is not |
| Presence queries (query-service) | none | single and batch read | several round trips per answer. An online answer is true when it leaves, an offline one unless somebody connected meanwhile |
| Tenants | table | create, list | nothing concurrent |
| SDK `PresenceClient` | socket, reconnect timer and delay, heartbeat timer, subscriptions | connect, disconnect, subscribe, events | timers against calls. One live socket, none after `disconnect` |
| React hooks | presence and typing state | fetch, events | a fetch that is read in four commands and answered after newer events. The hook shows the user as he is once everything has arrived |
| Heartbeat timing | 15 s pings, 5 s throttle, 30 s to live | | a connected client never expires |
| Health, bootstrap, Swagger, types, build, tests | none | | nothing to check |

Interactions: the gateway calls `PresenceService` and gives it the function that
broadcasts; `PresenceService` calls Redis through one shared connection
(`redisClient`) and hears expired keys on a second one; `query-service` reads
the keys `ws-service` writes and publishes revocations that the gateway hears.

`PROJECT.json` has the list of hazards, each at its line, with the properties
that cover it or the reason why none does.

## 2. How the modules fit together

| Section | Module | Extends | What it adds |
|---|---|---|---|
| 3 | `PresenceService` | | sessions in Redis, events, sweeps, crashes |
| 4 | `PresenceGateway` | `PresenceService` | sockets: which calls the handlers really make, and what a disconnect during a registration or a rejected registration leaves behind |
| 5 | `Typing` | | the typing key and late expiry messages |
| 6 | `QueryService` | `PresenceService` | reads between the commands of ws-service |
| 7 | `Handshake` | `ApiKeys` | the door: rate limit, key check, rooms, revocations, with the requests that issue and revoke keys |
| 8 | `ReactHooks` | `PresenceClient` | the client: connection, timers, heartbeat; the state the hooks show |

Behaviours of `PresenceGateway` and of `QueryService` are behaviours of `PresenceService`, so the
theorems about that carry over. `Handshake` and `PresenceGateway` share `handleConnection`: the
first models it up to the room, with the registration as one step, the second the registration and
what comes after, with the handshake as one step. `ReactHooks` takes as given what the
other modules are about: that a change of a user's state is announced. Its fetches have the four
commands of `QueryService` as steps of their own.

Every invariant and every action property of the runs that pass has a theorem (section 10). What
could be added, in the order of what it would tell: `CacheNotLeaked` without the condition that no
command failed (what a lost reply leaves in the cache, and for how long), the announcements
with one sweep that finds a set empty while no registration is in progress, and a bound on how
long a user stays announced after a crash.

## 3. The session core: `PresenceService.tla`

| Module | Contents |
|---|---|
| `PresenceService` | the model and its properties |
| `SessionRegistry` | abstract specification: what the service promises about sessions |
| `MCPresenceService` | symmetry sets for the small instances; the `.cfg` files give the constants |
| `PresenceServiceTypes` | lemmas: every step keeps `TypeOK` |
| `PresenceServiceProofs` | the inductive invariants and their theorems: one about the keys, one about the times in flight; the service implements `SessionRegistry` |
| `AnnouncementProofs` | what the service settles to: the cache, the sets, the announcements |

### State

| Variable | Code |
|---|---|
| `sessionHash[s]` | the hash `session:{s}`: the identity in it, `None` if there is no key |
| `userSessions[u]` | the set `user_sessions:{tenant}:{user}` |
| `lastSeen[u]`, `clock` | `last_seen:{tenant}:{user}`; the last answer of Redis to `TIME` |
| `identityCache` | the map `sessionIdentityBySessionId` |
| `op[o]` | an `async` call in progress: `pc` names the Redis command it awaits, the other fields are its locals |
| `pipe` | the commands in flight, in the order they were issued |
| `assigned` | session ids that `registerConnection` has returned, and so the ids the gateway can pass back |
| `phase` | `booting` until `startExpiryListener` has subscribed, then `listening`; `down` after a crash |
| `expired` | expired-key messages between Redis and the service |
| `events` | everything broadcast about each user (history) |
| `used`, `failures`, `crashes` | ids that were registered; counters for the bounds |

A user stands for a (tenant, user) pair; `ColonUser` are those whose user id
contains a colon. Session ids are drawn from `Session`; `randomUUID` never
repeats a used id (`RegisterEffect`), except for the collision the code itself
allows for, with a live session (`RegisterCollision`).

### Steps

`ioredis` sends all commands of the process over one connection, so Redis
executes them, and the code sees the replies, in the order they were issued.
`pipe` is that order. One action is one reply: Redis executes the command at
the head and the code runs from there to its next command (`Await`) or to its
end (`Return`). This is what JavaScript guarantees: nothing else runs between
two awaits. A Lua script is one command. The three to eight commands of an
operation are separate steps, and any other operation can have commands between
them. Reading the Redis time counts as a command: it is where another operation
gets in between the decision to announce and the announcement.

| Actions | Code |
|---|---|
| `RegisterConnection`, `PruneRead`, `PruneCheck`, `PruneRemove`, `RegisterTime`, `RegisterScript`, `RegisterCollision`, `PublishOnline` | `registerConnection` with `pruneStaleSessions` and the collision retry |
| `CleanupSession`, `DeliverExpired`, `CleanupResolve`, `CleanupTime`, `CleanupScript`, `PublishOffline` | `cleanupSession`, called for a disconnect or for an expired key |
| `RefreshSessionHeartbeat`, `RefreshTime`, `RefreshScript` | `refreshSessionHeartbeat`, and the cleanup that `handlePing` chains to it when the session is gone |
| `ReconcileSessions`, `Sweep...`, `Orphan...` | `reconcileSessions`, `reconcileSingleUserSessionSet`, `pruneOrphanedSessionHashes` |
| `Reject`, `LoseReply` | `withRedisTimeout` rejects: the command was not executed, or it was and the code never hears of it |
| `Expire` | the time to live of a session key runs out; the message reaches the service only while it listens |
| `Crash`, `Drain`, `Restart`, `Listen` | the process ends and loses its memory; Redis may still execute what it was sent; a new process starts and subscribes |

Abstractions that a reader should know:

- A `SCAN` is one snapshot of the keys. The code scans in pages of 100 and visits
  each page before it asks for the next; keys that come or go during a scan may
  or may not be seen, and a key that was seen is read again before anything is
  done about it. With the small instances there is one page.
- The `EXISTS` checks of one set travel as one `ioredis` pipeline; nothing of the
  same process gets between them, and they are one step. The only foreign change
  is an expiry, and an expiry between two of them is the same as one before or
  after, as each check concerns its own key. An error reply for a single `EXISTS`
  is not modelled.
- A time-out does not reorder the connection: `LoseReply` and `Reject` happen when
  the command is at the head. That the code gives up earlier makes no difference
  to what it does, as it does nothing more.
- The rejected promise of `processExpiredKey` is not caught
  (`presence.service.ts:121`). Whether Node ends the process on it depends on how
  it is started: the model allows both, a `Reject` with or without a `Crash`.
- `CleanupSession` and `RefreshSessionHeartbeat` may be called for any assigned id,
  any number of times, at once. This is more than the gateway does;
  `PresenceGateway` makes the calls that the handlers make.
- Connections are accepted while the process boots, since `afterInit` is not
  awaited by the sockets. `CONFIG GET` and `SUBSCRIBE` take at most 3 s each before
  they reject and a session lives 30 s, so while the process boots only sessions of
  an earlier process (or that a lost reply hid from it) can expire: the guard of
  `Expire`.
- The order of sweeps is free: the boot's sweep and the timer's are the same action
  `ReconcileSessions`. With one `Sweeper` two sweeps do not overlap; the code's do
  only if one takes longer than 60 s.
- `TIME` answers any time that is no earlier than its last answer (`ReadTime`); time that nobody asks for
  passes unseen. Only the answers that go into `last_seen` are kept.
- Only the identity of a session hash is kept; `expires_at` is written and never
  read by the code.

Definitions named `Mut...` are faulty variants of the definition that follows
them. No action uses them; they show that a property notices the fault.

### Properties

| Property | Meaning |
|---|---|
| `LiveSessionIsMember` | a session whose hash exists is in its user's set: no `SREM` from an old snapshot takes it out |
| `RedisInv` | the inductive invariant: the above; an id is in one set only; cached identities are right; what each operation in progress has read still justifies its next write |
| `AnnouncementMatchesSessions` | when everything has settled and until something fails, the last event about a user says online exactly when a session is live |
| `SetsMatchSessions` | under the same conditions the sets hold the live sessions only, so `SCARD` is right |
| `NoRepeatedOffline` | until something fails, two `user_offline` have a `user_online` between them |
| `EventsAlternate` | no event is announced twice in a row, as a README of the repository has it; the code does that (run `repeated_event`) |
| `CacheNotLeaked` | when everything has settled the cache holds live sessions only |
| `OfflineHasLastSeen` | after `user_offline` there is a `last_seen` |
| `LastSeenMonotonic` | `last_seen` never goes back, though the time is read a command before it is written |
| `StaleMemberSwept` | a member whose session has expired is removed in the end |
| `OfflineAnnouncedUnlessFault`, `OfflineEventuallyAnnounced` | a user announced online without a session is announced offline in the end |
| `RegistrySpec` | refinement of `SessionRegistry` |

"Settled" (`Quiescent`) means that no command and no expiry message is in flight; "until something
fails" (`NoFault`) that no command has failed and no process has died so far.

`SessionRegistry` has four actions: a session opens (once ever, for one user), lapses
(its time runs out: it stays listed), ends (and is struck off), or lapsed sessions are
struck off. The mapping takes `live` from the hashes, `listed` from the sets and
`retired` from the used ids without a hash.

## 4. The sockets: `PresenceGateway.tla`

`PresenceGateway` extends `PresenceService`. A handler of the gateway is a call of the
service in progress, and what the handler does when the call returns: `caller[o]` says
whose call the operation `o` is. The rest of the handler runs in the step in which `o`
returns (`GStep`), and does not run when `o` is rejected (`GFault`).

| Variable | Code |
|---|---|
| `link[k]` | what socket.io knows of socket `k`: `new`, `open`, `closed` |
| `account[k]` | the identity in the connection payload |
| `handshakes` | sockets at the commands of the rate limit and of the key check |
| `connectionBySocketId[k]` | the session in the map entry of the socket, `None` without one |
| `lastPingAt` | the keys of `lastPingAtBySessionId` |
| `caller[o]` | the handler that awaits operation `o`, with its socket and session |
| `lapsed` | sessions whose time to live ran out (history) |

| Actions | Code |
|---|---|
| `Connect`, `Refuse`, `HandshakeFails`, `Accept`, `AfterConnect` | `handleConnection` |
| `Leave`, `LeaveWithoutEntry`, `AfterDisconnect` | `handleDisconnect` |
| `Ping`, `AfterPing` | `handlePing`; the cleanup that follows a failed refresh is `RefreshScript` of `PresenceService` |
| `Background`, `GExpire`, `GCrash` | expiry messages, sweeps, expiry, the end of the process |

What to know of it:

- A socket may leave, and may send, at any await of its own handlers. A socket that leaves
  during its registration has no entry yet: `handleDisconnect` returns at once, and the
  registration then adds an entry for a closed socket. The entry stays until the process
  ends; the session runs out after 30 s, as nobody pings for it.
- Socket ids are never used again, as in socket.io. A client that connects again is a
  new socket.
- The handshake is one wait that ends in one of three ways: refused (the socket is
  closed), accepted, or rejected by a failed command (the socket stays open without an
  entry: nothing in the code closes it). The two commands of the rate limit and the
  lookup of the key are steps of `Handshake`.
- A rejected handler is caught by nobody in this repository. Whether the process ends
  depends on the framework and on how Node is started: `GFault` happens with or
  without a `GCrash` after it.
- Pings that the 5 s throttle drops change nothing and are no step; which pings pass, and
  whether they keep a session alive, is in `PresenceClient`.

| Property | Meaning |
|---|---|
| `SocketKeepsSession` | for as long as a socket is open, the session in its entry is live under the user who connected, unless its time to live ran out |
| `GatewayInv` | the inductive invariant: the above; entries name sessions the service returned, each for one socket; cleanups are in progress only for sessions that no open socket has or that lapsed; a session that is being announced belongs to nobody yet |
| `OnlineMatchesSockets` | when everything has settled without a fault, a user was last announced online exactly when the gateway has an entry for the user whose session did not lapse |
| `AbsentUserTurnsOffline` | a user all of whose sockets have left, even during a registration, is announced offline in the end |
| `LapsedSocketCloses` | an open socket whose session lapsed is closed by its next ping, so that the client connects again |

`GatewayInv` differs from `RedisInv` in what it speaks of: sockets and handlers, not keys.
Neither implies the other.

## 5. Typing indicators: `Typing.tla`

Typing touches keys of its own and needs no live session, so it is a module of its own with
the calling convention of `PresenceService` (`op`, `pipe`, `phase`). The connection
is shared with the session core; commands of the core in between make no difference to
typing, and the order of typing commands among themselves is that of `pipe`.

`typing` is the set of users whose key exists; `expired[u]` counts the expiry messages on
their way (two can be: the key can be set again and expire again); `starts`, `stops` and
`announced` are what was broadcast; `lost` is history: the users about whom a command or a
message was lost. `StartTyping`, `SetTyping`, `RefreshTyping` are `startTyping`;
`StopTyping`, `DeleteTyping` are `stopTyping`; `ExpireTyping`, `DeliverTyping` the expiry and
`processExpiredKey`; `PublishStart` and `PublishStop` are `publishEvent`. A handler that finds no
map entry for its socket returns at once and is no step.

A typing key lives 3 s, and the two commands of `startExpiryListener` may take that long: unlike a
session, a key can expire while the process that set it is booting. Its message is then lost
(`ExpireTyping`).

| Property | Meaning |
|---|---|
| `EveryStartStopped` | when nothing is on its way about a user, starts and stops are equal, or differ by one while the key exists: a call of `stopTyping` and an expiry never both announce the end, and one of them does |
| `NoGhostTyping` | then, a user last announced as typing has the key: no `typing_stop` was overtaken by the `typing_start` it ends |
| `TypingEnds` | a user who has stopped is announced so in the end |

The properties are about users about whom nothing was lost and whose id has no colon.
`extractTypingIdentity` gives up on an id with a colon, so the expiry of such a key is never
announced (the root is that of the `colon_user` finding). The converse of `NoGhostTyping` does
not hold: an expiry message that is handled after the user has started again makes
`typing_stop` the last event while the user types, until the key is set anew. The code accepts
that: `processExpiredKey` does not look at the key.

## 6. Presence queries: `QueryService.tla`

`QueryService` extends `PresenceService` with queries in progress (`query[q]`), which only read.
query-service has its own Redis connection: commands of ws-service can be executed between
any two commands of a query, also between those of a pipeline. So `SCARD` (`ReadCount`), `GET`
of `last_seen` (`ReadLastSeen`), `SMEMBERS` (`ReadMembers`) and the `EXISTS` pipeline
(`CheckMembers`) are separate steps. The last is one step because a session found gone stays
gone. A batch reads `SCARD` and `GET` of one user after the other and looks at no session.
`before` and `heard` are history: the ids registered, and the users last announced offline, when
the query began.

| Property | Meaning |
|---|---|
| `OnlineAnswerTrue` | `getPresence` answers online only if a session of that user is live at that moment |
| `OfflineAnswerTrue` | an offline answer, single or batch, is true when it leaves, unless somebody was registered during the query |
| `OfflineAnswerHasLastSeen` | who hears `user_offline` and then asks gets a `last_seen` with an offline answer |

What the answers do not promise, and why the properties are worded as they are. If the user's
session is replaced by another between `SMEMBERS` and `EXISTS`, the answer is offline although the
user was never without a session. `last_seen` is read first, so a query that began while the user
was online for the first time can answer offline with `null`. A batch answers online for as long as
an expired session is in the set; that this ends is `StaleMemberSwept`.

## 7. The door: `ApiKeys.tla` and `Handshake.tla`

| Module | Contents |
|---|---|
| `ApiKeys` | tenants and keys in Postgres, the requests of query-service, `auth.revoked` messages |
| `Handshake` | sockets of ws-service up to their room, and the properties |
| `AccessRegistry` | abstract specification: what a key promises |
| `MCHandshake` | symmetry sets |
| `HandshakeProofs` | the inductive invariant, its theorems and the refinement |

| Variable | Code |
|---|---|
| `tenants`, `apiKeys[t]` | the tables: the tenants that exist; the row of tenant `t`, with its id and the secret whose hash it holds |
| `request[r]` | an HTTP request in progress: `pc` names the statement it awaits |
| `revoked[t]` | `auth.revoked` messages about `t` between Redis and ws-service |
| `subscribed` | `afterInit` has got to its subscription |
| `issued`, `granted` | history: secrets that were drawn; keys that were ever valid |
| `sock[k]` | a socket: open or not, the await its handshake is at, its key, tenant and room |
| `attempts[a]`, `deadline` | the counter `ratelimit:handshake:{a}` and the addresses whose counter has a time to live |
| `stuck` | history: addresses whose counter was left without one by a fault |

| Actions | Code |
|---|---|
| `CreateTenant` | `TenantController.create` |
| `IssueApiKey`, `UpsertKey`, `HandOutKey` | `issueApiKey`: draw a secret, upsert the row, read its id and hand the key out |
| `RevokeApiKey`, `PublishRevocation` | `revokeApiKey`: delete the row, publish |
| `PresentKey`, `ResolveTenant`, `AnswerPresence` | the middleware, which refuses a request whose key opens no tenant (401), and the controllers behind it |
| `Connect`, `CountAttempt`, `SetDeadline`, `CheckKey`, `JoinRoom`, `HandshakeFails` | `handleConnection` with `enforceHandshakeRateLimit` and `validateApiKey` |
| `Leave` | the client goes, at any of these awaits |
| `DrainRoom` | `handleRevocationMessage` |
| `Publish`, `Failing` | a publication reaches ws-service, or nobody listens yet; a statement or command of a request fails |
| `WindowEnds`, `Subscribe`, `Restart` | the 60 s of a counter; the subscription; ws-service ends and starts again |

What to know of it:

- The lookup of a row and the comparison with its hash are one step: what was read settles the
  outcome. Secrets are fresh random values and are never drawn twice.
- `fetchSockets` and the disconnections that follow are one step: with the in-memory adapter of
  one instance no other handler runs between them that could join the room.
- A key names its row by id. Issuing again keeps the id and replaces the hash (an upsert), and
  disconnects nobody: sockets that entered with the old key stay. `RevokedSocketsDrained`
  therefore speaks of the row, not of the secret.
- A socket that has been checked but has not joined its room when the message is handled is not
  among those the room returns. Nothing looks at its key again. The history field `stray` marks
  such sockets, and those whose message was lost because nobody was subscribed, the publication
  failed, or ws-service restarted. The property says that there is no other way to outlive
  a revocation.
- A lost reply of the first `INCR`, a failed `EXPIRE`, or a crash between the two leaves a counter
  without a deadline, and the code never sets one later, since only the answer 1 leads to
  `EXPIRE`. After `HANDSHAKE_MAX_ATTEMPTS` the address is refused for good. `CounterEnds` says that
  only these faults lead there.
- A request with a key that does not parse, or with none, is `PresentKey(r, None)`. `x-tenant-id` is
  read nowhere in the code and so does not occur.

| Property | Meaning |
|---|---|
| `RevokedSocketsDrained` | no socket is in the room of a tenant with a key whose row was deleted, unless the message about it is on its way or could not reach the socket |
| `IssuedKeyOpens` | the key that `issueApiKey` is about to hand out opens its tenant's door, unless another request replaced or revoked it meanwhile: the upsert and the second read agree on the id |
| `CounterEnds` | a counter has a deadline or is about to get one, unless a fault came between |
| `EveryReadServed` | a read is answered whatever its key, as a test and two READMEs have it; the code refuses it (run `invalid_key`) |
| `RegistrySpec` | refinement of `AccessRegistry`: a key is issued once, never becomes valid again, and whoever gets in holds a key that is valid at that moment |

## 8. The client: `PresenceClient.tla` and `ReactHooks.tla`

`PresenceClient` is the connection of the SDK: `wanted` (`shouldReconnect`), `socket`, `timer`
and `delay` of the reconnection, `beat` (the heartbeat interval), `ping` (one on its way), and what the
server knows of the socket: `joining` (a registration in progress), `session` (the age of
its key) and `pinged` (the time since `lastPingAt`).

`ReactHooks` adds one component with one of the three hooks. `history` is the sequence of what happens to
the users: their events, and the cleanups that announce nothing; `arrived` is how much of it has reached the client or is lost, `hook` the
hook's state and its fetch, `subscriptions` whose events call it.

| Actions | Code |
|---|---|
| `Connect`, `Disconnect`, `Reconnect`, `OnConnect`, `OnClose` | `connect`, `disconnect`, the timer's callback, `connectSocket` and its handlers, `scheduleReconnect` |
| `Beat`, `HandlePing`, `Registered` | `startHeartbeat`; `handlePing` with its throttle; the end of `handleConnection` |
| `Tick` | a unit of time passes, never past something that is due |
| `Announce` | a user comes, goes, starts or stops typing |
| `Mount`, `ChangeUser`, `Unmount` | the effects of the hooks and their cleanups |
| `Cleanup` | a session is cleaned up without an event: others are left, or the user was offline already |
| `ReadCount`, `ReadLastSeen`, `ReadMembers`, `CheckMembers` | the commands of `getPresence` (`SCARD`, `GET`, `SMEMBERS`, `EXISTS`), or the first two for `getPresenceBatch`, each at a place of `history` of its own |
| `FetchAnswered`, `FetchFails` | the answer comes, or an error |
| `Deliver` | `dispatchPresenceEvent` and the callbacks |

What to know of it:

- A socket that is replaced loses its listeners and is disconnected first: it does nothing more, and
  one variable is enough. What is emitted on a socket that is still connecting is kept and sent when
  it connects; such a ping may come before the registration, and is ignored.
- Time is in units of 5 s: pings every 3 units, a throttle of 1, a time to live of 6, and a latency of 2.
  The theorem needs only what `TimesAssumption` says of them. Redis is taken to answer within a
  unit. The reconnect timer is not timed: it may end at any moment after it was set.
- Events of one ws-service process reach a socket in order, and the times in them do not go back.
  The place in `history` stands for the time of an event. `last_seen`, with which `usePresence`
  compares later events, is the time of any cleanup so far, whether it announced something or not
  (`LastSeenTimes`): the scripts set it each time, with a time read before.
- What a command answers is what `history` says at its place: members are there while the user
  is announced online. That sets and announcements agree is what `PresenceService` is about; where they do
  not (its findings), the hook shows what was announced. `EXISTS` may find all members of
  an older `SMEMBERS` gone if something happened since: an event about the user, or
  a cleanup without one, as when session A is replaced by B between the two commands. The
  answer is then offline about a user who was never without a session.
- `getPresence` turns a 404 into a user who is offline, and rejects before `connect()`; both are
  outcomes of `FetchFails`.
- An answer replaces what events have shown since it was read (`usePresence` puts the answer in
  without looking at the time). The history field `stale` marks that, and events that were
  missed while the client was not in its room; `failed` marks a fetch that failed, and `mixed` a
  fetch of `getPresence` during which a session of the user was cleaned up without an event.
  In these four cases the hook may be wrong until the next event about the user. The properties say
  that in every other case it is right, wherever the four commands fall between the
  changes: an event between two of them, in particular, corrects whatever the answer mixed.
- `usePresenceBatch` is modelled for one user of its list; a change of the list is a user that is
  new to the record.

| Property | Meaning |
|---|---|
| `NeverGivesUp` | a client that was told to connect has a socket that is open or opening, or a timer that will open one |
| `DownStaysDown` | after `disconnect()` there is no socket, no timer and no heartbeat |
| `TimerSparesSocket` | a reconnect timer is pending beside a good socket only if `connect()` was called while it was pending |
| `HeartbeatKeepsSession` | the heartbeat runs exactly with the socket, and no session of a connected client runs out, whatever the throttle drops |
| `PresenceSettles` | when no answer and no event is under way, `usePresence` shows the user as he is, but for the four cases above |
| `BatchSettles` | so does `usePresenceBatch` for a user in its record, but for the first three: its one `SCARD` mixes nothing |
| `TypingSettles` | then, who is shown typing is typing |
| `ShownIsOwn` | what is shown is about the user asked for, except while the fetch of `usePresence` is under way or after it failed |

`TypingSettles` holds in one direction only: a hook that was mounted while a user typed does not know
of it, as nothing can be asked.

## 9. Runs

| Run | Instance | Shows |
|---|---|---|
| `presence_faults` | 1 user, 2 sessions, 1 operation and 1 sweep at a time, 1 lost or failed command, 1 crash, 2 collisions, under `FairSpec` (232,000 states) | `TypeOK`, `RedisInv`, `LiveSessionIsMember`, cache, `OfflineHasLastSeen`, the refinement, and the two liveness properties |
| `sweep_race` | 1 user, 2 sessions, 1 operation, 1 sweep | violation: announced offline while connected |
| `colon_user` | as above, the user id contains `:`, 1 crash | violation: the sweep never repairs this user |
| `crash_offline` | 1 user, 1 session, 1 crash | violation: an offline event lost for good |
| `gateway_core` | 1 user, 2 sockets, 2 sessions, 2 operations, 2 collisions, 1 failure, 1 crash, 2 clock readings, no sweep (316,000 states) | `GTypeOK`, `GatewayInv`, `SocketKeepsSession`, `OnlineMatchesSockets`; of `PresenceService` `AnnouncementMatchesSessions`, `SetsMatchSessions`, `NoRepeatedOffline`, `LastSeenMonotonic` |
| `gateway_liveness` | 1 user, 2 sockets, 2 sessions, 1 operation, no fault | the two liveness properties of the gateway, under `GFairSpec` |
| `typing` | 2 users, one with a colon, 2 operations, 3 calls of `startTyping`, 1 failure, 1 crash | the four properties of `Typing`, under its `FairSpec` |
| `query` | 2 users, 2 sessions, 1 operation and 1 query at a time, 1 crash | the four properties of `QueryService` |
| `handshake` | 2 tenants, 2 secrets, 2 requests, 1 socket, 1 address, a limit of 2, 2 faults (486,000 states) | `TypeOK`, `RevokedSocketsDrained`, `IssuedKeyOpens`, `CounterEnds` and the refinement |
| `hooks` | 2 users, 2 changes or cleanups, intervals 3, 1, 6, latency 2, delays up to 3 | the nine invariants of `PresenceClient` and `ReactHooks` |
| `repeated_event` | 1 user, 2 sessions, 1 operation | violation: `user_online` twice in a row |
| `invalid_key` | 1 tenant, 1 secret, 1 request, 1 socket | violation: a read that is refused |

Why the bounds are enough. A race needs two operations on the same user, and a snapshot that goes
stale a second session. In `presence_faults` the two are a sweep and any other operation, in
`gateway_core` two calls of handlers or expiry messages. The collision bound of 2 goes past
`SESSION_COLLISION_RETRY_LIMIT = 1`, so that the registration that gives up is reached. One
crash is enough to lose the cache, an operation in progress and the messages on their
way. With one failure every command of every operation is tried. Two
clock readings are enough for a time read before another to be written after it.
Two sockets are what it takes for one to be disturbed by what another leaves behind, and two
operations for a socket to leave or ping during its own registration or ping. Three calls of
`startTyping` are a start, a refresh and a start over, with any of the expiries and stops in
between; calls of `stopTyping` are not bounded. A query needs two users for a batch, and two
sessions for one to replace the other during the query.
In `handshake`, two secrets are a key and the one that replaces it, two requests the two that meet,
two tenants what a wrong room or a wrong row needs; one address with a limit of 2 reaches the refusal,
as the counter stays when a socket has left and the next connects, and every command is tried with each of
the two faults. In `hooks`, two changes are one that an answer has read and one that it has not, or
one on either side of a command, two users what a wrong subscription needs, and a maximal delay
that is no power of two makes doubling go past it (1.4 million states).

What no run reaches and only the theorems of section 10 cover: three operations of
one user at once; a second user beside a sweep or a failure; `LastSeenMonotonic`, `SetsMatchSessions`
and `NoRepeatedOffline` with sweeps; two sockets in `handshake`; three changes in `hooks`.
`CHECK_DEADLOCK FALSE` is set because the instances do stop, when every session id has
been used.

Fairness. `FairSpec` says that Redis answers the command at the head, a dead process
is restarted and subscribes (what the comment at `presence.service.ts:566` says of a
restart supposes as much; a subscription that fails is a crash of the boot), and the
interval timer starts a sweep again and again. No fairness
is assumed of users, of the delivery of expiry messages, or of faults. Failed commands
are among the steps of the liveness check, at most one of them: a failure ends a sweep just as a crash
does, and the next one starts over.

`GFairSpec` adds that a session which no open socket refreshes runs out of time (Redis
does this), that a message which was not lost is delivered, that an open socket with a session goes
on pinging (the SDK does, every 15 s), and that a handshake ends. The delivery, the ping and the
handshake need a free operation slot, and slots are an artifact of the model: in the code a
call never waits for another. A slot that is freed again and again but always taken by
somebody else would starve them in the model only, hence strong fairness. The fairness of
`Typing` is of the same kind: Redis answers, and a message that was not lost is delivered.
The runs `handshake` and `hooks` are about safety. That a client connects again in the end
follows from `NeverGivesUp` and a timer that ends, if the network is back; no more is claimed.

On the order of continuations. The model runs the code after a reply before it looks at the next
reply. When several replies arrive in one chunk, `ioredis` settles their promises one after
the other and the code behind them runs in the order of the replies only if it is equally many
promises deep. Where a property needs that order (`AnnouncementMatchesSessions`,
`LastSeenMonotonic`, `NoGhostTyping`) the code behind the two replies is equally
many promises deep, or that of the earlier reply less deep. Of the theorems, those about `last_seen`,
about typing and about announcements (`OfflineAlternates`, `ConnectedAreAnnounced`,
`AnnouncementsSettle`, `AnnouncementsMatchSockets`) use the order of the pipe; the others do not.

Disagreements found:

- `sweep_race`. `reconcileSingleUserSessionSet` reads `SCARD = 0`, then needs the time,
  the `SET` of `last_seen` and the time again before it emits `user_offline`. A
  registration in between has emitted `user_online`; the offline event comes last.
  Nothing repairs it while the session lasts.
- `colon_user`. `parseIdentityFromUserSessionKey` splits at every colon, so a user id
  with a colon is skipped by the sweep for ever.
- `crash_offline`. The cleanup script empties the set before the event is sent. A crash
  between the two leaves nothing a sweep could find.
- `repeated_event`. `apps/ws-service/README.md:11` says "Emit state transition events only on real
  transitions (`0 -> 1`, `1 -> 0`)". A registration that prunes the user's expired session takes
  it out without an event and announces `user_online` again. With a sweep `user_offline` is repeated
  too: a cleanup between the sweep's `EXISTS` and `SREM` announces it, and the sweep again.
- `invalid_key`. `apps/query-service/test/app.e2e-spec.ts:35-57` sends `x-api-key: invalid-key` and expects
  200 and 201; `apps/query-service/README.md:21-22` and `37-38` and `src/README.md:48-50` accept
  `x-tenant-id` instead of a key, or a key of the form `tenant:<tenantId>`. `api-key.middleware.ts`
  refuses all of these, and never reads `x-tenant-id`.

Three more lines of the repository say what the models show not to be so. They have no run of
their own; each is stated as an exception of a property that is checked.

- `auth.controller.ts:54`: "API key revoked and sockets drained." A socket that has passed the key check
  and has not joined its room stays connected, and so do all when nobody is subscribed yet or
  ws-service restarts. `RevokedSocketsDrained` excepts exactly these (`stray`). If the publication
  fails the answer is an error, but the key is gone and a second revocation answers 404.
- `app.controller.ts:42`: `last_seen` is "null if online". `getPresence` (`app.service.ts:53-57`) and
  `getPresenceBatch` return what `GET` answered with either status, and nothing deletes the key: whoever was
  offline once has a `last_seen` in every later answer. `QueryService` keeps it that way;
  `OfflineAnswerHasLastSeen` is about offline answers only.
- `app.service.ts:38-40`: "Read-time validation below corrects false positives. Full consistency is
  guaranteed by ws-service cleanup paths." The validation reads the members and their sessions in two
  commands, and can answer offline about a user who is online all along (section 6);
  `usePresence` keeps that answer until the next event (`mixed`).

## 10. Proofs

Eight modules hold proofs: `PresenceServiceTypes`, `PresenceServiceProofs`, `AnnouncementProofs`,
`PresenceGatewayProofs`, `QueryServiceProofs`, `TypingProofs`, `HandshakeProofs` and
`ReactHooksProofs`. The theorems hold for any sets and any bounds that satisfy the assumptions:

| Assumption | Says |
|---|---|
| `PresenceAssumption` | `None` is no user and no session, operations of the two kinds are distinct, bounds are naturals |
| `GatewayAssumption` | `None` is no socket |
| `TypingAssumption` | users with a colon are users, `None` is none, bounds are naturals |
| `KeysAssumption`, `HandshakeAssumption` | `None` is no tenant, secret or address, requests are not sockets, the limit is positive, bounds are naturals |
| `TimesAssumption` | intervals are positive; `Latency + MinGap <= Interval` and `Interval + Latency < Ttl` |
| `HooksAssumption` | `None` is no user, the bound is a natural |

| Module | Theorem | Statement |
|---|---|---|
| `PresenceServiceProofs` | `TypeCorrect` | `Spec => []TypeOK` |
| | `RedisInvariant` | `Spec => []RedisInv` |
| | `LiveStayListed` | `Spec => []LiveSessionIsMember` |
| | `OfflineDated` | `Spec => []OfflineHasLastSeen` |
| | `LastSeenGrows` | `Spec => LastSeenMonotonic` |
| | `Refinement` | `Spec => RegistrySpec` |
| `AnnouncementProofs` | `CacheSettles` | `Spec => []CacheNotLeaked` |
| | `SetsSettle` | `Spec => []SetsMatchSessions` |
| | `OfflineAlternates` | `Spec /\ []SweepsAnnounceNothing => []NoRepeatedOffline` |
| | `ConnectedAreAnnounced` | `Spec /\ []SweepsAnnounceNothing => []LiveAreAnnounced` |
| | `AnnouncementsSettle` | with `NobodyGivesUp`: `Spec /\ []SweepsAnnounceNothing => []AnnouncementMatchesSessions` |
| `PresenceGatewayProofs` | `GatewayRefines` | `GSpec => Spec`: the gateway drives the service through its own steps only |
| | `GatewayTypeCorrect` | `GSpec => []GTypeOK` |
| | `GatewayInvariant` | `GSpec => []GatewayInv` |
| | `OpenSocketsKeepSessions` | `GSpec => []SocketKeepsSession` |
| | `EntriesMatchSessions` | `GSpec => []HeldAgrees`: settled and without a fault, live sessions and map entries agree |
| | `AnnouncementsMatchSockets` | with `NobodyGivesUp`: `GSpec /\ []SweepsAnnounceNothing => []OnlineMatchesSockets` |
| | `GatewayImplementsRegistry` | `GSpec => RegistrySpec` |
| `QueryServiceProofs` | `QueryRefines` | `QSpec => Spec` |
| | `QueryTypeCorrect` | `QSpec => []QTypeOK` |
| | `OnlineAnswersAreTrue` | `QSpec => OnlineAnswerTrue` |
| | `OfflineAnswersAreTrue` | `QSpec => OfflineAnswerTrue` |
| | `OfflineAnswersAreDated` | `QSpec => []OfflineAnswerHasLastSeen` |
| `TypingProofs` | `TypingTypes` | `Spec => []TypeOK` |
| | `StartsAreStopped` | `Spec => []EveryStartStopped` |
| | `NoGhosts` | `Spec => []NoGhostTyping` |
| `HandshakeProofs` | `HandshakeTypes` | `Spec => []TypeOK` |
| | `RevocationsDrain` | `Spec => []RevokedSocketsDrained` |
| | `IssuedKeysOpen` | `Spec => []IssuedKeyOpens` |
| | `CountersEnd` | `Spec => []CounterEnds` |
| | `RegistryImplemented` | `Spec => RegistrySpec` |
| `ReactHooksProofs` | `HooksTypes` | `Spec => []TypeOK` |
| | `ReconnectGoesOn` | `Spec => []NeverGivesUp` |
| | `DisconnectClears` | `Spec => []DownStaysDown` |
| | `HealthySocketSpared` | `Spec => []TimerSparesSocket` |
| | `SessionKept` | `Spec => []HeartbeatKeepsSession` |
| | `PresenceIsRight`, `BatchIsRight`, `TypingIsRight` | `PresenceSettles`, `BatchSettles`, `TypingSettles`, each `[]` |
| | `ShownAsAsked` | `Spec => []ShownIsOwn` |

In particular they hold for any number of overlapping sweeps, crashes and lost
replies, which the runs bound. The theorems about settled states are the exception: there each
condition excludes a behaviour of the code that breaks the statement.

| Condition | What it excludes, and why |
|---|---|
| `NoFault`, in the properties themselves | a failed command or a crash so far. Run `crash_offline` shows an event lost with the process; a timed-out `SREM` leaves its ids in the cache. A prefix without faults is enough, and `CacheSettles` needs only the absence of failed commands |
| `SweepsAnnounceNothing` | a sweep whose `SCARD` answers 0 (run `sweep_race`). Sweeps may run, in any number, and take members out |
| `NobodyGivesUp` | a registration that prunes the last stale session of a user and then meets a collision twice: the user stays announced online, the set is empty (the hazard at `presence.service.ts:147`). With at most one collision in a registration it does not exist; with one user neither, as what it collides with is a session of that user |

The argument. `LiveSessionIsMember` alone is not inductive: from an arbitrary state an
`SREM` could remove a live id. What makes it hold is that ids are never used twice. A
snapshot of a set holds used ids (`MembersWereUsed`); an id found dead by `EXISTS` is
used and has no hash, and stays so, since only a registration creates a hash, and it takes
a fresh id (`StaleStaysDead`). A cleanup and the orphan pass act under an identity that
they took from the cache or the hash: it is that of the hash for as long as there is one
(`CacheAgrees`, `IdentityAgrees`), so they touch the right set. `SoleOwner` says that no
other set lists the id. Together with the operands each command needs, this is
`RedisInv`.

Each step of an operation changes that operation only, and session hashes only decay
(`HashDecay`: a used id keeps its hash or loses it). One lemma, `OthersKeep`, then covers
what all the other operations know; each action is left with its own operation and the
conjuncts about Redis it disturbs. `TypeOK` and `RedisInv` are proved together
(`NextInv`): the types need the operands.

One consequence is worth knowing: `StaleStaysDead` says that a hash which
`pruneOrphanedSessionHashes` is about to delete is already gone. The orphan pass never
deletes anything, unless something outside this service writes these keys.

The times (`ClockInv`, also in `PresenceServiceProofs`). `LastSeenMonotonic` is about a time that is read
a command before it is written. The times that commands in the pipe are about to write are sorted
along it, and none is before one that was written (`TimesSorted`): a time is read in the answer to
the command before, and the command that writes it goes to the end of the pipe at once. An
operation has one command in the pipe at most (`OneCommandEach`), or it could stand in two places
of that order. `OfflineHasLastSeen` adds what an operation that will announce an end has done before:
its previous command dated it (`EndsDated`).

The gateway (`PresenceGatewayProofs`). What a step of the service does to sessions has four
shapes: it opens one, returns one that was announced, ends one, or does nothing to a live one
(`Opens`, `Announces`, `Ends`, `Carries`; `StepShape`). `SocketKeepsSession` can only be broken by
`Ends`, so the invariant says who can be about to end a session: a cleanup in progress is for a
session that lapsed, or that was returned to a caller whose socket is closed (`HandlerInv`).
Such a cleanup starts in three ways: a socket leaves, and its own entry says which session; an
expiry message, and then the session lapsed (`expired \subseteq lapsed`); or a failed refresh, and
then the hash is gone, so by `SocketKeepsSession` itself the session of an open socket has lapsed.
A session that is still being announced (`pub_online`) is in nobody's entry, and only one
operation announces it (`AnnouncedOnce`): so its entry, when it comes, is the only one.

What the service settles to (`AnnouncementProofs`). That nothing is in progress means an empty
pipe; every operation in progress has a command in it (`CommandsSent`), so then all slots
are idle and each of the invariants below loses the part that speaks of operations.

- `CacheInv`: a cached session without a hash is *undertaken*: its expiry message is on its way,
  or a cleanup of it has yet to reach the end of its script. An operation that caches a session has
  just read or written its hash, and a dead process has no cache.
- `SetsInv`: without a fault every member of a set is cached under its user (`MembersCached`). So a
  dead member is undertaken, and the cleanup finds the user without asking Redis, where the
  hash is gone. What makes it inductive is that the code forgets an id only together with
  the membership: the snapshots it removes from belong to one user (`Owned`).
- `Ordered`: what a user counts as is the last event, moved on by each announcement in the pipe
  (`OnlineThrough(u, n)` after the first `n` commands). A user with members counts as online at the
  end of the pipe, and every `user_offline` in it meets a user who counts as online
  there. It is inductive because a script that empties or fills a set puts the announcement at
  the end of the pipe at once (`Told`), and a reply only moves the first announcement to the events
  (`OnlineShift`). `ConnectedAreAnnounced` follows with `SetsInv`.
- `Founded`: a user without members who counts as online is being refilled: pruning has emptied the
  set, and the registration that pruned has yet to add its session, or the sweep to count.
  Pruning announces nothing, which is right only because of what follows it: this is where both
  `NobodyGivesUp` and `SweepsAnnounceNothing` are needed.

For the sockets (`OnlineInv` in `PresenceGatewayProofs`): a live session has an entry in the map, or
its registration is about to announce it (`Held`); the session of an entry is live, or lapsed,
or a handler that is about to delete the entry has ended it (`Backed`). `Attends` says which
handler is behind an operation; that a cleanup in progress is for a lapsed session or runs in the
handler that will delete the entry is what keeps an entry from outliving its session.
`EntriesMatchSessions` needs no condition on sweeps or collisions.

The queries (`QueryServiceProofs`). A query only reads, so `QSpec => Spec` and all that is known of
the keys holds during it. `NextDecays` says that whatever happens a used id keeps its hash or
loses it. Hence the members a query has read are the user's own for as long as they live
(`MembersOwned`, from `SoleOwner` and `LiveSessionIsMember` at the `SMEMBERS`), which is what makes
an `EXISTS` by id alone mean the right user; and while nobody is registered what was found
gone stays gone and the live sessions are among those read (`NothingMissed`). `HeardInv` carries
`OfflineHasLastSeen` to the answers: whoever was announced offline has a `last_seen` from then on,
as it never goes back to none, and a query has read it before any answer it gives.

Typing (`TypingProofs`). The invariant is an account (`FlowInv`). For a user about whom nothing was
lost, the starts that were broadcast or are in the pipe equal the stops that were broadcast or
are in the pipe, the expiry messages, and the key if there is one. That gives
`EveryStartStopped` when nothing is on its way. For the order of the last events it takes the
same along the pipe: up to any place of it there are no more stops than starts, and while
`typing_start` is what was last announced the stops are fewer.

The door (`HandshakeProofs`). `RevokedSocketsDrained` is strengthened to sockets on their way to the room
(`DrainInv`): whoever is in it or about to join has a row that stands, or the revocation is at
`rev_publish` or in a message, or it missed the socket. It is an invariant because a row that is
replaced keeps its id, and a row that is deleted always leads to a publication or a fault. For the
refinement: rows are keys that were granted (`RowsGranted`), no two tenants share a secret
(`RowsDiffer`), and a secret that an upsert is about to store is in no key and in no
other request (`SecretsFresh`), so an upsert issues a key that never was valid.

The client (`ReactHooksProofs`). `HeartbeatKeepsSession` needs to know where the next ping is
(`RefreshInv`): while one is on its way the session is at most `Interval` older than the ping and
the throttle has let go; while none is, the session is no older than the heartbeat's last
beat and the throttle lets go before the next ping arrives. The first sum of `TimesAssumption`
is what the throttle needs, the second keeps the age below `Ttl`. For the hooks, what is shown was
so at some place `n` of the history that the delivered events have not gone beyond, or an event is under
way at `n` that the hook will heed (`PresenceInv`): an answer may be ahead of the events, and the events
in between are ignored or repeat what the answer knew. When all have arrived, `n` is the end of
the history. The read has to carry that through its commands. Between those of an unmixed fetch no session
went without an event, and `last_seen` is not newer than the members (`ReadInv`); so an
answer is true of its place `upto`, or an event follows that place which is no older than the
`last_seen` in the answer and therefore corrects it (`AnswerInv`).

Only model-checked. The liveness properties (`StaleMemberSwept`, `OfflineAnnouncedUnlessFault`,
`AbsentUserTurnsOffline`, `LapsedSocketCloses`, `TypingEnds`) stay with TLC, since fairness and ENABLED
are out of the prover's reach. So do the five findings, which are counterexamples.

## 11. Not modelled

Health, wiring, Swagger pages, type declarations, tests and build files have no behaviour that a
model would tell more about. The same goes for the validation of request bodies,
`TenantController.getTenant` (it only reads) and `tenant-resolver.ts` (nothing calls it), and of libs/redis
the handling of connection URLs. The client side abstracts from the contents of requests.

Several `ws-service` processes on one Redis are left out: the repository's
`docker-compose.yml` runs one, and socket rooms are local to a process. So is the loss
of Redis itself (`--appendonly no`): a Redis that restarts empty loses every session at
once, and nothing in the code reacts to that but the next heartbeat of each socket.

Hazards without a property are listed in `PROJECT.json` with the reason. Three of them concern the
client: the backoff is reset by a connection that the server then refuses, so a
client with a revoked key tries again every 500 ms; one callback subscribed twice for a
user is one subscription; and the server keeps a socket open whose handshake was rejected by
a failed command.
