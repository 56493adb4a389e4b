# BananaTalk: a TLA+ model

BananaTalk pairs strangers for video calls. A Go backend authenticates its
users over a websocket, pairs those who wait, and relays the messages with which
the two phones set up a direct WebRTC call. It runs as several instances (pods)
behind one Service, with Redis for the waiting queue and Postgres for users,
reports and blocks. The client is a Flutter app.

This directory models the parts of the backend and of the client where several
things happen at once. Paths below are relative to the repository, and `backend/x.go` is
`src/backend/x.go` in PROJECT.json.

## 1. The system

### Components, their state and operations

| Component | State | Operations |
|---|---|---|
| Matchmaker, `backend/matchmaker.go` | In Redis, shared by all instances: the list `matchmaker:queue`, the hash `matchmaker:enqueued_at`, one set `matchmaker:blocks:<user>` and one key `matchmaker:session:<user>` per user; in each instance, the local state of one matching loop | `Add`, `Remove`, `HydrateBlocks`, `AddBlock`, `ClearBlocks`, `SetSession`, `DeleteSession`; `Run`/`processMatches` pops two users, asks both block sets, puts the pair back or announces it |
| Connections, `backend/main.go` | The map `clients` of each instance (user to connection, the newest wins); for every connection a handler goroutine, a forwarding goroutine and a heartbeat | `handleConnections`: admission, hydration, upgrade, registration, subscription, `Add`, the read loop, and four cleanups in deferred functions |
| Relay, `backend/main.go` | none of its own | `handleMessage` writes an offer, answer, candidate or bye to the connection that `clients` has for the addressee, or drops it |
| Blocks, `backend/block.go`, `db.go` | The table `blocks`, two rows per blocked pair | `POST /block`: `insertBlock`, then `AddBlock` in both directions; `GET /blocks` |
| Reports, `backend/report.go`, `db.go` | The tables `reports` and `users` (`reports_received_count`, `banned_at`) | `POST /report`: upload, `recordReport` (one transaction: report, block rows, count, automatic ban), `AddBlock` twice, closing the banned user's socket |
| Bans, `backend/admin.go`, `db.go` | `users.banned_at` | `banUser`, `unbanUser`, `isUserBanned`, `disconnectClient` |
| Rate limiter, `backend/ratelimit.go` | A map from client addresses to token buckets, with the time each was last looked up | `allow` (look up or make, then take a token), `gcLoop` |
| Shutdown, `backend/shutdown.go` | The flag `shuttingDown` | `gracefulShutdown`: flag, pause, broadcast, grace, close, `http.Server.Shutdown`, exit |
| Storage, `backend/storage.go` | The screenshots in the bucket | `Upload`, `Sign` |
| Admin pages, `backend/admin.go`, `admin_ui/app.js` | The page that the browser shows | `adminListReports`, `adminGetReport`, `adminUserAction` |
| Health, auth, metrics, errors | nothing that another part reads (health reads the flag) | |
| Client signaling, `frontend/lib/signaling.dart` | Socket, remote id, peer connection, buffered candidates, the shutdown flag | `connect`, `reconnect`, the message handlers, `findNextMatch`, `prewarm`, `dispose` |
| Client screen, `frontend/lib/main.dart`, `call_state.dart` | The call state (idle, matching, connected, reporting) | join, swipe, report, end |
| Client services, `frontend/lib/services/` | The local list of blocked users | `submit`, `block`, `syncFromServer` |

### Interactions

    client --ws--> handleConnections --Add/Remove--> Redis list <--pop/push-- loop (one per instance)
                        |   ^                                                     |
                        |   +------- SUBSCRIBE matchmaker:notify:<user> <---PUBLISH
                        +-- clients (per process) <-- handleMessage, /report, /admin, shutdown
    /block, /report --rows--> Postgres --loadUserBlocks--> HydrateBlocks --> Redis block sets <-- SISMEMBER -- loop

Everything shared goes through single Redis commands (or one Lua script or
MULTI/EXEC), single SQL statements and their row locks, or a Go mutex held for
a few lines. The interesting behaviour is what happens between them.

### What is hard

- Loops of several instances pop, reject and put back pairs of one list, while
  connections push and remove; a popped pair is in no list while it is looked at.
- A user's next connection may begin before the cleanup of the previous one has
  run; queue, registry, sessions and block sets are keyed by user.
- Blocks live in Postgres and, for connected users, in Redis; hydration and
  AddBlock are several commands each.
- Reports, blocks and bans are concurrent transactions that wait for each
  other's rows.
- A ban has to reach a live websocket, which only one process knows.
- Redis delivers a notification only to those subscribed when it is published.
- The rate limiter collects entries between a look-up and its use.
- A shutdown runs against connections at every point of their life and against
  peers that do not read.
- A report is an object in a bucket, then a transaction, then a ban; each may
  fail alone, and the list that the admin pages through moves meanwhile.
- The handlers of the client are asynchronous: each await of one of them is a
  place where messages, callbacks and taps change what it works on. The
  messages of a call do not say which call they belong to.
- Any Redis or Postgres command may fail with or without having been executed,
  and a process may die.

PROJECT.json lists each hazard at its line with the properties that cover it.

### What makes each component correct

- Matchmaker: a join is in one place and matched at most once, never with
  itself; blocked pairs are not matched; pairs that may be matched are.
- Connections: no registry entry of a dead connection, no leftovers of a user
  whose connections are cleaned up, no waiting connection without a queue entry.
- Blocks: a block that was loaded, or made while its owner had a set, is honoured.
- Reports: no ban missed, one handler to act on each, nothing stored partially,
  no call waits for ever.
- Bans: the connections that were open are closed and cleaned up.
- Admin list: each report has its screenshot, and paging through the list misses
  none.
- Client: two matched phones get their pictures; an answer goes with its offer,
  no candidate is lost, and a call ends on one side when it has ended on the other.
- Rate limiter: collecting idle buckets changes nothing for any client.
- Shutdown: it ends; who is registered is told and closed.
- Notifications: a client hears of one peer, the one it was popped with.

## 2. Modules

| Module | Models | Runs |
|---|---|---|
| `MatchMaker` | The queue, the hash, the block sets, the session keys and all loops; one action per Redis command | `matchmaker` |
| `Pairing` | Abstract: fresh, waiting and paired joins | refined by `MatchMaker` |
| `MatchDrain` | `MatchMaker` with users already waiting, nobody coming or going, and fair loops | `drain` |
| `Backend` | Composes `MatchMaker` (as `MM`) with connections, registries, the table `blocks` and block calls | `backend`, `backend_ghost`, `backend_returned` |
| `Notify` | Subscription, publication and forwarding of matches | `notify` |
| `Reports` | The transactions of `db.go` under read committed | `reports` |
| `Bans` | Bans, unbans and severing against connections: state and steps | in `Moderation` |
| `Moderation` | Extends `Bans` with the calls around them: `/report`, the bucket, the stored reports, the admin's list | `moderation` |
| `Signaling` | Phones that call each other: the client's signaling and call screen, and the server as far as they see it | `signaling`, `signaling_next` |
| `RateLimiter` | The limiter and its collector | `ratelimiter` |
| `TokenBucket` | Abstract: one bucket per address, kept for ever | refined by `RateLimiter` |
| `Shutdown` | The sequence against the connections | `shutdown` |
| `MatchMakerProofs` | Theorems about `MatchMaker` | |
| `BackendProofs` | Theorems about `Backend`, through those about `MatchMaker` | |
| `ReportsProofs`, `ModerationProofs`, `NotifyProofs`, `ShutdownProofs`, `RateLimiterProofs`, `SignalingProofs` | Theorems about the module of that name | |
| `MC*` | Constants for TLC | |

Definitions whose comment begins with "Wrong:" are mutated forms of the
definition that follows them, with a plausible bug in it. No specification uses
them; PROJECT.json says which property each of them breaks.

### How state and actions correspond to the code

**MatchMaker.** A *join* is one call of `Add`, that is one websocket connection
that came as far as enqueuing. The Redis list holds user ids; the model keeps the
join that pushed each entry, in order to tell two entries of one user apart, and
every guard looks at the user only (`LRem` removes all entries of the user, as
`LREM key 0` does). Add is `RPush`, `HSet`; Remove is `LRemove`, `HDel`; a
failing command has an action of its own (`...Fails`), in which the command may
have been executed or not, and the handler's early return follows. A loop walks
through `pop`, `check1`, `check2`, then `requeue`, or `observe`, `session1`,
`session2`, `notify1`, `notify2`, as `processMatches` does; `PopPair` is the Lua
script, one step. `Crash` is the death of a process: its loop loses what it
held, and none of its connections cleans up. The value of a session key and the
enqueue times are read by no code (but a metric), so only their presence is
kept. The publish on the trigger channel only makes a loop run earlier than its
500 ms ticker, so that `Wake` is possible whenever a loop is idle.

**Backend.** `conn[c].pc` is the line at which handleConnections of connection c
stands; the queue, hash, block-set and session steps of the handlers are
MatchMaker's actions, called in the handler's order, so that the theorems about
MatchMaker carry over (lemma `NextUsesMatchMaker`). A behaviour begins by choosing an *environment*
(`env`), which says which connections and block calls there are, how many faults
and whether a user may connect while an older connection of the same user is
still being served or cleaned up (`overlap`). Both happen: a phone that changes
networks reconnects long before the server's read deadline ends its old
connection. Some properties hold only without it, and say so. Admission that turns a connection away leaves it
in `new`.

**Notify.** A coarser queue (any two entries may be popped) and the path of a
match message: `Subscribe` writes the command, `RedisSubscribes` executes it,
`Publish` puts the message into the inbox of every subscription of the user, and
`Forward` is the goroutine over `notifySub.Channel()`.

**Reports.** `tx[k]` holds what the transaction of call k has done and not
committed. `Inserts` is one row of the block insert: it waits when another open
transaction has inserted the same key, as the unique index makes it wait.
`Count` takes the row lock of the reported user until the end of the
transaction. `DeadlockDetected` aborts one call in a cycle of waits.
`CommitReplyLost` is a commit whose answer does not arrive. insertBlock is a
single-statement transaction over the same two rows.

**Bans.** `Ban(k)` is the commit that changes `banned_at`, `Sever(k)` the lines
that close the registered websocket; `live` records the connections that were
open at the ban. `MayOverlap` is as in Backend. `ServedBy[k]` is the instance that
serves the call, and `HomeOf[c]` that of the connection: a handler closes what the
map of its own instance has, so `BanSevers` and `BannedAreCleanedUp` speak of
the connections on that instance (`Severers`), and except one that has lost its
entry to another connection of its user (`Displaced`). What the comments promise,
that every connection is closed, is `BanClosesAll`, which is false in both cases.

**Moderation.** `report[k]` is the line at which reportHandler of call k stands:
`Identify` makes the rows of both users, `Upload` puts the screenshot into the
bucket, `Begin` opens the transaction and fixes the row's `created_at` (NOW() is
the time of the BEGIN), and `Store` commits it, with the ban of `Bans` or
without: when reports become a ban (more than five within the window) is the
business of Reports. Each step
has a failing twin; `StoreUnheard` is a COMMIT whose reply is lost. The walk of
the admin is `OpenList`, then for each page `ListRows` and `ListCount`, the two
queries of listReports, and `NextPage`, the browser's button, which is disabled
when the page is the last of the `total_pages` of that response.

**Signaling.** `phone[u]` is the fields of class Signaling and the call state of
the screen; `pcs[u]` the peer connections that the phone has made, of which
`phone[u].pc` is `_peerConnection`; `tasks[u]` the async methods that wait at an
await, each with the connection that it captured before it. A handler is cut at
its awaits: `GetOffer`, for example, leaves the task "apply_offer", the engine
takes it up or refuses it, and "resume_offer" is what follows the await, with
the fields read again as the code reads them again. The engine is external: it
answers setLocalDescription and setRemoteDescription in the order of the calls,
finds candidates, reports tracks, disconnection and failure, and refuses what
its signaling state or a disposed connection does not allow. `up` and `down` are
the websocket in both directions, and `home[u]` is the replica that has registered
it. `Relay` delivers to websockets of the same replica only, as handleMessage
looks into the map of its own process, and drops what is for another. `Match`
takes two users out of the queue and publishes to both; each side is told by a step
of its own (`Tell`, the goroutine of its connection, from `news[u]`), so that one
phone's offer may overtake the other's match. The faults are a refused connection, a lost
one, a failed peer connection and a killed app (signing out is the same to the
others); a drain is a shutdown of the server, which tells the phone. An
environment bounds the calls each user starts, the faults and the drains, says
whether candidates are found, and whether the user reports, or even joins again
while its report is being submitted. The eight attempts of `reconnect` are one
that succeeds or not.

**RateLimiter.** One tick is the time in which a bucket gains one unit, and a
token costs `Refill` units. `Get` is the look-up under the mutex, `Allow` the
limiter's call after it, and `Collect` may run in between. An attempt may stall
for `MaxStall` ticks between the two.

**Shutdown.** `spent` adds up the pauses and the writes that time out;
connections go on registering and ending while the broadcast and the close work
on their lists. `Exit` stops everything, cleanups included.

## 3. Runs

All runs are exhaustive within their bounds; each takes three and a half minutes at
most.

| Run | Shows | Bounds |
|---|---|---|
| `matchmaker` | `OnePlace`, `NoJoinMatchedTwice`, `OnePairPerFault` and the refinement of `Pairing`, with all interleavings of two loops, callers, block-set calls and a fault | Three joins of two users (two entries of one user meet), two instances, one fault, a cycle of one rejection: enough for a loop to hold a pair while the other pops, puts back or crashes |
| `drain` | Every pair that may be matched is eventually matched, unless two disjoint pairs are blocked | Four users in every order, every set of block rows, two fair loops, cycles of two rejections (so that the bound is met) |
| `backend` | Six properties of queue, registries, block sets and stamps together | Two instances, users a, b, and x offline and blocked by a, and six environments: a and b connect, and b again on the other instance; a and b connect, and a again beside its older connection; both connect, or one of them twice, with one block call at any moment; one connection with a block call and a failure or crash; one user with two overlapping connections and a failure or crash |
| `backend_ghost` | An entry of a user who left stays in the queue | One instance; a connects twice, in sequence, and b once, with a block call |
| `backend_returned` | A block call has returned and the pair is matched | As `backend_ghost`, without earlier blocks |
| `reports` | No missed ban, one handler per ban, complete rows, only opposite calls deadlock, all calls end | Three reports (two about one user, one in the opposite direction), one block call, threshold 1, two admin actions, one fault |
| `moderation` | A ban closes what was open on its instance and had its entry there, and cleanups follow; a listed report has its screenshot; the walk misses nothing | Two instances, two unbans, and three environments: three connections of one user, two on one instance and one on the other, in any overlap, with a report and an admin's ban served by different instances; two users with a ban each and a self-report; a list of two reports, in pages of one or two, with two more reports coming in and bans committed |
| `ratelimiter` | Refinement of `TokenBucket`; no token from a bucket that was collected; less than twice the burst per minute | Four attempts of one address (buckets of different addresses share nothing), burst 2, 14 ticks: two collections with a new bucket after each |
| `shutdown` | Told before closed, registered means closed, the exit comes | Three connections of two users, any set of peers that do not read, the real durations in seconds |
| `notify` | One peer per client, and prompt subscribers hear | Four connections of three users, two loops |
| `signaling` | Answers with their offers, no glare, no candidate lost, phones matched at one replica connect, deserted phones leave | 276 thousand states: two users, either of whom calls twice and the other once, in ten environments (with candidates; with candidates and reports; a fault, a drain and a join during a report, each for either; a fault with candidates of one side; two replicas), and three users without faults |
| `signaling_next` | A swipe does not lead back to the queue | Two users, of whom one calls twice, no faults |

`backend_ghost`, `backend_returned` and `signaling_next` end in counterexamples:
the code does not do what a comment beside it says. PROJECT.json quotes the
lines under "findings".

### Further counterexamples

These configurations are kept for reference. Each checks one statement of a
comment or a document and TLC finds it violated within seconds
(`tlc -config MCModerationPods.cfg MCModeration` and so on).

| Configuration | Statement | What happens |
|---|---|---|
| `MCMatchDrainDisjoint` | "processMatches drains all matchable pairs from the shared queue", `matchmaker.go:221` | Two disjoint blocked pairs keep the order in which they are popped |
| `MCBackendOffline` | AddBlock is a "No-op if the blocker has no Redis set (offline)", `matchmaker.go:143` | EXISTS, the cleanup's DEL, SADD: a set without expiry for an offline user |
| `MCBackendPooled` | The pool contains the waiting users, `DESIGN.md:73` | The cleanup of an old connection removes the entry of the new one |
| `MCBackendSelf` | The script returns nothing "if fewer than 2 users are waiting", `matchmaker.go:99` | Two entries of one user |
| `MCBackendPods` | The server "relays messages between User A and User B", `DESIGN.md:90` (`PairsAlwaysReachable`) | The two are on different instances |
| `MCReportsBlocks` | insertBlock is "Idempotent: duplicate pairs are silently ignored", `db.go:332` | Two opposite calls deadlock and one fails |
| `MCModerationPods` | A ban "also drops their websocket if connected", `README.md:96` (`BanClosesAll`) | The call reaches another instance |
| `MCModerationOverlap` | "Sever any active WebSocket the banned user has open", `report.go:138` (`BanClosesAll`) | The registry knows the newer connection only |
| `MCModerationHandshake` | "Reject banned users", `main.go:210` | The ban is committed and severed during the handshake |
| `MCModerationTies` | The list pages through all reports "newest-first", `db.go:212` | Two rows of the same microsecond change places between two pages |
| `MCShutdownEntries` | The per-connection cleanup runs, `README.md:198` | The process exits first |
| `MCShutdownDeadline` | shutdownDeadline bounds the entire sequence, `shutdown.go:13` | Three peers that do not read |
| `MCNotifyMissed` | "we never miss a notification", `main.go:276` | The pair is published before Redis executes the SUBSCRIBE |
| `MCSignalingShield` | The shield is "only visible during a live, connected call", `main.dart:597` | The sheet is answered after the peer has hung up |
| `MCSignalingLate` | prewarm is done "all before a peer is even assigned", `signaling.dart:204` | The swipe after a late report disposes the peer connection of the next call |
| `MCSignalingDrained` | Early candidates: "we buffer and flush", `signaling.dart:49` | A shutdown replaces the peer connection while a description is applied. Without shutdown two killed apps are enough (environment `KilledTwice`): an offer of the match before is applied, the call is swiped away while `_handleOffer` is at its await, and what is left of that method empties the buffer of the next connection |
| `MCSignalingStale` | An answer belongs to the offer of its connection | A killed app and a shutdown: an answer of the previous match arrives in the next. With a third phone a killed app is enough, also for offers that cross (environment `KilledOfThree`, invariants `AnswersFit` and `NoGlare`) |

### Bounds

`MaxRejections` is the code's constant (32) made small. `MaxFaults`,
`MaxUnbans`, `MaxAdmin`, `MaxTime` and `MaxStall` bound what the environment
does; they occur in guards of actions of the environment only. Users,
connections, calls and instances are finite sets. The proofs of section 4 need
none of these to be small.

The environments of `signaling` are cut to what one run can finish. The
invariants were checked on larger ones too, each of two phones. Without
candidates: two calls each with one fault (164 thousand states; 338 at two replicas),
three and two with a fault (962 thousand) or a drain (1.4 million), two each with a
fault and late reports (2.8 million). With candidates: two calls each (166 thousand),
the same with one drain (4.4 million), two and one with a fault and reports at two
replicas (455 thousand), and two and three with a fault and candidates of one
phone (4.5 million). With candidates, two calls
of one phone are enough for those of an earlier call to meet the connection of a
later one. SameExchange and CandidateKept distinguish calm behaviours (no fault,
no drain, no join while a report is submitted), for which they say that
everything fits between any number of phones, from the others, for which they
speak of two phones only: after a fault an offer of a third phone may arrive in
a call that it does not belong to.

Four reports in pages of one make walks of up to four pages, during which the
list grows, and a row stored late lands among older ones. Without `MayTie` no
two rows have the same time.

### Fairness

- `DrainSpec`: weak fairness of each loop. `Run` wakes every 500 ms, and a cycle
  waits for Redis only. Nothing else moves in that specification.
- `Reports!FairSpec`: weak fairness of each call's statements. A handler runs to
  its end, Postgres grants a lock that is free and detects a cycle of waits.
  Admin actions, time and failures need not happen.
- `Moderation!ModFairSpec`: a handler that has begun goes on (registration, cleanup,
  severing). Clients and admins need not act.
- `Shutdown!Spec`: the sequence goes on: every write has a deadline and
  `http.Server.Shutdown` has a context. Connections need not make progress.
- `Signaling!FairSpec`: as long as something can proceed without a user or a
  fault, something does: the event loop runs its tasks, messages arrive, the
  engine answers, the server cleans up, and a peer that is gone is noticed (the
  engine reports a disconnection). What users do, refusals, losses and shutdowns
  need not happen.
- `Notify!Spec`: the loops and the forwarding goroutines go on; in that module no
  command fails.

## 4. Proofs

`MatchMakerProofs` proves for any number of users, joins, instances and faults:

- `TypeCorrect`: `Spec => []TypeOK`
- `EveryJoinInOnePlace`: `Spec => []OnePlace`
- `MatchedAtMostOnce`: `Spec => []NoJoinMatchedTwice`
- `PairingImplemented`: `Spec => ImplementsPairing`

The only assumption is `ConstantsAssumption` of MatchMaker (types of the
constants, a positive rejection bound).

The inductive invariant is `Inv == TypeOK /\ OnePlace /\ NoJoinMatchedTwice`.
NoJoinMatchedTwice is not inductive: that a new pair is disjoint from all older
ones needs that joins in hand are in no pair, that they got there from a queue
without repetitions and disjoint from all pairs and other hands, and that a push
is of a join that was nowhere before. That is OnePlace.

The proof goes through a case distinction about what a step does to places
rather than through the twenty-odd actions twice: `OneWay` says that every step
either drops joins from places (and adds none), pushes a new join, takes two
from the queue into hands, returns them, or turns hands into a pair.
`NextIsOneWay` shows it for all actions; `DropsInv`, `PushesInv`, `TakesInv`,
`ReturnsInv` and `MatchesInv` show that each way keeps the invariant, and
`DropsIsLeave`, `PushesIsEnter` and `MatchesIsPair` that it is a step, or a
stutter, of Pairing. Its first lemmas are the facts about lists that this
needs: what an append, the pop of two, the push back of two and `LREM` do to the set of
entries and to their distinctness. The lemma about `LREM` is the longest: the
model defines it by the rank of the positions that stay, and `RankReached` shows
by a well-founded choice that every rank occurs.

`RateLimiterProofs` proves for any addresses, requests and durations:

- `LimiterTypeCorrect`: `Spec => []TypeOK`
- `HeldStaysMapped`: `Spec => []HeldIsMapped`
- `CollectorNeverNoticed`: `Spec => CollectorUnnoticed`

The assumption is `RateLimiterAssumption` of RateLimiter: a burst and a price of
at least one, and `Capacity + MaxStall <= IdleTTL`, which the code's one minute
and ten minutes leave nine minutes of room for. The inductive invariant is
`TypeOK /\ WaitsBriefly /\ PaidSoonAfterSeen`. HeldIsMapped alone is not
inductive: that Collect spares the entry of a waiting request needs that the
request looked it up, and so marked it as seen, at most MaxStall ticks ago
(`WaitsBriefly`). That a collected entry is full, as the one made after it will
be, needs that it was paid from at most MaxStall ticks after it was last seen
(`PaidSoonAfterSeen`). `ForeverStep` then maps Get and Collect to stutters, Tick
to the Tick of TokenBucket, and Allow to Admit or a stutter.

- `BurstTwiceNever`: `Spec => []TwiceBurstNever`

The bound on admissions needs an invariant of its own, `PaidFor`: for every
address and every moment, what has been paid since, plus what the bucket holds,
is at most a full bucket plus the time gone by. TwiceBurstNever speaks of the
last minute only and is not inductive, since the minute moves. That at most
finitely many attempts are admitted at any time is part of the invariant, so
that the set of attempts may be infinite.

`BackendProofs` proves for any users, connections, instances, block calls and
faults:

| Theorem | Property |
|---|---|
| `TypeCorrect` | TypeOK |
| `BackendPairsOnce` | OnePlace and NoJoinMatchedTwice in Backend |
| `RegistryLive` | RegistryIsLive |
| `StampsDoNotLeak` | NoStampLeaks |
| `LoadedBlocksKept`, `BlockCallsReach` | LoadedBlocksHonoured, BlockReachesLiveSet |
| `WaitersArePooled` | WaitingIsPooled |
| `PeersReachEachOther` | PeersReachable |

`BackendAssumption` has the types of the constants, MatchMaker's assumption
(Backend instantiates it), and that the table `blocks` is symmetric, as both
functions that insert rows insert both. `PeersReachEachOther` has no hypothesis
besides, whatever instances, overlaps and failures there are: the message of one of
a matched pair reaches the other if and only if one instance serves both, except a
connection beside which its user has registered another. The properties themselves say where they need that nothing
failed, or that no user overlaps.

`NextUsesMatchMaker` shows that every step of a handler or a loop is a step of
the matchmaker, under the guard that MatchMaker puts on it. Everything proved
about MatchMaker then holds of Backend, and is used there: OnePlace is what
makes "pushed means pooled" inductive. The invariant of Backend follows a
connection through its handler: the registry names a connection from its
registration to its cleanup unless another of its user was registered beside it
(`Registered`), and without overlap the user has one live connection (`OneLive`),
so that no cleanup takes the entry of another; what the connection has
loaded is in the user's block set until the cleanup deletes it (`SetInv`), so
that what a loop has checked it has checked against that (`CheckInv`); a block
call has reached the set of the blocker when it goes on to the second half
(`ReachInv`); each enqueue time has a connection that will still delete it
(`StampInv`).

`ReportsProofs`, for any users, calls, threshold and faults, from
`ReportsAssumption`: `TypeCorrect`, `NoBanIsMissed` (BanNotMissed),
`OneHandlerLearns` (OneHandlerPerBan) and `SuccessStored` (SuccessIsStored), `CyclesArePairs`
(OnlyOppositeCallsDeadlock). The
invariant says who holds which lock at which statement (`LockInv`): of the calls
about one user, one at most is between its count and its end. What it counted is
then still all there is when it decides (`SeenInv`), and a call that will ban
has seen its user unbanned with nobody banning it since (`BansInv`). `RowsInv`
says that a row a call is past is committed or in its own transaction, `OpenInv`
that no report is visible before its commit. The stored reports are finitely
many in every state, which counting them needs. For the last theorem: a call
that waits at its first row holds nothing, one that waits at its second holds
one row (`HeldInv`), so that a cycle of waits has two members, which have
inserted, or wait to insert, the same two rows in opposite order.

`ModerationProofs`, for any users, connections, calls and page sizes, from
`BansAssumption` and `ModerationAssumption` (of which the proofs use that the
report calls are finitely many: the clock is bounded by their number):

- `TypeCorrect` (ModTypeOK) and `ScreenshotIsStored` (ScreenshotStored), from
  what is uploaded and stored at each point of a call (`StoredInv`, `UsersInv`);
  that the clock stays in its type is a count of the calls that have begun.
- `BansSever` (BanSevers), for any number of instances and with overlapping
  connections: the registry of an instance names each connection of the instance
  that is up, unless another connection of its user has displaced it
  (`Registered`), and that is the one the handler closes.
- `WalkIsComplete` (WalkMissesNothing), provided that no two rows have the same
  time. The proof counts places: `PlaceOf` shows that in every listing a row
  comes right after those that are later (a numbering of the stored rows is a
  bijection), `LaterGrows` that this number only grows as reports come in, and
  the invariant `WalkInv` that every row not yet shown has a place beyond the
  pages shown. When the last page has been shown there is no such place
  (`PagesBeyond`). `MCModerationTies.cfg` shows that ties break this.

`NotifyProofs`, for any users, connections and instances: `TypeCorrect` and
`HearsOfOnePeer` (HeardOnce). The invariant follows an entry from the queue
through the two publishes of a loop: before its pop a connection has heard of
nobody and nobody of it (`WaitingInv`), two loops announce disjoint pairs
(`PlaceInv`), and `LoopInv` says what is left to say after each publish.

`ShutdownProofs`, for any connections and time limits: `TypeCorrect`,
`NobodyClosedUntold` (ClosedWereTold) and `NobodyLeftOpen`
(RegisteredAreClosed). The invariant says of each list that the sequence works
through whom it still owes a message or a close.

`SignalingProofs`, for any users, calls, faults and shutdowns, from
`SignalingAssumption`: `TypeCorrect` (TypeOK), which says among other things
that no phone uses a peer connection that it has disposed of. That takes
`TaskInv`: what the tasks "make" and "create" are about to make the current peer
connection is neither disposed, nor the current one, nor made by two tasks; and
every description that is on its way, or that a task is about to apply, names a
peer connection that exists. Every action is an instance of one of a few kinds
of steps of a phone (`KeepingStep`, `MakingStep`, `GrowingStep`), for which the
invariant is shown once.

And, for calm behaviours (no fault and no shutdown has happened, nobody joins
while a report is being submitted) of any number of phones and calls:

- `CalmExchange`: in every calm state two phones have no offers for each other at
  once (NoGlare), answers fit the offers they are applied to (AnswersFit), and
  candidates are kept (CandidatesKept), in whatever environment.
- `NoGlareEver`: moreover two phones never have offers for each other at once,
  whatever faults, shutdowns and late reports there are, if the users are finitely
  many (TwoPhones counts them). That is the first half of SameExchange.
- `CalmSameExchange` and `CalmCandidateKept`: so, if no environment has faults,
  shutdowns or late reports (`CalmEnvironments`), SameExchange and CandidateKept
  hold for any number of phones. What else they say of two phones when something
  goes wrong is model-checked only.

Nothing in an offer or an answer tells which match it belongs to, so the
invariant, `CalmInv`, has to show that there is never more than one it could
belong to. A phone may have been matched and not know it yet: `Pends(u)` is the
peer of a match that is published or on its way down, of which there is one at most.
What carries the exchange of a match on is handed from place to place
like a baton: the match that pends for the offerer (for the answerer it may pend
until long after the offer has come), the offerer's task, the offer
on its way up and down, the answerer's task, the answer on its way up and down,
the offerer's last task. `Baton(a, b, p)` says what is where in phase `p` of the
exchange of `a` and `b`, and `BatonInv` that whoever has such a message or task
is a party of one. Two exchanges never share a party (`Disjoint`), since a phone
in the middle of one can do nothing but hand the baton on: its screen shows no
call yet that could be ended. Only the answerer is free from the moment it has
applied the offer (`Loose`): it may then leave, and its answer is lost or comes
to nothing. `Net` has the websockets (a phone that waits has no such message or
task), `Held` the candidates and who may have an offer out, `Fit` the answers.
Every step is of one of four kinds: it leaves the batons alone (`ByTheWay`),
hands one on (`HandedOn`), drops one for good (an offer or answer for a websocket
of another replica, or one that is gone), or is a match of two that take part in no
exchange.

`NoGlareEver` needs no batons. Its invariant, `Roles`, is that every offer, from
the task that makes it to the state of the peer connection, is of a caller with a
caller above it, and every task that applies one of a caller with a caller below
it: with two callers in all (`AtMostTwo`) nobody is both. This withstands every
fault, since no message, task or peer connection that outlives its call changes
who it is of. With a third phone it says nothing, and glare is possible
(`KilledOfThree` above).

Only model-checked:

- everything under fairness (`DrainsWithoutDisjointBlocks`, `EveryCallEnds`,
  `BannedAreCleanedUp`, `ShutdownEnds`, `PromptSubscribersHear`,
  `MatchedConnect`, `DeadCallEnds`), which the prover does not do;
- what SameExchange says of answers, and CandidateKept of candidates, between two
  phones when one thing goes wrong.

## 5. Not modelled

- Redis expiry after 24 hours, and retries of the Redis client library that
  could execute an RPUSH twice: both lie in what Redis and its library do, and
  lead to states that Backend reaches otherwise (an online user without a set,
  two entries of one user).
- The values of sessions and enqueue times, metrics, logs, the wording of errors.
- Foreign keys and the locks of upsertUser in Reports: they could only add waits
  for rows that no call of the model holds in another order. The share locks that
  a report's foreign keys take on the two users conflict with no UPDATE of the
  columns concerned.
- The text of a reason, and that it is cut after 500 bytes; the filter by reason.
- Auth, health, metrics, error bodies, signed URLs, the manifests and the
  platform projects have no state of this kind. What verifyToken decides is a
  refusal or a user, here as an input.
- In the client: timings and `connect_metrics`, the local media, the toggles of
  microphone and camera, permissions and widgets; the back-off of `reconnect`
  (one attempt stands for eight, so that how the limiter refuses them is not
  combined with the phone); the local block list, a set that only grows beside
  the server's.
- Signaling lets a user connect again only after the server has cleaned up the
  connection before, and a match that is published to a user after the end of its
  connection is lost; the overlap, and a match published late to a user's next
  connection, are in Backend and Notify, without phones. `Join` merges the awaits of
  `_join`, so that a second tap during them is not modelled.
- The time that a handshake or any other step takes is arbitrary in all modules
  but RateLimiter and Shutdown.

## 6. Plan

Done: MatchMaker with Pairing, MatchDrain, Backend, Reports, Bans with
Moderation, RateLimiter with TokenBucket, Shutdown, Notify, Signaling; proofs of
the safety properties of all of them, those of Signaling about descriptions and
candidates for calm behaviours, and of two phones' offers for all.

Next: the parts of SameExchange and CandidateKept that are about answers and
candidates between two phones when one thing goes wrong. Both need to know which
messages of the call that the fault ended can still be on their way, and that
there is no second such call.
