# A verification project for social-backend

TLA+ models of the parts of this repository whose correctness depends on the
order in which things happen: several instances of a service over one database,
messages that come twice or late, processes that die between two statements,
timeouts that race a late answer. TLC checks every model on small instances;
TLAPS proves the main safety properties for all values of the constants.

Every definition is translated from the code (the documents of `docs/` are only
quoted where the code disagrees with them), and `PROJECT.json` maps each
definition to its lines. Kafka, PostgreSQL and Redis are not part of the
repository; what the code relies on of them is stated at the top of each module.

## The system

A monorepo of NestJS services that own one PostgreSQL schema each, exchange
events through Kafka and keep caches, tickets and streams in Redis.

| Component | State | Operations | Talks to |
|---|---|---|---|
| Outbox and relay (`libs/platform-events/outbox.ts`, `relay.ts`, `kafka.ts`) | the `outbox` table of each service: `attempts`, `locked_until`, `published_at`, `poisoned_at` | append in the business transaction; claim, publish, mark, poison by every replica | Kafka |
| Consumer runtime (`consumer-runtime.ts`, `retry.ts`) | offsets, retry topics, dead letter topics, `processed_events` | handle, route to a retry tier or to the DLQ, force to the DLQ, redrive | Kafka, the handlers |
| graph-service, relations (`graph.service.ts`) | `follows`, `follow_requests`, `blocks`, `mutes`, outbox | follow, unfollow, request, accept, reject, block, unblock, mute, unmute | identity (is the target active and private) |
| graph-service, cascade (`cascade.service.ts`) | `cascade_jobs`, the three edge tables | enqueue on `user.erased`; claim, delete in batches, count, close, requeue, fail, reopen | its own tables |
| identity-service, counters (`counter.service.ts`, `counter-reconcile.service.ts`) | `follower_count`, `following_count`, `post_count` of `users` | apply an event, reconcile against the source tables | events of graph and post |
| identity-service, sessions and accounts | `users`, `credentials`, `sessions`, `email_tokens`, `user_settings`, `abuse_reports`; revocation keys in Redis | register, log in, refresh with rotation, revoke, reset the password, verify the address | Redis, the gateways |
| identity-service, erasure (`erasure.worker.ts`) | `status`, `erase_after` of users | find who is due, anonymise, emit `user.erased` | all cascades |
| post-service | `posts` with their counters, `likes`, `hashtags`, `post_hashtags`, `mentions`, outbox | create, delete, like, unlike, repost, reply, repair mentions; author cascade | graph, identity |
| timeline-service | home timelines in Redis sorted sets | fan-out, back-fill of a follow, rebuild, read with pull of large accounts, hydration and filters | graph, post |
| notification-service | `notifications`, `processed_events`, per-user Redis streams | notify with aggregation, list, mark as read; add a pointer to the stream | events of graph and post; graph |
| realtime-gateway | tickets and connection registry in Redis, one cursor per connection | issue and redeem a ticket, catch up, deliver from the stream, check the session | notification streams and rows, revocation keys |
| search-service | an index with documents per user and post | index, delete, query | events |
| api-gateway | idempotency entries and rate-limit counters in Redis, a circuit breaker per upstream host | authenticate, limit, proxy, create a post under an `Idempotency-Key` | all services |
| platform-db, -redis, -grpc, -config, -telemetry | none of their own | transactions, clients, breaker, settings | |

How they meet: a request reaches a service through the gateway (breaker,
idempotency); the service writes its rows and its outbox rows in one
transaction; a relay publishes them at least once; the consumer runtime of each
group brings them to a handler that deduplicates and writes in one transaction;
a failing handler sends a copy down the retry ladder, which is also where order
between events is lost.

What is hard in it: relays and workers of several replicas over one table;
leases and markers that expire or are deleted while their holder still works;
READ COMMITTED transactions that check one row and write another; events that
come twice, late and out of order; results of calls that end in another state of
the breaker than they began in; jobs whose worker dies; what is written to Redis
after the commit in Postgres; reads put together from several services at
several times. `PROJECT.json` lists each of these hazards with its line and the
properties that are about it.

## The plan

The order is that of importance: the event backbone that everything rests on,
then the state machines whose interleavings are the hardest to test.

| | Module | Abstract specification or composition | State |
|---|---|---|---|
| 1 | `OutboxRelay` | implements `EventDelivery` | checked and proved |
| 2 | `RetryLadder` | fed by what `EventDelivery` promises: copies, at least one | checked and proved |
| 3 | `GraphRelations` | | checked and proved |
| 4 | `CounterProjection` | consumes the events of 3 with the ladder's reordering | checked and proved |
| 5 | `CircuitBreaker` | | checked and proved |
| 6 | `CascadeJobs` | | checked and proved |
| 7 | `Idempotency` | gateway, Redis and post service together | checked and proved |
| 8 | `Sessions`: accounts, rotation under `FOR UPDATE`, revocation in Redis after the commit, access tokens at the gateway, erasure | identity-service, Redis and the guard of the gateway together | checked and proved |
| 9 | `Posts`: posts, reposts, likes and their counters, author cascade, mention repair | takes `user.erased` of 8 | checked and proved |
| 10 | `Timeline`: fan-out against rebuild, eviction, follows and deletions | timeline-, graph- and post-service together | checked and proved |
| 11 | `Notifications`: aggregation, commit before stream, delivery from a cursor | notification-service, the stream and realtime-gateway together | checked and proved |
| 12 | `SearchIndex`: documents under reordered and repeated events | fed like 4 | planned |
| 13 | `EventPipeline`: outbox, ladder and projection in one | composes 1, 2 and 4 | planned |

Each component keeps one run for what must hold; what several parts share (an
event that comes twice, a worker that dies) is modelled once in 1, 2 and 6 and
taken from there.

Theorems worth proving next: what 12 and 13 will check.

## The modules

In all models one step is one statement, transaction, Redis command, producer
call or uninterrupted callback; between two steps anything else may happen.
Constants named `Max...`, unless they are settings of the code, bound the
environment (crashes, faults, changes).

**`OutboxRelay`** (`EventDelivery` above it). Rows are numbered in id order;
`appended`, `publishedAt`, `poisonedAt`, `attempts`, `locked` are the table,
`copies` counts what the broker holds of each row, and `pc`, `batch`, `snap`,
`todo`, `sentIds`, `failedIds` are the local variables of `relayOnceDetailed` of
each replica. `Claim` is the first transaction,
`PublishBatch`/`PublishBatchFails` the batch send (which may have landed in
part), `PublishOne`/`PublishOneFails` the fallback. The Kafka client repeats a
send whose acknowledgement is lost up to `SendRetries` times and its producer is
not idempotent (`kafka.ts:15-20`), so that one call stores any number of copies
of a row up to `PerSend`. `MarkResults` is the second
transaction, `Abandon` a crash or a failed mark. A lease ends by itself
(`LeaseExpires`) when nobody works on it and as a fault (`LeaseOverrun`) when
somebody does; crashes and overruns together are bounded by `MaxFaults`.
`EventDelivery` is what a consumer is promised: a row that was appended is
delivered some number of times and then retired, as done if it was delivered or
as quarantined. While every publish ends inside its lease (`orderly`), a row
gets one verdict and is not sent after it. Once a publish has outlived its lease
only the weaker half is left: what is done was delivered, and nothing but
committed rows is sent or retired. A row in quarantine may then be sent, for the
first time too, and retired again as done.

**`RetryLadder`.** `backlog` holds per group and copy what is to be delivered,
`published` the events the relay has sent, `onlyLogged` the failures that could
not be published at all; `inHand` and `stage` are the message an instance works
on and where `handleMessage` is with it, `processed` and `effects` are what the
handler's transaction wrote. `based` are the places (topic and partition, the
latter from `PartitionOf`) where a group has committed an offset. A copy carries
its tier and the group that failed. Retry topics are shared by all groups of the
base topic, as the code names them. `Handle`, `HandlerThrows`, `RouteToDlq`,
`RouteToRetry`, `RouteToDrop`, `RouteFails`, `ForceDlq`, `ForceDlqFails`,
`CommitOffset` are the steps of `eachMessage`. An instance that dies with a
message in hand gives it back (`Redelivered`) only where its group has a
committed offset: the groups subscribe with `fromBeginning: false`
(`consumer-runtime.ts:74`), so that without one it `RestartsAtLatest`, and
`skipped` remembers what was lost with that. `repeats` counts deaths, duplicates
of the relay and redrives.

**`GraphRelations`.** `rows` are the committed rows of the four tables, `events`
counts the committed outbox rows, `tx` is the open transaction of a session: the
statement it is at, what it inserted, deleted and will emit. A statement reads
committed rows plus its own writes; `INSERT ... ON CONFLICT` waits for an
uncommitted writer of the same key, `DELETE` for an uncommitted deleter. A
waiting statement is given up (`lock_timeout`, deadlock detector).
`CascadeDeletes` is a `DELETE` of the erasure cascade: rows of an erased user go
without an event, one statement at a time, beside the transactions. The history
`raced` holds the pairs on which two transactions have overlapped, `erased` the
users of whom the cascade took rows. Left out: the churn guard
(`assertNotFollowChurn`), which refuses on counts of past events, and the reads.

**`CounterProjection`.** `follows` is the source, `topic` the events of each
followee in order, `aside` those that have left the order and are not applied:
one that failed and is on the retry ladder, one that the relays published out of
order. `givenUp` are those of them that nothing will bring back
unless they are redriven (dead-lettered, dropped, only logged, or poisoned by
the relay). `followers` and
`following` are the columns, `byUpdatedAt` the order the reconciler scans, `todo`
and `read` its local variables. Each event is applied once (proved of
`RetryLadder`). The block and the cascade remove edges without an event, and
an accepted request of somebody who follows already emits one without an edge
(`AcceptFollower`). `post_count` has the same shape and is not in the model.

**`CircuitBreaker`.** `state`, `outcomes`, `halfOpenInFlight` are the fields of
the class; `sinceOpened` replaces `openedAt` and counts ticks up to
`HalfOpenAfter`, where counting on makes no difference. `inFlight`, `age`,
`doomed` are the calls under way, `up` the host.

**`CascadeJobs`.** `edges`, `status`, `attempts`, `queue`, `processed` are the
tables (a job is identified with its user: there is one open job per user);
`job`, `stage`, `round` are the local variables of `tick` in each instance.
`attempts` is counted up to `MaxAttempts` only, because no condition tells
larger values apart. A statement that throws may have taken effect all the
same, its acknowledgement lost: if it was the `UPDATE` that closes or requeues
the job, the `catch` block, which has no guard on the status, then writes over a
job that another instance may have claimed. `unseen`, `errors`, `lost` and
`unacked` are ghosts: rows inserted after the last count, errors of a job, users
whose job a dead worker, or one whose `catch` block failed too, has left as
`running`, and users of whose job such an acknowledgement was lost.

**`Idempotency`.** `entry` is the Redis key, `stage` and `body` the handler of
each request, `job` the execution in the post service, `answer` what the client
was told. Upstream errors, timeouts, Redis errors and crashes of the gateway may
happen at every step; the ghost `calm` is true until the first of them.

**`Sessions`.** `users`, `sessions` and `mail` are the rows of identity-service,
`keyUntil` the Redis keys of revoked sessions, `access` the signed access tokens
that are not expired, `outbox` the events of an account. A refresh token is its
session and how often that was rotated before. `req` are the requests in flight
(`OpenSession` and `CommitSession` of a login, `Sign`, the keys of a revocation
and the halves of a reset are steps of their own), `due` what each erasure worker
has read. A session takes `created_at` from the `BEGIN` of its login and is seen
by nobody before the `COMMIT`; `unseen` are the sessions that a reset of the
account read past that way. A check of the gateway may get no answer from Redis
and admits (`revocation.ts:44`), and Redis, which runs `allkeys-lru`, may `Evict`
a key. `now` is a clock:
the code compares ages with each other, and the run keeps their order. The
histories `granted` and `told` count exchanges and remember when the keys that
are still there were written.

**`Posts`.** `posts`, `likes`, `mention` and `events` are committed rows; `tx`
is the transaction of a session with what it has written, and what it has locked
is not free for the others; `repair` and `lock` are the repair of mentions on
each replica with its advisory lock, behind PgBouncer in transaction mode.
`Insert`, `Count`, `Mark`, `Clamped`, `Lock`, `InsertLike`, `DeleteLike` are the
statements, `Pick`, `MarkPicked` the batches of the author cascade. Left out of
`BeginCreate` is `assertNotDuplicateContent` (`posts.service.ts:84`), which only
refuses some creations before they begin.

**`Timeline`.** `tl` are the sorted sets in Redis; `posts`, `follows` and
`hidden` stand for post-service and graph-service; `jobs` are events with the
place their handler has reached, `reader` the home request of a reader with what
it has read so far, `scroll` the pages the reader has seen. Each call of another
service is a step and may fail, in the way the code takes a failure (an empty
list). The pages of the code are constants: a rebuild takes `FollowingPage`
followed authors (100), a read looks at `Looked` of them for large ones (50) and
pulls at most `MaxPulled` (10), a fan-out takes `FollowerPage` followers (1000).
Handlers run in any order, since an event may be on a retry topic; one may also
be given up (`GiveUp`). `missed` names the posts that a timeline lacks for a
known reason: it grows only where a rebuild read before it wrote or took only a
page of the follows, where an author was large, where a call was not answered
and where an event was given up.

**`Notifications`.** `rows` and `fate` are the tables of notification-service
(`fate` also says where an event was counted), `work` what each consumer does,
`handled` the events whose handler has returned. One that throws rolls back
(`Fail`), and its event is taken again, or never: the offset advances either way.
`stream` and `cut` the Redis stream and how much of it is gone. `conn` is the
`runDeliverySession` of the client's connection: catch-up, push, check, `XREAD`
with the cursor of the loop (`Dollar` until the first entry) and the position
from which the command in progress reads; `client` is what the client got. Of a
batch the first `HydrateMax` ids are looked up (100 in `getByIds`, while a
catch-up asks for 200). `ticket`, `revokedFor` and `key` hold an age in ticks, of
which `XREAD` waits at most `Block`; an entry ends the wait earlier, so that a
check may come almost a block late. The key of a revocation may never be written,
be written again by a second logout, and be evicted. `clock` is the time since
the last check, `after` the time the connection has lived beside the key, `delay`
the part of it in which it waited for something else than `XREAD`, `owed` the
number of intervals of checks it is allowed.

The `MC...` modules give the constants values; a module whose name ends in
`_proofs` holds the theorems about the module it is named after.

## The runs

The bounds are the smallest at which each of the hazards can happen; each row
says why it can.

| Run | Asks | Bounds, and why they are enough |
|---|---|---|
| `OutboxRelay` | `OneVerdict`: what two relays decide about one row. `CopiesBounded`: duplicates are limited by the claims, two calls each with the repetitions of the client. `ImplementsPromise`: refinement of `EventDelivery`, in full until a publish outlives its lease and what is left of it afterwards. `EveryRowSettles`: each row is published or quarantined | two replicas, two rows in one claim, poison after 2, one repetition per send, one crash or overrun, sends that may fail for ever: a row can be published by one relay while the other marks it |
| `RetryLadder` | `EffectAtMostOnce`, `NoEventLost` per group; `LadderEnds`: retry traffic dies out and leaves a verdict in each group | two groups on the shared retry topics, one event, one tier, a duplicate, a death or a redrive, a producer failure and that of the last resort after it: a group can die before and after its first offset, and the copy one group sends to the ladder reaches both, and each may fail it again |
| `GraphRelations` | `RelationLedger`: blocks and mutes match what was announced, but for users whom the cascade erases; `EveryEdgeAnnounced`: a follow is never without its event; `BlockHolds` on each pair on which no two operations overlapped; `EveryTxEnds` | two users, two sessions, four transactions or `DELETE`s of the cascade: enough for one that sets up, two that overlap, also in a circle of locks, and one that undoes |
| `CounterProjection` | `DriftIsUpward`: the consumer alone shows too few only by events that are not applied, those given up included; `Converges` | two users who fit in one batch, three changes, two of: an event put aside, given up or redriven, a user skipped; one silent removal or spurious event: a retried follow may come after its unfollow, or never, and the reconciler may write a count it read before either |
| `CircuitBreaker` | `ProbeIsAlone`: of the calls younger than the cool-down at most one is in flight while half-open, and the flag is set as long as there is one; `NeverWedged`, `RecoversWhenUp` | three calls, a host that goes down and up twice, the timeout above the cool-down: a call of an outage can end in every later state |
| `CascadeJobs` | `OneWorkerPerJob`, `DoneMeansGone`, `EveryJobSettles` | two erased users who share rows, two instances, one row per batch, four attempts, late rows, a crash anywhere, catch blocks that fail, closing `UPDATE`s whose acknowledgement is lost: a job can be claimed twice more after the first, by which time the flipped one would have two workers |
| `Idempotency` | `AnswersAgree` until something fails; `AnswersAreTrue`, `MarkerGoes` always | three concurrent requests, two bodies of which one is refused, everything failing: the first executes, the second meets its marker, the third its answer or its absence |
| `Sessions` | `RotatesOnce`: one exchange per refresh token; `AccessEnds`, `LogoutShutsOut`: how long access outlives a revocation without and with Redis; `SessionsPostdatePassword`; `ErasedIsOut`, `DeactivatedIsErased` | one account, two sessions, three requests of which two overlap, two erasure workers, one fault (a request that dies between two steps, Redis away, a key evicted, a failed erasure), and ages in the order of the code's: a refresh can meet a logout, a reset or an erasure at every step |
| `Posts` | `CountersMatch`: counters are the rows they count; `LikeNeedsPost`; `MentionedOnce`; `DeletedIsAnnounced`; `ErasureComplete` | two users, three posts, four transactions and repair runs of which at most three are transactions, two transactions and two repairs overlap, batches of one: a post can be liked, replied to, deleted and erased at once, and its mention repaired twice |
| `Timeline` | `WarmIsComplete`: a timeline lacks a post only for a reason in `missed`; `NoneShownTwice`; `ServedIsAllowed`: no deleted, muted or blocked author's post on a page | a reader, another follower, an author who is large with both, timelines of two posts and pages of one, one followed author per rebuild, looked at and pulled, three posts, two changes or faults: rebuild, fan-out and back-fill overlap, an author grows large between two reads |
| `Notifications` | `CountsEvents`: a row counts each event once, and no event whose handler returned is left out; `ShownIsCurrent`: what is sent is as new as its pointer; `DeliveredInOrder`: across connections the client gets each entry once and skips only what was trimmed; `RevokedStops`: how long a connection lives beside the key of its revocation | three events, two of them of one actor and group, two hours, two consumers, a stream trimmed beyond two, one row looked up per batch, one entry per `XREAD`, blocks of two ticks, a check every two, keys of five, one fault of any kind: an entry can be skipped or sent twice only with three; a check can fall in the middle of a block; connections break without limit |
| `TimelinePage` | `WarmIsComplete` is violated (below) | the instance of `Timeline` with one follower per page and an author of two followers who is not large |

Every property of these runs is broken by a mutant of the code listed in
`PROJECT.json`: a dropped guard, a wrong bound, a swapped or missing step.
`CHECK_DEADLOCK` is off because the environment is bounded: when all rows,
changes or requests are used up and everything has come to rest, the system
waits for more. That something which should go on does go on is stated by the
liveness properties instead. The type invariants are part of the proofs or, in
the modules without theorems, hold in the same instances; they are not repeated
in the runs.

### What the properties except

A property excepts a case only where the code makes it false, and then the case
is a step of the model: the same run has the behaviour.

| Property | Excepted |
|---|---|
| `OneVerdict`, `EventDelivery` in full | a publish that outlives its lease (`overruns`) |
| `NoEventLost`, `LadderEnds` | a failure that can be published nowhere (`onlyLogged`), a group that dies before its first committed offset of a partition (`skipped`) |
| `RelationLedger` | pairs with an erased user: the cascade takes rows without an event |
| `BlockHolds` | pairs on which two operations overlapped (`raced`) |
| `DriftIsUpward` | events not applied, those given up included; what the reconciler wrote |
| `OneWorkerPerJob`, `DoneMeansGone` | jobs whose closing `UPDATE` was not acknowledged (`unacked`) |
| `EveryJobSettles` | jobs that a dead worker or a failed `catch` block left (`lost`) |
| `LogoutShutsOut` | keys that were not written or were evicted, checks that Redis does not answer |
| `SessionsPostdatePassword` | sessions whose login had not committed when the reset read (`unseen`) |
| `ErasureComplete` | authors with more posts than the cascade's batches take |
| `WarmIsComplete` | what `missed` names |
| `RevokedStops` | the time without a key, checks that Redis does not answer, the time outside `XREAD` |

### Fairness

- `OutboxRelay`: every replica's tick re-arms its timer (`setTimeout`,
  `relay.ts:180`) and a lease that nobody holds ends by the clock. Nothing makes
  a send succeed: `Publish` is one action with its failure.
- `RetryLadder`: an instance that has a message takes it, and `eachMessage`
  returns, because it never throws and sleeps a bounded time; that some instance
  goes on when one can is enough.
- `GraphRelations`: a statement that can run runs; one that waits is given up by
  `lock_timeout`.
- `CounterProjection`: consumers consume, the retry delay passes, and the
  reconciler re-arms its timer in a `finally`.
- `CircuitBreaker`: time passes, `AbortSignal.timeout` ends every call, users
  keep sending requests. Nothing brings the host up.
- `CascadeJobs`: the worker of each instance wakes up every two seconds, and one
  that died wakes up again; nothing promises that its job is taken back, which
  is why `EveryJobSettles` leaves the users in `lost` aside.
- `Sessions`: time passes, the erasure worker of each instance re-arms its timer
  (`setTimeout`, `erasure.worker.ts:126`) and tries each account it read, and a
  request in flight goes on; failures are counted by `MaxFaults`.
- `Idempotency`: a handler that is not killed goes on, the post service works,
  and Redis expires entries. Nothing makes a client retry.

`Posts`, `Timeline` and `Notifications` are checked for safety only and state no
fairness. All of it is weak fairness, and none of it is on a fault or a crash.
Only the breaker relies on clients: it learns of a host from the calls it lets
through.

## Where the code and its documents part

`TimelinePage` is a run that is expected to end in a violation; its
counterexample is a behaviour of the code, its property a sentence of the
repository. `fetchFollowerIds` asks for one page of 1000 followers
(`timeline.service.ts:226`), and only authors of 10,000 and more are pulled on
read: a follower of an author between the two, beyond the first page, never gets
the post. "page followers via graph.GetFollowerIdsPage(author, cursor, 1000)" is
what `timeline-service.md:68` says.

The modules state more sentences of the repository that the same models refute.
They have no run of their own; TLC finds each violated when it takes the place
of the properties in the `.cfg` of the module's main run (`DriftIsCorrected`
with `Limit = 1`, `KeyOrderPreserved` with `Key <- MCSameKey`).

| Property | What happens | What is said |
|---|---|---|
| `KeyOrderPreserved` (OutboxRelay) | the one-by-one fallback goes on to later rows of a key after an earlier one failed | order per aggregate is preserved (`system-design.md:665`) |
| `NoDoubleClaim` (OutboxRelay) | the 30 s lease is not renewed while publishing | concurrent relays do not double-claim (`outbox.ts:99`) |
| `OutageAbsorbed` (OutboxRelay) | sends that fail because the broker is away use up the attempts; the row is poisoned and never sent | the outbox absorbs an outage (`post-service.md:305`) |
| `FailureIsPublished` (RetryLadder) | two producer failures in a row, and the offset advances with nothing published | failures are published, then the offset advances (`consumer-runtime.ts:52`) |
| `RetryIsPerGroup` (RetryLadder) | a retry of one group is handled by all groups | per-group retry consumers (`system-design.md:590`) |
| `BlockPrevails` (GraphRelations) | a follow that checked before a block commits after it | a block severs and prevents (`graph-service.md:139`) |
| `EventOnlyOnTransition` (GraphRelations, an action property) | accept emits `user.followed` for an edge that existed | only on a real transition (`graph-service.md:98`) |
| `DriftIsCorrected` (CounterProjection) | rows that are right fill every batch | recompute and correct (`identity-service.md:299`) |
| `FollowerCountRight` (CounterProjection) | a retried follow comes after its unfollow, clamped at 0 | strictly ordered (`graph-service.md:241`) |
| `OneProbe` (CircuitBreaker) | with a timeout above the cool-down, old calls are still in flight, and decide, in the half-open state | single in-flight probe (`circuit-breaker.ts:26`) |
| `JobResumes` (CascadeJobs) | the job of an instance that died stays running | resume after a kill (`graph-service.md:297`) |
| `FirstErrorIsRetried` (CascadeJobs) | ticks that succeed use up the attempts, and the first error is final | re-open for retry if attempts low (`cascade.service.ts:129`) |
| `RetriesDoNotBothExecute` (Idempotency) | a request whose second GET finds nothing executes without a marker | two retries do not both execute (`api-gateway.md:167`) |
| `NoDuplicatePosts` (Idempotency) | a timed-out attempt still runs when its retry is admitted | no duplicate posts on retry (`reliability.md:161`) |
| `PinnedRefusalIsFinal` (Idempotency) | the retry of an attempt that did post is refused, and the refusal is stored | a refusal is deterministic (`api-gateway.md:161`) |
| `OneLeader` (Posts) | the advisory lock belongs to a server connection, which PgBouncer in transaction mode (`docker-compose.yml:44`) gives to another client between two statements | only one replica repairs (`src/README.md:251`) |
| `FirstIsNext` (Notifications) | a new client's session asks for `$` again with every block, and misses what is added between two | catch-up makes a reconnect lossless (`realtime-gateway.md:54`) |
| `RevokedEnds` (Notifications) | the check asks for the key only: where it was not written, was evicted or has expired, the connection stays, also one that a ticket opens that was issued without a look at the revocation | revoked sessions are closed at the check (`realtime-gateway.md:51`) |
| `ListedNotRecounted` (Notifications, an action property) | the upsert adds 1 to `actor_count` for every event (`notifications.service.ts:97`), so an actor who likes a post, takes it back and likes it again counts twice | 0 is added for an actor in `actor_ids` (`notification-service.md:123-124`) |

Other differences that were met while modelling and that no property is about:

- sessions: `docker-compose.yml:72-73` runs Redis with `allkeys-lru` where
  `system-design.md:165` says `volatile-lru`, and a revocation key may go before
  its time under either; a second logout finds the row revoked and writes no
  key; erasure writes no keys at all; `identity-service.md:223` has the reset in
  one transaction with `user.password_changed`, the code in two without an
  event;
- posts: after a unique violation the transaction is aborted, so the query in
  the `catch` (`posts.service.ts:138`) answers 500 and not 409; `drainAuthor` is
  called by nobody, so an erased author keeps what is beyond 10,000 posts; the
  repair takes 100 mentions in a fixed order and starves behind names that never
  resolve (`post-service.md:304`);
- timelines: a rebuild loses what is fanned out between its reads and its `DEL`
  (`timeline.store.ts:68`, against `timeline-service.md:96`); posts written
  while an author is large are lost to warm timelines when the author shrinks
  (`:266`); the posts of large authors are pulled without the cursor (`:188`); a
  rebuild during an outage of graph-service leaves the user's own posts only;
  blocks and mutes fail open (`timeline.service.ts:212`);
- notifications: a crash after the commit loses the pointer for good, since the
  redelivered event is a duplicate; `actor_ids` may repeat an actor
  (`notification-service.md:120` says distinct); the sixth connection closes
  nothing (`realtime-gateway.md:68`), and the "oldest" is the first of random
  ids; what was missed is sent before the session is checked for the first time;
- the consumer runtime gives poison envelopes and redriven ones the same
  all-zero event id (`consumer-runtime.ts:241`).

## What is proved

The theorems hold for every value of the constants that satisfies the `ASSUME`
of the module (numbers are numbers, limits are not 0, users are finitely many,
an instance belongs to a group, the absent id `"none"` of `Posts` is not an id,
`$` and the absent rows of `Notifications` are neither numbers nor rows, the
lifetimes of `Sessions` are in the order of the code's); nothing else is
assumed, but where a theorem states a hypothesis of its own (`WarmIsComplete`
does, below). Each safety theorem goes by an inductive invariant `IInv`: the
initial states satisfy it, every step keeps it, and it implies the property. TLC
checked the invariants on the small instances first; TLAPS then proved every
step, down to the last leaf.

The proofs of `OutboxRelay` and `RetryLadder` are in `Events_proofs`, those of
`GraphRelations` and `CascadeJobs` in `Graph_proofs` and those of
`CircuitBreaker` and `Idempotency` in `Gateway_proofs`, each of which extends
the two; that is why the names of `RetryLadder`, `CascadeJobs` and
`CircuitBreaker` that every module has are prefixed there (`LadderSpec`,
`CascadeSpec`, `BreakerSpec`). Every other module has its proofs in a module of
its own.

- **`OutboxRelay`**: `TypeOK`, `PublishedWasDelivered`,
  `PoisonNeedsAttempts`, `LeaseExcludes`, `OneVerdict`, and `ImplementsPromise`.
  None is inductive alone: what a relay will mark is in its local variables, so
  `RelayOK` says that `sentIds` are rows the broker has, that `sentIds`,
  `failedIds` and `todo` are disjoint parts of the batch, and that the attempts
  it remembers are not more than those in the table. `OneVerdict` needs
  `LeaseExcludes`: with two holders of one row each could decide otherwise. The
  refinement maps a publication to a delivery, a mark to a retirement and a lease
  overrun to `Overrun`; the invariant shows that until then only rows without a
  verdict are sent or retired, and always that what is marked published was sent.
  `CopiesBounded` is an argument about a budget (`CopiesInv`): a claim pays for
  two sends of each of its rows, each of up to `PerSend` copies; a relay that has
  not sent its batch owes both,
  one in the fallback owes one of each row it has not tried, and what is stored
  and owed never exceeds what was paid. What several relays owe for one row is
  a cardinality, finite because a relay owes only after a claim.
- **`RetryLadder`**: `LadderTypeOK`, `EffectAtMostOnce`, `NoEventLost`. The
  effect is counted together with the dedupe row (`EffectsOK`). For
  `NoEventLost`, every step that takes a copy away must show where the event is
  afterwards: in the hand of an instance, in a later tier or concluded.
  Excepted are `onlyLogged`, the failures of which both publishes threw, and
  `skipped`, what a group had not finished of a partition when it restarted at
  the latest offset, and nothing else.
- **`GraphRelations`**: `TypeOK`, `RelationLedger`, `EveryEdgeAnnounced`,
  `BlockHolds`, `RequestOrFollow` and `FollowedIsTransition`. `Locks` says that
  open transactions write disjoint rows, which is what waiting for a uniqueness
  conflict or a row lock gives, and `Pending` that what a transaction will
  announce is what it has written. `RelationLedger` is an equality for pairs of
  which nobody was erased and an inequality for the others, which is all that
  the silent `DELETE`s leave. `BlockHolds` has an invariant of its own on top
  (`Orderly`), pair by pair: it says something of each pair that is not in
  `raced`, whatever overlaps on the others: `MadeSure` says for each statement
  what its transaction can rely on (no block where it will insert a follow or a
  request; no follow, and later no request, behind a block it inserted), and
  `OfPair` that a transaction writes rows of its own pair only, so that a commit
  on one pair leaves what the others have made sure of. `Fresh` says the same of
  the follow and the request of the pair: which of them the transaction has seen
  absent, and that it inserts one only where the other is not or is dropped
  before the commit. With it a commit that announces `user.followed` brings the
  edge with it.
- **`CircuitBreaker`**: `BreakerTypeOK`, `NeverWedged`, `ProbeIsAlone`, for any
  timeout. The last needs `Older`: while the breaker is open no call enters, so
  every call under way is at least as old as the opening, and when the cool-down
  is over none is young.
- **`CascadeJobs`**: `OneWorkerPerJob`, `DoneMeansGone` and
  `GivenUpNeedsBudget` (unless a fault hits the catch block or the process, a job
  is given up only with its attempts used up). `Queued` and
  `Known` keep a redelivered event from making a second job; `CloseSawNothing`
  carries the count of zero to the statement that closes the job. The first two
  except the jobs in `unacked`: a `catch` block that writes over a job which
  somebody else runs makes room for a third claim.
- **`Idempotency`**: `AnswersAreTrue` and `PinnedIsOutcome` whatever
  fails; `OneAtATime` and `AnswersAgree` until something fails (`calm`), from
  `Owned`: the request that executes has its own marker in the entry.

- **`Sessions`**: `TypeOK`, `RotatesOnce`, `AccessEnds`, `LogoutShutsOut`,
  `SessionsPostdatePassword`, `ErasedIsOut`, for all lifetimes that
  `SessionsAssumption` allows. A request acts on what it read when it began, so
  the invariant bounds how old that is: `InTime` (no request outlives
  `RequestTime`), `Signing` (what is about to be signed was not revoked when the
  request began), `Issuing` (an account deactivated meanwhile is not due before
  the request is over, which is why a login cannot hand out a session of an
  erased account), `Resetting` (the sessions a reset does not hold are younger
  than it or were not committed when it read), `Opened` (a login that has its
  transaction open began no earlier than any reset that is over or holds its
  rows, unless the reset could not see it). `GrantedPast` (a pair was granted
  only for older generations) gives `RotatesOnce`, `KeysMatch` (a key that was
  not evicted lasts as long as what was signed before it) `LogoutShutsOut`,
  which is about the checks that Redis answers.
- **`Posts`**: `TypeOK`, `CountersMatch`, `MentionedOnce`,
  `DeletedIsAnnounced`, `ErasureComplete`, `RepostsAreOfOriginals`, and the
  action property `LikeNeedsPost`. A counter moves in one transaction with the
  row it counts, but that row and the counter are written by different
  statements; `TxOK` says for each kind of transaction, at each of its
  statements, what is still true of the rows it looked at. That nobody else
  changes them is `Disjoint`: two open transactions hold no row, write no like
  and claim no id together. The commit is where the counters and the rows
  meet: cardinalities of sets that differ by one element. `ErasureComplete`
  needs `CascadeOK`: until a batch comes up short, the cascade has marked
  `Batch` posts per round.
- **`CounterProjection`**: `DriftIsUpward` and `ExactInOrder`, for any users and
  batches. The first is inductive once it is known that an event that is not
  applied is at one place only, in the partition of its followee or `aside`
  (given up or not), under a number that is never used again (`Distinct`): a
  handler takes one event out of the sum and adds at least its delta to the row,
  for `GREATEST(0, n + delta)` can only be more. `ExactInOrder` is the equality
  where nothing failed or was published out of order and nothing was removed or
  announced without its other half, and needs the reason why that maximum then
  never acts: the columns show the graph of some moment (`Shows`), from which
  the events of each partition lead to the graph of now, each adding a follower
  who was not one or removing one who was (`Replays`). So what the next event
  takes away is in the columns.
- **`Timeline`**: `TypeOK`, `WarmIsComplete`, and the action properties
  `NoneShownTwice` and `ServedIsAllowed`. `Complete` says of each post of a user
  or of whom they follow that their timeline holds it or `Cap` newer ones
  (`Holds`, which a trim keeps, because what is dropped is older than what
  stays), that it is deleted or known to be missed, or that a handler still owes
  it: a post's, which asks who follows when it gets there, or a follow's, which
  reads the posts when it gets there (`Owes`). Each step that takes a debt away,
  giving an event up too, must show the post in the timeline or in `missed`. A
  rebuild replaces a timeline by what it read some time ago; `ReadAll` says that
  this is all there was then of the authors in its page of follows, so that what
  it overwrites, and the posts of the others, are in `missed` and nothing else.
  The theorem has a hypothesis, `OnePage`: the followers of an author fit in one
  page of ids. Without it the property is false of the code, which is what the
  run `TimelinePage` shows. `NoneShownTwice` needs `Onward` (what a request
  fetched lies below all its reader has seen), `ServedIsAllowed` needs
  `GoneStays` (what was deleted before a request was not hydrated in it).
- **`Notifications`**: `CountsEvents`, `ShownIsCurrent`, `DeliveredInOrder`,
  `RevokedStops`. `Exclusive` says that an event is in one transaction and
  that nothing was counted for it before (the dedupe row), which is what the
  cardinalities of `CountsEvents` need. `Pointers` says that no pointer, on its
  way or in the stream, is ahead of its row. For the order, `Cursors` ties what
  the session reads from to what the client got last, and `Fetched` says that a
  batch comes after it and leaves out only what was trimmed. `RevokedStops` is
  an argument about time (`Patient`): two checks are at most `Interval` apart in
  the time of `XREAD`, which is `CheckEvery` and the part of a block that began
  just before it was over (`Within`); each interval in which a connection has
  lived beside the key is paid for by a check that Redis did not answer, and the
  one before the first check with the key by the key's absence at the start
  (`Fresh`). The time it waits elsewhere comes on top (`delay`).

Only model-checked: all liveness properties (with fairness and `ENABLED`, out of
the prover's reach). Every other property of a passing run is proved. No module
of the project has a `RECURSIVE` operator.

The theorems `PublishedWasDelivered`, `PoisonNeedsAttempts`, `LeaseExcludes`,
`OneAtATime`, `PinnedIsOutcome`, `RepostsAreOfOriginals`, `RequestOrFollow`,
`FollowedIsTransition`, `GivenUpNeedsBudget`, `ExactInOrder` and the type
invariants state properties that the runs above do not repeat: what TLC showed
of one instance is proved of all.

## What is not modelled

search-service and rate limiting are not modelled yet. Of what is modelled,
these parts are left out: in `GraphRelations` the churn guard, in `Posts`
hashtags and the refusal of repeated content before a creation begins (no
property tells it from a request that was not sent), in `Timeline` replies (they are not fanned out) and accounts with more
posts than one request asks of an author, in `Notifications` marking as read (no
property tells read rows from others), the registry of connections, heartbeats
and limits of inbound frames. A fetch of rows has no timeout, and a session that
waits for one is not checked: that is the `delay` in `RevokedStops`. Left out for good:
the parts without state of their own (configuration, telemetry, clients, the
example service), the migrator, which runs once under an advisory lock, the
pages of lists, the wording of messages, scripts and deployment. Time is a
counter in the breaker, in `Sessions` and in the delivery sessions of
`Notifications`; elsewhere a delay is a step that happens some time.
