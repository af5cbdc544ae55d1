----------------------------- MODULE OutboxRelay -----------------------------
(***************************************************************************)
(* The transactional outbox and its relays                                 *)
(* (libs/platform-events/src/{outbox,relay,kafka}.ts).                     *)
(*                                                                         *)
(* A service appends a row in the transaction that changes its state.  Any *)
(* number of relay replicas tick: claim some rows under a short            *)
(* transaction (attempts + 1, locked_until = now + 30 s), COMMIT, publish  *)
(* the claim outside the lock, then record the outcome in a second         *)
(* transaction.  The model has one step per transaction and one per        *)
(* producer call; between any two of them another relay may run, the       *)
(* relay may crash, and the lease may run out.                             *)
(*                                                                         *)
(* A lease is present (locked) or not: locked_until in the past and        *)
(* locked_until IS NULL mean the same to the claim query.  Leases of one   *)
(* claim end together in the code; here each ends on its own, which only   *)
(* adds behaviours.                                                        *)
(***************************************************************************)
EXTENDS Naturals, FiniteSets

CONSTANTS
    Relays,         \* relay replicas of one service
    NumRows,        \* rows of the outbox, numbered in id (UUIDv7) order
    Key,            \* partition_key of each row
    ClaimLimit,     \* rows per claim (100 in the code)
    PoisonAfter,    \* poisonAfterAttempts (10 in the code)
    SendRetries,    \* retries of one send inside the Kafka client (5)
    MaxFaults       \* bound: relay crashes, failed mark transactions and leases
                    \* that end while their holder still works

Rows == 1..NumRows

ASSUME OutboxAssumption ==
    /\ NumRows \in Nat
    /\ ClaimLimit \in Nat \ {0}
    /\ PoisonAfter \in Nat \ {0}
    /\ SendRetries \in Nat
    /\ MaxFaults \in Nat

VARIABLES
    \* the outbox table
    appended,       \* committed rows
    publishedAt,    \* rows with published_at set
    poisonedAt,     \* rows with poisoned_at set
    attempts,       \* the attempts column
    locked,         \* rows with locked_until > now()
    \* the broker
    copies,         \* copies of each row's message in its topic
    \* the relays
    pc,             \* where the tick of each relay is
    batch,          \* the rows it claimed
    snap,           \* attempts, as its claim returned it
    todo,           \* rows the per-event fallback still has to try
    sentIds,        \* publishedIds
    failedIds,      \* failed
    \* bounds
    crashes, overruns

table == <<appended, publishedAt, poisonedAt, attempts, locked>>
relay == <<pc, batch, snap, todo, sentIds, failedIds>>
vars == <<table, copies, relay, crashes, overruns>>

Phases == {"idle", "batch", "each", "mark"}

TypeOK ==
    /\ appended \subseteq Rows
    /\ publishedAt \subseteq Rows
    /\ poisonedAt \subseteq Rows
    /\ attempts \in [Rows -> Nat]
    /\ locked \subseteq Rows
    /\ copies \in [Rows -> Nat]
    /\ pc \in [Relays -> Phases]
    /\ batch \in [Relays -> SUBSET Rows]
    /\ snap \in [Relays -> [Rows -> Nat]]
    /\ todo \in [Relays -> SUBSET Rows]
    /\ sentIds \in [Relays -> SUBSET Rows]
    /\ failedIds \in [Relays -> SUBSET Rows]
    /\ crashes \in Nat
    /\ overruns \in Nat

NoCounts == [e \in Rows |-> 0]

Init ==
    /\ appended = {}
    /\ publishedAt = {}
    /\ poisonedAt = {}
    /\ attempts = NoCounts
    /\ locked = {}
    /\ copies = NoCounts
    /\ pc = [r \in Relays |-> "idle"]
    /\ batch = [r \in Relays |-> {}]
    /\ snap = [r \in Relays |-> NoCounts]
    /\ todo = [r \in Relays |-> {}]
    /\ sentIds = [r \in Relays |-> {}]
    /\ failedIds = [r \in Relays |-> {}]
    /\ crashes = 0
    /\ overruns = 0

Delivered == {e \in Rows : copies[e] > 0}
Settled == publishedAt \union poisonedAt

-----------------------------------------------------------------------------
(* The table's operations.                                                 *)

\* appendOutbox: the row commits with the transaction that called it.
AppendOutbox(e) ==
    /\ e \notin appended
    /\ appended' = appended \union {e}
    /\ UNCHANGED <<publishedAt, poisonedAt, attempts, locked, copies,
                   relay, crashes, overruns>>

\* Mutants: the claim query forgets published_at, or takes only rows that were
\* never tried.
ClaimIgnoresPublished == (appended \ poisonedAt) \ locked
ClaimsOnlyUntried == {e \in (appended \ Settled) \ locked : attempts[e] = 0}

\* The WHERE clause of the claim query.
Claimable == (appended \ Settled) \ locked

\* Rows another relay's mark transaction may hold row locks on, which
\* FOR UPDATE SKIP LOCKED passes over.
BeingMarked == UNION {batch[r] : r \in {q \in Relays : pc[q] = "mark"}}

\* ORDER BY id LIMIT n
FirstById(S, n) == {e \in S : Cardinality({f \in S : f < e}) < n}

\* Phase 1 of relayOnceDetailed.  A claim that returns no row changes
\* nothing and ends the tick.
Claim(r) ==
    /\ pc[r] = "idle"
    /\ \E skipped \in SUBSET BeingMarked :
          LET claimed == FirstById(Claimable \ skipped, ClaimLimit) IN
          /\ claimed # {}
          /\ attempts' = [e \in Rows |->
                            IF e \in claimed THEN attempts[e] + 1
                                             ELSE attempts[e]]
          /\ locked' = locked \union claimed
          /\ batch' = [batch EXCEPT ![r] = claimed]
          /\ snap' = [snap EXCEPT ![r] = attempts']
    /\ pc' = [pc EXCEPT ![r] = "batch"]
    /\ UNCHANGED <<appended, publishedAt, poisonedAt, copies, todo, sentIds,
                   failedIds, crashes, overruns>>

-----------------------------------------------------------------------------
(* Phase 2 of relayOnceDetailed, outside any transaction.                  *)

PerSend == SendRetries + 1

\* What one producer call for the rows of S may store of each row.  The client
\* repeats a request whose acknowledgement it did not get (createKafka), and
\* its producer is not idempotent, so one call stores up to PerSend copies; of
\* a call that returns there is one at least.  The rows of one key share a
\* partition and are written together or not at all.
Stored(S, least) ==
    {n \in [Rows -> 0..PerSend] :
        /\ \A e \in Rows \ S : n[e] = 0
        /\ \A e \in S : n[e] >= least
        /\ \A e, f \in S : Key[e] = Key[f] => n[e] = n[f]}

Send(S, least) ==
    \E n \in Stored(S, least) : copies' = [e \in Rows |-> copies[e] + n[e]]

\* publishOutboxBatch of the whole claim succeeds.
PublishBatch(r) ==
    /\ pc[r] = "batch"
    /\ Send(batch[r], 1)
    /\ sentIds' = [sentIds EXCEPT ![r] = batch[r]]
    /\ pc' = [pc EXCEPT ![r] = "mark"]
    /\ UNCHANGED <<table, batch, snap, todo, failedIds, crashes, overruns>>

\* sendBatch throws, and may have stored rows all the same; the fallback tries
\* every row of the claim again.
PublishBatchFails(r) ==
    /\ pc[r] = "batch"
    /\ Send(batch[r], 0)
    /\ todo' = [todo EXCEPT ![r] = batch[r]]
    /\ pc' = [pc EXCEPT ![r] = "each"]
    /\ UNCHANGED <<table, batch, snap, sentIds, failedIds, crashes, overruns>>

\* The fallback loop has dealt with row e.
Tried(r, e) ==
    /\ pc[r] = "each"
    /\ e \in todo[r]
    /\ todo' = [todo EXCEPT ![r] = @ \ {e}]
    /\ pc' = [pc EXCEPT ![r] = IF todo[r] = {e} THEN "mark" ELSE "each"]
    /\ UNCHANGED <<table, batch, snap, crashes, overruns>>

\* Mutant: the fallback sends the whole claim again for every row.
PublishOneResendsBatch(r, e) ==
    /\ Tried(r, e)
    /\ Send(batch[r], 1)
    /\ sentIds' = [sentIds EXCEPT ![r] = @ \union {e}]
    /\ UNCHANGED failedIds

PublishOne(r, e) ==
    /\ Tried(r, e)
    /\ Send({e}, 1)
    /\ sentIds' = [sentIds EXCEPT ![r] = @ \union {e}]
    /\ UNCHANGED failedIds

\* The send of one row throws; a timed-out send may still have been stored.
PublishOneFails(r, e) ==
    /\ Tried(r, e)
    /\ Send({e}, 0)
    /\ failedIds' = [failedIds EXCEPT ![r] = @ \union {e}]
    /\ UNCHANGED sentIds

-----------------------------------------------------------------------------
(* Phase 3 of relayOnceDetailed: one transaction, keyed by row id only.    *)

\* The tick of relay r is over and its local variables are gone.
Forget(r) ==
    /\ pc' = [pc EXCEPT ![r] = "idle"]
    /\ batch' = [batch EXCEPT ![r] = {}]
    /\ snap' = [snap EXCEPT ![r] = NoCounts]
    /\ todo' = [todo EXCEPT ![r] = {}]
    /\ sentIds' = [sentIds EXCEPT ![r] = {}]
    /\ failedIds' = [failedIds EXCEPT ![r] = {}]

\* Failed rows whose claim was already the last one allowed.
Exhausted(r) == {e \in failedIds[r] : snap[r][e] >= PoisonAfter}

\* Mutant: every row of the claim that is not poisoned is marked published.
MarkWholeBatch(r) ==
    /\ pc[r] = "mark"
    /\ publishedAt' = publishedAt \union (batch[r] \ Exhausted(r))
    /\ poisonedAt' = poisonedAt \union Exhausted(r)
    /\ locked' = locked \ batch[r]
    /\ Forget(r)
    /\ UNCHANGED <<appended, attempts, copies, crashes, overruns>>

MarkResults(r) ==
    /\ pc[r] = "mark"
    /\ publishedAt' = publishedAt \union sentIds[r]
    /\ poisonedAt' = poisonedAt \union Exhausted(r)
    /\ locked' = locked \ (sentIds[r] \union failedIds[r])
    /\ Forget(r)
    /\ UNCHANGED <<appended, attempts, copies, crashes, overruns>>

\* The process dies during a tick, or the mark transaction rolls back: either
\* way the rows keep their lease and nothing remembers what was sent.
Abandon(r) ==
    /\ pc[r] # "idle"
    /\ crashes + overruns < MaxFaults
    /\ crashes' = crashes + 1
    /\ Forget(r)
    /\ UNCHANGED <<table, copies, overruns>>

-----------------------------------------------------------------------------
(* The clock.                                                              *)

Held(e) == \E r \in Relays : e \in batch[r]

\* The lease of a row nobody works on any more runs out.
LeaseExpires(e) ==
    /\ e \in locked
    /\ ~ Held(e)
    /\ locked' = locked \ {e}
    /\ UNCHANGED <<appended, publishedAt, poisonedAt, attempts, copies,
                   relay, crashes, overruns>>

\* The lease runs out under a relay that is still publishing: lockSeconds is
\* 30 and nothing renews it.
LeaseOverrun(e) ==
    /\ e \in locked
    /\ Held(e)
    /\ crashes + overruns < MaxFaults
    /\ overruns' = overruns + 1
    /\ locked' = locked \ {e}
    /\ UNCHANGED <<appended, publishedAt, poisonedAt, attempts, copies,
                   relay, crashes>>

-----------------------------------------------------------------------------
Publish(r) ==
    \/ PublishBatch(r)
    \/ PublishBatchFails(r)
    \/ \E e \in Rows : PublishOne(r, e) \/ PublishOneFails(r, e)

Next ==
    \/ \E e \in Rows : AppendOutbox(e) \/ LeaseExpires(e) \/ LeaseOverrun(e)
    \/ \E r \in Relays : Claim(r) \/ Publish(r) \/ MarkResults(r) \/ Abandon(r)

Spec == Init /\ [][Next]_vars

(***************************************************************************)
(* startOutboxRelay re-arms its timer in a finally block, so every relay   *)
(* ticks for ever and a tick that has begun goes on; time passes, so a     *)
(* lease without a holder ends.  No send is required to succeed.           *)
(***************************************************************************)
Fairness ==
    /\ \A r \in Relays : /\ WF_vars(Claim(r))
                         /\ WF_vars(Publish(r))
                         /\ WF_vars(MarkResults(r))
    /\ \A e \in Rows : WF_vars(LeaseExpires(e))

FairSpec == Spec /\ Fairness

-----------------------------------------------------------------------------
(* Properties.                                                             *)

\* Safety of relayOnceDetailed: published_at is only ever set on a row of
\* which the broker holds a copy, whatever crashed, expired or was half sent.
PublishedWasDelivered == publishedAt \subseteq Delivered

\* A row is quarantined only after it was claimed PoisonAfter times, although
\* the decision compares the attempts of an older claim with the limit.
PoisonNeedsAttempts == \A e \in poisonedAt : attempts[e] >= PoisonAfter

\* At most two sends per claim, the batch and the per-event fallback, each of
\* which the client makes up to PerSend times.  So the duplicates consumers
\* must absorb are bounded by the attempts column.
CopiesBounded == \A e \in Rows : copies[e] <= 2 * PerSend * attempts[e]

\* As long as every publish finishes inside its lease, the lease is mutual
\* exclusion: two relays never work on one row, and the row they work on is
\* neither published nor poisoned.
LeaseExcludes ==
    overruns = 0 =>
        /\ \A q, r \in Relays : q # r => batch[q] \intersect batch[r] = {}
        /\ \A r \in Relays : batch[r] \subseteq locked \ Settled

\* ... and then no row is recorded both as published and as poisoned.
OneVerdict == overruns = 0 => publishedAt \intersect poisonedAt = {}

\* Every committed row is eventually published or quarantined, through any
\* mixture of failed sends, up to MaxFaults crashes and overruns.
EveryRowSettles == \A e \in Rows : (e \in appended) ~> (e \in Settled)

\* The relays implement the outbox's promise: in full while every publish ends
\* inside its lease, and after an overrun what is left of it.
Promise == INSTANCE EventDelivery WITH
              committed <- appended, delivered <- Delivered,
              done <- publishedAt, quarantined <- poisonedAt,
              orderly <- (overruns = 0)
ImplementsPromise == Promise!Spec

-----------------------------------------------------------------------------
(* What documentation and comments say of the relay.                       *)

\* outbox.ts, claimUnpublished: concurrent relays do not double-claim.
NoDoubleClaim ==
    \A q, r \in Relays : q # r => batch[q] \intersect batch[r] = {}

\* system-design.md, 9.4: rows of one aggregate are produced in id order.  Of
\* two rows with one partition key that one relay claimed together, the later
\* one does not reach the broker after the earlier one was tried and has not.
KeyOrderPreserved ==
    [][\A r \in Relays : \A e, f \in batch[r] :
          (Key[e] = Key[f] /\ e < f /\ copies[e] = 0 /\ e \notin todo[r])
             => (copies'[f] > 0 => copies'[e] > 0)]_vars

\* post-service.md: an unavailable broker only delays, the outbox absorbs it.
\* So a row is never given up without having reached the broker.
OutageAbsorbed == poisonedAt \subseteq Delivered
==============================================================================
