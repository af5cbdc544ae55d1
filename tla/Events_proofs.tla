--------------------------- MODULE Events_proofs ----------------------------
(***************************************************************************)
(* Events from the outbox to their effect (platform-events): proofs about  *)
(* OutboxRelay and about RetryLadder.                                      *)
(***************************************************************************)
EXTENDS OutboxRelay, RetryLadder, FiniteSetTheorems, TLAPS

(***************************************************************************)
(* Theorems about OutboxRelay, for any number of rows and relays and any   *)
(* values of the limits.                                                   *)
(***************************************************************************)

(***************************************************************************)
(* The types are invariant by themselves.                                  *)
(***************************************************************************)
LEMMA SendStores ==
    ASSUME copies \in [Rows -> Nat], NEW S \in SUBSET Rows, NEW least \in Nat,
           Send(S, least)
    PROVE  /\ copies' \in [Rows -> Nat]
           /\ \A e \in Rows : copies[e] <= copies'[e] /\ copies'[e] <= copies[e] + PerSend
           /\ \A e \in Rows \ S : copies'[e] = copies[e]
           /\ \A e \in S : copies'[e] >= copies[e] + least
<1>1. PICK n \in Stored(S, least) : copies' = [e \in Rows |-> copies[e] + n[e]]
    BY DEF Send
<1>2. /\ n \in [Rows -> 0..PerSend]
      /\ \A e \in Rows \ S : n[e] = 0
      /\ \A e \in S : n[e] >= least
    BY <1>1 DEF Stored
<1>3. PerSend \in Nat
    BY OutboxAssumption DEF PerSend
<1>4. \A e \in Rows : /\ n[e] \in Nat /\ n[e] <= PerSend
                      /\ copies'[e] = copies[e] + n[e]
    BY <1>1, <1>2, <1>3
<1>5. QED
    BY <1>1, <1>2, <1>3, <1>4

\* The empty outbox is well typed.
LEMMA TypeInit == Init => TypeOK
BY OutboxAssumption DEF Init, TypeOK, NoCounts, Phases

\* Every step of the relays, the producers and the table keeps the types.
LEMMA TypeStep == TypeOK /\ [Next]_vars => TypeOK'
<1> SUFFICES ASSUME TypeOK, [Next]_vars
             PROVE  TypeOK'
    OBVIOUS
<1> USE DEF TypeOK
<1>1. ASSUME NEW e \in Rows, AppendOutbox(e)
      PROVE  TypeOK'
    BY <1>1 DEF AppendOutbox, relay
<1>2. ASSUME NEW r \in Relays, Claim(r)
      PROVE  TypeOK'
  <2>1. PICK passed \in SUBSET BeingMarked :
           /\ attempts' = [e \in Rows |->
                 IF e \in FirstById(Claimable \ passed, ClaimLimit)
                 THEN attempts[e] + 1 ELSE attempts[e]]
           /\ locked' = locked \union FirstById(Claimable \ passed, ClaimLimit)
           /\ batch' = [batch EXCEPT ![r] = FirstById(Claimable \ passed, ClaimLimit)]
           /\ snap' = [snap EXCEPT ![r] = attempts']
      BY <1>2 DEF Claim
  <2>2. FirstById(Claimable \ passed, ClaimLimit) \subseteq Rows
      BY DEF FirstById, Claimable
  <2>3. attempts' \in [Rows -> Nat]
      BY <2>1
  <2>4. QED
      BY <1>2, <2>1, <2>2, <2>3 DEF Claim, Phases
<1>3. ASSUME NEW r \in Relays, PublishBatch(r)
      PROVE  TypeOK'
    BY <1>3, SendStores DEF PublishBatch, table, Phases
<1>4. ASSUME NEW r \in Relays, PublishBatchFails(r)
      PROVE  TypeOK'
    BY <1>4, SendStores DEF PublishBatchFails, table, Phases
<1>5. ASSUME NEW r \in Relays, NEW e \in Rows, PublishOne(r, e)
      PROVE  TypeOK'
    BY <1>5, SendStores DEF PublishOne, Tried, table, Phases
<1>6. ASSUME NEW r \in Relays, NEW e \in Rows, PublishOneFails(r, e)
      PROVE  TypeOK'
    BY <1>6, SendStores DEF PublishOneFails, Tried, table, Phases
<1>7. ASSUME NEW r \in Relays, MarkResults(r)
      PROVE  TypeOK'
    BY <1>7 DEF MarkResults, Forget, Exhausted, NoCounts, Phases
<1>8. ASSUME NEW r \in Relays, Abandon(r)
      PROVE  TypeOK'
    BY <1>8 DEF Abandon, Forget, NoCounts, table, Phases
<1>9. ASSUME NEW e \in Rows, LeaseExpires(e)
      PROVE  TypeOK'
    BY <1>9 DEF LeaseExpires, relay
<1>10. ASSUME NEW e \in Rows, LeaseOverrun(e)
       PROVE  TypeOK'
    BY <1>10 DEF LeaseOverrun, relay
<1>11. CASE UNCHANGED vars
    BY <1>11 DEF vars, table, relay
<1>12. QED
    BY <1>1, <1>2, <1>3, <1>4, <1>5, <1>6, <1>7, <1>8, <1>9, <1>10, <1>11
       DEF Next, Publish

(***************************************************************************)
(* Type correctness: the columns, the broker's counts and the relays' local *)
(* variables keep their types for every number of rows and relays.         *)
(***************************************************************************)
THEOREM TypeCorrect == Spec => []TypeOK
<1>1. QED
    BY TypeInit, TypeStep, PTL DEF Spec

(***************************************************************************)
(* The inductive invariant.  RelayOK ties the local variables of one tick  *)
(* to each other and to the table and the broker; the other conjuncts are  *)
(* the invariants to be proved, which hold each other up.                  *)
(***************************************************************************)
RelayOK(r) ==
    /\ batch[r] \subseteq appended
    /\ sentIds[r] \subseteq batch[r] \intersect Delivered
    /\ failedIds[r] \subseteq batch[r]
    /\ todo[r] \subseteq batch[r]
    /\ sentIds[r] \intersect failedIds[r] = {}
    /\ todo[r] \intersect (sentIds[r] \union failedIds[r]) = {}
    /\ pc[r] = "idle" => batch[r] = {}
    /\ pc[r] = "batch" => sentIds[r] = {} /\ failedIds[r] = {} /\ todo[r] = {}
    /\ \A e \in batch[r] : snap[r][e] <= attempts[e]

IInv ==
    /\ TypeOK
    /\ \A r \in Relays : RelayOK(r)
    /\ poisonedAt \subseteq appended
    /\ PublishedWasDelivered
    /\ PoisonNeedsAttempts
    /\ LeaseExcludes
    /\ OneVerdict

\* The invariant holds of the empty outbox.
LEMMA InvInit == Init => IInv
<1> SUFFICES ASSUME Init PROVE IInv
    OBVIOUS
<1>1. TypeOK
    BY TypeInit
<1>2. \A r \in Relays : RelayOK(r)
    BY DEF Init, RelayOK
<1>3. QED
    BY <1>1, <1>2 DEF Init, IInv, PublishedWasDelivered, PoisonNeedsAttempts,
       LeaseExcludes, OneVerdict

(***************************************************************************)
(* A step of the publish phase of relay r only adds copies and changes     *)
(* local variables of r.                                                   *)
(***************************************************************************)
LEMMA PublishKeepsInv ==
    ASSUME IInv, NEW r \in Relays, Publish(r)
    PROVE  IInv'
<1> USE DEF IInv
<1>1. TypeOK'
    BY TypeStep DEF Next
<1>2. UNCHANGED <<table, batch, snap, crashes, overruns>>
    BY DEF Publish, PublishBatch, PublishBatchFails, PublishOne,
       PublishOneFails, Tried
<1>3. \E S \in SUBSET Rows, least \in {0, 1} : Send(S, least)
  <2>1. batch[r] \subseteq Rows
      BY DEF TypeOK
  <2>2. QED
      BY <2>1 DEF Publish, PublishBatch, PublishBatchFails, PublishOne,
         PublishOneFails
<1>4. Delivered \subseteq Delivered'
  <2>1. \A e \in Rows : copies[e] \in Nat /\ copies'[e] \in Nat /\ copies[e] <= copies'[e]
      BY <1>3, SendStores DEF TypeOK
  <2>2. QED
      BY <2>1 DEF Delivered
<1>5. \A q \in Relays : RelayOK(q)'
  <2>1. ASSUME NEW q \in Relays, q # r
        PROVE  RelayOK(q)'
    <3>1. /\ pc'[q] = pc[q] /\ todo'[q] = todo[q]
          /\ sentIds'[q] = sentIds[q] /\ failedIds'[q] = failedIds[q]
        BY <2>1 DEF Publish, PublishBatch, PublishBatchFails, PublishOne,
           PublishOneFails, Tried, TypeOK
    <3>2. QED
        BY <1>2, <1>4, <3>1 DEF RelayOK, table
  <2>2. CASE PublishBatch(r)
    <3>1. batch[r] \subseteq Delivered'
      <4>1. batch[r] \in SUBSET Rows /\ Send(batch[r], 1) /\ copies \in [Rows -> Nat]
          BY <2>2 DEF PublishBatch, TypeOK
      <4>2. \A e \in batch[r] : /\ copies[e] \in Nat /\ copies'[e] \in Nat
                               /\ copies'[e] >= copies[e] + 1
          BY <4>1, SendStores
      <4>3. QED
          BY <4>1, <4>2 DEF Delivered
    <3>2. RelayOK(r)'
        BY <1>2, <2>2, <3>1 DEF PublishBatch, RelayOK, TypeOK, table
    <3>3. QED
        BY <2>1, <3>2
  <2>3. CASE PublishBatchFails(r)
    <3>1. RelayOK(r)'
        BY <1>2, <1>4, <2>3 DEF PublishBatchFails, RelayOK, TypeOK, table
    <3>2. QED
        BY <2>1, <3>1
  <2>4. ASSUME NEW e \in Rows, PublishOne(r, e)
        PROVE  RelayOK(r)'
    <3>1. e \in Delivered'
      <4>1. {e} \in SUBSET Rows /\ Send({e}, 1) /\ copies \in [Rows -> Nat]
          BY <2>4 DEF PublishOne, TypeOK
      <4>2. /\ copies[e] \in Nat /\ copies'[e] \in Nat
            /\ copies'[e] >= copies[e] + 1
          BY <4>1, SendStores
      <4>3. QED
          BY <4>2 DEF Delivered
    <3>2. QED
        BY <1>2, <1>4, <2>4, <3>1 DEF PublishOne, Tried, RelayOK, TypeOK, table
  <2>5. ASSUME NEW e \in Rows, PublishOneFails(r, e)
        PROVE  RelayOK(r)'
    BY <1>2, <1>4, <2>5 DEF PublishOneFails, Tried, RelayOK, TypeOK, table
  <2>6. QED
    BY <2>1, <2>2, <2>3, <2>4, <2>5 DEF Publish
<1>6. PublishedWasDelivered'
    BY <1>2, <1>4 DEF PublishedWasDelivered, table
<1>7. (poisonedAt \subseteq appended)' /\ PoisonNeedsAttempts'
    BY <1>2 DEF PoisonNeedsAttempts, table
<1>8. LeaseExcludes' /\ OneVerdict'
    BY <1>2 DEF LeaseExcludes, OneVerdict, Settled, table
<1>9. QED
    BY <1>1, <1>5, <1>6, <1>7, <1>8

(***************************************************************************)
(* A claim takes rows that are committed, unsettled and unleased, so under *)
(* a lease discipline without overruns it cannot meet another claim.       *)
(***************************************************************************)
LEMMA ClaimKeepsInv ==
    ASSUME IInv, NEW r \in Relays, Claim(r)
    PROVE  IInv'
<1> USE DEF IInv
<1>1. TypeOK'
    BY TypeStep DEF Next
<1>2. PICK claimed \in SUBSET Claimable :
         /\ attempts' = [e \in Rows |->
               IF e \in claimed THEN attempts[e] + 1 ELSE attempts[e]]
         /\ locked' = locked \union claimed
         /\ batch' = [batch EXCEPT ![r] = claimed]
         /\ snap' = [snap EXCEPT ![r] = attempts']
    BY DEF Claim, FirstById
<1>3. claimed \subseteq (appended \ Settled) \ locked
    BY DEF Claimable
<1>4. \A e \in Rows : attempts'[e] >= attempts[e]
    BY <1>2 DEF TypeOK
<1>5. Delivered' = Delivered
    BY DEF Claim, Delivered
<1>6. \A q \in Relays : RelayOK(q)'
  <2>1. ASSUME NEW q \in Relays, q # r
        PROVE  RelayOK(q)'
    <3>1. /\ batch'[q] = batch[q] /\ snap'[q] = snap[q] /\ pc'[q] = pc[q]
          /\ UNCHANGED <<appended, todo, sentIds, failedIds>>
        BY <1>2, <2>1 DEF Claim, TypeOK
    <3>2. \A e \in batch'[q] : snap'[q][e] <= attempts'[e]
      <4>1. TAKE e \in batch'[q]
      <4>2. e \in Rows /\ snap[q][e] <= attempts[e]
          BY <3>1 DEF RelayOK, TypeOK
      <4>3. /\ snap[q][e] \in Nat /\ attempts[e] \in Nat
            /\ attempts'[e] \in Nat
          BY <1>1, <4>2 DEF TypeOK
      <4>4. QED
          BY <1>4, <3>1, <4>2, <4>3
    <3>3. QED
        BY <1>5, <3>1, <3>2 DEF RelayOK
  <2>2. RelayOK(r)'
    <3>1. sentIds[r] = {} /\ failedIds[r] = {} /\ todo[r] = {}
        BY DEF Claim, RelayOK
    <3>2. batch'[r] = claimed /\ snap'[r] = attempts' /\ pc'[r] = "batch"
        BY <1>2 DEF Claim, TypeOK
    <3>3. \A e \in batch'[r] : snap'[r][e] <= attempts'[e]
        BY <1>1, <1>3, <3>2 DEF TypeOK
    <3>4. UNCHANGED <<appended, todo, sentIds, failedIds>>
        BY DEF Claim
    <3>5. QED
        BY <1>3, <3>1, <3>2, <3>3, <3>4 DEF RelayOK
  <2>3. QED
      BY <2>1, <2>2
<1>7. PublishedWasDelivered' /\ (poisonedAt \subseteq appended)'
    BY <1>5 DEF Claim, PublishedWasDelivered
<1>8. PoisonNeedsAttempts'
  <2>1. poisonedAt' = poisonedAt /\ poisonedAt \subseteq Rows
      BY DEF Claim, TypeOK
  <2>2. ASSUME NEW e \in poisonedAt
        PROVE  attempts'[e] >= PoisonAfter
    <3>1. attempts[e] \in Nat /\ attempts'[e] \in Nat /\ PoisonAfter \in Nat
        BY <1>1, <2>1, OutboxAssumption DEF TypeOK
    <3>2. QED
        BY <1>4, <2>1, <3>1 DEF PoisonNeedsAttempts
  <2>3. QED
      BY <2>1, <2>2 DEF PoisonNeedsAttempts
<1>9. LeaseExcludes' /\ OneVerdict'
  <2>1. UNCHANGED <<publishedAt, poisonedAt, overruns>>
      BY DEF Claim
  <2>2. \A q \in Relays : batch'[q] = IF q = r THEN claimed ELSE batch[q]
      BY <1>2 DEF TypeOK
  <2>3. QED
      BY <1>2, <1>3, <2>1, <2>2 DEF LeaseExcludes, OneVerdict, Settled
<1>10. QED
    BY <1>1, <1>6, <1>7, <1>8, <1>9

(***************************************************************************)
(* The mark transaction trusts its tick's local variables: what it records *)
(* as published is in sentIds, hence delivered; what it poisons failed at  *)
(* a claim that was the PoisonAfter-th or a later one.                     *)
(***************************************************************************)
LEMMA MarkKeepsInv ==
    ASSUME IInv, NEW r \in Relays, MarkResults(r)
    PROVE  IInv'
<1> USE DEF IInv
<1>1. TypeOK'
    BY TypeStep DEF Next
<1>2. /\ UNCHANGED <<appended, attempts, copies, crashes, overruns>>
      /\ publishedAt' = publishedAt \union sentIds[r]
      /\ poisonedAt' = poisonedAt \union Exhausted(r)
      /\ locked' = locked \ (sentIds[r] \union failedIds[r])
    BY DEF MarkResults
<1>3. Delivered' = Delivered
    BY <1>2 DEF Delivered
<1>4. RelayOK(r) /\ Exhausted(r) \subseteq failedIds[r]
    BY DEF Exhausted
<1>5. \A q \in Relays : batch'[q] = IF q = r THEN {} ELSE batch[q]
    BY DEF MarkResults, Forget, TypeOK
<1>6. \A q \in Relays : RelayOK(q)'
    BY <1>2, <1>3 DEF MarkResults, Forget, RelayOK, TypeOK
<1>7. PublishedWasDelivered'
    BY <1>2, <1>3, <1>4 DEF PublishedWasDelivered, RelayOK
<1>8. (poisonedAt \subseteq appended)'
    BY <1>2, <1>4 DEF RelayOK
<1>9. PoisonNeedsAttempts'
  <2>1. ASSUME NEW e \in Exhausted(r)
        PROVE  attempts[e] >= PoisonAfter
    <3>1. e \in batch[r] /\ e \in Rows
        BY <1>4 DEF RelayOK, TypeOK
    <3>2. snap[r][e] >= PoisonAfter /\ snap[r][e] <= attempts[e]
        BY <1>4, <3>1 DEF Exhausted, RelayOK
    <3>3. snap[r][e] \in Nat /\ attempts[e] \in Nat /\ PoisonAfter \in Nat
        BY <3>1, OutboxAssumption DEF TypeOK
    <3>4. QED
        BY <3>2, <3>3
  <2>2. QED
      BY <1>2, <2>1 DEF PoisonNeedsAttempts
<1>10. LeaseExcludes'
    BY <1>2, <1>4, <1>5 DEF LeaseExcludes, RelayOK, Settled
<1>11. OneVerdict'
    BY <1>2, <1>4 DEF OneVerdict, LeaseExcludes, RelayOK, Settled
<1>12. QED
    BY <1>1, <1>6, <1>7, <1>8, <1>9, <1>10, <1>11

\* A relay that dies or gives its batch up keeps the invariant.
LEMMA AbandonKeepsInv ==
    ASSUME IInv, NEW r \in Relays, Abandon(r)
    PROVE  IInv'
<1> USE DEF IInv
<1>1. TypeOK'
    BY TypeStep DEF Next
<1>2. UNCHANGED <<table, copies, overruns>>
    BY DEF Abandon
<1>3. \A q \in Relays : batch'[q] = IF q = r THEN {} ELSE batch[q]
    BY DEF Abandon, Forget, TypeOK
<1>4. \A q \in Relays : RelayOK(q)'
    BY <1>2 DEF Abandon, Forget, RelayOK, Delivered, TypeOK, table
<1>5. QED
    BY <1>1, <1>2, <1>3, <1>4 DEF table, Delivered, PublishedWasDelivered,
       PoisonNeedsAttempts, LeaseExcludes, OneVerdict, Settled

\* So do an append and the end of a lease.
LEMMA TableKeepsInv ==
    ASSUME IInv, NEW e \in Rows,
           AppendOutbox(e) \/ LeaseExpires(e) \/ LeaseOverrun(e)
    PROVE  IInv'
<1> USE DEF IInv
<1>1. TypeOK'
    BY TypeStep DEF Next
<1>2. /\ UNCHANGED <<publishedAt, poisonedAt, attempts, copies, relay>>
      /\ appended \subseteq appended'
    BY DEF AppendOutbox, LeaseExpires, LeaseOverrun
<1>3. \A q \in Relays : RelayOK(q)'
    BY <1>2 DEF RelayOK, Delivered, relay
<1>4. /\ PublishedWasDelivered' /\ (poisonedAt \subseteq appended)'
      /\ PoisonNeedsAttempts'
    BY <1>2 DEF PublishedWasDelivered, Delivered, PoisonNeedsAttempts
<1>5. OneVerdict'
  <2>1. overruns' = 0 => overruns = 0
      BY DEF AppendOutbox, LeaseExpires, LeaseOverrun, TypeOK
  <2>2. QED
      BY <1>2, <2>1 DEF OneVerdict
<1>6. LeaseExcludes'
  <2>1. CASE AppendOutbox(e)
      BY <2>1 DEF AppendOutbox, LeaseExcludes, Settled, relay
  <2>2. CASE LeaseExpires(e)
      BY <2>2 DEF LeaseExpires, Held, LeaseExcludes, Settled, relay
  <2>3. CASE LeaseOverrun(e)
      BY <2>3 DEF LeaseOverrun, LeaseExcludes, TypeOK
  <2>4. QED
      BY <2>1, <2>2, <2>3
<1>7. QED
    BY <1>1, <1>2, <1>3, <1>4, <1>5, <1>6

\* Every step keeps the invariant.
LEMMA InvStep == IInv /\ [Next]_vars => IInv'
<1>1. CASE UNCHANGED vars
    BY <1>1 DEF vars, table, relay, IInv, TypeOK, RelayOK, Delivered, Settled,
       PublishedWasDelivered, PoisonNeedsAttempts, LeaseExcludes, OneVerdict
<1>2. QED
    BY <1>1, PublishKeepsInv, ClaimKeepsInv, MarkKeepsInv, AbandonKeepsInv,
       TableKeepsInv DEF Next

\* The invariant holds in every reachable state.
LEMMA InvCorrect == Spec => []IInv
BY InvInit, InvStep, PTL DEF Spec

(***************************************************************************)
(* No row is recorded as published before the broker holds a copy of it:   *)
(* relayOnceDetailed never turns a failed, half-done or interrupted        *)
(* publish into a published_at.                                            *)
(***************************************************************************)
THEOREM PublishedWasDeliveredCorrect == Spec => []PublishedWasDelivered
<1>1. IInv => PublishedWasDelivered
    BY DEF IInv
<1>2. QED
    BY InvCorrect, <1>1, PTL

(***************************************************************************)
(* No row is quarantined before it was claimed poisonAfterAttempts times.  *)
(***************************************************************************)
THEOREM PoisonNeedsAttemptsCorrect == Spec => []PoisonNeedsAttempts
<1>1. IInv => PoisonNeedsAttempts
    BY DEF IInv
<1>2. QED
    BY InvCorrect, <1>1, PTL

(***************************************************************************)
(* The claim is mutual exclusion among any number of relays as long as no  *)
(* publish outlives its lease.                                             *)
(***************************************************************************)
THEOREM LeaseExcludesCorrect == Spec => []LeaseExcludes
<1>1. IInv => LeaseExcludes
    BY DEF IInv
<1>2. QED
    BY InvCorrect, <1>1, PTL

(***************************************************************************)
(* ... and under the same condition a row gets one verdict.                *)
(***************************************************************************)
THEOREM OneVerdictCorrect == Spec => []OneVerdict
<1>1. IInv => OneVerdict
    BY DEF IInv
<1>2. QED
    BY InvCorrect, <1>1, PTL

(***************************************************************************)
(* Refinement: every step of the relays is a step of EventDelivery or      *)
(* leaves what the rest of the platform sees unchanged.                    *)
(***************************************************************************)
LEMMA PromiseStep == IInv /\ IInv' /\ [Next]_vars => [Promise!Next]_(Promise!deliveryVars)
<1> SUFFICES ASSUME IInv, IInv', [Next]_vars
             PROVE  [Promise!Next]_(Promise!deliveryVars)
    OBVIOUS
<1> USE DEF Promise!deliveryVars
<1>1. ASSUME NEW e \in Rows, AppendOutbox(e)
      PROVE  Promise!Next
  <2>1. Delivered' = Delivered
      BY <1>1 DEF AppendOutbox, Delivered
  <2>2. Promise!Commit(e)
      BY <1>1, <2>1 DEF AppendOutbox, Promise!Commit
  <2>3. QED
      BY <2>2 DEF Promise!Next
<1>2. ASSUME NEW e \in Rows, LeaseExpires(e) \/ LeaseOverrun(e)
      PROVE  [Promise!Next]_(Promise!deliveryVars)
  <2>1. UNCHANGED <<appended, Delivered, publishedAt, poisonedAt>>
      BY <1>2 DEF LeaseExpires, LeaseOverrun, Delivered
  <2>2. CASE LeaseExpires(e)
      BY <2>1, <2>2 DEF LeaseExpires
  <2>3. CASE LeaseOverrun(e)
    <3>1. overruns' # 0
        BY <2>3 DEF LeaseOverrun, IInv, TypeOK
    <3>2. Promise!Overrun
        BY <2>1, <3>1 DEF Promise!Overrun
    <3>3. QED
        BY <3>2 DEF Promise!Next
  <2>4. QED
      BY <1>2, <2>2, <2>3
<1>3. ASSUME NEW r \in Relays, Claim(r) \/ Abandon(r)
      PROVE  UNCHANGED Promise!deliveryVars
    BY <1>3 DEF Claim, Abandon, Delivered, table
<1>4. ASSUME NEW r \in Relays, Publish(r)
      PROVE  Promise!Next
  <2>1. PICK S \in SUBSET batch[r], least \in {0, 1} : Send(S, least)
    <3>1. todo[r] \subseteq batch[r]
        BY DEF IInv, RelayOK
    <3>2. QED
        BY <1>4, <3>1 DEF Publish, PublishBatch, PublishBatchFails,
           PublishOne, PublishOneFails, Tried
  <2>2. S \subseteq appended /\ S \in SUBSET Rows
      BY <2>1 DEF IInv, RelayOK, TypeOK
  <2>3. /\ Delivered \subseteq Delivered'
        /\ Delivered' \subseteq Delivered \union S
    <3>1. copies \in [Rows -> Nat]
        BY DEF IInv, TypeOK
    <3>2. \A e \in Rows : /\ copies[e] \in Nat /\ copies'[e] \in Nat
                          /\ copies[e] <= copies'[e]
                          /\ e \notin S => copies'[e] = copies[e]
        BY <2>1, <2>2, <3>1, SendStores
    <3>3. QED
        BY <2>2, <3>2 DEF Delivered
  <2>4. UNCHANGED <<appended, publishedAt, poisonedAt, overruns>>
      BY <1>4 DEF Publish, PublishBatch, PublishBatchFails, PublishOne,
         PublishOneFails, Tried, table
  <2>5. overruns = 0 => S \intersect Settled = {}
      BY <2>1 DEF IInv, LeaseExcludes
  <2>6. Promise!Deliver(S \intersect Delivered')
      BY <2>2, <2>3, <2>4, <2>5 DEF Promise!Deliver, Promise!Retired, Settled
  <2>7. QED
      BY <2>2, <2>6 DEF Promise!Next
<1>5. ASSUME NEW r \in Relays, MarkResults(r)
      PROVE  Promise!Next
  <2>1. /\ sentIds[r] \subseteq Delivered
        /\ Exhausted(r) \subseteq appended
        /\ sentIds[r] \subseteq Rows /\ Exhausted(r) \subseteq Rows
        /\ sentIds[r] \intersect Exhausted(r) = {}
        /\ sentIds[r] \union Exhausted(r) \subseteq batch[r]
      BY DEF IInv, RelayOK, Exhausted, TypeOK
  <2>2. overruns = 0 => (sentIds[r] \union Exhausted(r)) \intersect Settled = {}
      BY <2>1 DEF IInv, LeaseExcludes
  <2>3. UNCHANGED <<appended, Delivered, overruns>>
      BY <1>5 DEF MarkResults, Delivered
  <2>4. Promise!Retire(sentIds[r], Exhausted(r))
      BY <1>5, <2>1, <2>2, <2>3 DEF MarkResults, Promise!Retire, Promise!Retired, Settled
  <2>5. QED
      BY <2>1, <2>4 DEF Promise!Next
<1>6. CASE UNCHANGED vars
    BY <1>6 DEF vars, table, Delivered
<1>7. QED
    BY <1>1, <1>2, <1>3, <1>4, <1>5, <1>6 DEF Next

(***************************************************************************)
(* The relays implement the outbox's promise: at-least-once delivery with  *)
(* published rows delivered, whatever the number of replicas and crashes,  *)
(* and with one verdict, after which nobody sends the row, as long as no   *)
(* publish outlives its lease.                                             *)
(***************************************************************************)
THEOREM ImplementsPromiseCorrect == Spec => ImplementsPromise
<1>1. Init => Promise!Init
    BY DEF Init, Promise!Init, Delivered, NoCounts
<1>2. QED
    BY <1>1, PromiseStep, InvCorrect, PTL
       DEF Spec, ImplementsPromise, Promise!Spec

(***************************************************************************)
(* Copies.  A claim pays for two sends: a relay that has not published     *)
(* its claim yet owes both, one in the fallback owes one for each row it   *)
(* has not tried; a send stores PerSend copies at most.  What was stored and what is still owed is never more    *)
(* than what was paid for; the number of relays that owe is finite because *)
(* a relay owes only after a claim.                                        *)
(***************************************************************************)
Unsent(e) == {r \in Relays : pc[r] = "batch" /\ e \in batch[r]}
Untried(e) == Unsent(e) \union {r \in Relays : pc[r] = "each" /\ e \in todo[r]}

Owed(e) == Cardinality(Unsent(e)) + Cardinality(Untried(e))
Paid(e) == /\ IsFiniteSet(Untried(e))
           /\ copies[e] + PerSend * Owed(e) <= PerSend * (2 * attempts[e])
CopiesInv == \A e \in Rows : Paid(e)

\* So is a send's worth of copies.
LEMMA PerSendType == PerSend \in Nat
BY OutboxAssumption DEF PerSend

\* What is owed is a number.
LEMMA OwedType ==
    ASSUME NEW U, NEW V, U \subseteq V, IsFiniteSet(V)
    PROVE  /\ IsFiniteSet(U)
           /\ Cardinality(U) \in Nat /\ Cardinality(V) \in Nat
BY FS_Subset, FS_CardinalityType

\* The arithmetic of the budget: c copies of a row with o sends owed of the 2 * a
\* sends that were paid for, each of p copies.
LEMMA Scales ==
    ASSUME NEW p \in Nat, NEW o \in Nat, NEW o2 \in Nat, o <= o2
    PROVE  p * o \in Nat /\ p * o2 \in Nat /\ p * o <= p * o2
<1>1. PICK d \in Nat : o2 = o + d
  <2>1. o2 - o \in Nat /\ o2 = o + (o2 - o)
      OBVIOUS
  <2>2. QED
      BY <2>1
<1>2. p * o2 = p * o + p * d /\ p * d \in Nat /\ p * o \in Nat
    BY <1>1
<1>3. QED
    BY <1>2

LEMMA Unspent ==
    ASSUME NEW p \in Nat, NEW c \in Nat, NEW o \in Nat, NEW o2 \in Nat, NEW a \in Nat,
           c + p * o <= p * (2 * a), o2 <= o
    PROVE  c + p * o2 <= p * (2 * a)
<1>1. p * o \in Nat /\ p * o2 \in Nat /\ p * o2 <= p * o /\ p * (2 * a) \in Nat
    BY Scales
<1>2. QED
    BY <1>1

LEMMA Spent ==
    ASSUME NEW p \in Nat, NEW c \in Nat, NEW c2 \in Nat, NEW o \in Nat, NEW o2 \in Nat,
           NEW a \in Nat, c + p * o <= p * (2 * a), c2 <= c + p, o2 + 1 <= o
    PROVE  c2 + p * o2 <= p * (2 * a)
<1>1. p * (o2 + 1) = p * o2 + p
    OBVIOUS
<1>2. p * o \in Nat /\ p * (o2 + 1) \in Nat /\ p * (o2 + 1) <= p * o
    BY Scales
<1>3. p * o2 \in Nat /\ p * (2 * a) \in Nat
    BY Scales
<1>4. QED
    BY <1>1, <1>2, <1>3

LEMMA Bought ==
    ASSUME NEW p \in Nat, NEW c \in Nat, NEW o \in Nat, NEW a \in Nat,
           c + p * o <= p * (2 * a)
    PROVE  c + p * (o + 2) <= p * (2 * (a + 1))
<1>1. p * (o + 2) = p * o + 2 * p
    OBVIOUS
<1>2. p * (2 * (a + 1)) = p * (2 * a) + 2 * p
    OBVIOUS
<1>3. p * o \in Nat /\ p * (2 * a) \in Nat
    BY Scales
<1>4. QED
    BY <1>1, <1>2, <1>3

\* The budget of a row for which nothing was sent and nothing paid.
LEMMA PaidStays ==
    ASSUME TypeOK, NEW e \in Rows, Paid(e), copies'[e] = copies[e],
           attempts'[e] = attempts[e], Unsent(e)' \subseteq Unsent(e),
           Untried(e)' \subseteq Untried(e)
    PROVE  Paid(e)'
<1> DEFINE U == Unsent(e)
           V == Untried(e)
<1>1. U \subseteq V /\ IsFiniteSet(V) /\ IsFiniteSet(U) /\ U' \subseteq V'
    BY FS_Subset DEF Untried, Paid
<1>2. /\ IsFiniteSet(U') /\ IsFiniteSet(V')
      /\ Cardinality(U') <= Cardinality(U) /\ Cardinality(V') <= Cardinality(V)
    BY <1>1, FS_Subset
<1>3. /\ Cardinality(U) \in Nat /\ Cardinality(V) \in Nat
      /\ Cardinality(U') \in Nat /\ Cardinality(V') \in Nat
    BY <1>1, <1>2, FS_CardinalityType
<1>4. copies[e] \in Nat /\ attempts[e] \in Nat
    BY DEF TypeOK
<1>5. copies[e] + PerSend * (Cardinality(U) + Cardinality(V)) <= PerSend * (2 * attempts[e])
    BY DEF Paid, Owed
<1> HIDE DEF U, V
<1>6. copies[e] + PerSend * (Cardinality(U') + Cardinality(V')) <= PerSend * (2 * attempts[e])
  <2>1. /\ Cardinality(U) + Cardinality(V) \in Nat /\ Cardinality(U') + Cardinality(V') \in Nat
        /\ Cardinality(U') + Cardinality(V') <= Cardinality(U) + Cardinality(V)
      BY <1>2, <1>3
  <2>2. QED
      BY <1>4, <1>5, <2>1, PerSendType, Unspent
<1>7. QED
    BY <1>2, <1>6 DEF Paid, Owed, U, V

\* The budget of a row of which one send's copies more are stored: one debt of
\* relay r is gone.
LEMMA PaidSpends ==
    ASSUME TypeOK, NEW e \in Rows, NEW r \in Relays, Paid(e), copies'[e] \in Nat,
           copies'[e] <= copies[e] + PerSend, attempts'[e] = attempts[e],
           \/ /\ r \in Unsent(e) /\ Unsent(e)' \subseteq Unsent(e) \ {r}
              /\ Untried(e)' \subseteq Untried(e)
           \/ /\ r \in Untried(e) /\ Untried(e)' \subseteq Untried(e) \ {r}
              /\ Unsent(e)' \subseteq Unsent(e)
    PROVE  Paid(e)'
<1> DEFINE U == Unsent(e)
           V == Untried(e)
<1>1. U \subseteq V /\ IsFiniteSet(V) /\ IsFiniteSet(U) /\ U' \subseteq V'
    BY FS_Subset DEF Untried, Paid
<1>2. /\ IsFiniteSet(U') /\ IsFiniteSet(V') /\ IsFiniteSet(U \ {r}) /\ IsFiniteSet(V \ {r})
      /\ Cardinality(U') <= Cardinality(U) /\ Cardinality(V') <= Cardinality(V)
    BY <1>1, FS_Subset
<1>3. /\ Cardinality(U) \in Nat /\ Cardinality(V) \in Nat
      /\ Cardinality(U') \in Nat /\ Cardinality(V') \in Nat
    BY <1>1, <1>2, FS_CardinalityType
<1>4. copies[e] \in Nat /\ attempts[e] \in Nat
    BY DEF TypeOK
<1>5. copies[e] + PerSend * (Cardinality(U) + Cardinality(V)) <= PerSend * (2 * attempts[e])
    BY DEF Paid, Owed
<1>6. Cardinality(U') + Cardinality(V') + 1 <= Cardinality(U) + Cardinality(V)
  <2>1. CASE r \in U /\ U' \subseteq U \ {r}
    <3>1. Cardinality(U \ {r}) = Cardinality(U) - 1 /\ Cardinality(U') <= Cardinality(U \ {r})
        BY <1>1, <1>2, <2>1, FS_RemoveElement, FS_Subset
    <3>2. QED
        BY <1>2, <1>3, <3>1
  <2>2. CASE r \in V /\ V' \subseteq V \ {r}
    <3>1. Cardinality(V \ {r}) = Cardinality(V) - 1 /\ Cardinality(V') <= Cardinality(V \ {r})
        BY <1>1, <1>2, <2>2, FS_RemoveElement, FS_Subset
    <3>2. QED
        BY <1>2, <1>3, <3>1
  <2>3. QED
      BY <2>1, <2>2
<1> HIDE DEF U, V
<1>7. copies'[e] + PerSend * (Cardinality(U') + Cardinality(V')) <= PerSend * (2 * attempts[e])
  <2>1. /\ Cardinality(U) + Cardinality(V) \in Nat /\ Cardinality(U') + Cardinality(V') \in Nat
        /\ (Cardinality(U') + Cardinality(V')) + 1 <= Cardinality(U) + Cardinality(V)
      BY <1>3, <1>6
  <2>2. QED
      BY <1>4, <1>5, <2>1, PerSendType, Spent
<1>8. QED
    BY <1>2, <1>7 DEF Paid, Owed, U, V

\* A claim pays for the batch and for the fallback.
LEMMA PaidByClaim ==
    ASSUME TypeOK, NEW e \in Rows, NEW r \in Relays, Paid(e), copies'[e] = copies[e],
           attempts'[e] = attempts[e] + 1, r \notin Untried(e),
           Unsent(e)' = Unsent(e) \union {r}, Untried(e)' = Untried(e) \union {r}
    PROVE  Paid(e)'
<1> DEFINE U == Unsent(e)
           V == Untried(e)
<1>1. U \subseteq V /\ IsFiniteSet(V) /\ IsFiniteSet(U) /\ r \notin U
    BY FS_Subset DEF Untried, Paid
<1>2. /\ Cardinality(U') = Cardinality(U) + 1 /\ Cardinality(V') = Cardinality(V) + 1
      /\ IsFiniteSet(V')
  <2>1. U' = U \union {r} /\ V' = V \union {r} /\ r \notin V
    OBVIOUS
  <2>2. /\ Cardinality(U \union {r}) = Cardinality(U) + 1
        /\ Cardinality(V \union {r}) = Cardinality(V) + 1
        /\ IsFiniteSet(V \union {r})
    <3> HIDE DEF U, V
    <3> QED
      BY <1>1, <2>1, FS_AddElement
  <2> QED
    BY <2>1, <2>2
<1>3. Cardinality(U) \in Nat /\ Cardinality(V) \in Nat
    BY <1>1, FS_CardinalityType
<1>4. copies[e] \in Nat /\ attempts[e] \in Nat
    BY DEF TypeOK
<1>5. copies[e] + PerSend * (Cardinality(U) + Cardinality(V)) <= PerSend * (2 * attempts[e])
    BY DEF Paid, Owed
<1> HIDE DEF U, V
<1>6. copies[e] + PerSend * (Cardinality(U') + Cardinality(V'))
         <= PerSend * (2 * (attempts[e] + 1))
  <2>1. /\ Cardinality(U) + Cardinality(V) \in Nat
        /\ Cardinality(U') + Cardinality(V') = (Cardinality(U) + Cardinality(V)) + 2
      BY <1>2, <1>3
  <2>2. QED
      BY <1>4, <1>5, <2>1, PerSendType, Bought
<1>7. QED
    BY <1>2, <1>6 DEF Paid, Owed, U, V

\* A send's worth of copies more at most of each row that is sent.
LEMMA SendSpends ==
    ASSUME TypeOK, NEW S \in SUBSET Rows, NEW least \in {0, 1}, Send(S, least),
           NEW e \in Rows
    PROVE  /\ copies'[e] \in Nat /\ copies'[e] <= copies[e] + PerSend
           /\ e \notin S => copies'[e] = copies[e]
BY SendStores DEF TypeOK

\* The publish phase of relay r spends what r owes.
LEMMA PublishSpends ==
    ASSUME IInv, CopiesInv, NEW r \in Relays, Publish(r), NEW e \in Rows
    PROVE  Paid(e)'
<1>1. TypeOK /\ RelayOK(r) /\ Paid(e)
    BY DEF IInv, CopiesInv
<1>2. attempts'[e] = attempts[e] /\ batch' = batch
    BY DEF Publish, PublishBatch, PublishBatchFails, PublishOne, PublishOneFails, Tried, table
<1>3. \A q \in Relays \ {r} : /\ q \in Unsent(e)' <=> q \in Unsent(e)
                              /\ q \in Untried(e)' <=> q \in Untried(e)
  <2>1. \A q \in Relays \ {r} : pc'[q] = pc[q] /\ todo'[q] = todo[q]
      BY <1>1 DEF Publish, PublishBatch, PublishBatchFails, PublishOne, PublishOneFails, Tried,
         TypeOK
  <2>2. QED
      BY <1>2, <2>1 DEF Unsent, Untried
<1>4. CASE PublishBatch(r)
  <2>1. /\ pc[r] = "batch" /\ pc'[r] = "mark" /\ Send(batch[r], 1)
        /\ batch[r] \in SUBSET Rows
      BY <1>1, <1>4 DEF PublishBatch, TypeOK
  <2>2. r \notin Unsent(e)' /\ r \notin Untried(e)'
      BY <2>1 DEF Unsent, Untried
  <2>3. Unsent(e)' \subseteq Unsent(e) \ {r} /\ Untried(e)' \subseteq Untried(e) \ {r}
      BY <1>3, <2>2 DEF Unsent, Untried
  <2>4. e \in batch[r] => r \in Unsent(e)
      BY <2>1 DEF Unsent
  <2>5. QED
      BY <1>1, <1>2, <2>1, <2>3, <2>4, SendSpends, PaidStays, PaidSpends
<1>5. CASE PublishBatchFails(r)
  <2>1. pc[r] = "batch" /\ pc'[r] = "each" /\ todo'[r] = batch[r]
      BY <1>1, <1>5 DEF PublishBatchFails, TypeOK
  <2>2. Send(batch[r], 0) /\ batch[r] \in SUBSET Rows
      BY <1>1, <1>5 DEF PublishBatchFails, TypeOK
  <2>3. r \notin Unsent(e)' /\ (r \in Untried(e)' => r \in Unsent(e))
      BY <2>1 DEF Unsent, Untried
  <2>4. Unsent(e)' \subseteq Unsent(e) \ {r} /\ Untried(e)' \subseteq Untried(e)
      BY <1>3, <2>3 DEF Unsent, Untried
  <2>5. e \in batch[r] => r \in Unsent(e)
      BY <2>1 DEF Unsent
  <2>6. CASE e \in batch[r]
      BY <1>1, <1>2, <2>2, <2>4, <2>5, <2>6, SendSpends, PaidSpends
  <2>7. CASE e \notin batch[r]
      BY <1>1, <1>2, <2>2, <2>4, <2>7, SendSpends, PaidStays
  <2>8. QED
      BY <2>6, <2>7
<1>6. ASSUME NEW f \in Rows, PublishOne(r, f) \/ PublishOneFails(r, f)
      PROVE  Paid(e)'
  <2>1. /\ pc[r] = "each" /\ f \in todo[r] /\ todo'[r] = todo[r] \ {f} /\ pc'[r] # "batch"
        /\ (pc'[r] = "each" => todo'[r] # {})
      BY <1>1, <1>6 DEF PublishOne, PublishOneFails, Tried, TypeOK
  <2>2. /\ {f} \in SUBSET Rows
        /\ Send({f}, 1) \/ Send({f}, 0)
      BY <1>6 DEF PublishOne, PublishOneFails
  <2>3. /\ r \notin Unsent(e)' /\ (r \in Untried(e)' => r \in Untried(e) /\ e # f)
        /\ (e = f => r \in Untried(e))
      BY <2>1 DEF Unsent, Untried
  <2>4. Unsent(e)' \subseteq Unsent(e) /\ Untried(e)' \subseteq Untried(e)
      BY <1>3, <2>3 DEF Unsent, Untried
  <2>5. CASE e = f
    <3>1. Untried(e)' \subseteq Untried(e) \ {r}
        BY <2>3, <2>4, <2>5
    <3>2. QED
        BY <1>1, <1>2, <2>2, <2>3, <2>4, <2>5, <3>1, SendSpends, PaidSpends
  <2>6. CASE e # f
      BY <1>1, <1>2, <2>2, <2>4, <2>6, SendSpends, PaidStays
  <2>7. QED
      BY <2>5, <2>6
<1>7. QED
    BY <1>4, <1>5, <1>6 DEF Publish

LEMMA CopiesStep == IInv /\ CopiesInv /\ [Next]_vars => CopiesInv'
<1> SUFFICES ASSUME IInv, CopiesInv, [Next]_vars, NEW e \in Rows
             PROVE  Paid(e)'
    BY DEF CopiesInv
<1>1. TypeOK /\ Paid(e)
    BY DEF IInv, CopiesInv
<1>2. ASSUME NEW r \in Relays, Claim(r)
      PROVE  Paid(e)'
  <2>1. PICK claimed \in SUBSET Claimable :
           /\ attempts' = [f \in Rows |->
                 IF f \in claimed THEN attempts[f] + 1 ELSE attempts[f]]
           /\ batch' = [batch EXCEPT ![r] = claimed]
      BY <1>2 DEF Claim, FirstById
  <2>2. /\ pc[r] = "idle" /\ pc' = [pc EXCEPT ![r] = "batch"] /\ todo' = todo
        /\ copies' = copies
      BY <1>2 DEF Claim
  <2>3. r \notin Untried(e)
      BY <2>2 DEF Untried, Unsent
  <2>4. \A q \in Relays : /\ batch'[q] = IF q = r THEN claimed ELSE batch[q]
                          /\ pc'[q] = IF q = r THEN "batch" ELSE pc[q]
      BY <1>1, <2>1, <2>2 DEF TypeOK
  <2>5. CASE e \in claimed
    <3>1. Unsent(e)' = Unsent(e) \union {r}
        BY <2>4, <2>5 DEF Unsent
    <3>2. Untried(e)' = Untried(e) \union {r}
        BY <2>2, <2>4, <3>1 DEF Untried
    <3>3. attempts'[e] = attempts[e] + 1
        BY <2>1, <2>5
    <3>4. QED
        BY <1>1, <2>2, <2>3, <3>1, <3>2, <3>3, PaidByClaim
  <2>6. CASE e \notin claimed
    <3>1. Unsent(e)' = Unsent(e)
        BY <2>2, <2>4, <2>6 DEF Unsent
    <3>2. Untried(e)' = Untried(e)
        BY <2>2, <2>4, <3>1 DEF Untried
    <3>3. attempts'[e] = attempts[e]
        BY <2>1, <2>6
    <3>4. QED
        BY <1>1, <2>2, <3>1, <3>2, <3>3, PaidStays
  <2>7. QED
      BY <2>5, <2>6
<1>3. ASSUME NEW r \in Relays, MarkResults(r) \/ Abandon(r)
      PROVE  Paid(e)'
  <2>1. /\ \A q \in Relays : q # r =>
              pc'[q] = pc[q] /\ batch'[q] = batch[q] /\ todo'[q] = todo[q]
        /\ pc'[r] = "idle" /\ UNCHANGED <<attempts, copies>>
      BY <1>1, <1>3 DEF MarkResults, Abandon, Forget, table, TypeOK
  <2>2. Unsent(e)' \subseteq Unsent(e)
      BY <2>1 DEF Unsent
  <2>3. Untried(e)' \subseteq Untried(e)
      BY <2>1, <2>2 DEF Untried
  <2>4. QED
      BY <1>1, <2>1, <2>2, <2>3, PaidStays
<1>4. ASSUME UNCHANGED <<attempts, copies, relay>>
      PROVE  Paid(e)'
  <2>1. Unsent(e)' = Unsent(e) /\ Untried(e)' = Untried(e)
      BY <1>4 DEF Unsent, Untried, relay
  <2>2. QED
      BY <1>1, <1>4, <2>1, PaidStays
<1>5. ASSUME NEW f \in Rows, AppendOutbox(f) \/ LeaseExpires(f) \/ LeaseOverrun(f)
      PROVE  Paid(e)'
    BY <1>4, <1>5 DEF AppendOutbox, LeaseExpires, LeaseOverrun
<1>6. CASE UNCHANGED vars
    BY <1>4, <1>6 DEF vars, table
<1>7. QED
    BY <1>2, <1>3, <1>5, <1>6, PublishSpends DEF Next

(***************************************************************************)
(* The broker holds at most two sends' worth of copies of a row for each   *)
(* time it was claimed, the batch and the one-by-one fallback of           *)
(* relayOnceDetailed, each of at most PerSend copies, whatever sends are   *)
(* half stored or repeated by the client and whichever relays crash.       *)
(***************************************************************************)
THEOREM CopiesBoundedCorrect == Spec => []CopiesBounded
<1>1. Init => CopiesInv
  <2>1. SUFFICES ASSUME Init, NEW e \in Rows PROVE Paid(e)
      BY DEF CopiesInv
  <2>2. Unsent(e) = {} /\ Untried(e) = {}
      BY <2>1 DEF Init, Unsent, Untried
  <2>3. IsFiniteSet({}) /\ Cardinality({}) = 0
      BY FS_EmptySet
  <2>4. copies[e] = 0 /\ attempts[e] = 0
      BY <2>1 DEF Init, NoCounts
  <2>5. QED
      BY <2>2, <2>3, <2>4, PerSendType DEF Paid, Owed
<1>2. IInv /\ CopiesInv => CopiesBounded
  <2>1. SUFFICES ASSUME TypeOK, NEW e \in Rows, Paid(e)
                 PROVE  copies[e] <= 2 * PerSend * attempts[e]
      BY DEF IInv, CopiesInv, CopiesBounded
  <2>2. Cardinality(Unsent(e)) \in Nat /\ Cardinality(Untried(e)) \in Nat
      BY <2>1, OwedType DEF Paid, Untried
  <2>3. copies[e] \in Nat /\ attempts[e] \in Nat
      BY <2>1 DEF TypeOK
  <2>4. copies[e] <= PerSend * (2 * attempts[e])
    <3>1. Owed(e) \in Nat
        BY <2>2 DEF Owed
    <3>2. copies[e] + PerSend * Owed(e) <= PerSend * (2 * attempts[e])
        BY <2>1 DEF Paid
    <3>3. PerSend * Owed(e) \in Nat /\ PerSend * (2 * attempts[e]) \in Nat
        BY <2>3, <3>1, PerSendType, Scales
    <3>4. QED
        BY <2>3, <3>2, <3>3
  <2>5. 2 * PerSend * attempts[e] = PerSend * (2 * attempts[e])
      BY <2>3, PerSendType
  <2>6. QED
      BY <2>4, <2>5
<1>3. QED
    BY <1>1, <1>2, CopiesStep, InvCorrect, PTL DEF Spec

-----------------------------------------------------------------------------
(***************************************************************************)
(* Theorems about RetryLadder: effectively-once processing and the absence *)
(* of silent loss, for any number of groups, instances, events, tiers,     *)
(* redeliveries, redrives and duplicates.                                  *)
(***************************************************************************)

(***************************************************************************)
(* The strengthening: an instance that is not idle has a message in hand,  *)
(* and the effect counter is the characteristic function of                *)
(* processed_events.                                                       *)
(***************************************************************************)
HandOK == \A w \in Consumers : stage[w] # "idle" => inHand[w] \in Copies
EffectsOK == \A p \in Pairs : effects[p] = IF p \in processed THEN 1 ELSE 0

LadderInv ==
    /\ LadderTypeOK
    /\ HandOK
    /\ EffectsOK
    /\ NoEventLost

\* What a copy of an event is made of.
LEMMA CopyFacts ==
    /\ \A e \in Events : MainCopy(e) \in Copies
    /\ \A c \in Copies : /\ c.ev \in Events
                         /\ c.retryTier \in -1..(NumTiers - 1)
BY LadderAssumption DEF Copies, MainCopy

\* A copy sent to the next tier is a copy of the event in hand.
LEMMA RetryCopyFacts ==
    ASSUME LadderTypeOK, HandOK, NEW w \in Consumers, GoesToRetry(w)
    PROVE  RetryCopy(w) \in Copies /\ RetryCopy(w).ev = Event(w)
<1>1. inHand[w] \in Copies
    BY DEF GoesToRetry, HandOK
<1>2. NextTier(w) \in 0..(NumTiers - 1)
    BY <1>1, CopyFacts, LadderAssumption DEF GoesToRetry, NextTier
<1>3. Grp(w) \in Groups /\ Event(w) \in Events
    BY <1>1, CopyFacts, LadderAssumption DEF Grp, Event
<1>4. QED
    BY <1>2, <1>3 DEF RetryCopy, Copies

\* A consumer that is busy has a group and an event that exist.
LEMMA PairFacts ==
    ASSUME LadderTypeOK, HandOK, NEW w \in Consumers, stage[w] # "idle"
    PROVE  PairOf(w) \in Pairs /\ Grp(w) \in Groups /\ Event(w) \in Events
BY CopyFacts, LadderAssumption DEF HandOK, PairOf, Pairs, Grp, Event

\* Adding a copy to a backlog, or taking one from it, keeps its type.
LEMMA BacklogType ==
    ASSUME LadderTypeOK, NEW c \in Copies, NEW g \in Groups
    PROVE  /\ ToEveryGroup(c) \in [Groups -> [Copies -> Nat]]
           /\ [backlog EXCEPT ![g][c] = @ + 1] \in [Groups -> [Copies -> Nat]]
           /\ backlog[g][c] > 0 =>
                [backlog EXCEPT ![g][c] = @ - 1] \in [Groups -> [Copies -> Nat]]
BY DEF LadderTypeOK, ToEveryGroup

\* The invariant holds before anything is published.
LEMMA LadderInvInit == LadderInit => LadderTypeOK /\ HandOK /\ EffectsOK /\ NoEventLost
<1> SUFFICES ASSUME LadderInit
             PROVE  LadderTypeOK /\ HandOK /\ EffectsOK /\ NoEventLost
    OBVIOUS
<1>1. LadderTypeOK
    BY LadderAssumption DEF LadderInit, LadderTypeOK, Stages
<1>2. HandOK /\ EffectsOK /\ NoEventLost
    BY DEF LadderInit, HandOK, EffectsOK, NoEventLost
<1>3. QED
    BY <1>1, <1>2

(***************************************************************************)
(* Types, messages in hand and effects are kept by every step, one action  *)
(* at a time.                                                              *)
(***************************************************************************)
Basic == LadderTypeOK /\ HandOK /\ EffectsOK

\* Every step keeps the types and the facts about what is in hand.
LEMMA BasicStep == Basic /\ [LadderNext]_ladderVars => Basic'
<1> SUFFICES ASSUME Basic, [LadderNext]_ladderVars
             PROVE  Basic'
    OBVIOUS
<1> USE DEF Basic
<1>1. ASSUME NEW e \in Events, RelayPublishes(e)
      PROVE  Basic'
  <2>1. LadderTypeOK'
    <3>1. backlog' \in [Groups -> [Copies -> Nat]]
        BY <1>1, CopyFacts, BacklogType DEF RelayPublishes, ToEveryGroup, LadderTypeOK
    <3>2. QED
        BY <1>1, <3>1, LadderAssumption DEF RelayPublishes, Repeat, LadderTypeOK, database, failures, offsets
  <2>2. QED
    BY <1>1, <2>1 DEF RelayPublishes, HandOK, EffectsOK, database, failures, offsets
<1>2. ASSUME NEW e \in Events, NEW g \in Groups, Redrive(g, e)
      PROVE  Basic'
  <2>1. LadderTypeOK'
    <3>1. backlog' \in [Groups -> [Copies -> Nat]]
        BY <1>2, CopyFacts, BacklogType DEF Redrive, ToEveryGroup, LadderTypeOK
    <3>2. QED
        BY <1>2, <3>1, LadderAssumption DEF Redrive, Repeat, LadderTypeOK, database, failures, offsets
  <2>2. QED
    BY <1>2, <2>1 DEF Redrive, HandOK, EffectsOK, database, failures, offsets
<1>3. ASSUME NEW w \in Consumers, NEW c \in Copies, Fetch(w, c)
      PROVE  Basic'
  <2>1. Grp(w) \in Groups
      BY LadderAssumption DEF Grp
  <2>2. backlog' \in [Groups -> [Copies -> Nat]]
      BY <1>3, <2>1, BacklogType DEF Fetch
  <2>3. LadderTypeOK'
      BY <1>3, <2>2 DEF Fetch, Goto, LadderTypeOK, Stages, world, database, failures, offsets
  <2>4. QED
      BY <1>3, <2>3 DEF Fetch, Goto, HandOK, EffectsOK, LadderTypeOK,
         world, database, failures, offsets
<1>4. ASSUME NEW w \in Consumers, Handle(w)
      PROVE  Basic'
  <2>1. PairOf(w) \in Pairs
      BY <1>4, PairFacts DEF Handle
  <2>2. LadderTypeOK'
    <3>1. CASE PairOf(w) \in processed
        BY <1>4, <3>1 DEF Handle, Goto, LadderTypeOK, Stages, world, database, failures, offsets
    <3>2. CASE PairOf(w) \notin processed
      <4>1. /\ processed' = processed \union {PairOf(w)}
            /\ effects' = [effects EXCEPT ![PairOf(w)] = @ + 1]
          BY <1>4, <3>2 DEF Handle
      <4>2. processed' \subseteq Pairs /\ effects' \in [Pairs -> Nat]
          BY <2>1, <4>1 DEF LadderTypeOK
      <4>3. QED
          BY <1>4, <4>2 DEF Handle, Goto, LadderTypeOK, Stages, world, failures, offsets
    <3>3. QED
        BY <3>1, <3>2
  <2>3. EffectsOK'
      BY <1>4, <2>1 DEF Handle, EffectsOK, LadderTypeOK, database, failures, offsets
  <2>4. HandOK'
      BY <1>4 DEF Handle, Goto, HandOK, LadderTypeOK
  <2>5. QED
      BY <2>2, <2>3, <2>4
<1>5. ASSUME NEW w \in Consumers, HandlerThrows(w)
      PROVE  Basic'
    BY <1>5 DEF HandlerThrows, Goto, LadderTypeOK, HandOK, EffectsOK,
       ErrorClasses, Stages, world, database, failures, offsets
<1>6. ASSUME NEW w \in Consumers, RouteToDlq(w) \/ ForceDlq(w)
      PROVE  Basic'
  <2>1. PairOf(w) \in Pairs
      BY <1>6, PairFacts DEF RouteToDlq, ForceDlq, GoesToDlq
  <2>2. stage[w] # "idle"
      BY <1>6 DEF RouteToDlq, ForceDlq, GoesToDlq
  <2>3. QED
      BY <1>6, <2>1, <2>2 DEF RouteToDlq, ForceDlq, Goto, LadderTypeOK, HandOK,
         EffectsOK, Stages, world, database, failures, offsets
<1>7. ASSUME NEW w \in Consumers, RouteToRetry(w)
      PROVE  Basic'
  <2>1. RetryCopy(w) \in Copies /\ stage[w] # "idle"
      BY <1>7, RetryCopyFacts DEF RouteToRetry, GoesToRetry
  <2>2. backlog' \in [Groups -> [Copies -> Nat]]
      BY <1>7, <2>1 DEF RouteToRetry, ToEveryGroup, LadderTypeOK
  <2>3. LadderTypeOK'
      BY <1>7, <2>2 DEF RouteToRetry, Goto, LadderTypeOK, Stages, world, database, failures, offsets
  <2>4. QED
      BY <1>7, <2>1, <2>3 DEF RouteToRetry, Goto, HandOK, EffectsOK, LadderTypeOK, world, database, failures, offsets
<1>8. ASSUME NEW w \in Consumers, RouteToDrop(w)
      PROVE  Basic'
  <2>1. PairOf(w) \in Pairs
      BY <1>8, PairFacts DEF RouteToDrop
  <2>2. QED
      BY <1>8, <2>1 DEF RouteToDrop, Goto, LadderTypeOK, HandOK, EffectsOK, Stages, world, database, failures, offsets
<1>9. ASSUME NEW w \in Consumers, RouteFails(w)
      PROVE  Basic'
  <2>1. PairOf(w) \in Pairs /\ stage[w] # "idle"
      BY <1>9, PairFacts DEF RouteFails, GoesToDlq, GoesToRetry
  <2>2. backlog' \in [Groups -> [Copies -> Nat]]
    <3>1. CASE GoesToDlq(w) /\ UNCHANGED backlog
        BY <3>1 DEF LadderTypeOK
    <3>2. CASE GoesToRetry(w) /\ backlog' \in {backlog, ToEveryGroup(RetryCopy(w))}
        BY <3>2, RetryCopyFacts DEF ToEveryGroup, LadderTypeOK
    <3>3. QED
        BY <1>9, <3>1, <3>2 DEF RouteFails
  <2>3. dlq' \subseteq Pairs
      BY <1>9, <2>1 DEF RouteFails, LadderTypeOK
  <2>4. faults' \in 0..MaxFailures
      BY <1>9, LadderAssumption DEF RouteFails, LadderTypeOK
  <2>5. LadderTypeOK'
      BY <1>9, <2>2, <2>3, <2>4 DEF RouteFails, Goto, LadderTypeOK, Stages, world,
         database, failures, offsets
  <2>6. HandOK' /\ EffectsOK'
      BY <1>9, <2>1, <2>4 DEF RouteFails, Goto, HandOK, EffectsOK, LadderTypeOK, world, database, failures, offsets
  <2>7. QED
      BY <2>5, <2>6
<1>10. ASSUME NEW w \in Consumers, ForceDlqFails(w)
       PROVE  Basic'
  <2>1. PairOf(w) \in Pairs
      BY <1>10, PairFacts DEF ForceDlqFails
  <2>2. onlyLogged' \subseteq Pairs
      BY <1>10, <2>1 DEF ForceDlqFails, LadderTypeOK
  <2>3. LadderTypeOK'
      BY <1>10, <2>1, <2>2 DEF ForceDlqFails, Goto, LadderTypeOK, Stages, world,
         database, failures, offsets
  <2>4. HandOK' /\ EffectsOK'
      BY <1>10, <2>2 DEF ForceDlqFails, Goto, HandOK, EffectsOK, LadderTypeOK, world, database, failures, offsets
  <2>5. QED
      BY <2>3, <2>4
<1>11. ASSUME NEW w \in Consumers, CommitOffset(w)
       PROVE  Basic'
  <2>1. <<Grp(w), Place(inHand[w])>> \in Groups \X {Place(c) : c \in Copies}
      BY <1>11, LadderAssumption DEF CommitOffset, Grp, HandOK
  <2>2. based' \subseteq Groups \X {Place(c) : c \in Copies}
      BY <1>11, <2>1 DEF CommitOffset, LadderTypeOK
  <2>3. LadderTypeOK'
      BY <1>11, <2>2 DEF CommitOffset, Goto, LadderTypeOK, Stages, world, database, failures
  <2>4. QED
      BY <1>11, <2>3 DEF CommitOffset, Goto, LadderTypeOK, HandOK, EffectsOK,
         world, database, failures
<1>12. ASSUME NEW w \in Consumers, Redelivered(w) \/ RestartsAtLatest(w)
       PROVE  Basic'
  <2>1. Dies(w)
      BY <1>12 DEF Redelivered, RestartsAtLatest
  <2>2. Grp(w) \in Groups /\ inHand[w] \in Copies
      BY <2>1, LadderAssumption DEF Dies, Grp, HandOK
  <2>3. backlog' \in [Groups -> [Copies -> Nat]] /\ skipped' \subseteq Pairs
    <3>1. CASE Redelivered(w)
        BY <2>2, <3>1, BacklogType DEF Redelivered, LadderTypeOK
    <3>2. CASE RestartsAtLatest(w)
      <4>1. PairOf(w) \in Pairs
          BY <2>1, PairFacts DEF Dies
      <4>2. \A c \in Copies : <<Grp(w), c.ev>> \in Pairs
          BY <2>2, CopyFacts DEF Pairs
      <4>3. skipped' \subseteq Pairs
          BY <3>2, <4>1, <4>2 DEF RestartsAtLatest, LadderTypeOK
      <4>4. backlog' \in [Groups -> [Copies -> Nat]]
          BY <2>2, <3>2 DEF RestartsAtLatest, LadderTypeOK
      <4>5. QED
          BY <4>3, <4>4
    <3>3. QED
        BY <1>12, <3>1, <3>2
  <2>4. LadderTypeOK'
      BY <2>1, <2>3, LadderAssumption DEF Dies, Repeat, Goto, LadderTypeOK, Stages,
         database, failures
  <2>5. QED
      BY <2>1, <2>4 DEF Dies, Goto, HandOK, EffectsOK, LadderTypeOK, database
<1>13. CASE UNCHANGED ladderVars
    BY <1>13 DEF ladderVars, world, database, failures, offsets, LadderTypeOK, HandOK, EffectsOK
<1>14. QED
    BY <1>1, <1>2, <1>3, <1>4, <1>5, <1>6, <1>7, <1>8, <1>9, <1>10, <1>11,
       <1>12, <1>13 DEF LadderNext, Work, Route

(***************************************************************************)
(* A step of one instance w that takes no copy away from any group keeps   *)
(* NoEventLost if w's own message stays outstanding or is concluded.       *)
(***************************************************************************)
LEMMA Carry ==
    ASSUME NoEventLost, Basic, Basic', NEW w \in Consumers,
           published' = published,
           onlyLogged \subseteq onlyLogged',
           skipped \subseteq skipped',
           \A g \in Groups, c \in Copies : backlog'[g][c] >= backlog[g][c],
           \A v \in Consumers \ {w} :
               stage'[v] = stage[v] /\ inHand'[v] = inHand[v],
           processed \subseteq processed',
           dlq \subseteq dlq',
           dropped \subseteq dropped',
           \A e \in Events :
               (e = Event(w) /\ stage[w] \notin {"idle", "commit"})
                  => (Outstanding(Grp(w), e)' \/ Past(Grp(w), e)')
    PROVE  NoEventLost'
<1> SUFFICES ASSUME NEW g \in Groups, NEW e \in Events, e \in published'
             PROVE  Outstanding(g, e)' \/ Past(g, e)'
    BY DEF NoEventLost
<1>2. Outstanding(g, e) \/ Past(g, e)
    BY DEF NoEventLost
<1>3. CASE Past(g, e)
    BY <1>3 DEF Past, Decided, Concluded
<1>4. ASSUME NEW c \in Copies, c.ev = e, backlog[g][c] > 0
      PROVE  Outstanding(g, e)'
  <2>1. backlog[g][c] \in Nat /\ backlog'[g][c] \in Nat
      BY DEF Basic, LadderTypeOK
  <2>2. backlog'[g][c] > 0
      BY <1>4, <2>1
  <2>3. QED
      BY <1>4, <2>2 DEF Outstanding
<1>5. ASSUME NEW v \in Consumers, Grp(v) = g, Event(v) = e,
             stage[v] \notin {"idle", "commit"}
      PROVE  Outstanding(g, e)' \/ Past(g, e)'
  <2>1. CASE v = w
      BY <1>5, <2>1
  <2>2. CASE v # w
      BY <1>5, <2>2 DEF Outstanding, Grp, Event
  <2>3. QED
      BY <2>1, <2>2
<1>6. QED
    BY <1>2, <1>3, <1>4, <1>5 DEF Outstanding

\* Publishing a copy to every group takes nothing away and adds that copy.
LEMMA ToEveryGroupFacts ==
    ASSUME LadderTypeOK, NEW c \in Copies, backlog' = ToEveryGroup(c)
    PROVE  /\ \A g \in Groups, d \in Copies : backlog'[g][d] >= backlog[g][d]
           /\ \A g \in Groups : backlog'[g][c] > 0
BY DEF LadderTypeOK, ToEveryGroup

\* No step loses an event that was to be handled.
LEMMA NoLossStep == Basic /\ Basic' /\ NoEventLost /\ [LadderNext]_ladderVars => NoEventLost'
<1> SUFFICES ASSUME Basic, Basic', NoEventLost, [LadderNext]_ladderVars
             PROVE  NoEventLost'
    OBVIOUS
<1>b. \A g \in Groups, c \in Copies : backlog[g][c] \in Nat
    BY DEF Basic, LadderTypeOK
<1>1. ASSUME NEW e \in Events, backlog' = ToEveryGroup(MainCopy(e)),
             published' = published \union {e} \/ published' = published,
             UNCHANGED <<inHand, stage, database, dlq, dropped, failures, offsets>>
      PROVE  NoEventLost'
  <2>1. MainCopy(e) \in Copies /\ MainCopy(e).ev = e
      BY CopyFacts DEF MainCopy
  <2> SUFFICES ASSUME NEW g \in Groups, NEW x \in Events, x \in published'
               PROVE  Outstanding(g, x)' \/ Past(g, x)'
      BY DEF NoEventLost
  <2>2. CASE x = e
    <3>1. backlog'[g][MainCopy(e)] > 0
        BY <1>1, <2>1, ToEveryGroupFacts DEF Basic
    <3>2. QED
        BY <2>1, <2>2, <3>1 DEF Outstanding
  <2>3. CASE x # e
    <3>1. x \in published
        BY <1>1, <2>3 DEF Basic, LadderTypeOK
    <3>2. Outstanding(g, x) \/ Past(g, x)
        BY <1>1, <3>1 DEF NoEventLost
    <3>3. \A c \in Copies : backlog[g][c] > 0 => backlog'[g][c] > 0
      <4>1. \A c \in Copies : backlog'[g][c] >= backlog[g][c]
          BY <1>1, <2>1, ToEveryGroupFacts DEF Basic
      <4>2. \A c \in Copies : backlog'[g][c] \in Nat
          BY DEF Basic, LadderTypeOK
      <4>3. QED
          BY <1>b, <4>1, <4>2
    <3>4. QED
        BY <1>1, <3>2, <3>3 DEF Outstanding, Past, Decided, Concluded, Grp, Event, database, failures, offsets
  <2>4. QED
      BY <2>2, <2>3
<1>2. ASSUME NEW w \in Consumers, NEW c \in Copies, Fetch(w, c)
      PROVE  NoEventLost'
  <2> SUFFICES ASSUME NEW g \in Groups, NEW e \in Events, e \in published'
               PROVE  Outstanding(g, e)' \/ Past(g, e)'
      BY DEF NoEventLost
  <2>1. UNCHANGED <<published, failures, offsets, processed, dlq, dropped>>
      BY <1>2 DEF Fetch, world, database, failures, offsets
  <2>2. Outstanding(g, e) \/ Past(g, e)
      BY <2>1 DEF NoEventLost
  <2>3. CASE Past(g, e)
      BY <2>1, <2>3 DEF Past, Decided, Concluded, failures, offsets
  <2>4. ASSUME NEW d \in Copies, d.ev = e, backlog[g][d] > 0
        PROVE  Outstanding(g, e)'
    <3>1. CASE g = Grp(w) /\ d = c
      <4>1. stage'[w] = "handle" /\ inHand'[w] = c
          BY <1>2 DEF Fetch, Goto, Basic, LadderTypeOK
      <4>2. QED
          BY <2>4, <3>1, <4>1 DEF Outstanding, Grp, Event
    <3>2. CASE ~ (g = Grp(w) /\ d = c)
      <4>1. backlog'[g][d] = backlog[g][d]
          BY <1>2, <3>2 DEF Fetch, Basic, LadderTypeOK
      <4>2. QED
          BY <2>4, <4>1 DEF Outstanding
    <3>3. QED
        BY <3>1, <3>2
  <2>5. ASSUME NEW v \in Consumers, Grp(v) = g, Event(v) = e,
               stage[v] \notin {"idle", "commit"}
        PROVE  Outstanding(g, e)'
    <3>1. v # w
        BY <1>2, <2>5 DEF Fetch
    <3>2. stage'[v] = stage[v] /\ inHand'[v] = inHand[v]
        BY <1>2, <3>1 DEF Fetch, Goto, Basic, LadderTypeOK
    <3>3. QED
        BY <2>5, <3>2 DEF Outstanding, Grp, Event
  <2>6. QED
      BY <2>2, <2>3, <2>4, <2>5 DEF Outstanding
<1>3. ASSUME NEW w \in Consumers, Handle(w)
      PROVE  NoEventLost'
  <2>1. PairOf(w) \in processed'
      BY <1>3 DEF Handle, database, failures, offsets
  <2>2. \A e \in Events : e = Event(w) => Past(Grp(w), e)'
      BY <2>1 DEF PairOf, Past, Decided, Concluded, Grp
  <2>3. /\ UNCHANGED <<published, backlog, inHand, dlq, dropped, failures, offsets>>
        /\ processed \subseteq processed'
      BY <1>3 DEF Handle, world, database, failures, offsets
  <2>4. \A v \in Consumers \ {w} : stage'[v] = stage[v]
      BY <1>3 DEF Handle, Goto, Basic, LadderTypeOK
  <2>5. QED
      BY <1>b, <2>2, <2>3, <2>4, Carry DEF failures, offsets
<1>4. ASSUME NEW w \in Consumers, HandlerThrows(w)
      PROVE  NoEventLost'
  <2>1. stage'[w] \in ErrorClasses /\ inHand'[w] = inHand[w]
      BY <1>4 DEF HandlerThrows, Goto, Basic, LadderTypeOK
  <2>2. \A e \in Events : e = Event(w) => Outstanding(Grp(w), e)'
      BY <2>1 DEF Outstanding, ErrorClasses, Grp, Event
  <2>3. UNCHANGED <<published, backlog, inHand, processed, dlq, dropped, failures, offsets>>
      BY <1>4 DEF HandlerThrows, world, database, failures, offsets
  <2>4. \A v \in Consumers \ {w} : stage'[v] = stage[v]
      BY <1>4 DEF HandlerThrows, Goto, Basic, LadderTypeOK
  <2>5. QED
      BY <1>b, <2>2, <2>3, <2>4, Carry DEF failures, offsets
<1>5. ASSUME NEW w \in Consumers, RouteToDlq(w) \/ ForceDlq(w) \/ RouteToDrop(w)
      PROVE  NoEventLost'
  <2>1. PairOf(w) \in dlq' \union dropped'
      BY <1>5 DEF RouteToDlq, ForceDlq, RouteToDrop
  <2>2. \A e \in Events : e = Event(w) => Past(Grp(w), e)'
      BY <2>1 DEF PairOf, Past, Decided, Concluded, Grp
  <2>3. /\ UNCHANGED <<published, backlog, inHand, processed, failures, offsets>>
        /\ dlq \subseteq dlq' /\ dropped \subseteq dropped'
      BY <1>5 DEF RouteToDlq, ForceDlq, RouteToDrop, world, database, failures, offsets
  <2>4. \A v \in Consumers \ {w} : stage'[v] = stage[v]
      BY <1>5 DEF RouteToDlq, ForceDlq, RouteToDrop, Goto, Basic, LadderTypeOK
  <2>5. QED
      BY <1>b, <2>2, <2>3, <2>4, Carry DEF failures, offsets
<1>6. ASSUME NEW w \in Consumers, RouteToRetry(w)
      PROVE  NoEventLost'
  <2>1. RetryCopy(w) \in Copies /\ RetryCopy(w).ev = Event(w) /\ Grp(w) \in Groups
      BY <1>6, RetryCopyFacts, LadderAssumption DEF RouteToRetry, Basic, Grp
  <2>2. /\ \A g \in Groups, d \in Copies : backlog'[g][d] >= backlog[g][d]
        /\ backlog'[Grp(w)][RetryCopy(w)] > 0
      BY <1>6, <2>1, ToEveryGroupFacts DEF RouteToRetry, Basic
  <2>3. \A e \in Events : e = Event(w) => Outstanding(Grp(w), e)'
      BY <2>1, <2>2 DEF Outstanding, Grp
  <2>4. UNCHANGED <<published, inHand, processed, dlq, dropped, failures, offsets>>
      BY <1>6 DEF RouteToRetry, world, database, failures, offsets
  <2>5. \A v \in Consumers \ {w} : stage'[v] = stage[v]
      BY <1>6 DEF RouteToRetry, Goto, Basic, LadderTypeOK
  <2>6. QED
      BY <1>b, <2>2, <2>3, <2>4, <2>5, Carry DEF failures, offsets
<1>7. ASSUME NEW w \in Consumers, RouteFails(w)
      PROVE  NoEventLost'
  <2>1. stage'[w] = "lastResort" /\ inHand'[w] = inHand[w]
      BY <1>7 DEF RouteFails, Goto, Basic, LadderTypeOK
  <2>2. \A e \in Events : e = Event(w) => Outstanding(Grp(w), e)'
      BY <2>1 DEF Outstanding, Grp, Event
  <2>3. \A g \in Groups, d \in Copies : backlog'[g][d] >= backlog[g][d]
    <3>1. CASE UNCHANGED backlog
        BY <1>b, <3>1
    <3>2. CASE GoesToRetry(w) /\ backlog' = ToEveryGroup(RetryCopy(w))
        BY <3>2, RetryCopyFacts, ToEveryGroupFacts DEF Basic
    <3>3. QED
        BY <1>7, <3>1, <3>2 DEF RouteFails
  <2>4. /\ UNCHANGED <<published, inHand, processed, dropped, skipped>>
        /\ dlq \subseteq dlq' /\ onlyLogged' = onlyLogged
      BY <1>7 DEF RouteFails, world, database, failures, offsets
  <2>5. \A v \in Consumers \ {w} : stage'[v] = stage[v]
      BY <1>7 DEF RouteFails, Goto, Basic, LadderTypeOK
  <2>6. QED
      BY <1>b, <2>2, <2>3, <2>4, <2>5, Carry
<1>8. ASSUME NEW w \in Consumers, ForceDlqFails(w)
      PROVE  NoEventLost'
  <2>1. PairOf(w) \in onlyLogged'
      BY <1>8 DEF ForceDlqFails
  <2>2. \A e \in Events : e = Event(w) => Past(Grp(w), e)'
      BY <2>1 DEF PairOf, Past, Decided, Grp
  <2>3. /\ UNCHANGED <<published, backlog, inHand, processed, dlq, dropped, skipped>>
        /\ onlyLogged \subseteq onlyLogged'
      BY <1>8 DEF ForceDlqFails, world, database, failures, offsets
  <2>4. \A v \in Consumers \ {w} : stage'[v] = stage[v]
      BY <1>8 DEF ForceDlqFails, Goto, Basic, LadderTypeOK
  <2>5. QED
      BY <1>b, <2>2, <2>3, <2>4, Carry
<1>9. ASSUME NEW w \in Consumers, CommitOffset(w)
      PROVE  NoEventLost'
  <2>1. UNCHANGED <<published, backlog, processed, dlq, dropped, failures, skipped>>
      BY <1>9 DEF CommitOffset, world, database, failures
  <2>2. \A v \in Consumers \ {w} : stage'[v] = stage[v] /\ inHand'[v] = inHand[v]
      BY <1>9 DEF CommitOffset, Goto, Basic, LadderTypeOK
  <2>3. stage[w] = "commit"
      BY <1>9 DEF CommitOffset
  <2>4. QED
      BY <1>b, <2>1, <2>2, <2>3, Carry DEF failures, offsets
<1>10. ASSUME NEW w \in Consumers, Redelivered(w)
       PROVE  NoEventLost'
  <2>1. Grp(w) \in Groups /\ inHand[w] \in Copies
      BY <1>10, LadderAssumption DEF Redelivered, Dies, Grp, Basic, HandOK
  <2>2. /\ \A g \in Groups, d \in Copies : backlog'[g][d] >= backlog[g][d]
        /\ backlog'[Grp(w)][inHand[w]] > 0
      BY <1>b, <1>10, <2>1 DEF Redelivered, Basic, LadderTypeOK
  <2>3. \A e \in Events : e = Event(w) => Outstanding(Grp(w), e)'
      BY <2>1, <2>2 DEF Outstanding, Event, Grp
  <2>4. UNCHANGED <<published, processed, dlq, dropped, failures, skipped>>
      BY <1>10 DEF Redelivered, Dies, database
  <2>5. \A v \in Consumers \ {w} : stage'[v] = stage[v] /\ inHand'[v] = inHand[v]
      BY <1>10 DEF Redelivered, Dies, Goto, Basic, LadderTypeOK
  <2>6. QED
      BY <1>b, <2>2, <2>3, <2>4, <2>5, Carry DEF failures
<1>14. ASSUME NEW w \in Consumers, RestartsAtLatest(w)
       PROVE  NoEventLost'
  <2> SUFFICES ASSUME NEW g \in Groups, NEW e \in Events, e \in published'
               PROVE  Outstanding(g, e)' \/ Past(g, e)'
      BY DEF NoEventLost
  <2>1. /\ UNCHANGED <<published, processed, dlq, dropped, onlyLogged>>
        /\ skipped \subseteq skipped' /\ PairOf(w) \in skipped'
        /\ \A v \in Consumers \ {w} : stage'[v] = stage[v] /\ inHand'[v] = inHand[v]
      BY <1>14 DEF RestartsAtLatest, Dies, Goto, database, failures, Basic, LadderTypeOK
  <2>2. Outstanding(g, e) \/ Past(g, e)
      BY <2>1 DEF NoEventLost
  <2>3. CASE Past(g, e)
      BY <2>1, <2>3 DEF Past, Decided, Concluded
  <2>4. ASSUME NEW d \in Copies, d.ev = e, backlog[g][d] > 0
        PROVE  Outstanding(g, e)' \/ Past(g, e)'
    <3>1. CASE backlog'[g][d] = backlog[g][d]
        BY <2>4, <3>1 DEF Outstanding
    <3>2. CASE backlog'[g][d] # backlog[g][d]
      <4>1. g = Grp(w) /\ Place(d) = Place(inHand[w])
          BY <1>14, <2>4, <3>2 DEF RestartsAtLatest, Basic, LadderTypeOK
      <4>2. <<g, e>> \in skipped'
          BY <1>14, <2>4, <4>1 DEF RestartsAtLatest
      <4>3. QED
          BY <4>2 DEF Past
    <3>3. QED
        BY <3>1, <3>2
  <2>5. ASSUME NEW v \in Consumers, Grp(v) = g, Event(v) = e,
               stage[v] \notin {"idle", "commit"}
        PROVE  Outstanding(g, e)' \/ Past(g, e)'
    <3>1. CASE v = w
        BY <2>1, <2>5, <3>1 DEF Past, PairOf
    <3>2. CASE v # w
        BY <2>1, <2>5, <3>2 DEF Outstanding, Grp, Event
    <3>3. QED
        BY <3>1, <3>2
  <2>6. QED
      BY <2>2, <2>3, <2>4, <2>5 DEF Outstanding
<1>11. CASE UNCHANGED ladderVars
    BY <1>11 DEF ladderVars, world, database, failures, offsets, NoEventLost, Outstanding,
       Past, Decided, Concluded, Grp, Event
<1>12. ASSUME NEW e \in Events, NEW g \in Groups, RelayPublishes(e) \/ Redrive(g, e)
       PROVE  NoEventLost'
    BY <1>1, <1>12 DEF RelayPublishes, Redrive
<1>13. ASSUME NEW e \in Events, RelayPublishes(e)
       PROVE  NoEventLost'
    BY <1>1, <1>13 DEF RelayPublishes
<1>15. QED
    BY <1>2, <1>3, <1>4, <1>5, <1>6, <1>7, <1>8, <1>9, <1>10, <1>11, <1>12,
       <1>13, <1>14 DEF LadderNext, Work, Route

\* The invariant holds in every reachable state.
LEMMA LadderInvCorrect == LadderSpec => []LadderInv
<1>1. LadderInit => LadderInv
    BY LadderInvInit DEF LadderInv
<1>2. LadderInv /\ [LadderNext]_ladderVars => LadderInv'
    BY BasicStep, NoLossStep DEF LadderInv, Basic
<1>3. QED
    BY <1>1, <1>2, PTL DEF LadderSpec

(***************************************************************************)
(* Type correctness of the runtime's state.                                *)
(***************************************************************************)
THEOREM LadderTypeCorrect == LadderSpec => []LadderTypeOK
<1>1. LadderInv => LadderTypeOK
    BY DEF LadderInv
<1>2. QED
    BY LadderInvCorrect, <1>1, PTL

(***************************************************************************)
(* Effectively-once processing: the dedupe row in the handler's            *)
(* transaction makes every group apply every event at most once.           *)
(***************************************************************************)
THEOREM EffectAtMostOnceCorrect == LadderSpec => []EffectAtMostOnce
<1>1. LadderInv => EffectAtMostOnce
    BY DEF LadderInv, EffectsOK, EffectAtMostOnce
<1>2. QED
    BY LadderInvCorrect, <1>1, PTL

(***************************************************************************)
(* No silent loss: every event the relay published has, in every group, an *)
(* outcome or a copy to come, unless both publishes of its failure threw,  *)
(* or a member of the group died before the group had committed any offset *)
(* of the event's partition (fromBeginning: false).                        *)
(***************************************************************************)
THEOREM NoEventLostCorrect == LadderSpec => []NoEventLost
<1>1. LadderInv => NoEventLost
    BY DEF LadderInv
<1>2. QED
    BY LadderInvCorrect, <1>1, PTL
==============================================================================
