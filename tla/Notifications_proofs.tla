------------------------- MODULE Notifications_proofs -------------------------
(***************************************************************************)
(* Proofs about Notifications: for any events, consumers and sizes, rows   *)
(* count their events once, what is sent with an entry is as new as the    *)
(* entry, the stream arrives in order and without a gap that was not       *)
(* trimmed, and a connection does not outlive the revocation it can see.   *)
(***************************************************************************)
EXTENDS Notifications, FiniteSetTheorems, TLAPS

-----------------------------------------------------------------------------
(* The inductive invariant.                                                *)

Mine(r) == {e \in Events : fate[e] = r}
Working(c) == work[c].at \in {"suppress", "commit"}

\* What a consumer carries from one step to the next.
Carries(w) ==
    /\ w.at \in {"idle", "dedupe", "suppress", "commit", "publish"}
    /\ w.at = "idle" => w = Idle
    /\ w.at # "idle" => w.event \in Events
    /\ w.at \in {"dedupe", "suppress"} => w = [at |-> w.at, event |-> w.event]
    /\ w.at = "commit" => w.skip \in BOOLEAN

Jobs == work = [c \in Consumers |-> work[c]] /\ \A c \in Consumers : Carries(work[c])

Tables ==
    /\ fate \in [Events -> Rows \union {Unseen, Skipped}]
    /\ rows \in [Rows -> [actors : Seq(Actors), count : Nat]]
    /\ hour \in Hours /\ handled \subseteq Events

\* An event in a transaction is in no other and was counted by none; one
\* whose pointer is to be published was.
Exclusive ==
    \A c \in Consumers :
        /\ Working(c) => /\ fate[work[c].event] = Unseen
                         /\ \A d \in Consumers \ {c} :
                               Working(d) => work[d].event # work[c].event
        /\ work[c].at = "publish" => fate[work[c].event] # Unseen

FinitelyMany == \A r \in Rows : IsFiniteSet(Mine(r))

\* CountsEvents, row by row.
Counted(r) ==
    /\ rows[r].count = Cardinality(Mine(r))
    /\ Len(rows[r].actors) = Min({ActorCap, Cardinality(Mine(r))})
    /\ ToSet(rows[r].actors) \subseteq {ActorOf[e] : e \in Mine(r)}

Answered == \A e \in handled : fate[e] # Unseen

Counting ==
    Jobs /\ Tables /\ Exclusive /\ FinitelyMany /\ (\A r \in Rows : Counted(r)) /\ Answered

\* A pointer, on its way or in the stream, is not ahead of its row.
Pairs == [row : Rows, count : Nat]
Behind(w) ==
    w.at = "publish" => /\ w.entry \in Pairs
                        /\ w.entry.count <= rows[w.entry.row].count

Pointers ==
    /\ \A c \in Consumers : Behind(work[c])
    /\ stream \in Seq(Pairs)
    /\ \A i \in 1 .. Len(stream) : stream[i].count <= rows[stream[i].row].count
    /\ cut \in 0 .. Len(stream)

Connections ==
    [ at : {"catchup", "push", "check", "read"}, cursor : Nat \union {Dollar}, from : Nat,
      batch : SUBSET Nat, clock : 0 .. CheckEvery + Block, waited : 0 .. Block, delay : Nat,
      after : Nat, owed : Nat ]

Clients ==
    [ last : Nat \union {Dollar}, got : Seq([at : Nat, shown : Nat]), ready : SUBSET Nat ]

Connected == conn \in Connections \union {Closed} /\ client \in Clients

Got == client.got
LastGot == Got[Len(Got)].at

\* The client has what is in the stream, and names what it got last; a session
\* reads on from there.
Cursors ==
    /\ \A i \in 1 .. Len(Got) : Got[i].at \in 1 .. Len(stream)
    /\ IF Got = <<>> THEN client.last \in {Dollar, 0} ELSE client.last = LastGot
    /\ conn # Closed => /\ conn.cursor = client.last \/ (conn.cursor = Dollar /\ client.last = 0)
                        /\ conn.at = "read" /\ conn.cursor # Dollar => conn.from = conn.cursor

\* What is to be pushed comes after what was, and whatever lies in between is
\* to be pushed as well or is trimmed.
Follows(batch) ==
    /\ batch \subseteq 1 .. Len(stream)
    /\ \A a, b \in batch, k \in Nat : a < k /\ k < b => k \in batch \/ k <= cut
    /\ Got # <<>> => \A b \in batch :
          /\ LastGot < b
          /\ \A k \in Nat : LastGot < k /\ k < b => k \in batch \/ k <= cut

Fetched == conn # Closed => Follows(conn.batch) /\ (conn.at # "push" => conn.batch = {})

Delivering == Connected /\ Cursors /\ Fetched /\ DeliveredInOrder

-----------------------------------------------------------------------------
(* Revocation.                                                             *)

\* The longest time between two checks, and what the checks of a session that
\* were not answered, and the time since the last one, allow for.
Interval == CheckEvery + Block - 1

Bound(k) ==
    IF k.owed = 0 THEN 0
    ELSE Interval * (k.owed - 1) + (IF k.clock <= Interval THEN k.clock ELSE Interval)

\* A session that is owed no interval has not come to its first check; one
\* that reads was not due when its block began.
Within(k) ==
    /\ k.owed = 0 => k.clock >= CheckEvery /\ k.at # "read"
    /\ k.at = "read" => k.clock < CheckEvery + k.waited
    /\ k.after <= k.delay + Bound(k)

\* Without the key the session owes nothing yet.
Fresh == key = No => conn.after = 0 /\ conn.owed = 1

Patient == conn # Closed => Fresh /\ Within(conn)

IInv == Counting /\ Pointers /\ Delivering /\ ShownIsCurrent /\ Patient

-----------------------------------------------------------------------------
(* Operators.                                                              *)

LEMMA MinOfTwo == \A a, b \in Nat : Min({a, b}) = IF a <= b THEN a ELSE b
<1> SUFFICES ASSUME NEW a \in Nat, NEW b \in Nat
             PROVE  Min({a, b}) = IF a <= b THEN a ELSE b
  OBVIOUS
<1> DEFINE m == IF a <= b THEN a ELSE b
<1>1. m \in {a, b} /\ \A y \in {a, b} : m <= y
  OBVIOUS
<1>2. \A x \in {a, b} : (\A y \in {a, b} : x <= y) => x = m
  OBVIOUS
<1> QED
  BY <1>1, <1>2 DEF Min

LEMMA MaxOfTwo == \A a, b \in Int : Max({a, b}) = IF a >= b THEN a ELSE b
<1> SUFFICES ASSUME NEW a \in Int, NEW b \in Int
             PROVE  Max({a, b}) = IF a >= b THEN a ELSE b
  OBVIOUS
<1> DEFINE m == IF a >= b THEN a ELSE b
<1>1. m \in {a, b} /\ \A y \in {a, b} : m >= y
  OBVIOUS
<1>2. \A x \in {a, b} : (\A y \in {a, b} : x >= y) => x = m
  OBVIOUS
<1> QED
  BY <1>1, <1>2 DEF Max

\* The steps that write a variable; every other leaves it alone.
LEMMA Writers ==
    ASSUME [Next]_vars
    PROVE  /\ \/ UNCHANGED <<work, fate, rows, handled>>
              \/ \E c \in Consumers, e \in Events : Take(c, e)
              \/ \E c \in Consumers : \/ Dedupe(c) \/ Suppress(c) \/ Commit(c) \/ Publish(c)
                                      \/ Fail(c)
           /\ UNCHANGED hour \/ NextHour
           /\ UNCHANGED <<stream, cut>> \/ LoseStream \/ \E c \in Consumers : Publish(c)
           /\ UNCHANGED client \/ Push
           /\ \/ UNCHANGED <<conn, key>>
              \/ Connect \/ CatchUp \/ Push \/ Check \/ ReadLive \/ Break
              \/ Revoke \/ LoseKey \/ Tick
<1>1. ASSUME NEW c \in Consumers, NEW e \in Events, Take(c, e)
      PROVE  UNCHANGED <<hour, stream, cut, gateway>>
  BY <1>1 DEF Take
<1>2. ASSUME NEW c \in Consumers, Dedupe(c) PROVE UNCHANGED <<hour, stream, cut, gateway>>
  BY <1>2 DEF Dedupe
<1>3. ASSUME NEW c \in Consumers, Suppress(c) PROVE UNCHANGED <<hour, stream, cut, gateway>>
  BY <1>3 DEF Suppress
<1>4. ASSUME NEW c \in Consumers, Commit(c) PROVE UNCHANGED <<hour, stream, cut, gateway>>
  BY <1>4 DEF Commit
<1>5. ASSUME NEW c \in Consumers, Publish(c) PROVE UNCHANGED <<hour, gateway>>
  BY <1>5 DEF Publish
<1>6. ASSUME NEW c \in Consumers, Fail(c) PROVE UNCHANGED <<hour, stream, cut, gateway>>
  BY <1>6 DEF Fail
<1>7. ASSUME NEW actors \in SUBSET Actors, SetMuted(actors)
      PROVE  UNCHANGED <<work, fate, rows, handled, hour, stream, cut, gateway>>
  BY <1>7 DEF SetMuted
<1>8. ASSUME NextHour PROVE UNCHANGED <<work, fate, rows, handled, stream, cut, gateway>>
  BY <1>8 DEF NextHour
<1>9. ASSUME LoseStream PROVE UNCHANGED <<service, gateway>>
  BY <1>9 DEF LoseStream
<1>10. ASSUME IssueTicket PROVE UNCHANGED <<service, stream, cut, conn, client, key>>
  BY <1>10 DEF IssueTicket
<1>11. ASSUME Connect PROVE UNCHANGED <<service, stream, cut, client>>
  BY <1>11 DEF Connect
<1>12. ASSUME CatchUp PROVE UNCHANGED <<service, stream, cut, client>>
  BY <1>12 DEF CatchUp
<1>13. ASSUME Push PROVE UNCHANGED <<service, stream, cut>>
  BY <1>13 DEF Push
<1>14. ASSUME Check PROVE UNCHANGED <<service, stream, cut, client>>
  BY <1>14 DEF Check
<1>15. ASSUME ReadLive PROVE UNCHANGED <<service, stream, cut, client>>
  BY <1>15 DEF ReadLive
<1>16. ASSUME Break PROVE UNCHANGED <<service, stream, cut, client>>
  BY <1>16 DEF Break
<1>17. ASSUME Revoke PROVE UNCHANGED <<service, stream, cut, client>>
  BY <1>17 DEF Revoke
<1>18. ASSUME Tick PROVE UNCHANGED <<service, stream, cut, client>>
  BY <1>18 DEF Tick
<1>19. ASSUME LoseKey PROVE UNCHANGED <<service, stream, cut, client>>
  BY <1>19 DEF LoseKey
<1> QED
  BY <1>1, <1>2, <1>3, <1>4, <1>5, <1>6, <1>7, <1>8, <1>9, <1>10, <1>11, <1>12, <1>13, <1>14,
     <1>15, <1>16, <1>17, <1>18, <1>19 DEF Next, Session, vars, service, gateway

-----------------------------------------------------------------------------
(* Counting.                                                               *)

LEMMA RowsApart == Unseen \notin Rows /\ Skipped \notin Rows /\ Unseen # Skipped
BY NotificationsAssumption DEF Rows

LEMMA WorksStep ==
    ASSUME Jobs, NEW c \in Consumers, NEW w, Works(c, w), Carries(w)
    PROVE  /\ Jobs' /\ work'[c] = w
           /\ \A d \in Consumers : d # c => work'[d] = work[d]
<1>1. work'[c] = w /\ \A d \in Consumers : d # c => work'[d] = work[d]
  BY DEF Jobs, Works
<1>2. work' = [d \in Consumers |-> work'[d]]
  BY DEF Jobs, Works
<1>3. \A d \in Consumers : Carries(work'[d])
  BY <1>1 DEF Jobs
<1> QED
  BY <1>1, <1>2, <1>3 DEF Jobs

\* A consumer that takes a step outside the tables.
LEMMA JobStep ==
    ASSUME Counting, NEW c \in Consumers, NEW w, Works(c, w), Carries(w),
           UNCHANGED <<fate, rows, hour>>,
           \/ UNCHANGED handled
           \/ fate[work[c].event] # Unseen /\ handled' = handled \union {work[c].event}
                 /\ work[c].at # "idle",
           w.at = "publish" => fate[w.event] # Unseen,
           w.at \in {"suppress", "commit"} =>
               /\ fate[w.event] = Unseen
               /\ \A d \in Consumers \ {c} : Working(d) => work[d].event # w.event
    PROVE  Counting'
<1>1. /\ Jobs' /\ work'[c] = w
      /\ \A d \in Consumers : d # c => work'[d] = work[d]
  BY WorksStep DEF Counting
<1>2. Tables'
  BY DEF Counting, Tables, Jobs, Carries
<1>3. Exclusive'
  BY <1>1 DEF Counting, Exclusive, Working
<1>4. \A r \in Rows : IsFiniteSet(Mine(r)') /\ Counted(r)'
  BY DEF Counting, FinitelyMany, Counted, Mine
<1>5. Answered'
  BY DEF Counting, Answered
<1> QED
  BY <1>1, <1>2, <1>3, <1>4, <1>5 DEF Counting, FinitelyMany

\* The commit counts an event that was not counted, in the row of the hour.
LEMMA CommitCounts ==
    ASSUME Counting, NEW c \in Consumers, Commit(c)
    PROVE  /\ Counting'
           /\ \A r \in Rows : rows'[r].count >= rows[r].count
           /\ \A d \in Consumers : work'[d] = work[d] \/ Behind(work[d])'
<1>0. PICK e, r : e = work[c].event /\ r = RowOf(work[c].event)
  OBVIOUS
<1> DEFINE Upsert(row) == [ actors |-> SubSeq(<<ActorOf[e]>> \o row.actors, 1,
                                              Min({ActorCap, Len(row.actors) + 1})),
                            count |-> row.count + 1 ]
<1>1. /\ work[c].at = "commit" /\ e \in Events /\ fate[e] = Unseen
      /\ \A d \in Consumers \ {c} : Working(d) => work[d].event # e
      /\ work[c].skip \in BOOLEAN
  BY <1>0 DEF Commit, Counting, Jobs, Carries, Exclusive, Working
<1>2. r \in Rows /\ ActorOf[e] \in Actors
  BY <1>0, <1>1 DEF RowOf, Rows, Actors, Counting, Tables
<1>3. UNCHANGED hour
  BY DEF Commit
<1> DEFINE Goal == /\ Counting'
                   /\ \A q \in Rows : rows'[q].count >= rows[q].count
                   /\ \A d \in Consumers : work'[d] = work[d] \/ Behind(work[d])'
<1>4. ASSUME work[c].skip, fate' = [fate EXCEPT ![e] = Skipped], Returns(c), UNCHANGED rows
      PROVE  Goal
  <2>1. Works(c, Idle) /\ handled' = handled \union {e} /\ Carries(Idle)
    BY <1>0, <1>4 DEF Returns, Carries, Idle
  <2>2. /\ Jobs' /\ work'[c] = Idle
        /\ \A d \in Consumers : d # c => work'[d] = work[d]
    BY <2>1, WorksStep DEF Counting
  <2>3. Tables'
    BY <1>1, <1>3, <1>4, <2>1 DEF Counting, Tables
  <2>4. /\ fate'[e] = Skipped
        /\ \A x \in Events : x # e => fate'[x] = fate[x]
    BY <1>1, <1>4 DEF Counting, Tables
  <2>5. Exclusive'
    BY <1>1, <2>2, <2>4, RowsApart DEF Counting, Exclusive, Working, Idle, Jobs, Carries
  <2>6. \A q \in Rows : Mine(q)' = Mine(q)
    BY <1>1, <2>4, RowsApart DEF Mine
  <2>7. \A q \in Rows : IsFiniteSet(Mine(q)') /\ Counted(q)'
    BY <1>4, <2>6 DEF Counting, FinitelyMany, Counted
  <2>8. Answered'
    BY <1>1, <2>1, <2>4, RowsApart DEF Counting, Answered, Tables
  <2>9. \A q \in Rows : rows'[q].count >= rows[q].count
    BY <1>4 DEF Counting, Tables
  <2>10. \A d \in Consumers : work'[d] = work[d] \/ Behind(work[d])'
    BY <2>2 DEF Behind, Idle
  <2> QED
    BY <2>2, <2>3, <2>5, <2>7, <2>8, <2>9, <2>10 DEF Counting, FinitelyMany
<1>5. ASSUME NEW x, x = [row |-> r, count |-> rows[r].count + 1],
             Works(c, [at |-> "publish", event |-> e, entry |-> x]),
             fate' = [fate EXCEPT ![e] = r], rows' = [rows EXCEPT ![r] = Upsert(rows[r])],
             UNCHANGED handled
      PROVE  Goal
  <2>1. Carries([at |-> "publish", event |-> e, entry |-> x])
    BY <1>1 DEF Carries
  <2>2. /\ Jobs' /\ work'[c].at = "publish" /\ work'[c].event = e /\ work'[c].entry = x
        /\ \A d \in Consumers : d # c => work'[d] = work[d]
    BY <1>5, <2>1, WorksStep DEF Counting
  <2>3. /\ rows[r] \in [actors : Seq(Actors), count : Nat]
        /\ rows' = [rows EXCEPT ![r] = Upsert(rows[r])]
    BY <1>2, <1>5 DEF Counting, Tables
  <2> DEFINE old == rows[r].actors
             n == Min({ActorCap, Len(old) + 1})
             new == SubSeq(<<ActorOf[e]>> \o old, 1, n)
  <2>4. /\ old \in Seq(Actors) /\ rows[r].count \in Nat
        /\ n = IF ActorCap <= Len(old) + 1 THEN ActorCap ELSE Len(old) + 1
        /\ n \in 1 .. Len(old) + 1
    <3>1. old \in Seq(Actors) /\ Len(old) \in Nat /\ ActorCap \in Nat \ {0} /\ rows[r].count \in Nat
      BY <2>3, NotificationsAssumption
    <3>2. n = IF ActorCap <= Len(old) + 1 THEN ActorCap ELSE Len(old) + 1
      BY <3>1, MinOfTwo
    <3> QED
      BY <3>1, <3>2
  <2>5. /\ new \in Seq(Actors) /\ Len(new) = n
        /\ \A i \in 1 .. n : new[i] = IF i = 1 THEN ActorOf[e] ELSE old[i - 1]
    <3> HIDE DEF old, n
    <3>1. /\ <<ActorOf[e]>> \o old \in Seq(Actors) /\ Len(<<ActorOf[e]>> \o old) = Len(old) + 1
          /\ \A i \in 1 .. Len(old) + 1 :
                (<<ActorOf[e]>> \o old)[i] = IF i = 1 THEN ActorOf[e] ELSE old[i - 1]
      BY <1>2, <2>4
    <3> QED
      BY <2>4, <3>1
  <2>6. Upsert(rows[r]) = [actors |-> new, count |-> rows[r].count + 1]
    OBVIOUS
  <2> HIDE DEF new, old, n, Upsert
  <2>7. /\ rows' \in [Rows -> [actors : Seq(Actors), count : Nat]]
        /\ rows'[r].actors = new /\ rows'[r].count = rows[r].count + 1
        /\ \A q \in Rows : q # r => rows'[q] = rows[q]
    BY <1>2, <2>3, <2>4, <2>5, <2>6 DEF Counting, Tables
  <2>8. /\ fate'[e] = r
        /\ \A y \in Events : y # e => fate'[y] = fate[y]
        /\ fate' \in [Events -> Rows \union {Unseen, Skipped}]
    BY <1>1, <1>2, <1>5 DEF Counting, Tables
  <2>9. Tables'
    BY <1>3, <1>5, <2>7, <2>8 DEF Counting, Tables
  <2>10. Exclusive'
    BY <1>1, <1>2, <2>2, <2>8, RowsApart DEF Counting, Exclusive, Working, Jobs, Carries
  <2>11. /\ \A q \in Rows : q # r => Mine(q)' = Mine(q)
         /\ Mine(r)' = Mine(r) \union {e} /\ e \notin Mine(r)
    BY <1>1, <1>2, <2>8, RowsApart DEF Mine
  <2>12. /\ IsFiniteSet(Mine(r)) /\ IsFiniteSet(Mine(r)')
         /\ Cardinality(Mine(r)) \in Nat
         /\ Cardinality(Mine(r)') = Cardinality(Mine(r)) + 1
    BY <1>2, <2>11, FS_AddElement, FS_CardinalityType DEF Counting, FinitelyMany
  <2>13. Counted(r)'
    <3>1. rows'[r].count = Cardinality(Mine(r)')
      BY <1>2, <2>7, <2>12 DEF Counting, Counted
    <3>2. Len(rows'[r].actors) = Min({ActorCap, Cardinality(Mine(r)')})
      <4>1. Len(old) = Min({ActorCap, Cardinality(Mine(r))})
        BY <1>2 DEF Counting, Counted, old
      <4>2. ActorCap \in Nat
        BY NotificationsAssumption
      <4>3. Len(old) = IF ActorCap <= Cardinality(Mine(r)) THEN ActorCap ELSE Cardinality(Mine(r))
        BY <2>12, <4>1, <4>2, MinOfTwo
      <4>4. Min({ActorCap, Cardinality(Mine(r)')})
              = IF ActorCap <= Cardinality(Mine(r)) + 1 THEN ActorCap ELSE Cardinality(Mine(r)) + 1
        BY <2>12, <4>2, MinOfTwo
      <4>5. Len(rows'[r].actors) = n
        BY <2>5, <2>7
      <4> QED
        BY <2>4, <2>12, <4>2, <4>3, <4>4, <4>5
    <3>3. ToSet(rows'[r].actors) \subseteq {ActorOf[y] : y \in Mine(r)'}
      <4>1. ASSUME NEW i \in 1 .. n PROVE new[i] \in {ActorOf[y] : y \in Mine(r)'}
        <5>1. CASE i = 1
          BY <2>5, <2>11, <5>1
        <5>2. CASE i # 1
          <6>1. i - 1 \in 1 .. Len(old) /\ new[i] = old[i - 1]
            BY <2>4, <2>5, <5>2
          <6>2. old[i - 1] \in ToSet(old)
            BY <2>4, <6>1 DEF ToSet
          <6>3. ToSet(old) \subseteq {ActorOf[y] : y \in Mine(r)}
            BY <1>2 DEF Counting, Counted, old
          <6> QED
            BY <2>11, <6>1, <6>2, <6>3
        <5> QED
          BY <5>1, <5>2
      <4>2. DOMAIN new = 1 .. n
        BY <2>5
      <4> QED
        BY <2>7, <4>1, <4>2 DEF ToSet
    <3> QED
      BY <3>1, <3>2, <3>3 DEF Counted
  <2>14. \A q \in Rows : q # r => Counted(q)' /\ IsFiniteSet(Mine(q)')
    BY <2>7, <2>11 DEF Counting, Counted, FinitelyMany
  <2>15. Answered'
    BY <1>1, <1>2, <1>5, <2>8, RowsApart DEF Counting, Answered, Tables
  <2>16. ASSUME NEW q \in Rows PROVE rows'[q].count >= rows[q].count
    <3>1. rows[q].count \in Nat
      BY DEF Counting, Tables
    <3>2. CASE q = r
      <4>1. rows'[q].count = rows[q].count + 1
        BY <2>7, <3>2
      <4> QED
        BY <3>1, <4>1
    <3>3. CASE q # r
      <4>1. rows'[q].count = rows[q].count
        BY <2>7, <3>3
      <4> QED
        BY <3>1, <4>1
    <3> QED
      BY <3>2, <3>3
  <2>17. Behind(work[c])'
    BY <1>2, <1>5, <2>2, <2>4, <2>7 DEF Behind, Pairs
  <2> QED
    BY <2>2, <2>9, <2>10, <2>12, <2>13, <2>14, <2>15, <2>16, <2>17 DEF Counting, FinitelyMany
<1>6. \/ work[c].skip /\ fate' = [fate EXCEPT ![e] = Skipped] /\ Returns(c) /\ UNCHANGED rows
      \/ /\ Works(c, [at |-> "publish", event |-> e,
                      entry |-> [row |-> r, count |-> rows[r].count + 1]])
         /\ fate' = [fate EXCEPT ![e] = r] /\ rows' = [rows EXCEPT ![r] = Upsert(rows[r])]
         /\ UNCHANGED handled
  BY <1>0 DEF Commit
<1> HIDE DEF Upsert
<1> QED
  BY <1>4, <1>5, <1>6

\* Every step counts, and no row is counted down.
LEMMA CountingStep ==
    ASSUME Counting, [Next]_vars
    PROVE  /\ Counting'
           /\ \A r \in Rows : rows'[r].count >= rows[r].count
           /\ \A d \in Consumers : work'[d] = work[d] \/ Behind(work[d])'
<1> DEFINE Goal == /\ Counting'
                   /\ \A r \in Rows : rows'[r].count >= rows[r].count
                   /\ \A d \in Consumers : work'[d] = work[d] \/ Behind(work[d])'
<1>0. \A r \in Rows : rows[r].count \in Nat
  BY DEF Counting, Tables
<1>1. ASSUME NEW c \in Consumers, NEW w, Works(c, w), Carries(w), w.at # "publish"
      PROVE  \A d \in Consumers : work'[d] = work[d] \/ Behind(work[d])'
  BY <1>1, WorksStep DEF Counting, Behind
<1>2. ASSUME NEW c \in Consumers, NEW e \in Events, Take(c, e) PROVE Goal
  <2> DEFINE w == [at |-> "dedupe", event |-> e]
  <2>1. Carries(w) /\ Works(c, w) /\ UNCHANGED <<fate, rows, hour, handled>>
    BY <1>2 DEF Take, Carries
  <2> QED
    BY <1>0, <1>1, <2>1, JobStep
<1>3. ASSUME NEW c \in Consumers, Dedupe(c) PROVE Goal
  <2>1. /\ work[c].at = "dedupe" /\ work[c].event \in Events
        /\ work[c] = [at |-> "dedupe", event |-> work[c].event]
        /\ UNCHANGED <<fate, rows, hour>>
        /\ \A d \in Consumers : Working(d) => work[d].event # work[c].event
    BY <1>3 DEF Dedupe, Counting, Jobs, Carries, Working
  <2>2. CASE fate[work[c].event] # Unseen /\ Returns(c)
    <3>1. Carries(Idle) /\ Works(c, Idle) /\ handled' = handled \union {work[c].event}
      BY <2>2 DEF Returns, Carries, Idle
    <3>2. Idle.at = "idle"
      BY DEF Idle
    <3> QED
      BY <1>0, <1>1, <2>1, <2>2, <3>1, <3>2, JobStep
  <2>3. CASE /\ fate[work[c].event] = Unseen /\ Works(c, [work[c] EXCEPT !.at = "suppress"])
             /\ UNCHANGED handled
    <3> DEFINE w == [at |-> "suppress", event |-> work[c].event]
    <3>1. w = [work[c] EXCEPT !.at = "suppress"]
      BY <2>1
    <3>2. Carries(w) /\ Works(c, w)
      BY <2>1, <2>3, <3>1 DEF Carries
    <3> QED
      BY <1>0, <1>1, <2>1, <2>3, <3>2, JobStep
  <2> QED
    BY <1>3, <2>2, <2>3 DEF Dedupe
<1>4. ASSUME NEW c \in Consumers, Suppress(c) PROVE Goal
  <2>1. PICK skip \in BOOLEAN : Decides(c, skip)
    BY <1>4 DEF Suppress
  <2> DEFINE w == [at |-> "commit", event |-> work[c].event, skip |-> skip]
  <2>2. /\ work[c].at = "suppress" /\ work[c].event \in Events
        /\ UNCHANGED <<fate, rows, hour, handled>>
    BY <1>4 DEF Suppress, Counting, Jobs, Carries
  <2>3. Carries(w) /\ Works(c, w)
    BY <2>1, <2>2 DEF Carries, Decides
  <2>4. /\ fate[w.event] = Unseen
        /\ \A d \in Consumers \ {c} : Working(d) => work[d].event # w.event
    BY <2>2 DEF Counting, Exclusive, Working
  <2> QED
    BY <1>0, <1>1, <2>2, <2>3, <2>4, JobStep
<1>5. ASSUME NEW c \in Consumers, Commit(c) PROVE Goal
  BY <1>5, CommitCounts
<1>6. ASSUME NEW c \in Consumers, Publish(c) PROVE Goal
  <2>1. /\ Carries(Idle) /\ Works(c, Idle) /\ handled' = handled \union {work[c].event}
        /\ Idle.at = "idle" /\ UNCHANGED <<fate, rows, hour>>
    BY <1>6 DEF Publish, Returns, Carries, Idle
  <2>2. work[c].at = "publish" /\ fate[work[c].event] # Unseen
    BY <1>6 DEF Publish, Counting, Exclusive
  <2> QED
    BY <1>0, <1>1, <2>1, <2>2, JobStep
<1>7. ASSUME NEW c \in Consumers, Fail(c) PROVE Goal
  <2>1. /\ Carries(Idle) /\ Works(c, Idle) /\ Idle.at = "idle"
        /\ UNCHANGED <<fate, rows, hour, handled>>
    BY <1>7 DEF Fail, Carries, Idle
  <2> QED
    BY <1>0, <1>1, <2>1, JobStep
<1>8. ASSUME UNCHANGED <<work, fate, rows, handled>>, hour' \in Hours PROVE Goal
  <2>1. UNCHANGED <<Jobs, Exclusive, FinitelyMany, Answered>> /\ Tables'
    BY <1>8 DEF Jobs, Exclusive, FinitelyMany, Answered, Working, Mine, Counting, Tables
  <2>2. \A r \in Rows : Counted(r)' = Counted(r)
    BY <1>8 DEF Counted, Mine
  <2> QED
    BY <1>0, <1>8, <2>1, <2>2 DEF Counting
<1>9. hour' \in Hours
  <2>1. hour' = hour \/ hour' \in Hours
    BY Writers DEF NextHour
  <2>2. hour \in Hours
    BY DEF Counting, Tables
  <2> QED
    BY <2>1, <2>2
<1>10. UNCHANGED <<work, fate, rows, handled>> => Goal
  BY <1>8, <1>9
<1> HIDE DEF Goal
<1>11. Goal
  BY <1>2, <1>3, <1>4, <1>5, <1>6, <1>7, <1>10, Writers
<1> QED
  BY <1>11 DEF Goal

\* A pointer never is ahead of its row.
LEMMA PointersStep ==
    ASSUME Counting, Pointers, [Next]_vars
    PROVE  /\ Pointers'
           /\ Len(stream) <= Len(stream') /\ cut <= cut'
           /\ \A i \in 1 .. Len(stream) : stream'[i] = stream[i]
<1>1. /\ \A r \in Rows : rows'[r].count >= rows[r].count
      /\ \A r \in Rows : rows'[r].count \in Nat /\ rows[r].count \in Nat
      /\ \A d \in Consumers : work'[d] = work[d] \/ Behind(work[d])'
  BY CountingStep DEF Counting, Tables
<1>2. \A d \in Consumers : Behind(work[d])'
  <2>1. ASSUME NEW d \in Consumers, work'[d] = work[d] PROVE Behind(work[d])'
    <3>1. ASSUME work[d].at = "publish"
          PROVE  /\ work[d].entry \in Pairs
                 /\ work[d].entry.count <= rows'[work[d].entry.row].count
      <4>1. work[d].entry \in Pairs /\ work[d].entry.count <= rows[work[d].entry.row].count
        BY <3>1 DEF Pointers, Behind
      <4>2. work[d].entry.row \in Rows /\ work[d].entry.count \in Nat
        BY <4>1 DEF Pairs
      <4> QED
        BY <1>1, <4>1, <4>2
    <3> QED
      BY <2>1, <3>1 DEF Behind
  <2> QED
    BY <1>1, <2>1
<1>3. /\ stream \in Seq(Pairs) /\ Len(stream) \in Nat
      /\ cut \in 0 .. Len(stream)
      /\ \A i \in 1 .. Len(stream) : /\ stream[i].row \in Rows /\ stream[i].count \in Nat
                                     /\ stream[i].count <= rows'[stream[i].row].count
  <2>1. stream \in Seq(Pairs) /\ Len(stream) \in Nat
    BY DEF Pointers
  <2>2. ASSUME NEW i \in 1 .. Len(stream)
        PROVE  /\ stream[i].row \in Rows /\ stream[i].count \in Nat
               /\ stream[i].count <= rows'[stream[i].row].count
    <3>1. stream[i] \in Pairs
      BY <2>1
    <3>2. stream[i].row \in Rows /\ stream[i].count \in Nat
      BY <3>1 DEF Pairs
    <3>3. stream[i].count <= rows[stream[i].row].count
      BY DEF Pointers
    <3> QED
      BY <1>1, <3>2, <3>3
  <2> QED
    BY <2>1, <2>2 DEF Pointers
<1>4. CASE UNCHANGED <<stream, cut>>
  BY <1>2, <1>3, <1>4 DEF Pointers
<1>5. CASE LoseStream
  BY <1>2, <1>3, <1>5 DEF Pointers, LoseStream
<1>6. ASSUME NEW c \in Consumers, Publish(c),
             stream' = Append(stream, work[c].entry),
             cut' \in cut .. Max({cut, Len(stream) + 1 - MaxLen})
      PROVE  /\ Pointers'
             /\ Len(stream) <= Len(stream') /\ cut <= cut'
             /\ \A i \in 1 .. Len(stream) : stream'[i] = stream[i]
  <2>1. /\ work[c].entry \in Pairs
        /\ work[c].entry.count <= rows[work[c].entry.row].count
        /\ UNCHANGED rows
    BY <1>6 DEF Pointers, Behind, Publish
  <2>2. /\ stream' \in Seq(Pairs) /\ Len(stream') = Len(stream) + 1
        /\ stream'[Len(stream) + 1] = work[c].entry
        /\ \A i \in 1 .. Len(stream) : stream'[i] = stream[i]
    BY <1>3, <1>6, <2>1
  <2>3. cut \in Nat /\ cut <= Len(stream) /\ MaxLen \in Nat \ {0}
    BY <1>3, NotificationsAssumption
  <2>4. PICK k \in Int : k = Len(stream) + 1 - MaxLen /\ k <= Len(stream)
    <3>1. /\ Len(stream) + 1 - MaxLen \in Int
          /\ Len(stream) + 1 - MaxLen <= Len(stream)
      BY <1>3, <2>3
    <3> QED
      BY <3>1
  <2>5. Max({cut, k}) \in Nat /\ Max({cut, k}) <= Len(stream)
    <3>1. Max({cut, k}) = IF cut >= k THEN cut ELSE k
      BY <2>3, MaxOfTwo
    <3> QED
      BY <1>3, <2>3, <2>4, <3>1
  <2>6. cut <= cut' /\ cut' \in Nat /\ cut' <= Len(stream)
    <3>1. cut' \in cut .. Max({cut, k})
      BY <1>6, <2>4
    <3> QED
      BY <1>3, <2>3, <2>5, <3>1
  <2>7. ASSUME NEW i \in 1 .. Len(stream')
        PROVE  stream'[i].count <= rows'[stream'[i].row].count
    <3>1. CASE i \in 1 .. Len(stream)
      BY <1>3, <2>2, <3>1
    <3>2. CASE i = Len(stream) + 1
      BY <2>1, <2>2, <3>2
    <3> QED
      BY <1>3, <2>2, <3>1, <3>2
  <2>8. cut' \in 0 .. Len(stream')
    BY <1>3, <2>2, <2>6
  <2> QED
    BY <1>2, <1>3, <2>2, <2>6, <2>7, <2>8 DEF Pointers
<1>7. ASSUME NEW c \in Consumers, Publish(c)
      PROVE  \/ UNCHANGED <<stream, cut>>
             \/ /\ stream' = Append(stream, work[c].entry)
                /\ cut' \in cut .. Max({cut, Len(stream) + 1 - MaxLen})
  BY <1>7 DEF Publish
<1> QED
  BY <1>4, <1>5, <1>6, <1>7, Writers DEF Pointers

-----------------------------------------------------------------------------
(* What is fetched and sent.                                               *)

\* The first n of a set of numbers: nothing before one of them is left out.
LEMMA FirstOf ==
    ASSUME NEW n \in Nat, NEW S \in SUBSET Nat, IsFiniteSet(S)
    PROVE  /\ First(n, S) \subseteq S
           /\ \A a \in First(n, S), k \in S : k < a => k \in First(n, S)
<1>1. ASSUME NEW a \in First(n, S), NEW k \in S, k < a PROVE k \in First(n, S)
  <2> DEFINE A == {j \in S : j < a}
             K == {j \in S : j < k}
  <2>1. a \in S /\ Cardinality(A) < n
    BY DEF First
  <2>2. K \subseteq A
    <3>1. \A j \in S : j \in Nat
      OBVIOUS
    <3>2. \A j \in S : j < k => j < a
      BY <1>1, <2>1, <3>1
    <3> QED
      BY <3>2
  <2>3. IsFiniteSet(A) /\ IsFiniteSet(K)
    BY FS_Subset
  <2>4. Cardinality(K) <= Cardinality(A)
    BY <2>2, <2>3, FS_Subset
  <2>5. Cardinality(K) \in Nat /\ Cardinality(A) \in Nat
    BY <2>3, FS_CardinalityType
  <2>6. Cardinality(K) < n
    BY <2>1, <2>4, <2>5
  <2> QED
    BY <2>6 DEF First
<1> QED
  BY <1>1 DEF First

\* A batch in its order has each of its entries.
LEMMA OrdersOf ==
    ASSUME NEW S \in SUBSET Nat, IsFiniteSet(S), NEW s \in Orders(S)
    PROVE  /\ s \in Seq(Nat) /\ Len(s) \in Nat
           /\ \A i \in 1 .. Len(s) : s[i] \in S /\ s[i] \in Nat
           /\ \A i, j \in 1 .. Len(s) : i < j => s[i] < s[j]
           /\ \A x \in S : \E i \in 1 .. Len(s) : s[i] = x
<1>1. PICK n \in Nat : n = Cardinality(S)
  BY FS_CardinalityType
<1>2. s \in [1 .. n -> S] /\ \A i, j \in 1 .. n : i < j => s[i] < s[j]
  BY <1>1 DEF Orders
<1>3. s \in Seq(S) /\ Len(s) = n
  BY <1>2
<1>4. s \in Seq(Nat)
  <2>1. \A i \in 1 .. n : s[i] \in Nat
    BY <1>2
  <2> QED
    BY <1>3, <2>1
<1>5. s \in Injection(1 .. n, S)
  <2>1. ASSUME NEW i \in 1 .. n, NEW j \in 1 .. n, s[i] = s[j] PROVE i = j
    <3>1. s[i] \in Nat /\ s[j] \in Nat
      BY <1>2
    <3> QED
      BY <1>2, <2>1, <3>1
  <2> QED
    BY <1>2, <2>1 DEF Injection, IsInjective
<1>6. IsFiniteSet(1 .. n) /\ Cardinality(1 .. n) = n
  <2>1. Cardinality(1 .. n) = IF 1 > n THEN 0 ELSE n - 1 + 1
    BY FS_Interval
  <2> QED
    BY <2>1, FS_Interval
<1>7. s \in Surjection(1 .. n, S)
  BY <1>1, <1>5, <1>6, FS_Injection
<1>8. /\ \A i \in 1 .. n : s[i] \in S /\ s[i] \in Nat
      /\ \A x \in S : \E i \in 1 .. n : s[i] = x
  BY <1>2, <1>7 DEF Surjection
<1> QED
  BY <1>2, <1>3, <1>4, <1>8

\* What one fetch sends: the first n entries of the batch, to the end unless
\* the connection breaks.
Sent(ids, n) ==
    /\ \A i, j \in 1 .. Len(ids) : i < j => ids[i] < ids[j]
    /\ \A i \in 1 .. Len(ids) : ids[i] \in conn.batch
    /\ \A b \in conn.batch : \E i \in 1 .. Len(ids) : ids[i] = b
    /\ client' \in Clients
    /\ Len(client'.got) = Len(Got) + n
    /\ \A i \in 1 .. Len(Got) : client'.got[i] = Got[i]
    /\ \A i \in 1 .. n : /\ client'.got[Len(Got) + i].at = ids[i]
                         /\ client'.got[Len(Got) + i].shown \in {0, Stored(stream[ids[i]].row)}

\* The connection goes on behind the last entry, or it is gone.
Continues(ids, n) ==
    \/ /\ n = Len(ids) /\ conn' \in Connections /\ conn'.at = "check" /\ conn'.batch = {}
       /\ conn'.cursor = IF n = 0 THEN conn.cursor ELSE ids[n]
       /\ client'.last = IF conn'.cursor = Dollar THEN 0 ELSE conn'.cursor
    \/ /\ conn' = Closed
       /\ client'.last = IF n = 0 THEN client.last ELSE ids[n]

LEMMA SeqOver ==
    ASSUME NEW S, NEW T, NEW s \in Seq(S), \A i \in 1 .. Len(s) : s[i] \in T
    PROVE  s \in Seq(T) /\ Len(s) \in Nat
OBVIOUS

LEMMA ElementOf ==
    ASSUME NEW S, NEW s \in Seq(S), NEW i \in 1 .. Len(s)
    PROVE  s[i] \in S
OBVIOUS

LEMMA SameSeq ==
    ASSUME NEW S, NEW s \in Seq(S), NEW t \in Seq(S), Len(s) = Len(t),
           \A i \in 1 .. Len(s) : s[i] = t[i]
    PROVE  s = t
OBVIOUS

LEMMA Prefix ==
    ASSUME NEW S, NEW s \in Seq(S), NEW n \in 0 .. Len(s)
    PROVE  /\ SubSeq(s, 1, n) \in Seq(S) /\ Len(SubSeq(s, 1, n)) = n /\ n \in Nat
           /\ \A i \in 1 .. n : SubSeq(s, 1, n)[i] = s[i]
           /\ n = Len(s) => SubSeq(s, 1, n) = s
OBVIOUS

LEMMA Joined ==
    ASSUME NEW T, NEW s \in Seq(T), NEW n \in Nat, NEW t \in [1 .. n -> T]
    PROVE  /\ s \o t \in Seq(T) /\ Len(s \o t) = Len(s) + n
           /\ \A i \in 1 .. Len(s) : (s \o t)[i] = s[i]
           /\ \A i \in 1 .. n : (s \o t)[Len(s) + i] = t[i]
<1>1. t \in Seq(T) /\ Len(t) = n
  OBVIOUS
<1> QED
  BY <1>1

\* The first elements of a sequence that is given as a function.
LEMMA FirstFew ==
    ASSUME NEW T, NEW m \in Nat, NEW f \in [1 .. m -> T], NEW n \in 0 .. m
    PROVE  /\ SubSeq(f, 1, n) \in [1 .. n -> T] /\ n \in Nat
           /\ \A i \in 1 .. n : SubSeq(f, 1, n)[i] = f[i]
<1>1. f \in Seq(T) /\ Len(f) = m /\ n \in 0 .. Len(f)
  OBVIOUS
<1>2. /\ SubSeq(f, 1, n) \in Seq(T) /\ Len(SubSeq(f, 1, n)) = n /\ n \in Nat
      /\ \A i \in 1 .. n : SubSeq(f, 1, n)[i] = f[i]
  BY <1>1, Prefix
<1>3. \A g : g \in Seq(T) /\ Len(g) = n => g \in [1 .. n -> T]
  OBVIOUS
<1> QED
  BY <1>2, <1>3

\* The frames of a batch.
LEMMA FramesOf ==
    ASSUME Counting, Pointers, NEW ids \in Seq(1 .. Len(stream)), NEW answered \in BOOLEAN
    PROVE  /\ Frames(ids, answered) \in [1 .. Len(ids) -> [at : Nat, shown : Nat]]
           /\ \A i \in 1 .. Len(ids) :
                 LET g == Frames(ids, answered)[i]
                 IN  g.at = ids[i] /\ g.shown \in {0, Stored(stream[ids[i]].row)}
<1>1. DOMAIN ids = 1 .. Len(ids)
  OBVIOUS
<1>2. ASSUME NEW i \in 1 .. Len(ids) PROVE ids[i] \in 1 .. Len(stream) /\ ids[i] \in Nat
  <2>1. Len(stream) \in Nat
    BY DEF Pointers
  <2> QED
    BY <2>1
<1>3. ASSUME NEW i \in 1 .. Len(ids)
      PROVE  /\ Item(ids, i, answered) \in Nat
             /\ Item(ids, i, answered) \in {0, Stored(stream[ids[i]].row)}
  <2>1. stream[ids[i]] \in Pairs
    BY <1>2 DEF Pointers
  <2>2. stream[ids[i]].row \in Rows
    BY <2>1 DEF Pairs
  <2>3. Stored(stream[ids[i]].row) \in Nat
    BY <2>2 DEF Stored, Counting, Tables
  <2> QED
    BY <2>3 DEF Item
<1>4. Frames(ids, answered)
        = [i \in 1 .. Len(ids) |-> [at |-> ids[i], shown |-> Item(ids, i, answered)]]
  BY <1>1 DEF Frames
<1> QED
  BY <1>2, <1>3, <1>4

LEMMA Sends ==
    ASSUME Counting, Pointers, Delivering, Push
    PROVE  \E ids \in Seq(Nat) : \E n \in 0 .. Len(ids) : Sent(ids, n) /\ Continues(ids, n)
<1>1. /\ conn \in Connections /\ client \in Clients
      /\ conn.batch \in SUBSET Nat /\ conn.batch \subseteq 1 .. Len(stream)
      /\ conn.cursor \in Nat \union {Dollar} /\ client.last \in Nat \union {Dollar}
      /\ Got \in Seq([at : Nat, shown : Nat]) /\ client.ready \in SUBSET Nat
  <2>1. conn.at = "push" /\ conn # Closed
    BY DEF Push, Closed
  <2>2. conn \in Connections /\ client \in Clients
    BY <2>1 DEF Delivering, Connected
  <2> QED
    BY <2>1, <2>2 DEF Delivering, Fetched, Follows, Connections, Clients, Got
<1>2. Len(stream) \in Nat
  BY DEF Pointers
<1>3. IsFiniteSet(conn.batch)
  <2>1. IsFiniteSet(1 .. Len(stream))
    BY <1>2, FS_Interval
  <2> QED
    BY <1>1, <2>1, FS_Subset
<1>4. PICK ids \in Orders(conn.batch), answered \in BOOLEAN :
         PushAll(ids, answered) \/ \E n \in 0 .. Len(ids) - 1 : PushSome(ids, n, answered)
  BY DEF Push
<1>5. /\ ids \in Seq(Nat) /\ Len(ids) \in Nat
      /\ \A i \in 1 .. Len(ids) : ids[i] \in conn.batch /\ ids[i] \in Nat
      /\ \A i, j \in 1 .. Len(ids) : i < j => ids[i] < ids[j]
      /\ \A x \in conn.batch : \E i \in 1 .. Len(ids) : ids[i] = x
  BY <1>1, <1>3, <1>4, OrdersOf
<1>6. ids \in Seq(1 .. Len(stream)) /\ \A i \in 1 .. Len(ids) : ids[i] \in conn.batch
  <2>1. \A i \in 1 .. Len(ids) : ids[i] \in conn.batch
    BY <1>5
  <2>2. \A i \in 1 .. Len(ids) : ids[i] \in 1 .. Len(stream)
    BY <1>1, <2>1
  <2> QED
    BY <1>5, <2>1, <2>2, SeqOver
<1>7. PICK T, all : T = [at : Nat, shown : Nat] /\ all = Frames(ids, answered)
  OBVIOUS
<1>8. /\ all \in [1 .. Len(ids) -> T] /\ Got \in Seq(T)
      /\ \A i \in 1 .. Len(ids) :
            all[i].at = ids[i] /\ all[i].shown \in {0, Stored(stream[ids[i]].row)}
  BY <1>1, <1>4, <1>6, <1>7, FramesOf
<1>11. ASSUME NEW n \in 0 .. Len(ids), NEW t \in [1 .. n -> T], n \in Nat,
              \A i \in 1 .. n : t[i] = all[i]
       PROVE  /\ Got \o t \in Seq([at : Nat, shown : Nat])
              /\ client'.got = Got \o t /\ client' \in Clients => Sent(ids, n)
  <2>1. /\ Got \o t \in Seq(T) /\ Len(Got \o t) = Len(Got) + n
        /\ \A i \in 1 .. Len(Got) : (Got \o t)[i] = Got[i]
        /\ \A i \in 1 .. n : (Got \o t)[Len(Got) + i] = t[i]
    <3>1. Got \in Seq(T) /\ n \in Nat /\ t \in [1 .. n -> T]
      BY <1>8, <1>11
    <3> QED
      BY <3>1, Joined, SMTT(30)
  <2>2. \A i \in 1 .. n : t[i].at = ids[i] /\ t[i].shown \in {0, Stored(stream[ids[i]].row)}
    <3>1. \A i \in 1 .. n : i \in 1 .. Len(ids)
      BY <1>5
    <3> QED
      BY <1>8, <1>11, <3>1
  <2>3. ASSUME client'.got = Got \o t, client' \in Clients PROVE Sent(ids, n)
    <3>1. /\ Len(client'.got) = Len(Got) + n
          /\ \A i \in 1 .. Len(Got) : client'.got[i] = Got[i]
          /\ \A i \in 1 .. n : client'.got[Len(Got) + i] = t[i]
      BY <2>1, <2>3
    <3> QED
      BY <1>5, <2>2, <2>3, <3>1 DEF Sent
  <2> QED
    BY <1>7, <2>1, <2>3
<1>9. CASE PushAll(ids, answered)
  <2> DEFINE n == Len(ids)
             cursor == IF ids = <<>> THEN conn.cursor ELSE Last(ids)
  <2>1. n \in 0 .. Len(ids) /\ n \in Nat
    BY <1>5
  <2>2. cursor = (IF n = 0 THEN conn.cursor ELSE ids[n]) /\ cursor \in Nat \union {Dollar}
    <3>1. ids = <<>> <=> n = 0
      BY <1>5
    <3>2. n # 0 => ids[n] \in Nat
      BY <1>5
    <3> QED
      BY <1>1, <3>1, <3>2 DEF Last
  <2>3. /\ conn' = [conn EXCEPT !.at = "check", !.cursor = cursor, !.batch = {}]
        /\ client' = [ last |-> IF cursor = Dollar THEN 0 ELSE cursor,
                       got |-> Got \o all,
                       ready |-> IF client.ready = {} THEN {Len(stream)} ELSE client.ready ]
    BY <1>7, <1>9 DEF PushAll, Got
  <2> HIDE DEF cursor
  <2>4. /\ conn' \in Connections /\ conn'.at = "check" /\ conn'.batch = {}
        /\ conn'.cursor = cursor
    BY <1>1, <2>2, <2>3 DEF Connections
  <2>5. client' \in Clients
    <3>1. Got \o all \in Seq([at : Nat, shown : Nat])
      BY <1>8, <1>11, <2>1
    <3> QED
      BY <1>1, <1>2, <2>2, <2>3, <3>1 DEF Clients
  <2>6. Sent(ids, n)
    BY <1>8, <1>11, <2>1, <2>3, <2>5
  <2>7. Continues(ids, n)
    BY <2>2, <2>3, <2>4 DEF Continues
  <2> QED
    BY <1>5, <2>6, <2>7
<1>10. ASSUME NEW n \in 0 .. Len(ids) - 1, PushSome(ids, n, answered)
       PROVE  Sent(ids, n) /\ Continues(ids, n)
  <2>1. /\ n \in 0 .. Len(ids)
        /\ n # 0 => ids[n] \in Nat
    BY <1>5
  <2>2. PICK t : t = SubSeq(all, 1, n)
    OBVIOUS
  <2>3. t \in [1 .. n -> T] /\ n \in Nat /\ \A i \in 1 .. n : t[i] = all[i]
    <3>1. /\ SubSeq(all, 1, n) \in [1 .. n -> T] /\ n \in Nat
          /\ \A i \in 1 .. n : SubSeq(all, 1, n)[i] = all[i]
      <4>1. Len(ids) \in Nat /\ all \in [1 .. Len(ids) -> T]
        BY <1>5, <1>8
      <4> QED
        BY <2>1, <4>1, FirstFew
    <3> QED
      BY <2>2, <3>1
  <2>4. /\ conn' = Closed
        /\ client' = [client EXCEPT !.got = Got \o t,
                                    !.last = IF n = 0 THEN client.last ELSE ids[n]]
    BY <1>7, <1>10, <2>2 DEF PushSome, Got
  <2>5. Sent(ids, n)
    <3>1. Got \o t \in Seq([at : Nat, shown : Nat])
      BY <1>11, <2>1, <2>3
    <3>2. client' \in Clients /\ client'.got = Got \o t
      BY <1>1, <2>1, <2>4, <3>1 DEF Clients
    <3> QED
      BY <1>11, <2>1, <2>3, <3>2
  <2>6. client'.last = IF n = 0 THEN client.last ELSE ids[n]
    BY <1>1, <2>4 DEF Clients
  <2> QED
    BY <2>4, <2>5, <2>6 DEF Continues
<1>12. ASSUME NEW n \in 0 .. Len(ids) - 1, PushSome(ids, n, answered)
       PROVE  \E m \in 0 .. Len(ids) : Sent(ids, m) /\ Continues(ids, m)
  <2>1. n \in 0 .. Len(ids)
    BY <1>5
  <2> QED
    BY <1>10, <1>12, <2>1
<1> QED
  BY <1>4, <1>5, <1>9, <1>12

-----------------------------------------------------------------------------
(* What is sent is as new as the entry.                                    *)

LEMMA ShownStep ==
    ASSUME Counting, Pointers, Delivering, ShownIsCurrent, [Next]_vars
    PROVE  ShownIsCurrent'
<1>1. /\ Pointers' /\ Len(stream) <= Len(stream')
      /\ \A i \in 1 .. Len(stream) : stream'[i] = stream[i]
  BY PointersStep
<1>2. /\ Got \in Seq([at : Nat, shown : Nat]) /\ Len(Got) \in Nat
      /\ Len(stream) \in Nat
      /\ \A i \in 1 .. Len(Got) : Got[i].at \in 1 .. Len(stream)
  BY DEF Delivering, Connected, Clients, Cursors, Got, Pointers
<1>3. \A i \in 1 .. Len(Got) : Got[i].shown = 0 \/ Got[i].shown >= stream[Got[i].at].count
  BY <1>2 DEF ShownIsCurrent, Got
<1>4. CASE UNCHANGED client
  <2>1. \A i \in 1 .. Len(Got) : Got[i].shown = 0 \/ Got[i].shown >= stream'[Got[i].at].count
    BY <1>1, <1>2, <1>3
  <2>2. DOMAIN Got = 1 .. Len(Got)
    BY <1>2
  <2> QED
    BY <1>4, <2>1, <2>2 DEF ShownIsCurrent, Got
<1>5. CASE Push
  <2>0. PICK ids \in Seq(Nat) : \E n \in 0 .. Len(ids) : Sent(ids, n)
    BY <1>5, Sends
  <2>1. PICK n \in 0 .. Len(ids) : Sent(ids, n)
    BY <2>0
  <2>2. UNCHANGED <<rows, stream>>
    BY <1>5 DEF Push, service
  <2> DEFINE new == client'.got
  <2>3. new \in Seq([at : Nat, shown : Nat]) /\ Len(new) = Len(Got) + n /\ n \in Nat
    BY <2>1 DEF Sent, Clients
  <2>4. ASSUME NEW i \in 1 .. Len(new)
        PROVE  new[i].shown = 0 \/ new[i].shown >= stream[new[i].at].count
    <3>1. CASE i <= Len(Got)
      <4>1. i \in 1 .. Len(Got) /\ new[i] = Got[i]
        BY <1>2, <2>1, <2>3, <3>1 DEF Sent
      <4> QED
        BY <1>3, <4>1
    <3>2. CASE i > Len(Got)
      <4>1. PICK j \in 1 .. n : i = Len(Got) + j
        <5>1. i - Len(Got) \in 1 .. n /\ i = Len(Got) + (i - Len(Got))
          BY <1>2, <2>3, <3>2
        <5> QED
          BY <5>1
      <4>2. /\ new[i].at = ids[j] /\ new[i].shown \in {0, Stored(stream[ids[j]].row)}
            /\ ids[j] \in conn.batch
        <5>1. j \in 1 .. Len(ids)
          BY <2>0, <2>3, <4>1
        <5> QED
          BY <2>1, <4>1, <5>1 DEF Sent
      <4>3. ids[j] \in 1 .. Len(stream)
        BY <1>5, <4>2 DEF Push, Delivering, Fetched, Follows, Closed
      <4>4. stream[ids[j]].count <= Stored(stream[ids[j]].row)
        BY <4>3 DEF Pointers, Stored
      <4>5. stream[ids[j]].count \in Nat /\ Stored(stream[ids[j]].row) \in Nat
        <5>1. stream[ids[j]] \in Pairs
          BY <4>3 DEF Pointers
        <5> QED
          BY <5>1 DEF Pairs, Stored, Counting, Tables
      <4> QED
        BY <4>2, <4>4, <4>5
    <3> QED
      BY <1>2, <2>3, <3>1, <3>2
  <2>5. DOMAIN new = 1 .. Len(new)
    BY <2>3
  <2> QED
    BY <2>2, <2>4, <2>5 DEF ShownIsCurrent
<1> QED
  BY <1>4, <1>5, Writers

-----------------------------------------------------------------------------
(* In order and without a gap.                                             *)

\* What is asked for behind an entry: the next ones that are there.
LEMMA AskedBehind ==
    ASSUME Pointers, NEW since \in Nat, NEW n \in Nat, NEW B, B = First(n, Beyond(since))
    PROVE  /\ B \in SUBSET Nat /\ B \subseteq 1 .. Len(stream)
           /\ \A b \in B : since < b
           /\ \A b \in B, k \in Nat : since < k /\ k < b => k \in B \/ k <= cut
<1>1. cut \in Nat /\ Len(stream) \in Nat
  BY DEF Pointers
<1>2. PICK S : S = Beyond(since)
  OBVIOUS
<1>3. \A k \in Nat : k \in S <=> cut < k /\ k <= Len(stream) /\ since < k
  BY <1>1, <1>2 DEF Beyond
<1>4. S \in SUBSET Nat /\ S \subseteq 1 .. Len(stream)
  BY <1>1, <1>2 DEF Beyond
<1>5. IsFiniteSet(S)
  <2>1. IsFiniteSet(1 .. Len(stream))
    BY <1>1, FS_Interval
  <2> QED
    BY <1>4, <2>1, FS_Subset
<1>6. B \subseteq S /\ \A a \in B, k \in S : k < a => k \in B
  BY <1>2, <1>4, <1>5, FirstOf
<1>7. ASSUME NEW b \in B, NEW k \in Nat, since < k, k < b
      PROVE  k \in B \/ k <= cut
  <2>1. b \in Nat /\ b <= Len(stream)
    BY <1>1, <1>4, <1>6
  <2>2. CASE cut < k
    <3>1. k \in S
      BY <1>1, <1>3, <1>7, <2>1, <2>2
    <3> QED
      BY <1>6, <1>7, <3>1
  <2> QED
    BY <1>1, <2>2
<1>8. \A b \in B : since < b
  BY <1>3, <1>4, <1>6
<1> QED
  BY <1>4, <1>6, <1>7, <1>8

\* Whoever got something names it, and a session asks for what is behind it.
LEMMA CursorIsLast ==
    ASSUME Delivering, conn # Closed, Got # <<>>
    PROVE  /\ LastGot \in 1 .. Len(stream) /\ client.last = LastGot
           /\ conn.cursor = LastGot /\ conn.cursor \notin {Dollar, 0}
           /\ conn.at = "read" => conn.from = LastGot
<1>1. Got \in Seq([at : Nat, shown : Nat])
  BY DEF Delivering, Connected, Clients, Got
<1>2. Len(Got) \in 1 .. Len(Got)
  BY <1>1
<1>3. LastGot \in 1 .. Len(stream) /\ client.last = LastGot
  BY <1>2 DEF Delivering, Cursors, LastGot
<1>4. LastGot # 0 /\ LastGot # Dollar
  <2>1. LastGot \in Nat
    <3>1. Got[Len(Got)] \in [at : Nat, shown : Nat]
      BY <1>1, <1>2, ElementOf
    <3> QED
      BY <3>1 DEF LastGot
  <2>2. LastGot # 0
    BY <1>3
  <2> QED
    BY <2>1, <2>2, NotificationsAssumption
<1> QED
  BY <1>3, <1>4 DEF Delivering, Cursors

\* A batch that is asked for behind the cursor follows what the client got.
LEMMA AskedFollows ==
    ASSUME Pointers, Delivering, conn # Closed, NEW since \in Nat, NEW n \in Nat,
           Got # <<>> => since = LastGot
    PROVE  Follows(First(n, Beyond(since))) /\ First(n, Beyond(since)) \in SUBSET Nat
<1>1. PICK B : B = First(n, Beyond(since))
  OBVIOUS
<1>2. /\ B \in SUBSET Nat /\ B \subseteq 1 .. Len(stream)
      /\ \A b \in B : since < b
      /\ \A b \in B, k \in Nat : since < k /\ k < b => k \in B \/ k <= cut
  BY <1>1, AskedBehind
<1>3. ASSUME NEW a \in B, NEW b \in B, NEW k \in Nat, a < k, k < b
      PROVE  k \in B \/ k <= cut
  <2>1. a \in Nat /\ since < a
    BY <1>2
  <2>2. since < k
    BY <1>3, <2>1
  <2> QED
    BY <1>2, <1>3, <2>2
<1>4. Follows(B)
  BY <1>2, <1>3 DEF Follows
<1> QED
  BY <1>1, <1>2, <1>4

\* What the stream and the trimming do to it.
LEMMA FollowsOn ==
    ASSUME Pointers, Len(stream) <= Len(stream'), cut <= cut', Pointers',
           UNCHANGED client, NEW B, Follows(B)
    PROVE  Follows(B)'
<1>1. /\ cut \in Nat /\ cut' \in Nat /\ Len(stream) \in Nat /\ Len(stream') \in Nat
  BY DEF Pointers
<1>2. B \subseteq 1 .. Len(stream')
  BY <1>1 DEF Follows
<1>3. \A k \in Nat : k <= cut => k <= cut'
  BY <1>1
<1> QED
  BY <1>2, <1>3 DEF Follows, Got, LastGot

-----------------------------------------------------------------------------
(* The steps of the session that send nothing.                             *)

\* A session that another step of it leaves as it is.
Turned(k) ==
    /\ k \in Connections
    /\ k.cursor = conn.cursor
    /\ k.at = "read" /\ k.cursor # Dollar => k.from = k.cursor
    /\ Follows(k.batch) /\ (k.at # "push" => k.batch = {})

\* The loss of the key, and a tick, for a session.
LEMMA UnkeyedIs ==
    ASSUME NEW o \in Connections, NEW k, k = Unkeyed(o)
    PROVE  /\ k \in Connections /\ k.cursor = o.cursor /\ k.from = o.from
           /\ k.at = o.at /\ k.batch = o.batch /\ k.waited = o.waited /\ k.delay = o.delay
           /\ k.clock = o.clock /\ k.after = 0 /\ k.owed = 1
BY DEF Unkeyed, Connections

LEMMA OlderIs ==
    ASSUME NEW o \in Connections, NEW k, k = Older(o)
    PROVE  /\ k \in Connections /\ k.cursor = o.cursor /\ k.from = o.from
           /\ k.at = o.at /\ k.batch = o.batch /\ k.waited = o.waited /\ k.delay = o.delay
           /\ k.clock = IF o.clock < CheckEvery + Block THEN o.clock + 1 ELSE CheckEvery + Block
           /\ IF key' = No THEN k.after = 0 /\ k.owed = 1
              ELSE k.after = o.after + 1 /\ k.owed = o.owed
<1>1. PICK clock : clock = Min({o.clock + 1, CheckEvery + Block})
  OBVIOUS
<1>2. /\ o.clock \in 0 .. CheckEvery + Block /\ o.after \in Nat
      /\ CheckEvery + Block \in Nat
  BY NotificationsAssumption DEF Connections
<1>3. /\ clock = IF o.clock < CheckEvery + Block THEN o.clock + 1 ELSE CheckEvery + Block
      /\ clock \in 0 .. CheckEvery + Block /\ o.after + 1 \in Nat
  <2>1. clock = IF o.clock + 1 <= CheckEvery + Block THEN o.clock + 1 ELSE CheckEvery + Block
    BY <1>1, <1>2, MinOfTwo
  <2> QED
    BY <1>2, <2>1
<1>4. CASE key' = No
  <2>1. PICK j : j = [o EXCEPT !.clock = clock]
    OBVIOUS
  <2>2. k = Unkeyed(j)
    BY <1>1, <1>4, <2>1 DEF Older
  <2>3. /\ j \in Connections /\ j.cursor = o.cursor /\ j.from = o.from
        /\ j.at = o.at /\ j.batch = o.batch /\ j.waited = o.waited /\ j.delay = o.delay
        /\ j.clock = clock
    BY <1>3, <2>1 DEF Connections
  <2> QED
    BY <1>3, <1>4, <2>2, <2>3, UnkeyedIs
<1>5. CASE key' # No
  <2>1. k = [[o EXCEPT !.clock = clock] EXCEPT !.after = o.after + 1]
    BY <1>1, <1>5 DEF Older, Connections
  <2> QED
    BY <1>3, <1>5, <2>1 DEF Connections
<1> QED
  BY <1>4, <1>5

LEMMA Turns ==
    ASSUME Pointers, Delivering, CatchUp \/ Check \/ ReadLive \/ (Tick /\ conn # Closed)
    PROVE  conn # Closed /\ (conn' = Closed \/ Turned(conn')) /\ UNCHANGED client
<1>1. conn # Closed /\ UNCHANGED client
  BY DEF CatchUp, Check, ReadLive, Tick, Closed
<1>2. conn \in Connections
  BY <1>1 DEF Delivering, Connected
<1>3. Turned(conn)
  BY <1>1, <1>2 DEF Delivering, Cursors, Fetched, Turned
<1>4. Len(stream) \in Nat
  BY DEF Pointers
<1>5. {CatchUpCount, Batch, CheckEvery, Block} \subseteq Nat \ {0} /\ 0 \in 0 .. Block
  BY NotificationsAssumption
<1>6. Follows({})
  BY DEF Follows
<1>7. CASE CatchUp
  <2>1. /\ conn.at = "catchup"
        /\ \/ conn' = [conn EXCEPT !.at = "push", !.batch = XRange(conn.cursor)]
           \/ conn' = [conn EXCEPT !.at = "push"]
    BY <1>7 DEF CatchUp
  <2>2. XRange(conn.cursor) \in SUBSET Nat /\ Follows(XRange(conn.cursor))
    <3>1. CASE conn.cursor \in {Dollar, 0}
      BY <1>6, <3>1 DEF XRange
    <3>2. CASE conn.cursor \notin {Dollar, 0}
      <4>1. conn.cursor \in Nat
        BY <1>2, <3>2 DEF Connections
      <4>2. Got # <<>> => conn.cursor = LastGot
        BY <1>1, CursorIsLast
      <4>3. XRange(conn.cursor) = First(CatchUpCount, Beyond(conn.cursor))
        BY <3>2 DEF XRange
      <4> QED
        BY <1>1, <1>5, <4>1, <4>2, <4>3, AskedFollows
    <3> QED
      BY <3>1, <3>2
  <2>3. PICK B : B = XRange(conn.cursor)
    OBVIOUS
  <2>4. CASE conn' = [conn EXCEPT !.at = "push", !.batch = B]
    <3>1. /\ conn' \in Connections
          /\ conn'.at = "push" /\ conn'.batch = B
          /\ conn'.cursor = conn.cursor /\ conn'.from = conn.from
      BY <1>2, <2>2, <2>3, <2>4 DEF Connections
    <3> QED
      BY <1>1, <1>3, <2>2, <2>3, <3>1 DEF Turned
  <2>5. CASE conn' = [conn EXCEPT !.at = "push"]
    <3>1. /\ conn' \in Connections
          /\ conn'.at = "push" /\ conn'.batch = conn.batch
          /\ conn'.cursor = conn.cursor /\ conn'.from = conn.from
      BY <1>2, <2>5 DEF Connections
    <3> QED
      BY <1>1, <1>3, <2>1, <3>1 DEF Turned
  <2> QED
    BY <1>1, <2>1, <2>3, <2>4, <2>5
<1>8. CASE Check
  <2>1. ASSUME NEW k \in Connections, Reads(k), k.cursor = conn.cursor, k.batch = {}
        PROVE  Turned(conn')
    <3>1. PICK from : from = IF k.cursor = Dollar THEN Len(stream) ELSE k.cursor
      OBVIOUS
    <3>2. from \in Nat /\ (k.cursor # Dollar => from = k.cursor)
      BY <1>4, <2>1, <3>1 DEF Connections
    <3>3. conn' = [k EXCEPT !.at = "read", !.waited = 0, !.from = from]
      BY <2>1, <3>1 DEF Reads
    <3> QED
      BY <1>5, <1>6, <2>1, <3>2, <3>3 DEF Turned, Connections
  <2>2. conn.at = "check" /\ conn.batch = {}
    BY <1>3, <1>8 DEF Check, Turned
  <2> DEFINE checked == [conn EXCEPT !.clock = 0]
             excused == [checked EXCEPT !.owed = checked.owed + 1]
  <2>3. checked \in Connections /\ checked.cursor = conn.cursor /\ checked.batch = {}
    BY <1>2, <1>5, <2>2 DEF Connections
  <2>4. excused \in Connections /\ excused.cursor = conn.cursor /\ excused.batch = {}
    <3> HIDE DEF checked
    <3>1. checked.owed + 1 \in Nat
      BY <2>3 DEF Connections
    <3> QED
      BY <2>3, <3>1 DEF Connections
  <2>5. conn' = Closed \/ Reads(conn) \/ Reads(checked) \/ Reads(excused)
    BY <1>8 DEF Check, NotDue
  <2> HIDE DEF checked, excused
  <2> QED
    BY <1>1, <1>2, <2>1, <2>2, <2>3, <2>4, <2>5
<1>9. CASE ReadLive
  <2>1. PICK B : B = First(Batch, Beyond(conn.from))
    OBVIOUS
  <2>2. /\ conn.at = "read"
        /\ \/ conn' = [conn EXCEPT !.at = "push", !.batch = B]
           \/ conn' = [conn EXCEPT !.at = "check"]
    BY <1>9, <2>1 DEF ReadLive
  <2>3. B \in SUBSET Nat /\ Follows(B)
    <3>1. conn.from \in Nat
      BY <1>2 DEF Connections
    <3>2. Got # <<>> => conn.from = LastGot
      BY <1>1, <2>2, CursorIsLast
    <3> QED
      BY <1>1, <1>5, <2>1, <3>1, <3>2, AskedFollows
  <2>4. CASE conn' = [conn EXCEPT !.at = "push", !.batch = B]
    <3>1. /\ conn' \in Connections
          /\ conn'.at = "push" /\ conn'.batch = B
          /\ conn'.cursor = conn.cursor /\ conn'.from = conn.from
      BY <1>2, <2>3, <2>4 DEF Connections
    <3> QED
      BY <1>1, <1>3, <2>3, <3>1 DEF Turned
  <2>5. CASE conn' = [conn EXCEPT !.at = "check"]
    <3>1. /\ conn' \in Connections
          /\ conn'.at = "check" /\ conn'.batch = conn.batch
          /\ conn'.cursor = conn.cursor /\ conn'.from = conn.from
      BY <1>2, <2>5 DEF Connections
    <3> QED
      BY <1>1, <1>3, <2>2, <3>1 DEF Turned
  <2> QED
    BY <1>1, <2>2, <2>4, <2>5
<1>10. CASE Tick /\ conn # Closed
  <2>1. PICK o : /\ conn' = Older(o)
                 /\ \/ conn.at = "read" /\ conn.waited < Block
                          /\ o = [conn EXCEPT !.waited = conn.waited + 1]
                    \/ conn.at # "read" /\ o = [conn EXCEPT !.delay = conn.delay + 1]
    BY <1>10 DEF Tick
  <2>2. /\ o \in Connections /\ o.cursor = conn.cursor /\ o.from = conn.from
        /\ o.at = conn.at /\ o.batch = conn.batch
    <3>1. conn.waited \in 0 .. Block /\ conn.delay \in Nat /\ Block \in Nat
      BY <1>2, <1>5 DEF Connections
    <3>2. /\ conn.delay + 1 \in Nat
          /\ conn.waited < Block => conn.waited + 1 \in 0 .. Block
      BY <3>1
    <3> QED
      BY <1>2, <2>1, <3>2 DEF Connections
  <2>3. /\ conn' \in Connections /\ conn'.cursor = o.cursor /\ conn'.from = o.from
        /\ conn'.at = o.at /\ conn'.batch = o.batch
    BY <1>5, <2>1, <2>2, OlderIs
  <2> QED
    BY <1>1, <1>3, <2>2, <2>3 DEF Turned
<1> QED
  BY <1>7, <1>8, <1>9, <1>10

LEMMA Gap ==
    ASSUME NEW a \in Nat, NEW b \in Nat, NEW c \in Nat, NEW B,
           \A k \in Nat : a < k /\ k < b => k \notin B /\ (k \in B \/ k <= c)
    PROVE  a + 1 .. b - 1 \subseteq 1 .. c
<1> SUFFICES ASSUME NEW k \in a + 1 .. b - 1 PROVE k \in 1 .. c
  OBVIOUS
<1>1. k \in Nat /\ a < k /\ k < b /\ 1 <= k
  OBVIOUS
<1> QED
  BY <1>1

\* What is sent follows what was got, and the client names the last of it.
LEMMA PushDelivers ==
    ASSUME Counting, Pointers, Delivering, Push
    PROVE  Delivering'
<1>1. /\ conn # Closed /\ conn.at = "push" /\ UNCHANGED <<stream, cut>>
      /\ cut \in Nat /\ Len(stream) \in Nat
  BY DEF Push, Closed, service, Pointers
<1>2. PICK ids \in Seq(Nat) : \E n \in 0 .. Len(ids) : Sent(ids, n) /\ Continues(ids, n)
  BY Sends
<1>3. PICK n \in 0 .. Len(ids) : Sent(ids, n) /\ Continues(ids, n)
  BY <1>2
<1>4. PICK new, old : new = client'.got /\ old = Got
  OBVIOUS
<1>5. /\ old \in Seq([at : Nat, shown : Nat]) /\ new \in Seq([at : Nat, shown : Nat])
      /\ Len(old) \in Nat /\ n \in Nat /\ Len(new) = Len(old) + n
      /\ client' \in Clients
  <2>1. client \in Clients /\ client' \in Clients
    BY <1>3 DEF Delivering, Connected, Sent
  <2>2. old \in Seq([at : Nat, shown : Nat]) /\ new \in Seq([at : Nat, shown : Nat])
    BY <1>4, <2>1 DEF Clients, Got
  <2>3. Len(new) = Len(old) + n
    BY <1>3, <1>4 DEF Sent
  <2> QED
    BY <1>2, <2>1, <2>2, <2>3
<1>L. Len(old) \in Nat /\ n \in Nat /\ Len(new) = Len(old) + n
  BY <1>5
<1>6. \A i \in 1 .. n : /\ i \in 1 .. Len(ids) /\ ids[i] \in conn.batch
                        /\ ids[i] \in 1 .. Len(stream) /\ ids[i] \in Nat
  <2>1. conn.batch \subseteq 1 .. Len(stream)
    BY <1>1 DEF Delivering, Fetched, Follows
  <2>2. \A i \in 1 .. n : i \in 1 .. Len(ids)
    BY <1>2
  <2>3. \A i \in 1 .. n : ids[i] \in conn.batch
    BY <1>3, <2>2 DEF Sent
  <2>4. \A i \in 1 .. n : ids[i] \in 1 .. Len(stream)
    BY <2>1, <2>3
  <2> QED
    BY <1>1, <2>2, <2>3, <2>4
<1>7. /\ \A i, j \in 1 .. Len(ids) : i < j => ids[i] < ids[j]
      /\ \A b \in conn.batch : \E i \in 1 .. Len(ids) : ids[i] = b
      /\ \A i \in 1 .. Len(old) : new[i] = old[i]
      /\ \A i \in 1 .. n : new[Len(old) + i].at = ids[i]
  BY <1>3, <1>4 DEF Sent
<1>8. \A i \in 1 .. Len(new) : i > Len(old) => \E j \in 1 .. n : i = Len(old) + j
  <2>1. ASSUME NEW i \in 1 .. Len(new), i > Len(old)
        PROVE  i - Len(old) \in 1 .. n /\ i = Len(old) + (i - Len(old))
    BY <1>L, <2>1
  <2> QED
    BY <2>1
<1>9. \A i \in 1 .. Len(old) : old[i].at \in 1 .. Len(stream)
  BY <1>4 DEF Delivering, Cursors
<1>10. \A i \in 1 .. Len(new) : new[i].at \in 1 .. Len(stream)
  <2>1. ASSUME NEW i \in 1 .. Len(new), i > Len(old) PROVE new[i].at \in 1 .. Len(stream)
    BY <1>6, <1>7, <1>8, <2>1
  <2>2. ASSUME NEW i \in 1 .. Len(new), i <= Len(old) PROVE new[i].at \in 1 .. Len(stream)
    <3>1. i \in 1 .. Len(old)
      BY <1>L, <2>2
    <3> QED
      BY <1>7, <1>9, <3>1
  <2> QED
    BY <1>L, <2>1, <2>2
<1>11. ASSUME NEW i \in 1 .. n, NEW k \in Nat, k < ids[i], k \in conn.batch,
              i > 1 => ids[i - 1] < k
       PROVE  FALSE
  <2>1. PICK m \in 1 .. Len(ids) : ids[m] = k
    BY <1>7, <1>11
  <2>2. i \in 1 .. Len(ids) /\ Len(ids) \in Nat
    BY <1>2, <1>6
  <2>3. m < i
    <3>1. CASE i < m
      <4>1. ids[i] < ids[m] /\ ids[i] \in Nat
        BY <1>6, <1>7, <2>2, <3>1
      <4> QED
        BY <1>11, <2>1, <4>1
    <3>2. CASE i = m
      BY <1>6, <1>11, <2>1, <3>2
    <3> QED
      BY <2>2, <3>1, <3>2
  <2>4. i - 1 \in 1 .. n /\ i - 1 \in 1 .. Len(ids) /\ m <= i - 1
    <3>1. /\ n \in Nat /\ i \in Nat /\ m \in Nat /\ Len(ids) \in Nat
          /\ 1 <= m /\ i <= n /\ i <= Len(ids)
      BY <1>L, <2>2
    <3> QED
      BY <2>3, <3>1
  <2>5. ids[i - 1] < k /\ ids[i - 1] \in Nat
    BY <1>6, <1>11, <2>2, <2>3, <2>4
  <2>6. m = i - 1 \/ ids[m] < ids[i - 1]
    BY <1>7, <2>2, <2>4
  <2> QED
    BY <1>11, <2>1, <2>5, <2>6
<1>12. DeliveredInOrder'
  <2> SUFFICES ASSUME NEW i \in 2 .. Len(new)
               PROVE  /\ new[i - 1].at < new[i].at
                      /\ new[i - 1].at + 1 .. new[i].at - 1 \subseteq 1 .. cut
    BY <1>1, <1>4 DEF DeliveredInOrder
  <2>1. /\ i \in 1 .. Len(new) /\ i - 1 \in 1 .. Len(new) /\ i \in Nat
        /\ new[i].at \in Nat /\ new[i - 1].at \in Nat
    <3>1. i \in 1 .. Len(new) /\ i - 1 \in 1 .. Len(new) /\ i \in Nat
      BY <1>L
    <3>2. new[i].at \in 1 .. Len(stream) /\ new[i - 1].at \in 1 .. Len(stream)
      BY <1>10, <3>1
    <3>3. 1 .. Len(stream) \subseteq Nat
      BY <1>1
    <3> QED
      BY <3>1, <3>2, <3>3
  <2>2. CASE i <= Len(old)
    <3>1. i \in 2 .. Len(old) /\ i \in 1 .. Len(old) /\ i - 1 \in 1 .. Len(old)
      BY <1>L, <2>2
    <3>2. /\ old[i - 1].at < old[i].at
          /\ old[i - 1].at + 1 .. old[i].at - 1 \subseteq 1 .. cut
      BY <1>4, <3>1 DEF Delivering, DeliveredInOrder, Got
    <3> QED
      BY <1>7, <3>1, <3>2
  <2>4. CASE i = Len(old) + 1
    <3>1. 1 \in 1 .. n /\ Len(old) \in 1 .. Len(old) /\ i - 1 = Len(old) /\ old # <<>>
      BY <1>L, <2>1, <2>4
    <3>2. new[i].at = ids[1] /\ new[i - 1] = old[Len(old)]
      BY <1>7, <2>4, <3>1
    <3>3. LastGot = old[Len(old)].at
      BY <1>4 DEF LastGot
    <3>4. /\ LastGot < ids[1]
          /\ \A k \in Nat : LastGot < k /\ k < ids[1] => k \in conn.batch \/ k <= cut
      <4>1. ids[1] \in conn.batch
        BY <1>6, <3>1
      <4>2. Follows(conn.batch) /\ Got # <<>>
        BY <1>1, <1>4, <3>1 DEF Delivering, Fetched
      <4> QED
        BY <4>1, <4>2 DEF Follows
    <3>5. LastGot \in Nat /\ ids[1] \in Nat
      BY <2>1, <3>2, <3>3
    <3>6. \A k \in Nat : LastGot < k /\ k < ids[1] => k \notin conn.batch
      BY <1>11, <3>1
    <3>7. LastGot + 1 .. ids[1] - 1 \subseteq 1 .. cut
      BY <1>1, <3>4, <3>5, <3>6, Gap
    <3> QED
      BY <3>2, <3>3, <3>4, <3>7
  <2>5. CASE i > Len(old) + 1
    <3>1. PICK j \in 1 .. n : i = Len(old) + j
      <4>1. i > Len(old)
        BY <1>L, <2>1, <2>5
      <4> QED
        BY <1>8, <2>1, <4>1
    <3>2. j - 1 \in 1 .. n /\ i - 1 = Len(old) + (j - 1) /\ j > 1
      BY <1>L, <2>5, <3>1
    <3>3. new[i].at = ids[j] /\ new[i - 1].at = ids[j - 1]
      BY <1>7, <3>1, <3>2
    <3>4. /\ ids[j - 1] < ids[j] /\ ids[j - 1] \in Nat /\ ids[j] \in Nat
          /\ ids[j - 1] \in conn.batch /\ ids[j] \in conn.batch
      <4>1. j - 1 \in 1 .. Len(ids) /\ j \in 1 .. Len(ids) /\ j - 1 < j
        <5>1. j - 1 < j
          BY <1>L, <3>1
        <5>2. j - 1 \in 1 .. Len(ids) /\ j \in 1 .. Len(ids)
          BY <1>6, <3>1, <3>2
        <5> QED
          BY <5>1, <5>2
      <4> QED
        BY <1>6, <1>7, <3>1, <3>2, <4>1
    <3>5. \A k \in Nat : ids[j - 1] < k /\ k < ids[j] => k \notin conn.batch
      BY <1>11, <3>1
    <3>6. \A k \in Nat : ids[j - 1] < k /\ k < ids[j] => k \in conn.batch \/ k <= cut
      BY <1>1, <3>4 DEF Delivering, Fetched, Follows
    <3>7. ids[j - 1] + 1 .. ids[j] - 1 \subseteq 1 .. cut
      BY <1>1, <3>4, <3>5, <3>6, Gap
    <3> QED
      BY <3>3, <3>4, <3>7
  <2>6. i <= Len(old) \/ i = Len(old) + 1 \/ i > Len(old) + 1
    BY <1>L, <2>1
  <2> QED
    BY <2>2, <2>4, <2>5, <2>6
<1>13. /\ n = 0 => new = old
       /\ n # 0 => /\ new # <<>> /\ new[Len(new)].at = ids[n] /\ ids[n] \in Nat
                   /\ ids[n] # Dollar
  <2>1. ASSUME n = 0 PROVE new = old
    <3>1. Len(new) = Len(old) /\ \A i \in 1 .. Len(new) : new[i] = old[i]
      BY <1>L, <1>7, <2>1
    <3> QED
      BY <1>5, <3>1, SameSeq
  <2>2. ASSUME n # 0 PROVE n \in 1 .. n /\ Len(new) = Len(old) + n /\ new # <<>>
    BY <1>L, <2>2
  <2> QED
    BY <1>6, <1>7, <2>1, <2>2, NotificationsAssumption
<1>14. IF new = <<>> THEN client'.last \in {Dollar, 0}
       ELSE client'.last = new[Len(new)].at
  <2>1. CASE n # 0
    BY <1>3, <1>13, <2>1 DEF Continues
  <2>2. CASE n = 0
    <3>1. new = old
      BY <1>13, <2>2
    <3>3. CASE old = <<>>
      BY <1>1, <1>3, <1>4, <2>2, <3>1, <3>3 DEF Delivering, Cursors, Continues
    <3>4. CASE old # <<>>
      <4>1. client.last = LastGot /\ conn.cursor = LastGot /\ conn.cursor # Dollar
        BY <1>1, <1>4, <3>4, CursorIsLast
      <4>2. client'.last = LastGot
        BY <1>3, <2>2, <4>1 DEF Continues
      <4> QED
        BY <1>4, <3>1, <3>4, <4>2 DEF LastGot
    <3> QED
      BY <3>3, <3>4
  <2> QED
    BY <2>1, <2>2
<1>15. Connected'
  BY <1>3, <1>5 DEF Connected, Continues
<1>16. Cursors'
  <2>1. conn' # Closed => /\ conn'.at = "check"
                          /\ conn'.cursor = client'.last
                                \/ (conn'.cursor = Dollar /\ client'.last = 0)
    BY <1>3 DEF Continues
  <2> QED
    BY <1>1, <1>4, <1>10, <1>14, <2>1 DEF Cursors, Got, LastGot
<1>17. Fetched'
  <2>1. conn' = Closed \/ (conn'.at = "check" /\ conn'.batch = {})
    BY <1>3 DEF Continues
  <2> QED
    BY <2>1 DEF Fetched, Follows
<1> QED
  BY <1>12, <1>15, <1>16, <1>17 DEF Delivering

LEMMA DeliveringStep ==
    ASSUME Counting, Pointers, Delivering, [Next]_vars
    PROVE  Delivering'
<1>1. Pointers' /\ Len(stream) <= Len(stream') /\ cut <= cut'
  BY PointersStep
<1>2. CASE Push
  BY <1>2, PushDelivers
<1>3. CASE UNCHANGED client
  <2>1. /\ client' \in Clients /\ Got' = Got
        /\ LastGot' = LastGot /\ Got \in Seq([at : Nat, shown : Nat])
        /\ cut \in Nat /\ cut' \in Nat /\ Len(stream) \in Nat /\ Len(stream') \in Nat
    BY <1>1, <1>3 DEF Delivering, Connected, Clients, Got, LastGot, Pointers
  <2>2. \A k \in Nat : k \in 1 .. Len(stream) => k \in 1 .. Len(stream')
    BY <1>1, <2>1
  <2>3. \A i \in 1 .. Len(Got) : Got[i].at \in 1 .. Len(stream')
    <3>1. ASSUME NEW i \in 1 .. Len(Got) PROVE Got[i].at \in 1 .. Len(stream')
      <4>1. Got[i].at \in 1 .. Len(stream)
        BY DEF Delivering, Cursors
      <4> QED
        BY <2>1, <2>2, <4>1
    <3> QED
      BY <3>1
  <2>4. DeliveredInOrder'
    <3>1. 1 .. cut \subseteq 1 .. cut'
      BY <1>1, <2>1
    <3> QED
      BY <1>3, <3>1 DEF Delivering, DeliveredInOrder
  <2>5. IF Got = <<>> THEN client.last \in {Dollar, 0} ELSE client.last = LastGot
    BY DEF Delivering, Cursors
  <2>6. ASSUME conn' # Closed =>
                  /\ conn' \in Connections
                  /\ conn'.cursor = client.last \/ (conn'.cursor = Dollar /\ client.last = 0)
                  /\ conn'.at = "read" /\ conn'.cursor # Dollar => conn'.from = conn'.cursor
                  /\ Follows(conn'.batch) /\ (conn'.at # "push" => conn'.batch = {})
        PROVE  Delivering'
    <3>1. Connected'
      BY <2>1, <2>6 DEF Connected
    <3>2. Cursors'
      BY <1>3, <2>1, <2>3, <2>5, <2>6 DEF Cursors
    <3>3. Fetched'
      <4>1. ASSUME NEW B, Follows(B) PROVE Follows(B)'
        BY <1>1, <1>3, <4>1, FollowsOn
      <4>2. PICK B : B = conn'.batch
        OBVIOUS
      <4>3. conn' # Closed => Follows(B)' /\ (conn'.at # "push" => B = {})
        BY <2>6, <4>1, <4>2
      <4> QED
        BY <4>2, <4>3 DEF Fetched
    <3> QED
      BY <2>4, <3>1, <3>2, <3>3 DEF Delivering
  <2>7. conn # Closed =>
           /\ conn \in Connections
           /\ conn.cursor = client.last \/ (conn.cursor = Dollar /\ client.last = 0)
           /\ conn.at = "read" /\ conn.cursor # Dollar => conn.from = conn.cursor
           /\ Follows(conn.batch) /\ (conn.at # "push" => conn.batch = {})
    BY DEF Delivering, Connected, Cursors, Fetched
  <2>8. CASE UNCHANGED conn
    BY <2>6, <2>7, <2>8
  <2>9. CASE CatchUp \/ Check \/ ReadLive \/ (Tick /\ conn # Closed)
    <3>1. conn # Closed /\ (conn' = Closed \/ Turned(conn'))
      BY <2>9, Turns
    <3> QED
      BY <2>6, <2>7, <3>1 DEF Turned
  <2>10. CASE Connect
    <3>1. PICK owed : owed = IF key = No THEN 1 ELSE 0
      OBVIOUS
    <3>2. conn' = [ at |-> "catchup", cursor |-> client.last, from |-> 0, batch |-> {},
                    clock |-> CheckEvery + Block, waited |-> 0, delay |-> 0,
                    after |-> 0, owed |-> owed ]
      BY <2>10, <3>1 DEF Connect
    <3>3. client.last \in Nat \union {Dollar} /\ owed \in Nat
      BY <3>1 DEF Delivering, Connected, Clients
    <3>4. CheckEvery + Block \in 0 .. CheckEvery + Block /\ 0 \in 0 .. Block
      BY NotificationsAssumption
    <3>5. conn' \in Connections
      BY <3>2, <3>3, <3>4 DEF Connections
    <3> QED
      BY <2>6, <3>2, <3>5 DEF Follows
  <2>11. CASE Break
    BY <2>6, <2>11 DEF Break
  <2>12. CASE Revoke
    BY <2>6, <2>7, <2>12 DEF Revoke
  <2>13. CASE Tick /\ conn = Closed
    BY <2>6, <2>13 DEF Tick, Closed
  <2>14. CASE Push
    BY <2>14, PushDelivers
  <2>15. CASE LoseKey
    <3>1. conn' = IF conn = Closed THEN conn ELSE Unkeyed(conn)
      BY <2>15 DEF LoseKey
    <3>2. CASE conn = Closed
      BY <2>6, <3>1, <3>2
    <3>3. CASE conn # Closed
      <4>1. /\ conn' \in Connections /\ conn'.cursor = conn.cursor /\ conn'.from = conn.from
            /\ conn'.at = conn.at /\ conn'.batch = conn.batch
        BY <2>7, <3>1, <3>3, UnkeyedIs
      <4> QED
        BY <2>6, <2>7, <3>3, <4>1
    <3> QED
      BY <3>2, <3>3
  <2> QED
    BY <2>8, <2>9, <2>10, <2>11, <2>12, <2>13, <2>14, <2>15, Writers
<1> QED
  BY <1>2, <1>3, Writers

-----------------------------------------------------------------------------
(* Revocation.                                                             *)

LEMMA Product ==
    ASSUME NEW a \in Nat, NEW b \in Nat
    PROVE  /\ a * b \in Nat /\ a * (b + 1) = a * b + a
           /\ b > 0 => a * (b - 1) \in Nat /\ a * (b - 1) + a = a * b
OBVIOUS

\* A session and its numbers.
LEMMA Numbers ==
    ASSUME NEW k \in Connections
    PROVE  /\ k.clock \in 0 .. CheckEvery + Block /\ k.waited \in 0 .. Block
           /\ k.delay \in Nat /\ k.after \in Nat /\ k.owed \in Nat
           /\ CheckEvery \in Nat \ {0} /\ Block \in Nat \ {0}
           /\ Interval \in Nat /\ Interval = CheckEvery + Block - 1
           /\ Interval * k.owed \in Nat /\ Interval * (k.owed + 1) = Interval * k.owed + Interval
           /\ k.owed > 0 => /\ Interval * (k.owed - 1) \in Nat
                            /\ Interval * (k.owed - 1) + Interval = Interval * k.owed
<1>1. CheckEvery \in Nat \ {0} /\ Block \in Nat \ {0}
  BY NotificationsAssumption
<1>2. Interval \in Nat /\ Interval = CheckEvery + Block - 1
  BY <1>1 DEF Interval
<1>3. /\ k.clock \in 0 .. CheckEvery + Block /\ k.waited \in 0 .. Block
      /\ k.delay \in Nat /\ k.after \in Nat /\ k.owed \in Nat
  BY DEF Connections
<1> QED
  BY <1>1, <1>2, <1>3, Product

LEMMA BoundIs ==
    ASSUME NEW k \in Connections
    PROVE  /\ Bound(k) \in Nat
           /\ k.owed = 0 => Bound(k) = 0
           /\ k.owed > 0 => Bound(k) = Interval * (k.owed - 1)
                                       + (IF k.clock <= Interval THEN k.clock ELSE Interval)
           /\ Bound(k) <= Interval * k.owed
<1> USE Numbers
<1>1. CASE k.owed = 0
  BY <1>1 DEF Bound
<1>2. CASE k.owed > 0
  BY <1>2 DEF Bound
<1> QED
  BY <1>1, <1>2

\* What a session keeps of its numbers when it turns to something else.
LEMMA Keeps ==
    ASSUME Patient, conn # Closed, UNCHANGED key,
           conn'.owed = conn.owed, conn'.after = conn.after, conn'.delay = conn.delay,
           conn'.clock = conn.clock, conn'.at # "read"
    PROVE  Patient'
BY DEF Patient, Fresh, Within, Bound

LEMMA CheckWithin ==
    ASSUME Patient, conn \in Connections, Check, conn' # Closed
    PROVE  Patient'
<1>1. /\ conn.at = "check" /\ conn # Closed /\ UNCHANGED key /\ Fresh /\ Within(conn)
  BY DEF Check, Closed, Patient
<1>2. /\ conn'.at = "read" /\ conn'.waited = 0
      /\ conn'.after = conn.after /\ conn'.delay = conn.delay
      /\ \/ ~Due /\ conn'.clock = conn.clock /\ conn'.owed = conn.owed
         \/ key = No /\ conn'.clock = 0 /\ conn'.owed = conn.owed
         \/ key # No /\ conn'.clock = 0 /\ conn'.owed = conn.owed + 1
  <2>1. CASE NotDue
    BY <2>1 DEF NotDue, Reads, Connections
  <2>2. CASE key = No /\ Reads([conn EXCEPT !.clock = 0])
    BY <2>2 DEF Reads, Connections
  <2>3. CASE key # No /\ Reads([[conn EXCEPT !.clock = 0] EXCEPT !.owed = @ + 1])
    BY <2>3 DEF Reads, Connections
  <2> QED
    BY <2>1, <2>2, <2>3 DEF Check
<1>3. /\ conn.clock \in Nat /\ conn.delay \in Nat /\ conn.after \in Nat /\ conn.owed \in Nat
      /\ CheckEvery \in Nat \ {0} /\ Interval \in Nat /\ Interval * conn.owed \in Nat
      /\ Bound(conn) \in Nat /\ Bound(conn) <= Interval * conn.owed
      /\ conn.after <= conn.delay + Bound(conn)
  <2>1. conn.clock \in 0 .. CheckEvery + Block /\ CheckEvery \in Nat /\ Block \in Nat
    BY Numbers
  <2>2. conn.clock \in Nat
    BY <2>1
  <2> QED
    BY <1>1, <2>2, Numbers, BoundIs DEF Within
<1>4. CASE ~Due /\ conn'.clock = conn.clock /\ conn'.owed = conn.owed
  <2>1. conn.clock < CheckEvery /\ conn.owed # 0
    BY <1>1, <1>3, <1>4 DEF Due, Within
  <2>2. Bound(conn') = Bound(conn)
    BY <1>4 DEF Bound
  <2>3. Within(conn')
    BY <1>2, <1>3, <1>4, <2>1, <2>2 DEF Within
  <2>4. Fresh'
    BY <1>1, <1>2, <1>4 DEF Fresh
  <2> QED
    BY <2>3, <2>4 DEF Patient
<1>5. CASE key = No /\ conn'.clock = 0 /\ conn'.owed = conn.owed
  <2>1. conn.after = 0 /\ conn.owed = 1
    BY <1>1, <1>5 DEF Fresh
  <2>2. Bound(conn') = 0
    BY <1>3, <1>5, <2>1 DEF Bound
  <2>3. Within(conn')
    BY <1>2, <1>3, <1>5, <2>1, <2>2 DEF Within
  <2>4. Fresh'
    BY <1>2, <1>5, <2>1 DEF Fresh
  <2> QED
    BY <2>3, <2>4 DEF Patient
<1>6. CASE key # No /\ conn'.clock = 0 /\ conn'.owed = conn.owed + 1
  <2>1. Bound(conn') = Interval * conn.owed
    <3>1. conn'.owed # 0 /\ conn'.owed - 1 = conn.owed /\ 0 <= Interval
      BY <1>3, <1>6
    <3> QED
      BY <1>3, <1>6, <3>1 DEF Bound
  <2>2. conn'.owed # 0
    BY <1>3, <1>6
  <2>3. Within(conn')
    BY <1>2, <1>3, <1>6, <2>1, <2>2 DEF Within
  <2>4. Fresh'
    BY <1>1, <1>6 DEF Fresh
  <2> QED
    BY <2>3, <2>4 DEF Patient
<1> QED
  BY <1>2, <1>4, <1>5, <1>6

\* Time passes for a session.
LEMMA TickWithin ==
    ASSUME Patient, conn \in Connections, conn # Closed, Tick
    PROVE  Patient'
<1>1. PICK o : /\ conn' = Older(o)
               /\ \/ /\ conn.at = "read" /\ conn.waited < Block
                     /\ o = [conn EXCEPT !.waited = conn.waited + 1]
                  \/ conn.at # "read" /\ o = [conn EXCEPT !.delay = conn.delay + 1]
  BY DEF Tick
<1>2. /\ conn.clock \in 0 .. CheckEvery + Block /\ conn.waited \in 0 .. Block
      /\ conn.delay \in Nat /\ conn.after \in Nat /\ conn.owed \in Nat
      /\ CheckEvery \in Nat \ {0} /\ Block \in Nat \ {0}
      /\ Interval \in Nat /\ Interval = CheckEvery + Block - 1
      /\ conn.owed > 0 => Interval * (conn.owed - 1) \in Nat
  BY Numbers
<1>3. /\ o \in Connections /\ o.at = conn.at /\ o.clock = conn.clock
      /\ o.after = conn.after /\ o.owed = conn.owed
      /\ o.waited = IF conn.at = "read" THEN conn.waited + 1 ELSE conn.waited
      /\ o.delay = IF conn.at = "read" THEN conn.delay ELSE conn.delay + 1
  <2>1. /\ conn.delay + 1 \in Nat
        /\ conn.waited < Block => conn.waited + 1 \in 0 .. Block
    BY <1>2
  <2> QED
    BY <1>1, <2>1 DEF Connections
<1>4. /\ conn' \in Connections /\ conn'.at = conn.at
      /\ conn'.waited = o.waited /\ conn'.delay = o.delay
      /\ conn'.clock = IF conn.clock < CheckEvery + Block THEN conn.clock + 1
                       ELSE CheckEvery + Block
      /\ IF key' = No THEN conn'.after = 0 /\ conn'.owed = 1
         ELSE conn'.after = conn.after + 1 /\ conn'.owed = conn.owed
  BY <1>1, <1>3, OlderIs
<1>5. Within(conn) /\ Fresh'
  BY <1>4 DEF Patient, Fresh
<1>6. conn'.at = "read" => conn'.clock < CheckEvery + conn'.waited
  BY <1>2, <1>3, <1>4, <1>5 DEF Within
<1>7. CASE key' = No
  <2>1. Bound(conn') \in Nat /\ conn'.delay \in Nat
    BY <1>4, BoundIs, Numbers
  <2>2. conn'.after <= conn'.delay + Bound(conn')
    BY <1>4, <1>7, <2>1
  <2> QED
    BY <1>4, <1>5, <1>6, <1>7, <2>2 DEF Patient, Within
<1>8. CASE key' # No
  <2>1. conn'.after = conn.after + 1 /\ conn'.owed = conn.owed
    BY <1>4, <1>8
  <2>2. CASE conn.at # "read"
    <3>1. conn'.delay = conn.delay + 1 /\ conn'.clock >= conn.clock /\ conn'.clock \in Nat
      BY <1>2, <1>3, <1>4, <2>2
    <3>2. Bound(conn) <= Bound(conn') /\ Bound(conn) \in Nat /\ Bound(conn') \in Nat
      <4>1. CASE conn.owed = 0
        BY <1>2, <2>1, <4>1 DEF Bound
      <4>2. CASE conn.owed > 0
        BY <1>2, <2>1, <3>1, <4>2 DEF Bound
      <4> QED
        BY <1>2, <4>1, <4>2
    <3>3. conn'.after <= conn'.delay + Bound(conn')
      BY <1>2, <1>5, <2>1, <3>1, <3>2 DEF Within
    <3>4. conn'.owed = 0 => conn'.clock >= CheckEvery /\ conn'.at # "read"
      BY <1>2, <1>4, <1>5, <2>1, <3>1 DEF Within
    <3> QED
      BY <1>5, <1>6, <3>3, <3>4 DEF Patient, Within
  <2>3. CASE conn.at = "read"
    <3>1. /\ conn.owed > 0 /\ conn'.delay = conn.delay
          /\ conn'.clock = conn.clock + 1 /\ conn'.clock <= Interval
      BY <1>1, <1>2, <1>3, <1>4, <1>5, <2>3 DEF Within
    <3>2. Bound(conn') = Bound(conn) + 1 /\ Bound(conn) \in Nat
      BY <1>2, <2>1, <3>1 DEF Bound
    <3>3. conn'.after <= conn'.delay + Bound(conn')
      BY <1>2, <1>5, <2>1, <3>1, <3>2 DEF Within
    <3>4. conn'.owed # 0
      BY <1>2, <2>1, <3>1
    <3> QED
      BY <1>5, <1>6, <3>3, <3>4 DEF Patient, Within
  <2> QED
    BY <2>2, <2>3
<1> QED
  BY <1>7, <1>8

LEMMA PatienceStep ==
    ASSUME Counting, Pointers, Delivering, Patient, [Next]_vars
    PROVE  Patient'
<1>1. conn # Closed => conn \in Connections /\ Fresh /\ Within(conn)
  BY DEF Delivering, Connected, Patient
<1>2. ASSUME conn' = Closed PROVE Patient'
  BY <1>2 DEF Patient
<1>3. CASE UNCHANGED <<conn, key>>
  BY <1>3 DEF Patient, Fresh, Within, Bound
<1>4. CASE Connect
  <2>1. PICK owed : owed = IF key = No THEN 1 ELSE 0
    OBVIOUS
  <2>2. /\ conn' = [ at |-> "catchup", cursor |-> client.last, from |-> 0, batch |-> {},
                     clock |-> CheckEvery + Block, waited |-> 0, delay |-> 0,
                     after |-> 0, owed |-> owed ]
        /\ UNCHANGED key
    BY <1>4, <2>1 DEF Connect
  <2>3. CheckEvery \in Nat /\ Block \in Nat \ {0} /\ Interval \in Nat /\ Interval * 0 = 0
    BY NotificationsAssumption DEF Interval
  <2>4. Bound(conn') \in Nat
    BY <2>1, <2>2, <2>3 DEF Bound
  <2>5. Within(conn')
    BY <2>2, <2>3, <2>4 DEF Within
  <2>6. Fresh'
    BY <2>1, <2>2 DEF Fresh
  <2> QED
    BY <2>5, <2>6 DEF Patient
<1>5. CASE CatchUp
  <2>1. conn # Closed /\ UNCHANGED key
    BY <1>5 DEF CatchUp, Closed
  <2>2. /\ conn'.at # "read" /\ conn'.owed = conn.owed /\ conn'.after = conn.after
        /\ conn'.clock = conn.clock /\ conn'.delay = conn.delay
    BY <1>1, <1>5, <2>1 DEF CatchUp, Connections
  <2> QED
    BY <2>1, <2>2, Keeps
<1>6. CASE ReadLive
  <2>1. conn # Closed /\ UNCHANGED key
    BY <1>6 DEF ReadLive, Closed
  <2>2. /\ conn'.at # "read" /\ conn'.owed = conn.owed /\ conn'.after = conn.after
        /\ conn'.clock = conn.clock /\ conn'.delay = conn.delay
    BY <1>1, <1>6, <2>1 DEF ReadLive, Connections
  <2> QED
    BY <2>1, <2>2, Keeps
<1>7. CASE Push
  <2>1. conn # Closed /\ UNCHANGED key
    BY <1>7 DEF Push, Closed
  <2>2. PICK ids, answered : \/ PushAll(ids, answered)
                             \/ \E n \in 0 .. Len(ids) - 1 : PushSome(ids, n, answered)
    BY <1>7 DEF Push
  <2>3. CASE PushAll(ids, answered)
    <3>1. /\ conn'.at # "read" /\ conn'.owed = conn.owed /\ conn'.after = conn.after
          /\ conn'.clock = conn.clock /\ conn'.delay = conn.delay
      BY <1>1, <2>1, <2>3 DEF PushAll, Connections
    <3> QED
      BY <2>1, <3>1, Keeps
  <2> QED
    BY <1>2, <2>2, <2>3 DEF PushSome
<1>8. CASE Check
  <2>1. conn # Closed
    BY <1>8 DEF Check, Closed
  <2> QED
    BY <1>1, <1>2, <1>8, <2>1, CheckWithin
<1>9. CASE Break
  BY <1>2, <1>9 DEF Break
<1>10. CASE Revoke
  <2>1. UNCHANGED conn /\ (key' = No => key = No)
    BY <1>10 DEF Revoke, No
  <2> QED
    BY <2>1 DEF Patient, Fresh, Within, Bound
<1>11. CASE LoseKey
  <2>1. conn' = IF conn = Closed THEN conn ELSE Unkeyed(conn)
    BY <1>11 DEF LoseKey
  <2>2. CASE conn # Closed
    <3>1. /\ conn' \in Connections /\ conn'.at = conn.at /\ conn'.waited = conn.waited
          /\ conn'.clock = conn.clock /\ conn'.after = 0 /\ conn'.owed = 1
      BY <1>1, <2>1, <2>2, UnkeyedIs
    <3>2. conn'.delay \in Nat /\ Bound(conn') \in Nat
      BY <3>1, Numbers, BoundIs
    <3>3. Within(conn')
      BY <1>1, <2>2, <3>1, <3>2 DEF Within
    <3> QED
      BY <3>1, <3>3 DEF Patient, Fresh
  <2> QED
    BY <1>2, <2>1, <2>2
<1>12. CASE Tick
  <2>1. CASE conn # Closed
    BY <1>1, <1>12, <2>1, TickWithin
  <2>2. CASE conn = Closed
    BY <1>2, <1>12, <2>2 DEF Tick, Closed
  <2> QED
    BY <2>1, <2>2
<1> QED
  BY <1>3, <1>4, <1>5, <1>6, <1>7, <1>8, <1>9, <1>10, <1>11, <1>12, Writers

-----------------------------------------------------------------------------
(* The invariant, and what follows from it.                                *)

LEMMA InitInvariant == Init => IInv
<1> SUFFICES ASSUME Init PROVE IInv
  OBVIOUS
<1>1. KeyLife \in Nat /\ 0 \in Hours
  BY NotificationsAssumption
<1>2. Counting
  <2>1. Jobs
    BY DEF Init, Jobs, Carries, Idle
  <2>2. Tables
    BY <1>1 DEF Init, Tables
  <2>3. Exclusive /\ Answered
    BY DEF Init, Exclusive, Answered, Working, Idle
  <2>4. ASSUME NEW r \in Rows PROVE Mine(r) = {} /\ rows[r] = [actors |-> <<>>, count |-> 0]
    BY RowsApart DEF Init, Mine
  <2>5. Min({ActorCap, 0}) = 0
    BY NotificationsAssumption, MinOfTwo
  <2>6. ASSUME NEW r \in Rows PROVE IsFiniteSet(Mine(r)) /\ Counted(r)
    <3>1. Cardinality(Mine(r)) = 0 /\ IsFiniteSet(Mine(r))
      BY <2>4, FS_EmptySet
    <3>2. ToSet(<<>>) = {}
      BY DEF ToSet
    <3> QED
      BY <2>4, <2>5, <3>1, <3>2 DEF Counted
  <2> QED
    BY <2>1, <2>2, <2>3, <2>6 DEF Counting, FinitelyMany
<1>3. Pointers
  BY DEF Init, Pointers, Behind, Idle
<1>4. Delivering
  BY DEF Init, Delivering, Connected, Cursors, Fetched, DeliveredInOrder, Clients, Got
<1>5. ShownIsCurrent
  BY DEF Init, ShownIsCurrent
<1>6. Patient
  BY DEF Init, Patient
<1> QED
  BY <1>2, <1>3, <1>4, <1>5, <1>6 DEF IInv

LEMMA Invariance == IInv /\ [Next]_vars => IInv'
BY CountingStep, PointersStep, DeliveringStep, ShownStep, PatienceStep DEF IInv

LEMMA Invariant == Spec => []IInv
BY InitInvariant, Invariance, PTL DEF Spec

\* Whatever is delivered twice, by whichever consumer, and wherever a handler
\* fails, a row counts each of its events once and lists as many of their
\* actors as it may, and no event whose handler has returned is in no row, but
\* for the relation of the two users (the INSERT into processed_events and the
\* upsert in one transaction).
THEOREM CountsEventsCorrect == Spec => []CountsEvents
<1>1. IInv => CountsEvents
  BY DEF IInv, Counting, Counted, Mine, Answered, CountsEvents
<1> QED
  BY <1>1, Invariant, PTL

\* The row that is sent with an entry is at least as new as the event the
\* entry was added for: the pointer is published after the commit.
THEOREM ShownIsCurrentCorrect == Spec => []ShownIsCurrent
<1>1. IInv => ShownIsCurrent
  BY DEF IInv
<1> QED
  BY <1>1, Invariant, PTL

\* Across broken connections, lost frames, failed catch-ups and trims, a
\* client gets the entries from its first one on, once, in order and without
\* a gap but what was trimmed (the cursor of the session, catchUp, readLive).
THEOREM DeliveredInOrderCorrect == Spec => []DeliveredInOrder
<1>1. IInv => DeliveredInOrder
  BY DEF IInv, Delivering
<1> QED
  BY <1>1, Invariant, PTL

\* While the key of the revocation is there, a connection lives on for one
\* interval of checks and one for each that Redis did not answer, or only the
\* latter if it was opened beside the key, and for what it waits for elsewhere;
\* without the key it goes on (checkSession every SESSION_CHECK_MS, between
\* blocks of XREAD).
THEOREM RevokedStopsCorrect == Spec => []RevokedStops
<1>1. ASSUME IInv PROVE RevokedStops
  <2> SUFFICES ASSUME conn # Closed
               PROVE  conn.after <= Interval * conn.owed + conn.delay
    BY DEF RevokedStops, Interval
  <2>1. conn \in Connections /\ conn.after <= conn.delay + Bound(conn)
    BY <1>1 DEF IInv, Delivering, Connected, Patient, Within
  <2>2. Bound(conn) <= Interval * conn.owed /\ Bound(conn) \in Nat
    BY <2>1, BoundIs
  <2>3. Interval * conn.owed \in Nat /\ conn.delay \in Nat /\ conn.after \in Nat
    BY <2>1, Numbers
  <2> QED
    BY <2>1, <2>2, <2>3
<1> QED
  BY <1>1, Invariant, PTL
=============================================================================
