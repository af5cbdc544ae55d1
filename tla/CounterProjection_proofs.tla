----------------------- MODULE CounterProjection_proofs -----------------------
(***************************************************************************)
(* Proofs about CounterProjection, for any users, any batch of the         *)
(* reconciler and any bounds: the consumer alone shows too few followers   *)
(* or followings only by events it has not applied, and as long as nothing *)
(* goes wrong and nothing is removed silently it is exact.                 *)
(***************************************************************************)
EXTENDS CounterProjection, FiniteSetTheorems, TLAPS

\* The variables the counts depend on have their types, and there are only
\* finitely many follows and events not applied.
Counted ==
    /\ follows \subseteq Users \X Users /\ IsFiniteSet(follows)
    /\ topic \in [Users -> Seq(Event)] /\ aside \subseteq Event
    /\ IsFiniteSet(Unapplied)
    /\ followers \in [Users -> Nat] /\ following \in [Users -> Nat]
    /\ read \subseteq [followers : Nat, following : Nat]
    /\ changes \in Nat

\* An event is in one place once, in the partition of its followee, and is
\* numbered by the changes so far: a new one is no other again.
Distinct ==
    /\ \A u \in Users : IsInjective(topic[u])
    /\ \A u \in Users : \A e \in ToSet(topic[u]) : e.followee = u /\ e \notin aside
    /\ \A e \in Unapplied : e.id <= changes

IInv == Counted /\ Distinct /\ DriftIsUpward

-----------------------------------------------------------------------------
(* Queues.                                                                 *)

\* Taking the head of a queue without repetitions takes that one out.
LEMMA Dequeued ==
    ASSUME NEW S, NEW s \in Seq(S), s # <<>>, IsInjective(s)
    PROVE  /\ Head(s) \in ToSet(s) /\ Head(s) \in S
           /\ Tail(s) \in Seq(S) /\ IsInjective(Tail(s))
           /\ ToSet(Tail(s)) = ToSet(s) \ {Head(s)}
<1>1. /\ Len(s) \in Nat /\ Len(s) > 0 /\ Head(s) = s[1] /\ Tail(s) \in Seq(S)
      /\ DOMAIN s = 1 .. Len(s) /\ DOMAIN Tail(s) = 1 .. Len(s) - 1
      /\ \A i \in 1 .. Len(s) - 1 : Tail(s)[i] = s[i + 1]
  OBVIOUS
<1>2. IsInjective(Tail(s))
  BY <1>1 DEF IsInjective
<1>3. ASSUME NEW x \in ToSet(Tail(s)) PROVE x \in ToSet(s) \ {Head(s)}
  <2>1. PICK i \in 1 .. Len(s) - 1 : x = s[i + 1]
    BY <1>1, <1>3 DEF ToSet
  <2> QED
    BY <1>1, <2>1 DEF ToSet, IsInjective
<1>4. ASSUME NEW x \in ToSet(s) \ {Head(s)} PROVE x \in ToSet(Tail(s))
  <2>1. PICK i \in 1 .. Len(s) : x = s[i]
    BY <1>1, <1>4 DEF ToSet
  <2>2. i # 1 /\ i - 1 \in 1 .. Len(s) - 1 /\ s[i] = Tail(s)[i - 1]
    BY <1>1, <1>4, <2>1
  <2> QED
    BY <1>1, <2>1, <2>2 DEF ToSet
<1>5. Head(s) \in ToSet(s) /\ Head(s) \in S
  BY <1>1 DEF ToSet
<1> QED
  BY <1>1, <1>2, <1>3, <1>4, <1>5

\* A queue holds what it is a queue of.
LEMMA SequenceOf == \A S, s, x : s \in Seq(S) /\ x \in ToSet(s) => x \in S
BY DEF ToSet

\* Appending what is not there keeps a queue without repetitions.
LEMMA Enqueued ==
    ASSUME NEW S, NEW s \in Seq(S), NEW e \in S, IsInjective(s), e \notin ToSet(s)
    PROVE  /\ Append(s, e) \in Seq(S) /\ IsInjective(Append(s, e))
           /\ ToSet(Append(s, e)) = ToSet(s) \union {e}
<1>1. /\ Len(s) \in Nat /\ DOMAIN s = 1 .. Len(s)
      /\ Append(s, e) \in Seq(S) /\ DOMAIN Append(s, e) = 1 .. Len(s) + 1
      /\ \A i \in 1 .. Len(s) : Append(s, e)[i] = s[i]
      /\ Append(s, e)[Len(s) + 1] = e
  OBVIOUS
<1>2. IsInjective(Append(s, e))
  BY <1>1 DEF IsInjective, ToSet
<1>3. ASSUME NEW x \in ToSet(Append(s, e)) PROVE x \in ToSet(s) \union {e}
  <2>1. PICK i \in 1 .. Len(s) + 1 : x = Append(s, e)[i]
    BY <1>1, <1>3 DEF ToSet
  <2> QED
    BY <1>1, <2>1 DEF ToSet
<1>4. ASSUME NEW x \in ToSet(s) \union {e} PROVE x \in ToSet(Append(s, e))
  <2>1. CASE x = e
    BY <1>1, <2>1 DEF ToSet
  <2>2. ASSUME x \in ToSet(s) PROVE x \in ToSet(Append(s, e))
    <3>1. PICK i \in 1 .. Len(s) : x = s[i]
      BY <1>1, <2>2 DEF ToSet
    <3> QED
      BY <1>1, <3>1 DEF ToSet
  <2> QED
    BY <1>4, <2>1, <2>2
<1> QED
  BY <1>1, <1>2, <1>3, <1>4

-----------------------------------------------------------------------------
(* Sums of events.                                                         *)

\* An event more adds its delta.
LEMMA NetAdds ==
    ASSUME NEW S, IsFiniteSet(S), NEW e \in Event, e \notin S
    PROVE  Net(S) \in Int /\ Net(S \union {e}) = Net(S) + e.delta
<1> DEFINE Up(T) == {x \in T : x.delta = 1}
           Down(T) == {x \in T : x.delta = -1}
<1>1. /\ IsFiniteSet(Up(S)) /\ IsFiniteSet(Down(S))
      /\ Cardinality(Up(S)) \in Nat /\ Cardinality(Down(S)) \in Nat
  BY FS_Subset, FS_CardinalityType
<1>2. /\ Net(S) = Cardinality(Up(S)) - Cardinality(Down(S))
      /\ Net(S \union {e}) = Cardinality(Up(S \union {e})) - Cardinality(Down(S \union {e}))
  BY DEF Net
<1>3. CASE e.delta = 1
  <2>1. Up(S \union {e}) = Up(S) \union {e} /\ Down(S \union {e}) = Down(S)
    BY <1>3
  <2>2. Cardinality(Up(S) \union {e}) = Cardinality(Up(S)) + 1
    BY <1>1, FS_AddElement
  <2>3. /\ Cardinality(Up(S \union {e})) = Cardinality(Up(S)) + 1
        /\ Cardinality(Down(S \union {e})) = Cardinality(Down(S))
    BY ONLY <2>1, <2>2
  <2> HIDE DEF Up, Down
  <2> QED
    BY <1>1, <1>2, <1>3, <2>3
<1>4. CASE e.delta = -1
  <2>1. Up(S \union {e}) = Up(S) /\ Down(S \union {e}) = Down(S) \union {e}
    BY <1>4
  <2>2. Cardinality(Down(S) \union {e}) = Cardinality(Down(S)) + 1
    BY <1>1, FS_AddElement
  <2>3. /\ Cardinality(Up(S \union {e})) = Cardinality(Up(S))
        /\ Cardinality(Down(S \union {e})) = Cardinality(Down(S)) + 1
    BY ONLY <2>1, <2>2
  <2> HIDE DEF Up, Down
  <2> QED
    BY <1>1, <1>2, <1>4, <2>3
<1> QED
  BY <1>3, <1>4 DEF Event

\* What a set of events owes the two columns of a user.
ForFollowee(S, u) == Net({e \in S : e.followee = u})
ForFollower(S, u) == Net({e \in S : e.follower = u})

\* An event more counts for its followee and for its follower.
LEMMA OwedAdds ==
    ASSUME NEW S, IsFiniteSet(S), NEW e \in Event, e \notin S, NEW u
    PROVE  /\ ForFollowee(S, u) \in Int /\ ForFollower(S, u) \in Int
           /\ ForFollowee(S \union {e}, u)
                = ForFollowee(S, u) + (IF e.followee = u THEN e.delta ELSE 0)
           /\ ForFollower(S \union {e}, u)
                = ForFollower(S, u) + (IF e.follower = u THEN e.delta ELSE 0)
<1> DEFINE To(T) == {x \in T : x.followee = u}
           From(T) == {x \in T : x.follower = u}
<1>1. IsFiniteSet(To(S)) /\ IsFiniteSet(From(S)) /\ e \notin To(S) /\ e \notin From(S)
  BY FS_Subset
<1>2. /\ To(S \union {e}) = IF e.followee = u THEN To(S) \union {e} ELSE To(S)
      /\ From(S \union {e}) = IF e.follower = u THEN From(S) \union {e} ELSE From(S)
  OBVIOUS
<1> HIDE DEF To, From
<1>3. /\ Net(To(S)) \in Int /\ Net(From(S)) \in Int
      /\ Net(To(S) \union {e}) = Net(To(S)) + e.delta
      /\ Net(From(S) \union {e}) = Net(From(S)) + e.delta
  BY <1>1, NetAdds
<1>4. /\ Net(To(S \union {e})) = Net(To(S)) + (IF e.followee = u THEN e.delta ELSE 0)
      /\ Net(From(S \union {e})) = Net(From(S)) + (IF e.follower = u THEN e.delta ELSE 0)
  BY <1>2, <1>3
<1> QED
  BY <1>3, <1>4 DEF ForFollowee, ForFollower, To, From

\* The same, for what is owed now and after a step.
LEMMA OwedNow ==
    /\ \A u : FollowersOwed(u) = ForFollowee(Unapplied, u)
    /\ \A u : FollowingOwed(u) = ForFollower(Unapplied, u)
BY DEF FollowersOwed, FollowingOwed, ForFollowee, ForFollower

LEMMA OwedThen ==
    /\ \A u : FollowersOwed(u)' = ForFollowee(Unapplied', u)
    /\ \A u : FollowingOwed(u)' = ForFollower(Unapplied', u)
BY DEF FollowersOwed, FollowingOwed, ForFollowee, ForFollower

LEMMA OwedType ==
    ASSUME NEW S, IsFiniteSet(S)
    PROVE  \A u : ForFollowee(S, u) \in Int /\ ForFollower(S, u) \in Int
<1>1. ASSUME NEW T, T \subseteq S PROVE Net(T) \in Int
  BY <1>1, FS_Subset, FS_CardinalityType DEF Net
<1> QED
  BY <1>1 DEF ForFollowee, ForFollower

-----------------------------------------------------------------------------
(* What a step does to the events not applied.                               *)

\* What is not applied is aside or in the partition of its followee.
LEMMA Where ==
    /\ \A e : e \in Unapplied <=> e \in aside \/ \E u \in Users : e \in ToSet(topic[u])
    /\ \A e : e \in Unapplied' <=> e \in aside' \/ \E u \in Users : e \in ToSet(topic'[u])
BY DEF Unapplied

\* The events, their places and their numbers: the part of the invariant that
\* does not speak of the columns.
Flight ==
    /\ topic \in [Users -> Seq(Event)] /\ aside \subseteq Event
    /\ IsFiniteSet(Unapplied) /\ changes \in Nat
    /\ Distinct

\* A change of the graph adds one event, which was not there.
LEMMA EmitStep ==
    ASSUME Flight, NEW a \in Users, NEW b \in Users, NEW delta \in {1, -1},
           Emit(delta, a, b)
    PROVE  /\ Flight'
           /\ \E e \in Event : /\ e.delta = delta /\ e.follower = a /\ e.followee = b
                               /\ e \notin Unapplied /\ Unapplied' = Unapplied \union {e}
<1> DEFINE e == [id |-> changes + 1, delta |-> delta, follower |-> a, followee |-> b]
<1>1. e \in Event /\ changes' = changes + 1 /\ changes' \in Nat
  BY CounterAssumption DEF Flight, Emit, Event
<1>2. e.id = changes + 1 /\ e.delta = delta /\ e.follower = a /\ e.followee = b
  OBVIOUS
<1>3. e \notin Unapplied /\ e \notin aside /\ e \notin ToSet(topic[b])
  <2>1. e \notin Unapplied
    BY <1>2 DEF Flight, Distinct
  <2> QED
    BY <2>1, Where
<1>4. topic' = [topic EXCEPT ![b] = Append(topic[b], e)] /\ aside' = aside
  BY <1>1 DEF Emit
<1> HIDE DEF e
<1>5. topic[b] \in Seq(Event) /\ IsInjective(topic[b])
  BY DEF Flight, Distinct
<1>6. /\ Append(topic[b], e) \in Seq(Event) /\ IsInjective(Append(topic[b], e))
      /\ ToSet(Append(topic[b], e)) = ToSet(topic[b]) \union {e}
  BY <1>1, <1>3, <1>5, Enqueued
<1>7. /\ topic' \in [Users -> Seq(Event)]
      /\ topic'[b] = Append(topic[b], e)
      /\ \A u \in Users : u # b => topic'[u] = topic[u]
  BY <1>4, <1>6 DEF Flight
<1>8. Unapplied' = Unapplied \union {e}
  BY <1>4, <1>6, <1>7, Where
<1>9. IsFiniteSet(Unapplied')
  BY <1>8, FS_AddElement DEF Flight
<1>10. \A u \in Users : IsInjective(topic'[u])
  BY <1>6, <1>7 DEF Flight, Distinct
<1>11. \A u \in Users : \A x \in ToSet(topic'[u]) : x.followee = u /\ x \notin aside'
  BY <1>2, <1>3, <1>4, <1>6, <1>7 DEF Flight, Distinct
<1>12. \A x \in Unapplied' : x.id <= changes'
  <2>1. \A x \in Unapplied : x \in Event
    BY Where, SequenceOf DEF Flight
  <2>2. \A x \in Unapplied : x.id <= changes /\ x.id \in Nat
    BY <2>1, CounterAssumption DEF Flight, Distinct, Event
  <2> QED
    BY <1>1, <1>2, <1>8, <2>2 DEF Flight
<1> QED
  BY <1>1, <1>2, <1>3, <1>4, <1>7, <1>8, <1>9, <1>10, <1>11, <1>12 DEF Flight, Distinct

\* An event that leaves its partition leaves the others in place: handled, it
\* is not applied no more, failed, it is aside.
LEMMA DequeueStep ==
    ASSUME Flight, NEW u \in Users, topic[u] # <<>>, UNCHANGED changes,
           topic' = [topic EXCEPT ![u] = Tail(@)]
    PROVE  LET e == Head(topic[u])
           IN  /\ e \in Event
               /\ aside' = aside =>
                    Flight' /\ e \notin Unapplied' /\ Unapplied = Unapplied' \union {e}
               /\ aside' = aside \union {e} => Flight' /\ Unapplied' = Unapplied
<1> DEFINE e == Head(topic[u])
<1>1. topic[u] \in Seq(Event) /\ IsInjective(topic[u])
  BY DEF Flight, Distinct
<1>2. /\ e \in ToSet(topic[u]) /\ e \in Event
      /\ Tail(topic[u]) \in Seq(Event) /\ IsInjective(Tail(topic[u]))
      /\ ToSet(Tail(topic[u])) = ToSet(topic[u]) \ {e}
  BY <1>1, Dequeued
<1>3. /\ topic' \in [Users -> Seq(Event)] /\ topic'[u] = Tail(topic[u])
      /\ \A v \in Users : v # u => topic'[v] = topic[v]
  BY <1>2 DEF Flight
<1> HIDE DEF e
<1>4. e.followee = u /\ e \notin aside /\ \A v \in Users : e \notin ToSet(topic'[v])
  BY <1>2, <1>3 DEF Flight, Distinct
<1>5. /\ \A v \in Users : IsInjective(topic'[v])
      /\ \A v \in Users : \A x \in ToSet(topic'[v]) : x.followee = v /\ x \notin aside
  BY <1>2, <1>3 DEF Flight, Distinct
<1>6. ASSUME aside' = aside
      PROVE  Flight' /\ e \notin Unapplied' /\ Unapplied = Unapplied' \union {e}
  <2>1. e \notin Unapplied' /\ Unapplied = Unapplied' \union {e}
    BY <1>2, <1>3, <1>4, <1>6, Where
  <2>2. IsFiniteSet(Unapplied')
    BY <2>1, FS_Subset DEF Flight
  <2>3. \A x \in Unapplied' : x.id <= changes'
    BY <2>1 DEF Flight, Distinct
  <2> QED
    BY <1>3, <1>5, <1>6, <2>1, <2>2, <2>3 DEF Flight, Distinct
<1>7. ASSUME aside' = aside \union {e} PROVE Flight' /\ Unapplied' = Unapplied
  <2>1. Unapplied' = Unapplied
    <3>1. \A v \in Users : ToSet(topic'[v]) = ToSet(topic[v]) \ {e}
      BY <1>2, <1>3, <1>4 DEF Flight, Distinct
    <3>2. \A x : x \in Unapplied => x \in Unapplied'
      BY <1>7, <3>1, Where
    <3>3. \A x : x \in Unapplied' => x \in Unapplied
      BY <1>2, <1>7, <3>1, Where
    <3> QED
      BY <3>2, <3>3
  <2>2. \A v \in Users : \A x \in ToSet(topic'[v]) : x \notin aside'
    BY <1>4, <1>5, <1>7
  <2>3. \A x \in Unapplied' : x.id <= changes'
    BY <2>1 DEF Flight, Distinct
  <2> QED
    BY <1>2, <1>3, <1>5, <1>7, <2>1, <2>2, <2>3 DEF Flight, Distinct
<1> QED
  BY <1>2, <1>6, <1>7 DEF e

\* An event that comes from aside is not applied no more.
LEMMA RetryStep ==
    ASSUME Flight, NEW e \in aside, aside' = aside \ {e}, UNCHANGED <<topic, changes>>
    PROVE  e \in Event /\ Flight' /\ e \notin Unapplied' /\ Unapplied = Unapplied' \union {e}
<1>1. e \in Event /\ \A v \in Users : e \notin ToSet(topic[v])
  BY DEF Flight, Distinct
<1>2. e \notin Unapplied' /\ Unapplied = Unapplied' \union {e}
  BY <1>1, Where
<1>3. IsFiniteSet(Unapplied')
  BY <1>2, FS_Subset DEF Flight
<1> QED
  BY <1>1, <1>2, <1>3 DEF Flight, Distinct

-----------------------------------------------------------------------------
(* What a step does to the columns.                                        *)

\* A change of a column by an event is what the event says, or the column is
\* clamped at none, which is more.
LEMMA Bumped ==
    ASSUME NEW column \in [Users -> Nat], NEW u \in Users, NEW delta \in {1, -1}
    PROVE  /\ Bump(column, u, delta) \in [Users -> Nat]
           /\ u \notin erased => Bump(column, u, delta)[u] >= column[u] + delta
           /\ \A v \in Users : v # u => Bump(column, u, delta)[v] = column[v]
<1>1. column[u] \in Nat
  OBVIOUS
<1>2. CASE u \in erased
  BY <1>2 DEF Bump
<1>3. CASE u \notin erased /\ column[u] + delta < 0
  BY <1>1, <1>3 DEF Bump
<1>4. CASE u \notin erased /\ ~(column[u] + delta < 0)
  <2>1. column[u] + delta \in Nat
    BY <1>1, <1>4
  <2>2. Bump(column, u, delta) = [column EXCEPT ![u] = column[u] + delta]
    BY <1>4 DEF Bump
  <2> QED
    BY <1>1, <2>1, <2>2
<1> QED
  BY <1>2, <1>3, <1>4

\* The truth about a user.
LEMMA Counts ==
    ASSUME IsFiniteSet(follows)
    PROVE  \A u : FollowersOf(u) \in Nat /\ FollowingOf(u) \in Nat
BY FS_Subset, FS_CardinalityType DEF FollowersOf, FollowingOf

\* Fewer follows are fewer followers and followings.
LEMMA Fewer ==
    ASSUME IsFiniteSet(follows), follows' \subseteq follows
    PROVE  /\ IsFiniteSet(follows')
           /\ \A u : /\ FollowersOf(u)' \in Nat /\ FollowersOf(u)' <= FollowersOf(u)
                     /\ FollowingOf(u)' \in Nat /\ FollowingOf(u)' <= FollowingOf(u)
<1>1. IsFiniteSet(follows')
  BY FS_Subset
<1>2. ASSUME NEW u
      PROVE  /\ FollowersOf(u)' \in Nat /\ FollowersOf(u)' <= FollowersOf(u)
             /\ FollowingOf(u)' \in Nat /\ FollowingOf(u)' <= FollowingOf(u)
  <2>1. /\ IsFiniteSet({f \in follows : f[2] = u}) /\ IsFiniteSet({f \in follows : f[1] = u})
        /\ {f \in follows' : f[2] = u} \subseteq {f \in follows : f[2] = u}
        /\ {f \in follows' : f[1] = u} \subseteq {f \in follows : f[1] = u}
    BY FS_Subset
  <2>2. /\ Cardinality({f \in follows' : f[2] = u}) \in Nat
        /\ Cardinality({f \in follows' : f[1] = u}) \in Nat
    BY <1>1, FS_Subset, FS_CardinalityType
  <2>3. /\ Cardinality({f \in follows' : f[2] = u}) <= Cardinality({f \in follows : f[2] = u})
        /\ Cardinality({f \in follows' : f[1] = u}) <= Cardinality({f \in follows : f[1] = u})
    BY <2>1, FS_Subset
  <2> QED
    BY <2>2, <2>3 DEF FollowersOf, FollowingOf
<1> QED
  BY <1>1, <1>2

\* How many follows of a set end at a user, and begin there.
Arriving(S, u) == Cardinality({f \in S : f[2] = u})
Leaving(S, u) == Cardinality({f \in S : f[1] = u})

\* A follow more is one more of each; a follow less is one less of each.
LEMMA OneMore ==
    ASSUME NEW S, IsFiniteSet(S), NEW a, NEW b, <<a, b>> \notin S, NEW u,
           NEW T, T = S \union {<<a, b>>}
    PROVE  /\ Arriving(T, u) = Arriving(S, u) + (IF u = b THEN 1 ELSE 0)
           /\ Leaving(T, u) = Leaving(S, u) + (IF u = a THEN 1 ELSE 0)
<1> DEFINE To(X) == {f \in X : f[2] = u}
           From(X) == {f \in X : f[1] = u}
<1>1. /\ IsFiniteSet(To(S)) /\ IsFiniteSet(From(S))
      /\ Cardinality(To(S)) \in Nat /\ Cardinality(From(S)) \in Nat
      /\ <<a, b>> \notin To(S) /\ <<a, b>> \notin From(S)
  BY FS_Subset, FS_CardinalityType
<1>2. /\ To(T) = IF u = b THEN To(S) \union {<<a, b>>} ELSE To(S)
      /\ From(T) = IF u = a THEN From(S) \union {<<a, b>>} ELSE From(S)
  OBVIOUS
<1>3. /\ Cardinality(To(S) \union {<<a, b>>}) = Cardinality(To(S)) + 1
      /\ Cardinality(From(S) \union {<<a, b>>}) = Cardinality(From(S)) + 1
  BY <1>1, FS_AddElement
<1>4. Cardinality(To(T)) = Cardinality(To(S)) + (IF u = b THEN 1 ELSE 0)
  <2> HIDE DEF To
  <2>1. CASE u = b
    BY <1>2, <1>3, <2>1
  <2>2. CASE u # b
    BY <1>1, <1>2, <2>2
  <2> QED
    BY <2>1, <2>2
<1>5. Cardinality(From(T)) = Cardinality(From(S)) + (IF u = a THEN 1 ELSE 0)
  <2> HIDE DEF From
  <2>1. CASE u = a
    BY <1>2, <1>3, <2>1
  <2>2. CASE u # a
    BY <1>1, <1>2, <2>2
  <2> QED
    BY <2>1, <2>2
<1> QED
  BY <1>4, <1>5 DEF Arriving, Leaving

-----------------------------------------------------------------------------
(* The invariant, action by action.                                        *)

\* Follow: one more owed and one more in truth, for both users.
LEMMA FollowStep ==
    ASSUME IInv, NEW a \in Users, NEW b \in Users, Follow(a, b)
    PROVE  IInv'
<1>1. Flight /\ IsFiniteSet(follows)
  BY DEF IInv, Counted, Flight
<1>2. /\ <<a, b>> \notin follows /\ follows' = follows \union {<<a, b>>} /\ Emit(1, a, b)
      /\ UNCHANGED <<aside, followers, following, erased, read, repaired>>
  BY DEF Follow, Emit, columns, job
<1>3. /\ Flight'
      /\ \E e \in Event : /\ e.delta = 1 /\ e.follower = a /\ e.followee = b
                          /\ e \notin Unapplied /\ Unapplied' = Unapplied \union {e}
  BY <1>1, <1>2, EmitStep
<1>4. PICK e \in Event : /\ e.delta = 1 /\ e.follower = a /\ e.followee = b
                         /\ e \notin Unapplied /\ Unapplied' = Unapplied \union {e}
  BY <1>3
<1>5. IsFiniteSet(follows') /\ follows' \subseteq Users \X Users
  <2>1. IsFiniteSet(follows')
    BY <1>1, <1>2, FS_AddElement
  <2> QED
    BY <1>2, <2>1 DEF IInv, Counted
<1>6. ASSUME ~repaired, NEW u \in Users \ erased
      PROVE  /\ followers[u] + FollowersOwed(u)' >= FollowersOf(u)'
             /\ following[u] + FollowingOwed(u)' >= FollowingOf(u)'
  <2>1. /\ FollowersOwed(u) \in Int /\ FollowingOwed(u) \in Int
        /\ FollowersOwed(u)' = FollowersOwed(u) + (IF e.followee = u THEN e.delta ELSE 0)
        /\ FollowingOwed(u)' = FollowingOwed(u) + (IF e.follower = u THEN e.delta ELSE 0)
    BY <1>1, <1>4, OwedAdds, OwedNow, OwedThen DEF Flight
  <2>2. /\ FollowersOf(u)' = FollowersOf(u) + (IF u = b THEN 1 ELSE 0)
        /\ FollowingOf(u)' = FollowingOf(u) + (IF u = a THEN 1 ELSE 0)
    <3>1. /\ Arriving(follows', u) = Arriving(follows, u) + (IF u = b THEN 1 ELSE 0)
          /\ Leaving(follows', u) = Leaving(follows, u) + (IF u = a THEN 1 ELSE 0)
      BY <1>1, <1>2, OneMore
    <3> QED
      BY <3>1 DEF Arriving, Leaving, FollowersOf, FollowingOf
  <2>3. /\ FollowersOf(u) \in Nat /\ FollowingOf(u) \in Nat
        /\ followers[u] \in Nat /\ following[u] \in Nat
    BY <1>1, Counts DEF IInv, Counted
  <2>4. /\ followers[u] + FollowersOwed(u) >= FollowersOf(u)
        /\ following[u] + FollowingOwed(u) >= FollowingOf(u)
    BY <1>6 DEF IInv, DriftIsUpward
  <2> QED
    BY <1>4, <2>1, <2>2, <2>3, <2>4
<1>7. DriftIsUpward'
  BY <1>2, <1>6 DEF DriftIsUpward
<1> QED
  BY <1>2, <1>3, <1>5, <1>7 DEF IInv, Counted, Flight

\* Unfollow: one less of each.
LEMMA UnfollowStep ==
    ASSUME IInv, NEW a \in Users, NEW b \in Users, Unfollow(a, b)
    PROVE  IInv'
<1>1. Flight /\ IsFiniteSet(follows)
  BY DEF IInv, Counted, Flight
<1>2. /\ <<a, b>> \in follows /\ follows' = follows \ {<<a, b>>} /\ Emit(-1, a, b)
      /\ UNCHANGED <<aside, followers, following, erased, read, repaired>>
  BY DEF Unfollow, Emit, columns, job
<1>3. /\ Flight'
      /\ \E e \in Event : /\ e.delta = -1 /\ e.follower = a /\ e.followee = b
                          /\ e \notin Unapplied /\ Unapplied' = Unapplied \union {e}
  BY <1>1, <1>2, EmitStep
<1>4. PICK e \in Event : /\ e.delta = -1 /\ e.follower = a /\ e.followee = b
                         /\ e \notin Unapplied /\ Unapplied' = Unapplied \union {e}
  BY <1>3
<1>5. IsFiniteSet(follows') /\ follows' \subseteq Users \X Users
  BY <1>1, <1>2, FS_Subset DEF IInv, Counted
<1>6. ASSUME ~repaired, NEW u \in Users \ erased
      PROVE  /\ followers[u] + FollowersOwed(u)' >= FollowersOf(u)'
             /\ following[u] + FollowingOwed(u)' >= FollowingOf(u)'
  <2>1. /\ FollowersOwed(u) \in Int /\ FollowingOwed(u) \in Int
        /\ FollowersOwed(u)' = FollowersOwed(u) + (IF e.followee = u THEN e.delta ELSE 0)
        /\ FollowingOwed(u)' = FollowingOwed(u) + (IF e.follower = u THEN e.delta ELSE 0)
    BY <1>1, <1>4, OwedAdds, OwedNow, OwedThen DEF Flight
  <2>2. /\ FollowersOf(u) = FollowersOf(u)' + (IF u = b THEN 1 ELSE 0)
        /\ FollowingOf(u) = FollowingOf(u)' + (IF u = a THEN 1 ELSE 0)
    <3>1. follows = follows' \union {<<a, b>>} /\ <<a, b>> \notin follows'
      BY <1>2
    <3>2. /\ Arriving(follows, u) = Arriving(follows', u) + (IF u = b THEN 1 ELSE 0)
          /\ Leaving(follows, u) = Leaving(follows', u) + (IF u = a THEN 1 ELSE 0)
      BY <1>5, <3>1, OneMore
    <3> QED
      BY <3>2 DEF Arriving, Leaving, FollowersOf, FollowingOf
  <2>3. /\ FollowersOf(u)' \in Nat /\ FollowingOf(u)' \in Nat
        /\ followers[u] \in Nat /\ following[u] \in Nat
    BY <1>1, <1>2, Fewer DEF IInv, Counted
  <2>4. /\ followers[u] + FollowersOwed(u) >= FollowersOf(u)
        /\ following[u] + FollowingOwed(u) >= FollowingOf(u)
    BY <1>6 DEF IInv, DriftIsUpward
  <2> QED
    BY <1>4, <2>1, <2>2, <2>3, <2>4
<1>7. DriftIsUpward'
  BY <1>2, <1>6 DEF DriftIsUpward
<1> QED
  BY <1>2, <1>3, <1>5, <1>7 DEF IInv, Counted, Flight

\* A request of a follower is accepted: one more owed and the truth as it was.
LEMMA AcceptStep ==
    ASSUME IInv, NEW a \in Users, NEW b \in Users, AcceptFollower(a, b)
    PROVE  IInv'
<1>1. Flight /\ IsFiniteSet(follows)
  BY DEF IInv, Counted, Flight
<1>2. /\ Emit(1, a, b)
      /\ UNCHANGED <<follows, aside, followers, following, erased, read, repaired>>
  BY DEF AcceptFollower, Emit, columns, job
<1>3. /\ Flight'
      /\ \E e \in Event : /\ e.delta = 1 /\ e.follower = a /\ e.followee = b
                          /\ e \notin Unapplied /\ Unapplied' = Unapplied \union {e}
  BY <1>1, <1>2, EmitStep
<1>4. PICK e \in Event : /\ e.delta = 1 /\ e.follower = a /\ e.followee = b
                         /\ e \notin Unapplied /\ Unapplied' = Unapplied \union {e}
  BY <1>3
<1>5. ASSUME ~repaired, NEW u \in Users \ erased
      PROVE  /\ followers[u] + FollowersOwed(u)' >= FollowersOf(u)'
             /\ following[u] + FollowingOwed(u)' >= FollowingOf(u)'
  <2>1. /\ FollowersOwed(u) \in Int /\ FollowingOwed(u) \in Int
        /\ FollowersOwed(u)' = FollowersOwed(u) + (IF e.followee = u THEN e.delta ELSE 0)
        /\ FollowingOwed(u)' = FollowingOwed(u) + (IF e.follower = u THEN e.delta ELSE 0)
    BY <1>1, <1>4, OwedAdds, OwedNow, OwedThen DEF Flight
  <2>2. FollowersOf(u)' = FollowersOf(u) /\ FollowingOf(u)' = FollowingOf(u)
    BY <1>2 DEF FollowersOf, FollowingOf
  <2>3. /\ FollowersOf(u) \in Nat /\ FollowingOf(u) \in Nat
        /\ followers[u] \in Nat /\ following[u] \in Nat
    BY <1>1, Counts DEF IInv, Counted
  <2>4. /\ followers[u] + FollowersOwed(u) >= FollowersOf(u)
        /\ following[u] + FollowingOwed(u) >= FollowingOf(u)
    BY <1>5 DEF IInv, DriftIsUpward
  <2> QED
    BY <1>4, <2>1, <2>2, <2>3, <2>4
<1>6. DriftIsUpward'
  BY <1>2, <1>5 DEF DriftIsUpward
<1> QED
  BY <1>1, <1>2, <1>3, <1>6 DEF IInv, Counted, Flight

\* A removal without an event: less in truth, the rest as it was.
LEMMA SilentStep ==
    ASSUME IInv, NEW S, RemoveSilently(S)
    PROVE  IInv'
<1>1. IsFiniteSet(follows) /\ follows' \subseteq follows
  BY DEF IInv, Counted, RemoveSilently
<1>2. UNCHANGED <<topic, aside, followers, following, erased, read, changes, repaired>>
  BY DEF RemoveSilently, columns, job
<1>3. UNCHANGED Unapplied
  BY <1>2 DEF Unapplied
<1>4. ASSUME ~repaired, NEW u \in Users \ erased
      PROVE  /\ followers[u] + FollowersOwed(u)' >= FollowersOf(u)'
             /\ following[u] + FollowingOwed(u)' >= FollowingOf(u)'
  <2>1. /\ FollowersOwed(u)' = FollowersOwed(u) /\ FollowingOwed(u)' = FollowingOwed(u)
    BY <1>3, OwedNow, OwedThen
  <2>2. FollowersOwed(u) \in Int /\ FollowingOwed(u) \in Int
    BY OwedType, OwedNow DEF IInv, Counted
  <2>3. /\ FollowersOf(u)' \in Nat /\ FollowersOf(u)' <= FollowersOf(u)
        /\ FollowingOf(u)' \in Nat /\ FollowingOf(u)' <= FollowingOf(u)
        /\ FollowersOf(u) \in Nat /\ FollowingOf(u) \in Nat
        /\ followers[u] \in Nat /\ following[u] \in Nat
    BY <1>1, Fewer, Counts DEF IInv, Counted
  <2>4. /\ followers[u] + FollowersOwed(u) >= FollowersOf(u)
        /\ following[u] + FollowingOwed(u) >= FollowingOf(u)
    BY <1>4 DEF IInv, DriftIsUpward
  <2> QED
    BY <2>1, <2>2, <2>3, <2>4
<1>5. DriftIsUpward'
  BY <1>2, <1>4 DEF DriftIsUpward
<1>6. IsFiniteSet(follows')
  BY <1>1, Fewer
<1> QED
  BY <1>1, <1>2, <1>3, <1>5, <1>6 DEF IInv, Counted, Distinct

\* An event is handled: what was owed is in the columns.
LEMMA ApplyStep ==
    ASSUME IInv, Flight', NEW e \in Event, Apply(e), e \notin Unapplied',
           Unapplied = Unapplied' \union {e}, UNCHANGED <<follows, erased, read, repaired>>
    PROVE  IInv'
<1>1. /\ e.follower \in Users /\ e.followee \in Users /\ e.delta \in {1, -1}
      /\ followers \in [Users -> Nat] /\ following \in [Users -> Nat]
  BY DEF Event, IInv, Counted
<1>2. following' = Bump(following, e.follower, e.delta)
  BY DEF Apply
<1>3. followers' = Bump(followers, e.followee, e.delta)
  BY DEF Apply
<1>4. followers' \in [Users -> Nat] /\ following' \in [Users -> Nat]
  BY <1>1, <1>2, <1>3, Bumped
<1>5. ASSUME ~repaired, NEW u \in Users \ erased
      PROVE  /\ followers'[u] + FollowersOwed(u)' >= FollowersOf(u)
             /\ following'[u] + FollowingOwed(u)' >= FollowingOf(u)
  <2>1. /\ FollowersOwed(u)' \in Int /\ FollowingOwed(u)' \in Int
        /\ FollowersOwed(u) = FollowersOwed(u)' + (IF e.followee = u THEN e.delta ELSE 0)
        /\ FollowingOwed(u) = FollowingOwed(u)' + (IF e.follower = u THEN e.delta ELSE 0)
    BY OwedAdds, OwedNow, OwedThen DEF Flight
  <2>2. followers'[u] >= followers[u] + (IF e.followee = u THEN e.delta ELSE 0)
    BY <1>1, <1>3, Bumped
  <2>3. following'[u] >= following[u] + (IF e.follower = u THEN e.delta ELSE 0)
    BY <1>1, <1>2, Bumped
  <2>4. /\ FollowersOf(u) \in Nat /\ FollowingOf(u) \in Nat
        /\ followers[u] \in Nat /\ following[u] \in Nat
        /\ followers'[u] \in Nat /\ following'[u] \in Nat
    BY <1>4, Counts DEF IInv, Counted
  <2>5. /\ followers[u] + FollowersOwed(u) >= FollowersOf(u)
        /\ following[u] + FollowingOwed(u) >= FollowingOf(u)
    BY <1>5 DEF IInv, DriftIsUpward
  <2> QED
    BY <1>1, <2>1, <2>2, <2>3, <2>4, <2>5
<1>6. DriftIsUpward'
  BY <1>5 DEF DriftIsUpward, FollowersOf, FollowingOf
<1> QED
  BY <1>4, <1>6 DEF IInv, Counted, Flight

\* A step that leaves the follows, the events not applied and the columns of
\* everybody who is not erased.
LEMMA QuietStep ==
    ASSUME IInv, Flight', UNCHANGED <<follows, Unapplied>>, erased \subseteq erased',
           repaired => repaired',
           followers' \in [Users -> Nat], following' \in [Users -> Nat],
           read' \subseteq [followers : Nat, following : Nat],
           ~repaired' => \A u \in Users \ erased' :
                            followers'[u] = followers[u] /\ following'[u] = following[u]
    PROVE  IInv'
<1>1. ASSUME ~repaired', NEW u \in Users \ erased'
      PROVE  /\ followers'[u] + FollowersOwed(u)' >= FollowersOf(u)'
             /\ following'[u] + FollowingOwed(u)' >= FollowingOf(u)'
  <2>1. FollowersOwed(u)' = FollowersOwed(u) /\ FollowingOwed(u)' = FollowingOwed(u)
    BY OwedNow, OwedThen
  <2>2. FollowersOf(u)' = FollowersOf(u) /\ FollowingOf(u)' = FollowingOf(u)
    BY DEF FollowersOf, FollowingOf
  <2>3. /\ followers[u] + FollowersOwed(u) >= FollowersOf(u)
        /\ following[u] + FollowingOwed(u) >= FollowingOf(u)
    BY <1>1 DEF IInv, DriftIsUpward
  <2> QED
    BY <1>1, <2>1, <2>2, <2>3
<1>2. DriftIsUpward'
  BY <1>1 DEF DriftIsUpward
<1> QED
  BY <1>2 DEF IInv, Counted, Flight

LEMMA InitInv == Init => IInv
<1> SUFFICES ASSUME Init PROVE IInv
  OBVIOUS
<1>1. \A u \in Users : ToSet(topic[u]) = {} /\ IsInjective(topic[u]) /\ topic[u] \in Seq(Event)
  BY DEF Init, ToSet, IsInjective
<1>2. Unapplied = {} /\ IsFiniteSet(Unapplied) /\ IsFiniteSet(follows)
  BY <1>1, FS_EmptySet DEF Init, Unapplied
<1>3. Counted
  BY <1>1, <1>2 DEF Init, Counted
<1>4. Distinct
  BY <1>1, <1>2 DEF Distinct
<1>5. \A u : FollowersOf(u) = 0 /\ FollowingOf(u) = 0
  BY FS_EmptySet DEF Init, FollowersOf, FollowingOf
<1>6. \A u : FollowersOwed(u) = 0 /\ FollowingOwed(u) = 0
  BY <1>2, FS_EmptySet DEF FollowersOwed, FollowingOwed, Net
<1>7. DriftIsUpward
  BY <1>5, <1>6 DEF Init, DriftIsUpward
<1> QED
  BY <1>3, <1>4, <1>7 DEF IInv

LEMMA Invariance == IInv /\ [Next]_vars => IInv'
<1> SUFFICES ASSUME IInv, [Next]_vars PROVE IInv'
  OBVIOUS
<1>0. Flight
  BY DEF IInv, Counted, Flight
<1>1. ASSUME NEW a \in Users, NEW b \in Users, Follow(a, b) PROVE IInv'
  BY <1>1, FollowStep
<1>2. ASSUME NEW a \in Users, NEW b \in Users, Unfollow(a, b) PROVE IInv'
  BY <1>2, UnfollowStep
<1>3. ASSUME NEW a \in Users, NEW b \in Users, Block(a, b) PROVE IInv'
  BY <1>3, SilentStep DEF Block
<1>4. ASSUME NEW u \in Users, Cascade(u) PROVE IInv'
  BY <1>4, SilentStep DEF Cascade
<1>5. ASSUME NEW u \in Users, Handle(u) PROVE IInv'
  <2>1. /\ topic[u] # <<>> /\ topic' = [topic EXCEPT ![u] = Tail(@)] /\ Apply(Head(topic[u]))
        /\ UNCHANGED <<follows, aside, erased, read, changes, repaired>>
    BY <1>5 DEF Handle, job
  <2>2. /\ Head(topic[u]) \in Event /\ Flight'
        /\ Head(topic[u]) \notin Unapplied' /\ Unapplied = Unapplied' \union {Head(topic[u])}
    BY <1>0, <2>1, DequeueStep
  <2> QED
    BY <2>1, <2>2, ApplyStep
<1>6. ASSUME NEW u \in Users, PutAside(u) PROVE IInv'
  <2>1. /\ topic[u] # <<>> /\ topic' = [topic EXCEPT ![u] = Tail(@)]
        /\ aside' = aside \union {Head(topic[u])}
        /\ UNCHANGED <<follows, followers, following, erased, read, changes, repaired>>
    BY <1>6 DEF PutAside, job, columns
  <2>2. Flight' /\ UNCHANGED Unapplied
    BY <1>0, <2>1, DequeueStep
  <2> QED
    BY <2>1, <2>2, QuietStep DEF IInv, Counted
<1>7. ASSUME NEW e \in aside, HandleAside(e) PROVE IInv'
  <2>1. /\ aside' = aside \ {e} /\ Apply(e)
        /\ UNCHANGED <<follows, topic, erased, read, changes, repaired>>
    BY <1>7 DEF HandleAside, job, source
  <2>2. e \in Event /\ Flight' /\ e \notin Unapplied' /\ Unapplied = Unapplied' \union {e}
    BY <1>0, <2>1, RetryStep
  <2> QED
    BY <2>1, <2>2, ApplyStep
<1>8. ASSUME UNCHANGED <<source, aside, changes>> PROVE Flight' /\ UNCHANGED <<follows, Unapplied>>
  BY <1>0, <1>8 DEF Flight, Distinct, Unapplied, source
<1>13. ASSUME NEW a \in Users, NEW b \in Users, AcceptFollower(a, b) PROVE IInv'
  BY <1>13, AcceptStep
<1>14. ASSUME NEW e \in aside, GiveUp(e) \/ Redrive(e) PROVE IInv'
  <2>1. UNCHANGED <<source, aside, changes, followers, following, erased, read, repaired>>
    BY <1>14 DEF GiveUp, Redrive, columns, job
  <2>2. Flight' /\ UNCHANGED <<follows, Unapplied>>
    BY <1>8, <2>1
  <2> QED
    BY <2>1, <2>2, QuietStep DEF IInv, Counted
<1>9. ASSUME NEW u \in Users, Erase(u) PROVE IInv'
  <2>1. /\ followers' \in [Users -> Nat] /\ following' \in [Users -> Nat]
        /\ \A v \in Users \ {u} : followers'[v] = followers[v] /\ following'[v] = following[v]
    BY <1>9 DEF Erase, IInv, Counted
  <2>2. Flight' /\ UNCHANGED <<follows, Unapplied>>
    BY <1>8, <1>9 DEF Erase
  <2> QED
    BY <1>9, <2>1, <2>2, QuietStep DEF Erase, job, IInv, Counted
<1>10. CASE StartBatch \/ SkipUser \/ UNCHANGED vars
  <2>1. Flight' /\ UNCHANGED <<follows, Unapplied>>
    BY <1>8, <1>10 DEF StartBatch, SkipUser, vars
  <2>2. UNCHANGED <<followers, following, erased, repaired>> /\ read' \in {read, {}}
    BY <1>10 DEF StartBatch, SkipUser, vars, columns, job
  <2> QED
    BY <2>1, <2>2, QuietStep DEF IInv, Counted
<1>11. CASE ReadCounts
  <2>1. Flight' /\ UNCHANGED <<follows, Unapplied>>
    BY <1>8, <1>11 DEF ReadCounts
  <2>2. read' \subseteq [followers : Nat, following : Nat]
    BY <1>11, Counts DEF ReadCounts, IInv, Counted
  <2> QED
    BY <1>11, <2>1, <2>2, QuietStep DEF ReadCounts, columns, IInv, Counted
<1>12. CASE WriteCounts
  <2> DEFINE u == Head(todo)
             r == CHOOSE x \in read : TRUE
  <2>1. Flight' /\ UNCHANGED <<follows, Unapplied>>
    BY <1>8, <1>12 DEF WriteCounts
  <2>2. r \in read /\ r.followers \in Nat /\ r.following \in Nat
    BY <1>12 DEF WriteCounts, IInv, Counted
  <2>3. /\ \/ UNCHANGED <<followers, following, repaired>>
           \/ /\ followers' = [followers EXCEPT ![u] = r.followers]
              /\ following' = [following EXCEPT ![u] = r.following]
              /\ repaired' = TRUE
        /\ read' = {} /\ UNCHANGED erased
    BY <1>12 DEF WriteCounts, columns
  <2> HIDE DEF u, r
  <2>4. followers' \in [Users -> Nat] /\ following' \in [Users -> Nat]
    BY <2>2, <2>3 DEF IInv, Counted
  <2> QED
    BY <2>1, <2>3, <2>4, QuietStep
<1> QED
  BY <1>1, <1>2, <1>3, <1>4, <1>5, <1>6, <1>7, <1>9, <1>10, <1>11, <1>12, <1>13, <1>14
     DEF Next, Reconcile

\* Whatever is reordered, removed without an event, announced without an edge or
\* clamped at zero, the columns of an account that is not erased are too low only
\* by events that are not applied, because they are to come or were given up,
\* until the reconciler writes counts it has read some time before
\* (CounterService.handleFollow).
THEOREM DriftIsUpwardCorrect == Spec => []DriftIsUpward
<1>1. IInv => DriftIsUpward
  BY DEF IInv
<1> QED
  BY <1>1, InitInv, Invariance, PTL DEF Spec
-----------------------------------------------------------------------------
(* Without failures and silent removals: the columns show the graph of some  *)
(* time ago, and the events not applied lead from it to the graph of now, so   *)
(* that the clamp has nothing to do.                                         *)

\* An event adds a follower who was not one, or removes one.
Turns(A, e, B) ==
    \/ e.delta = 1 /\ e.follower \notin A /\ B = A \union {e.follower}
    \/ e.delta = -1 /\ e.follower \in A /\ B = A \ {e.follower}

\* The events of a partition lead from followers A to followers B.
Replays(s, A, B) ==
    \E t \in [0 .. Len(s) -> SUBSET Users] :
        /\ t[0] = A /\ t[Len(s)] = B
        /\ \A i \in 1 .. Len(s) : Turns(t[i - 1], s[i], t[i])

FollowersIn(S, u) == {a \in Users : <<a, u>> \in S}

Shows(S) ==
    /\ S \subseteq Users \X Users /\ IsFiniteSet(S)
    /\ \A u \in Users : followers[u] = Arriving(S, u) /\ following[u] = Leaving(S, u)
    /\ \A u \in Users : Replays(topic[u], FollowersIn(S, u), FollowersIn(follows, u))

Adds == \A u \in Users :
    /\ followers[u] + FollowersOwed(u) = FollowersOf(u)
    /\ following[u] + FollowingOwed(u) = FollowingOf(u)

Calm == faults = 0 /\ silent = 0 /\ ~ repaired
InOrder == erased = {} /\ aside = {} /\ Adds /\ \E S : Shows(S)
OrderInv == faults \in Nat /\ silent \in Nat /\ (Calm => InOrder)

\* Nothing leads from a set to itself; one event more leads one turn further;
\* after the first event the rest leads on from its turn.
LEMMA ReplaysNothing ==
    ASSUME NEW A \in SUBSET Users
    PROVE  Replays(<<>>, A, A)
<1> DEFINE t == [i \in 0 .. 0 |-> A]
<1>1. t \in [0 .. Len(<<>>) -> SUBSET Users] /\ t[0] = A /\ Len(<<>>) = 0
  OBVIOUS
<1>2. t[Len(<<>>)] = A /\ 1 .. Len(<<>>) = {}
  BY <1>1
<1> QED
  BY <1>1, <1>2 DEF Replays

LEMMA ReplaysOneMore ==
    ASSUME NEW s \in Seq(Event), NEW A, NEW B, NEW C \in SUBSET Users, NEW e \in Event,
           Replays(s, A, B), Turns(B, e, C)
    PROVE  Replays(Append(s, e), A, C)
<1>1. PICK t \in [0 .. Len(s) -> SUBSET Users] :
        /\ t[0] = A /\ t[Len(s)] = B
        /\ \A i \in 1 .. Len(s) : Turns(t[i - 1], s[i], t[i])
  BY DEF Replays
<1> DEFINE q == Append(s, e)
           n == Len(s) + 1
           r == [i \in 0 .. n |-> IF i = n THEN C ELSE t[i]]
<1>2. /\ Len(s) \in Nat /\ Len(q) = n /\ n \in Nat /\ q[n] = e
      /\ \A i \in 1 .. Len(s) : q[i] = s[i]
  OBVIOUS
<1>3. /\ r \in [0 .. n -> SUBSET Users] /\ r[n] = C
      /\ \A i \in 0 .. Len(s) : r[i] = t[i]
  BY <1>2
<1> HIDE DEF r, q
<1>4. r[0] = A /\ r[n - 1] = B
  BY <1>1, <1>2, <1>3
<1>5. ASSUME NEW i \in 1 .. n PROVE Turns(r[i - 1], q[i], r[i])
  <2>1. CASE i = n
    BY <1>2, <1>3, <1>4, <2>1
  <2>2. CASE i # n
    <3>1. i \in 1 .. Len(s) /\ i - 1 \in 0 .. Len(s) /\ i \in 0 .. Len(s)
      BY <1>2, <2>2
    <3>2. r[i - 1] = t[i - 1] /\ r[i] = t[i] /\ q[i] = s[i]
      BY <1>2, <1>3, <3>1
    <3> QED
      BY <1>1, <3>1, <3>2
  <2> QED
    BY <2>1, <2>2
<1>6. Replays(q, A, C)
  BY <1>2, <1>3, <1>4, <1>5 DEF Replays
<1> QED
  BY <1>6 DEF q

LEMMA ReplaysOneLess ==
    ASSUME NEW s \in Seq(Event), s # <<>>, NEW A, NEW B, Replays(s, A, B)
    PROVE  \E C \in SUBSET Users : Turns(A, Head(s), C) /\ Replays(Tail(s), C, B)
<1>1. PICK t \in [0 .. Len(s) -> SUBSET Users] :
        /\ t[0] = A /\ t[Len(s)] = B
        /\ \A i \in 1 .. Len(s) : Turns(t[i - 1], s[i], t[i])
  BY DEF Replays
<1> DEFINE q == Tail(s)
           n == Len(s) - 1
           r == [i \in 0 .. n |-> t[i + 1]]
<1>2. /\ Len(s) \in Nat /\ n \in Nat /\ Len(q) = n /\ Head(s) = s[1]
      /\ \A i \in 1 .. n : q[i] = s[i + 1]
  OBVIOUS
<1>3. /\ r \in [0 .. n -> SUBSET Users] /\ r[n] = B
      /\ \A i \in 0 .. n : r[i] = t[i + 1]
  BY <1>1, <1>2
<1> HIDE DEF r, q
<1>4. ASSUME NEW i \in 1 .. n PROVE Turns(r[i - 1], q[i], r[i])
  <2>1. i - 1 \in 0 .. n /\ i \in 0 .. n /\ i + 1 \in 1 .. Len(s) /\ (i + 1) - 1 = i
    BY <1>2
  <2>2. Turns(t[(i + 1) - 1], s[i + 1], t[i + 1])
    BY <1>1, <2>1
  <2>3. r[i - 1] = t[i] /\ r[i] = t[i + 1] /\ q[i] = s[i + 1]
    BY <1>2, <1>3, <2>1
  <2> QED
    BY <2>1, <2>2, <2>3
<1>5. Replays(q, r[0], B)
  BY <1>2, <1>3, <1>4 DEF Replays
<1>6. r[0] \in SUBSET Users /\ Turns(A, Head(s), r[0])
  <2>1. 0 \in 0 .. n /\ 1 \in 1 .. Len(s) /\ 1 - 1 = 0 /\ 0 + 1 = 1
    BY <1>2
  <2>2. Turns(t[1 - 1], s[1], t[1])
    BY <1>1, <2>1
  <2>3. r[0] = t[1] /\ r[0] \in SUBSET Users
    BY <1>3, <2>1
  <2> QED
    BY <1>1, <1>2, <2>1, <2>2, <2>3
<1> QED
  BY <1>5, <1>6 DEF q

\* A column that is not clamped takes over what the event says.
LEMMA BumpedExactly ==
    ASSUME NEW column \in [Users -> Nat], NEW u \in Users, NEW delta \in {1, -1},
           u \notin erased, column[u] + delta >= 0
    PROVE  \A v \in Users :
              Bump(column, u, delta)[v] = column[v] + (IF v = u THEN delta ELSE 0)
<1>1. column[u] \in Nat /\ ~(column[u] + delta < 0)
  OBVIOUS
<1>2. Bump(column, u, delta) = [column EXCEPT ![u] = column[u] + delta]
  BY <1>1 DEF Bump
<1> QED
  BY <1>2

\* A change of the graph: what is true, shown or owed, is changed alike.
LEMMA ChangeKeepsOrder ==
    ASSUME IInv, Adds, NEW S, Shows(S), NEW a \in Users, NEW b \in Users,
           Follow(a, b) \/ Unfollow(a, b)
    PROVE  Adds' /\ Shows(S)'
<1> DEFINE delta == IF <<a, b>> \in follows THEN -1 ELSE 1
<1>1. /\ Emit(delta, a, b) /\ UNCHANGED <<followers, following>>
      /\ delta = 1 => <<a, b>> \notin follows /\ follows' = follows \union {<<a, b>>}
      /\ delta = -1 => <<a, b>> \in follows /\ follows' = follows \ {<<a, b>>}
      /\ delta \in {1, -1}
  BY DEF Follow, Unfollow, Emit, columns
<1> HIDE DEF delta
<1>2. Flight /\ IsFiniteSet(follows) /\ IsFiniteSet(follows')
  BY <1>1, FS_AddElement, FS_Subset DEF IInv, Counted, Flight
<1>3. PICK e \in Event : /\ e.delta = delta /\ e.follower = a /\ e.followee = b
                         /\ e \notin Unapplied /\ Unapplied' = Unapplied \union {e}
                         /\ topic' = [topic EXCEPT ![b] = Append(topic[b], e)]
  <2> DEFINE e == [id |-> changes + 1, delta |-> delta, follower |-> a, followee |-> b]
  <2>1. e \in Event /\ e.id = changes + 1
        /\ e.delta = delta /\ e.follower = a /\ e.followee = b
    BY <1>1, <1>2, CounterAssumption DEF Flight, Emit, Event
  <2>2. topic' = [topic EXCEPT ![b] = Append(topic[b], e)] /\ aside' = aside
    BY <1>1 DEF Emit
  <2> HIDE DEF e
  <2>3. e \notin Unapplied
    BY <1>2, <2>1 DEF Flight, Distinct
  <2>4. topic[b] \in Seq(Event) /\ IsInjective(topic[b]) /\ e \notin ToSet(topic[b])
    BY <1>2, <2>3, Where DEF Flight, Distinct
  <2>5. /\ ToSet(topic'[b]) = ToSet(topic[b]) \union {e}
        /\ \A u \in Users : u # b => topic'[u] = topic[u]
    BY <1>2, <2>1, <2>2, <2>4, Enqueued DEF Flight
  <2>6. Unapplied' = Unapplied \union {e}
    BY <2>2, <2>5, Where
  <2> QED
    BY <2>1, <2>2, <2>3, <2>6
<1>4. ASSUME NEW u \in Users
      PROVE  /\ followers'[u] + FollowersOwed(u)' = FollowersOf(u)'
             /\ following'[u] + FollowingOwed(u)' = FollowingOf(u)'
  <2>1. /\ FollowersOwed(u) \in Int /\ FollowingOwed(u) \in Int
        /\ FollowersOwed(u)' = FollowersOwed(u) + (IF b = u THEN delta ELSE 0)
        /\ FollowingOwed(u)' = FollowingOwed(u) + (IF a = u THEN delta ELSE 0)
    <3>1. /\ FollowersOwed(u) \in Int /\ FollowingOwed(u) \in Int
          /\ FollowersOwed(u)' = FollowersOwed(u) + (IF e.followee = u THEN e.delta ELSE 0)
          /\ FollowingOwed(u)' = FollowingOwed(u) + (IF e.follower = u THEN e.delta ELSE 0)
      BY <1>2, <1>3, OwedAdds, OwedNow, OwedThen DEF Flight
    <3> QED
      BY <1>3, <3>1
  <2>2. /\ FollowersOf(u)' = FollowersOf(u) + (IF b = u THEN delta ELSE 0)
        /\ FollowingOf(u)' = FollowingOf(u) + (IF a = u THEN delta ELSE 0)
    <3>1. /\ FollowersOf(u) = Arriving(follows, u) /\ FollowersOf(u)' = Arriving(follows', u)
          /\ FollowingOf(u) = Leaving(follows, u) /\ FollowingOf(u)' = Leaving(follows', u)
      BY DEF Arriving, Leaving, FollowersOf, FollowingOf
    <3>2. /\ FollowersOf(u) \in Nat /\ FollowersOf(u)' \in Nat
          /\ FollowingOf(u) \in Nat /\ FollowingOf(u)' \in Nat
      BY <1>2, FS_Subset, FS_CardinalityType DEF FollowersOf, FollowingOf
    <3>3. CASE delta = 1
      <4>1. /\ Arriving(follows', u) = Arriving(follows, u) + (IF u = b THEN 1 ELSE 0)
            /\ Leaving(follows', u) = Leaving(follows, u) + (IF u = a THEN 1 ELSE 0)
        BY <1>1, <1>2, <3>3, OneMore
      <4> QED
        BY <3>1, <3>3, <4>1
    <3>4. CASE delta = -1
      <4>1. follows = follows' \union {<<a, b>>} /\ <<a, b>> \notin follows'
        BY <1>1, <3>4
      <4>2. /\ Arriving(follows, u) = Arriving(follows', u) + (IF u = b THEN 1 ELSE 0)
            /\ Leaving(follows, u) = Leaving(follows', u) + (IF u = a THEN 1 ELSE 0)
        BY <1>2, <4>1, OneMore
      <4> QED
        BY <3>1, <3>2, <3>4, <4>2
    <3> QED
      BY <1>1, <3>3, <3>4
  <2>3. /\ followers'[u] = followers[u] /\ following'[u] = following[u]
        /\ followers[u] \in Nat /\ following[u] \in Nat
    BY <1>1 DEF IInv, Counted
  <2>4. /\ followers[u] + FollowersOwed(u) = FollowersOf(u)
        /\ following[u] + FollowingOwed(u) = FollowingOf(u)
    BY DEF Adds
  <2> QED
    BY <1>1, <2>1, <2>2, <2>3, <2>4
<1>5. ASSUME NEW u \in Users
      PROVE  Replays(topic'[u], FollowersIn(S, u), FollowersIn(follows', u))
  <2>1. /\ Replays(topic[u], FollowersIn(S, u), FollowersIn(follows, u))
        /\ topic[u] \in Seq(Event)
    BY <1>2 DEF Shows, Flight
  <2>2. CASE u = b
    <3>1. topic'[u] = Append(topic[u], e)
      BY <1>2, <1>3, <2>2 DEF Flight
    <3>2. Turns(FollowersIn(follows, u), e, FollowersIn(follows', u))
      <4>1. CASE delta = 1
        BY <1>1, <1>3, <2>2, <4>1 DEF Turns, FollowersIn
      <4>2. CASE delta = -1
        BY <1>1, <1>3, <2>2, <4>2 DEF Turns, FollowersIn
      <4> QED
        BY <1>1, <4>1, <4>2
    <3>3. FollowersIn(follows', u) \in SUBSET Users
      BY DEF FollowersIn
    <3> QED
      BY <2>1, <3>1, <3>2, <3>3, ReplaysOneMore
  <2>3. CASE u # b
    <3>1. topic'[u] = topic[u]
      BY <1>2, <1>3, <2>3 DEF Flight
    <3>2. FollowersIn(follows', u) = FollowersIn(follows, u)
      BY <1>1, <2>3 DEF FollowersIn
    <3> QED
      BY <2>1, <3>1, <3>2
  <2> QED
    BY <2>2, <2>3
<1> QED
  BY <1>1, <1>4, <1>5 DEF Adds, Shows

\* The next event of a partition: what it removes is shown, so that no column
\* is clamped, and what it adds is not.
LEMMA HandleKeepsOrder ==
    ASSUME IInv, erased = {}, Adds, NEW S, Shows(S), NEW u \in Users, Handle(u)
    PROVE  Adds' /\ \E T : Shows(T)'
<1> DEFINE e == Head(topic[u])
           p == <<e.follower, u>>
<1>0. Flight
  BY DEF IInv, Counted, Flight
<1>1. /\ topic[u] # <<>> /\ topic' = [topic EXCEPT ![u] = Tail(topic[u])] /\ Apply(e)
      /\ UNCHANGED <<follows, aside, erased, changes>>
  BY DEF Handle
<1>2. /\ e \in Event /\ Flight' /\ e \notin Unapplied' /\ Unapplied = Unapplied' \union {e}
  BY <1>0, <1>1, DequeueStep
<1>3. e.followee = u /\ e.follower \in Users /\ e.delta \in {1, -1}
  <2>1. e \in ToSet(topic[u])
    BY <1>0, <1>1, Dequeued DEF Flight, Distinct
  <2> QED
    BY <1>0, <1>2, <2>1 DEF Flight, Distinct, Event
<1>4. topic[u] \in Seq(Event) /\ Replays(topic[u], FollowersIn(S, u), FollowersIn(follows, u))
  BY <1>0 DEF Flight, Shows
<1>5. PICK C \in SUBSET Users :
         Turns(FollowersIn(S, u), e, C) /\ Replays(Tail(topic[u]), C, FollowersIn(follows, u))
  BY <1>1, <1>4, ReplaysOneLess
<1> HIDE DEF e
<1>6. S \subseteq Users \X Users /\ IsFiniteSet(S)
  BY DEF Shows
<1>7. \/ e.delta = 1 /\ p \notin S
      \/ e.delta = -1 /\ p \in S
  <2>1. e.follower \in FollowersIn(S, u) <=> p \in S
    BY <1>3 DEF FollowersIn
  <2>2. \/ e.delta = 1 /\ e.follower \notin FollowersIn(S, u)
        \/ e.delta = -1 /\ e.follower \in FollowersIn(S, u)
    BY <1>5 DEF Turns
  <2> QED
    BY <2>1, <2>2
<1>8. PICK T : /\ e.delta = 1 => p \notin S /\ T = S \union {p}
               /\ e.delta = -1 => p \in S /\ T = S \ {p} /\ S = T \union {p} /\ p \notin T
               /\ T \subseteq Users \X Users /\ IsFiniteSet(T)
  <2>1. S \union {p} \subseteq Users \X Users /\ IsFiniteSet(S \union {p})
    <3>1. p \in Users \X Users
      BY <1>3
    <3> QED
      BY <1>6, <3>1, FS_AddElement
  <2>2. S \ {p} \subseteq Users \X Users /\ IsFiniteSet(S \ {p})
    BY <1>6, FS_Subset
  <2> QED
    BY <1>7, <2>1, <2>2
<1>9. \A v : /\ Arriving(S, v) \in Nat /\ Arriving(T, v) \in Nat
             /\ Leaving(S, v) \in Nat /\ Leaving(T, v) \in Nat
             /\ Arriving(T, v) = Arriving(S, v) + (IF v = u THEN e.delta ELSE 0)
             /\ Leaving(T, v) = Leaving(S, v) + (IF v = e.follower THEN e.delta ELSE 0)
  <2> TAKE v
  <2>1. /\ Arriving(S, v) \in Nat /\ Arriving(T, v) \in Nat
        /\ Leaving(S, v) \in Nat /\ Leaving(T, v) \in Nat
    BY <1>6, <1>8, FS_Subset, FS_CardinalityType DEF Arriving, Leaving
  <2>2. CASE e.delta = 1
    <3>1. /\ Arriving(T, v) = Arriving(S, v) + (IF v = u THEN 1 ELSE 0)
          /\ Leaving(T, v) = Leaving(S, v) + (IF v = e.follower THEN 1 ELSE 0)
      BY <1>6, <1>8, <2>2, OneMore
    <3> QED
      BY <2>1, <2>2, <3>1
  <2>3. CASE e.delta = -1
    <3>1. /\ Arriving(S, v) = Arriving(T, v) + (IF v = u THEN 1 ELSE 0)
          /\ Leaving(S, v) = Leaving(T, v) + (IF v = e.follower THEN 1 ELSE 0)
      BY <1>8, <2>3, OneMore
    <3> QED
      BY <2>1, <2>3, <3>1
  <2> QED
    BY <1>3, <2>2, <2>3
<1>10. \A v \in Users : /\ followers[v] = Arriving(S, v) /\ following[v] = Leaving(S, v)
                        /\ followers[v] \in Nat /\ following[v] \in Nat
  BY <1>9 DEF Shows
<1>11. \A v \in Users :
          /\ followers'[v] = followers[v] + (IF v = u THEN e.delta ELSE 0)
          /\ following'[v] = following[v] + (IF v = e.follower THEN e.delta ELSE 0)
  <2>1. followers[u] + e.delta >= 0 /\ following[e.follower] + e.delta >= 0
    <3>1. /\ Arriving(T, u) = followers[u] + e.delta
          /\ Leaving(T, e.follower) = following[e.follower] + e.delta
      BY <1>3, <1>9, <1>10
    <3> QED
      BY <1>9, <3>1
  <2>2. /\ following' = Bump(following, e.follower, e.delta)
        /\ followers' = Bump(followers, u, e.delta)
    BY <1>1, <1>3 DEF Apply
  <2>3. followers \in [Users -> Nat] /\ following \in [Users -> Nat]
    BY DEF IInv, Counted
  <2> QED
    BY <1>3, <2>1, <2>2, <2>3, BumpedExactly
<1>12. ASSUME NEW v \in Users
       PROVE  /\ followers'[v] + FollowersOwed(v)' = FollowersOf(v)'
              /\ following'[v] + FollowingOwed(v)' = FollowingOf(v)'
  <2>1. /\ FollowersOwed(v)' \in Int /\ FollowingOwed(v)' \in Int
        /\ FollowersOwed(v) = FollowersOwed(v)' + (IF v = u THEN e.delta ELSE 0)
        /\ FollowingOwed(v) = FollowingOwed(v)' + (IF v = e.follower THEN e.delta ELSE 0)
    <3>1. /\ FollowersOwed(v)' \in Int /\ FollowingOwed(v)' \in Int
          /\ FollowersOwed(v) = FollowersOwed(v)' + (IF e.followee = v THEN e.delta ELSE 0)
          /\ FollowingOwed(v) = FollowingOwed(v)' + (IF e.follower = v THEN e.delta ELSE 0)
      BY <1>2, OwedAdds, OwedNow, OwedThen DEF Flight
    <3> QED
      BY <1>3, <3>1
  <2>2. FollowersOf(v)' = FollowersOf(v) /\ FollowingOf(v)' = FollowingOf(v)
    BY <1>1 DEF FollowersOf, FollowingOf
  <2>3. /\ followers[v] + FollowersOwed(v) = FollowersOf(v)
        /\ following[v] + FollowingOwed(v) = FollowingOf(v)
    BY DEF Adds
  <2> QED
    BY <1>3, <1>10, <1>11, <2>1, <2>2, <2>3
<1>13. ASSUME NEW v \in Users
       PROVE  Replays(topic'[v], FollowersIn(T, v), FollowersIn(follows', v))
  <2>1. CASE v = u
    <3>1. topic'[v] = Tail(topic[u])
      BY <1>0, <1>1, <2>1 DEF Flight
    <3>2. FollowersIn(T, v) = C
      <4>1. CASE e.delta = 1
        BY <1>3, <1>5, <1>8, <2>1, <4>1 DEF Turns, FollowersIn
      <4>2. CASE e.delta = -1
        BY <1>3, <1>5, <1>8, <2>1, <4>2 DEF Turns, FollowersIn
      <4> QED
        BY <1>3, <4>1, <4>2
    <3> QED
      BY <1>1, <1>5, <2>1, <3>1, <3>2
  <2>2. CASE v # u
    <3>1. topic'[v] = topic[v]
      BY <1>0, <1>1, <2>2 DEF Flight
    <3>2. FollowersIn(T, v) = FollowersIn(S, v)
      BY <1>3, <1>8, <2>2 DEF FollowersIn
    <3> QED
      BY <1>1, <3>1, <3>2 DEF Shows
  <2> QED
    BY <2>1, <2>2
<1>14. Shows(T)'
  BY <1>8, <1>9, <1>10, <1>11, <1>13 DEF Shows
<1> QED
  BY <1>12, <1>14 DEF Adds

LEMMA OrderInit == Init => OrderInv
<1> SUFFICES ASSUME Init PROVE OrderInv
  OBVIOUS
<1>1. \A u : FollowersOwed(u) = 0 /\ FollowingOwed(u) = 0
  <2>1. \A u \in Users : ToSet(topic[u]) = {}
    BY DEF Init, ToSet
  <2>2. Unapplied = {}
    BY <2>1 DEF Init, Unapplied
  <2> QED
    BY <2>2, FS_EmptySet DEF FollowersOwed, FollowingOwed, Net
<1>2. \A u : Arriving({}, u) = 0 /\ Leaving({}, u) = 0
  BY FS_EmptySet DEF Arriving, Leaving
<1>3. Adds
  <2>1. \A u : FollowersOf(u) = 0 /\ FollowingOf(u) = 0
    BY <1>2 DEF Init, FollowersOf, FollowingOf, Arriving, Leaving
  <2> QED
    BY <1>1, <2>1 DEF Init, Adds
<1>4. Shows({})
  <2>1. \A u \in Users : FollowersIn({}, u) = {} /\ topic[u] = <<>>
    BY DEF Init, FollowersIn
  <2>2. Replays(<<>>, {}, {})
    BY ReplaysNothing
  <2> QED
    BY <1>2, <2>1, <2>2, FS_EmptySet DEF Init, Shows
<1> QED
  BY <1>3, <1>4 DEF Init, OrderInv, InOrder

\* Faults, silent removals and repairs are counted and never forgotten: where
\* there are none after a step, there were none before and the step was none.
LEMMA OrderNext == IInv /\ OrderInv /\ [Next]_vars => OrderInv'
<1> SUFFICES ASSUME IInv, OrderInv, [Next]_vars PROVE OrderInv'
  OBVIOUS
<1>0. faults \in Nat /\ silent \in Nat
  BY DEF OrderInv
<1>1. ASSUME NEW a \in Users, NEW b \in Users, Follow(a, b) \/ Unfollow(a, b)
      PROVE  OrderInv'
  <2>1. UNCHANGED <<faults, silent, repaired, erased, aside>>
    BY <1>1 DEF Follow, Unfollow, Emit
  <2>2. ASSUME Calm PROVE Adds' /\ \E S : Shows(S)'
    <3>1. PICK S : Shows(S)
      BY <2>2 DEF OrderInv, InOrder
    <3> QED
      BY <1>1, <2>2, <3>1, ChangeKeepsOrder DEF OrderInv, InOrder
  <2> QED
    BY <2>1, <2>2 DEF OrderInv, InOrder, Calm
<1>2. ASSUME NEW u \in Users, Handle(u) PROVE OrderInv'
  <2>1. UNCHANGED <<faults, silent, repaired, erased, aside>>
    BY <1>2 DEF Handle
  <2>2. ASSUME Calm PROVE Adds' /\ \E S : Shows(S)'
    <3>1. PICK S : Shows(S)
      BY <2>2 DEF OrderInv, InOrder
    <3> QED
      BY <1>2, <2>2, <3>1, HandleKeepsOrder DEF OrderInv, InOrder
  <2> QED
    BY <2>1, <2>2 DEF OrderInv, InOrder, Calm
<1>3. ASSUME faults' \in Nat, silent' \in Nat, ~ Calm' PROVE OrderInv'
  BY <1>3 DEF OrderInv
<1>4. ASSUME NEW a \in Users, NEW b \in Users, Block(a, b) PROVE OrderInv'
  BY <1>0, <1>3, <1>4 DEF Block, Silently, RemoveSilently, Calm
<1>5. ASSUME NEW u \in Users, Erase(u) \/ PutAside(u) PROVE OrderInv'
  BY <1>0, <1>3, <1>5 DEF Erase, Silently, PutAside, Calm
<1>12. ASSUME NEW a \in Users, NEW b \in Users, AcceptFollower(a, b) PROVE OrderInv'
  BY <1>0, <1>3, <1>12 DEF AcceptFollower, Emit, Silently, Calm
<1>6. CASE SkipUser
  BY <1>0, <1>3, <1>6 DEF SkipUser, Calm
<1>7. ASSUME NEW u \in Users, Cascade(u) PROVE OrderInv'
  <2>1. u \in erased /\ UNCHANGED <<faults, silent, repaired>>
    BY <1>7 DEF Cascade, RemoveSilently
  <2> QED
    BY <1>0, <1>3, <2>1 DEF OrderInv, InOrder, Calm
<1>8. ASSUME NEW e \in aside, HandleAside(e) \/ GiveUp(e) PROVE OrderInv'
  <2>1. UNCHANGED <<faults, silent, repaired>>
    BY <1>8 DEF HandleAside, GiveUp
  <2> QED
    BY <1>0, <1>3, <2>1 DEF OrderInv, InOrder, Calm
<1>13. ASSUME NEW e \in aside, Redrive(e) PROVE OrderInv'
  BY <1>0, <1>3, <1>13 DEF Redrive, Calm
<1>9. ASSUME UNCHANGED <<follows, topic, aside, followers, following, erased, faults, silent>>,
             repaired => repaired'
      PROVE  OrderInv'
  <2>1. UNCHANGED Unapplied
    BY <1>9 DEF Unapplied
  <2>2. Adds => Adds'
    BY <1>9, <2>1 DEF Adds, FollowersOwed, FollowingOwed, FollowersOf, FollowingOf
  <2>3. \A S : Shows(S) => Shows(S)'
    BY <1>9 DEF Shows
  <2> QED
    BY <1>9, <2>2, <2>3 DEF OrderInv, InOrder, Calm
<1>10. CASE StartBatch \/ ReadCounts \/ UNCHANGED vars
  <2>1. UNCHANGED <<source, aside, columns, erased, faults, silent, repaired>>
    BY <1>10 DEF StartBatch, ReadCounts, vars
  <2> QED
    BY <1>9, <2>1 DEF source, columns
<1>11. CASE WriteCounts
  <2>1. /\ UNCHANGED <<follows, topic, aside, erased, faults, silent>>
        /\ \/ UNCHANGED <<followers, following, repaired>>
           \/ repaired'
    BY <1>11 DEF WriteCounts, columns, source
  <2> QED
    BY <1>0, <1>3, <1>9, <2>1 DEF Calm
<1> QED
  BY <1>1, <1>2, <1>4, <1>5, <1>6, <1>7, <1>8, <1>10, <1>11, <1>12, <1>13
     DEF Next, Reconcile

\* As long as no event fails or is published out of order, none is missing for a
\* removed edge and none is emitted for an edge there is already, the columns and
\* the events to come together are the graph, also for following_count, whose
\* events come from several partitions: GREATEST(count - 1, 0) never hides
\* anything (CounterService.handleFollow).
THEOREM ExactInOrderCorrect == Spec => []ExactInOrder
<1>1. OrderInv => ExactInOrder
  BY DEF OrderInv, InOrder, Calm, Adds, ExactInOrder
<1> QED
  BY <1>1, InitInv, Invariance, OrderInit, OrderNext, PTL DEF Spec
===============================================================================
