--------------------------- MODULE Timeline_proofs ---------------------------
(***************************************************************************)
(* Proofs about Timeline: for any users, follows and sizes, no page shows  *)
(* what an earlier one did or what the reader may not see, and, if one     *)
(* page of ids holds the followers of any author, a timeline lacks nothing *)
(* but what is known to be missed.                                         *)
(***************************************************************************)
EXTENDS Timeline, FiniteSetTheorems, WellFoundedInduction, TLAPS

-----------------------------------------------------------------------------
(* The inductive invariant.                                                *)

Writes == SUBSET (Users \X Ids)

PostJobs ==
    [ kind : {"post"}, id : Ids, by : Users, at : {"self", "large", "list", "write"},
      todo : Writes ]
FollowJobs ==
    [ kind : {"follow"}, id : {0}, by : Users, follower : Users,
      at : {"exists", "recent", "write"}, todo : Writes ]

Asking == {"following", "recent", "replace", "page"}
Building ==
    [ at : Asking, before : Nat, rebuilt : BOOLEAN, pulled : BOOLEAN,
      authors : SUBSET Users, read : Nat, ids : SUBSET Ids, gone : SUBSET Ids ]
Serving == [ at : {"hydrate", "filter"}, ids : SUBSET Ids, gone : SUBSET Ids ]

\* An event, and where its handler is.
Job(j) == (j \in PostJobs /\ posts[j.id].author = j.by) \/ j \in FollowJobs

\* What is stored and on its way is about posts that were written.
Typed ==
    /\ posts \in Seq([author : Users, deleted : BOOLEAN])
    /\ follows \subseteq MayFollow /\ hidden \subseteq Users \X Users \X Kinds
    /\ tl \in [Users -> SUBSET Ids]
    /\ \A j \in jobs : Job(j)
    /\ reader \in [Readers -> {Idle} \union Building \union Serving]
    /\ scroll \in [Readers -> [seen : SUBSET Ids, more : BOOLEAN]]
    /\ \A v \in Readers : scroll[v].more => scroll[v].seen # {}
    /\ missed \subseteq Users \X Ids /\ changes \in Nat

\* The writes a handler has still to do: all of its post or of its author
\* while it asks, then those it was told of.
Owes(j, u, p) ==
    \/ /\ j \in PostJobs /\ j.id = p
       /\ \/ j.at = "self"
          \/ j.at \in {"large", "list"} /\ u # j.by
          \/ j.at = "write" /\ <<u, p>> \in j.todo
    \/ /\ j \in FollowJobs /\ j.follower = u /\ j.by = posts[p].author
       /\ j.at # "write" \/ <<u, p>> \in j.todo

\* A post is in a timeline, or the timeline is full of newer ones.
Holds(S, p) == p \in S \/ Cardinality({q \in S : q > p}) >= Cap

Covered(u, p) ==
    \/ Holds(tl[u], p) \/ ~Live(p) \/ <<u, p>> \in missed
    \/ \E j \in jobs : Owes(j, u, p)

Complete ==
    \A u \in Users : tl[u] # {} => \A p \in By(Following(u) \union {u}) : Covered(u, p)

\* What a rebuild is about to write is all that it read: nothing of its authors
\* is left out but what is younger or deleted.
ReadAll ==
    \A v \in Readers :
        LET r == reader[v]
        IN  r.at = "replace" =>
                /\ r.read <= Len(posts)
                /\ \A p \in By(r.authors) : p <= r.read /\ Live(p) => p \in r.ids

\* A request goes on below what its reader has seen.
Onward ==
    \A v \in Readers :
        LET r == reader[v]
        IN  /\ r.at \in Asking => \A q \in scroll[v].seen : r.before <= q
            /\ r.at \in {"hydrate", "filter"} => \A p \in r.ids, q \in scroll[v].seen : p < q

\* What was deleted before a request stays so, and is not hydrated.
GoneStays ==
    \A v \in Readers :
        LET r == reader[v]
        IN  /\ r.at # "idle" => \A p \in r.gone : ~Live(p)
            /\ r.at = "filter" => r.ids \intersect r.gone = {}

\* One page of follower ids is all of them.
OnePage == \A a \in Users : Cardinality({u \in Users : <<u, a>> \in MayFollow}) <= FollowerPage
-----------------------------------------------------------------------------
(* The newest of a set.                                                    *)

\* A set of numbers has a least one.
LEMMA Least ==
    ASSUME NEW S \in SUBSET Nat, S # {}
    PROVE  \E m \in S : \A k \in S : m <= k
<1>1. PICK m \in S : \A k \in S : ~ (<<k, m>> \in OpToRel(<, Nat))
  BY NatLessThanWellFounded, WFMin
<1>2. \A k \in S : ~ (k < m)
  BY <1>1 DEF OpToRel
<1> QED
  BY <1>2

LEMMA MinOf ==
    ASSUME NEW S \in SUBSET Nat, S # {}
    PROVE  Min(S) \in S /\ \A k \in S : Min(S) <= k
BY Least DEF Min

\* A bounded one has a greatest one.
LEMMA Greatest ==
    ASSUME NEW n \in Nat, NEW S \in SUBSET (0 .. n), S # {}
    PROVE  \E m \in S : \A k \in S : k <= m
<1> DEFINE R == {n - k : k \in S}
<1>1. R \in SUBSET Nat /\ R # {}
  <2>1. \A k \in S : n - k \in Nat
    OBVIOUS
  <2> QED
    BY <2>1
<1>2. PICK r \in R : \A k \in R : r <= k
  <2> HIDE DEF R
  <2> QED
    BY <1>1, Least
<1>3. PICK m \in S : r = n - m
  OBVIOUS
<1>4. \A k \in S : n - m <= n - k
  BY <1>2, <1>3
<1> QED
  BY <1>3, <1>4

\* The n newest are n at most.
LEMMA NewestBounded ==
    ASSUME NEW n \in Nat, NEW S \in SUBSET Nat, IsFiniteSet(S)
    PROVE  /\ Newest(n, S) \subseteq S /\ IsFiniteSet(Newest(n, S))
           /\ Cardinality(Newest(n, S)) \in Nat /\ Cardinality(Newest(n, S)) <= n
<1> DEFINE T == Newest(n, S)
<1>1. T \subseteq S /\ IsFiniteSet(T) /\ Cardinality(T) \in Nat
  <2>1. T \subseteq S
    BY DEF Newest
  <2> HIDE DEF T
  <2> QED
    BY <2>1, FS_Subset, FS_CardinalityType
<1>2. CASE T = {}
  BY <1>2, FS_EmptySet
<1>3. CASE T # {}
  <2>1. PICK m \in T : \A k \in T : m <= k
    <3> HIDE DEF T
    <3> QED
      BY <1>1, <1>3, Least
  <2> DEFINE G == {q \in S : q > m}
  <2>2. Cardinality(G) < n
    BY <2>1 DEF Newest
  <2>3. T \ {m} \subseteq G
    <3> HIDE DEF T
    <3>1. \A k \in T \ {m} : k \in Nat /\ m \in Nat /\ m <= k /\ k # m
      BY <1>1, <2>1
    <3> QED
      BY <1>1, <3>1
  <2>4. IsFiniteSet(G) /\ Cardinality(G) \in Nat
    BY FS_Subset, FS_CardinalityType
  <2> HIDE DEF T, G
  <2>5. Cardinality(T \ {m}) = Cardinality(T) - 1 /\ Cardinality(T \ {m}) <= Cardinality(G)
    BY <1>1, <2>1, <2>3, <2>4, FS_RemoveElement, FS_Subset
  <2>6. Cardinality(T) <= n
    BY <1>1, <2>2, <2>4, <2>5
  <2> QED
    BY <1>1, <2>6 DEF T
<1> QED
  BY <1>1, <1>2, <1>3

\* The n newest of a set that has n newer than p are all newer than p.
LEMMA NewestNewer ==
    ASSUME NEW n \in Nat, NEW c \in Nat, NEW S \in SUBSET (0 .. c), NEW p \in Nat,
           Cardinality({q \in S : q > p}) >= n
    PROVE  Cardinality({q \in Newest(n, S) : q > p}) >= n
<1> DEFINE G == {q \in S : q > p}
           T == {q \in Newest(n, S) : q > p}
<1>1. IsFiniteSet(G) /\ T \subseteq G /\ IsFiniteSet(T) /\ Cardinality(T) \in Nat
  <2>1. IsFiniteSet(0 .. c)
    BY FS_Interval
  <2>2. G \subseteq 0 .. c /\ T \subseteq G
    BY DEF Newest
  <2> HIDE DEF G, T
  <2> QED
    BY <2>1, <2>2, FS_Subset, FS_CardinalityType
<1>2. CASE T = G
  BY <1>2
<1>3. CASE T # G
  <2>1. PICK m \in G \ T : \A k \in G \ T : k <= m
    <3>1. G \ T \in SUBSET (0 .. c) /\ G \ T # {}
      BY <1>1, <1>3
    <3> HIDE DEF G, T
    <3> QED
      BY <3>1, Greatest
  <2> DEFINE N == {q \in S : q > m}
  <2>2. N \subseteq T
    <3>1. ASSUME NEW q \in N PROVE q \in T
      <4>1. q \in Nat /\ m \in Nat /\ q > m /\ m > p
        OBVIOUS
      <4>2. q \in G
        BY <4>1
      <4>3. ~ (q <= m)
        BY <4>1
      <4> QED
        BY <2>1, <4>2, <4>3
    <3> QED
      BY <3>1
  <2>3. ~ (Cardinality(N) < n)
    BY <2>1 DEF Newest
  <2> HIDE DEF N, T, G
  <2>4. IsFiniteSet(N) /\ Cardinality(N) \in Nat /\ Cardinality(N) <= Cardinality(T)
    BY <1>1, <2>2, FS_Subset, FS_CardinalityType
  <2> QED
    BY <1>1, <2>3, <2>4 DEF T
<1> QED
  BY <1>2, <1>3

\* Trimming keeps each post or fills the timeline with newer ones.
LEMMA TrimHolds ==
    ASSUME NEW c \in Nat, NEW S \in SUBSET (0 .. c), NEW p \in Nat, Cap \in Nat, Holds(S, p)
    PROVE  Holds(Newest(Cap, S), p)
<1>1. CASE Cardinality({q \in S : q > p}) >= Cap
  BY <1>1, NewestNewer DEF Holds
<1>2. CASE ~ (Cardinality({q \in S : q > p}) >= Cap)
  <2>1. Cardinality({q \in S : q > p}) \in Nat
    <3>1. IsFiniteSet(0 .. c)
      BY FS_Interval
    <3> QED
      BY <3>1, FS_Subset, FS_CardinalityType
  <2>2. Cardinality({q \in S : q > p}) < Cap
    BY <1>2, <2>1
  <2> QED
    BY <1>2, <2>2 DEF Holds, Newest
<1> QED
  BY <1>1, <1>2

\* Nor does it matter for them what is added.
LEMMA MoreHolds ==
    ASSUME NEW c \in Nat, NEW T \in SUBSET (0 .. c), NEW S \in SUBSET T, NEW p \in Nat,
           Cap \in Nat, Holds(S, p)
    PROVE  Holds(T, p)
<1> DEFINE A == {q \in S : q > p}
           B == {q \in T : q > p}
<1>1. A \subseteq B /\ B \subseteq 0 .. c
  OBVIOUS
<1>2. IsFiniteSet(0 .. c)
  BY FS_Interval
<1>3. Cardinality(A) \in Nat /\ Cardinality(B) \in Nat /\ Cardinality(A) <= Cardinality(B)
  <2> HIDE DEF A, B
  <2>1. IsFiniteSet(B)
    BY <1>1, <1>2, FS_Subset
  <2> QED
    BY <1>1, <2>1, FS_Subset, FS_CardinalityType
<1> QED
  BY <1>3 DEF Holds

-----------------------------------------------------------------------------
(* Types.                                                                  *)

LEMMA KindsApart == PostJobs \intersect FollowJobs = {} /\ Building \intersect Serving = {}
                    /\ Idle \notin Building /\ Idle \notin Serving
BY DEF PostJobs, FollowJobs, Asking, Building, Serving, Idle

\* The posts of the model are those written at the start and since.
LEMMA IdsFinite ==
    ASSUME Typed
    PROVE  /\ Len(posts) \in Nat /\ Ids \subseteq 0 .. Len(posts) /\ IsFiniteSet(Ids)
           /\ Ids \subseteq Nat
           /\ \A S \in SUBSET Ids : IsFiniteSet(S) /\ Cardinality(S) \in Nat
<1>1. Len(posts) \in Nat /\ Ids \subseteq 0 .. Len(posts) /\ Ids \subseteq Nat
  BY DEF Typed, Ids
<1>2. IsFiniteSet(Ids)
  BY <1>1, FS_Interval DEF Ids
<1> QED
  BY <1>1, <1>2, FS_Subset, FS_CardinalityType

\* Posts are added and deleted, and keep their authors.
Posted ==
    /\ posts' \in Seq([author : Users, deleted : BOOLEAN])
    /\ Ids \subseteq Ids' /\ Len(posts) <= Len(posts')
    /\ \A p \in Ids : posts'[p].author = posts[p].author /\ (~Live(p) => ~Live(p)')

LEMMA PostsStep ==
    ASSUME Typed, [Next]_vars
    PROVE  Posted
<1>1. CASE UNCHANGED posts
  BY <1>1 DEF Typed, Posted, Ids, Live
<1>2. ASSUME NEW u \in Authors, CreatePost(u) PROVE Posted
  <2>1. u \in Users /\ Len(posts) \in Nat
    BY TimelineAssumption DEF Typed
  <2>2. /\ posts' \in Seq([author : Users, deleted : BOOLEAN])
        /\ Len(posts') = Len(posts) + 1 /\ \A p \in 1 .. Len(posts) : posts'[p] = posts[p]
    BY <1>2, <2>1 DEF CreatePost, Typed
  <2> QED
    BY <2>1, <2>2 DEF Posted, Ids, Live
<1>3. ASSUME NEW q \in Ids, DeletePost(q) PROVE Posted
  <2> DEFINE R == [author : Users, deleted : BOOLEAN]
             r == [posts[q] EXCEPT !.deleted = TRUE]
  <2>1. posts \in Seq(R) /\ q \in 1 .. Len(posts) /\ r \in R
    <3>1. posts \in Seq(R) /\ q \in 1 .. Len(posts)
      BY DEF Typed, Ids
    <3>2. posts[q] \in R
      <4> HIDE DEF R
      <4> QED
        BY <3>1
    <3> QED
      BY <3>1, <3>2
  <2>2. /\ posts' \in Seq(R)
        /\ Len(posts') = Len(posts) /\ Len(posts) \in Nat
    <3>1. posts' = [posts EXCEPT ![q] = r]
      BY <1>3 DEF DeletePost
    <3> HIDE DEF r, R
    <3> QED
      BY <2>1, <3>1
  <2>3. \A p \in Ids : posts'[p].author = posts[p].author /\ (~Live(p) => ~Live(p)')
    BY <1>3 DEF DeletePost, Typed, Ids, Live
  <2> QED
    BY <2>2, <2>3 DEF Posted, Ids
<1> QED
  BY <1>1, <1>2, <1>3 DEF Next, vars, Follow, Unfollow, Hide, Evict, Handle, Read, Redeliver,
    GiveUp, Home, FanoutSelf, SkipLarge, ListFollowers, CheckFollower, BackfillPosts, FanoutWrite,
    Acknowledge, RebuildFollowing, RebuildRecent, ReplaceTimeline, HomePage, Hydrate, Filter

\* What was a job or a request stays one when posts are added.
LEMMA Wider ==
    ASSUME Ids \subseteq Ids'
    PROVE  /\ Writes \subseteq Writes' /\ PostJobs \subseteq PostJobs'
           /\ FollowJobs \subseteq FollowJobs'
           /\ Building \subseteq Building' /\ Serving \subseteq Serving'
<1>1. Writes \subseteq Writes'
  BY DEF Writes
<1>2. PostJobs \subseteq PostJobs' /\ FollowJobs \subseteq FollowJobs'
  BY <1>1 DEF PostJobs, FollowJobs
<1>3. SUBSET Ids \subseteq SUBSET (Ids')
  OBVIOUS
<1>4. Building \subseteq Building' /\ Serving \subseteq Serving'
  BY <1>3 DEF Building, Serving
<1> QED
  BY <1>1, <1>2, <1>4

\* A handler that goes on with the same event, to a stage and with writes.
Goes(j, k, at, todo) ==
    /\ Job(k) /\ k.at = at /\ k.todo = todo
    /\ j \in PostJobs => k \in PostJobs /\ k.id = j.id /\ k.by = j.by
    /\ j \in FollowJobs => k \in FollowJobs /\ k.by = j.by /\ k.follower = j.follower

LEMMA GoesOn ==
    ASSUME NEW j, Job(j), NEW at \in (IF j \in PostJobs THEN {"self", "large", "list", "write"}
                                                         ELSE {"exists", "recent", "write"})
    PROVE  /\ Goes(j, [j EXCEPT !.at = at], at, j.todo)
           /\ \A todo \in Writes :
                 /\ Goes(j, [j EXCEPT !.todo = todo], j.at, todo)
                 /\ Goes(j, [j EXCEPT !.at = at, !.todo = todo], at, todo)
<1>1. CASE j \in PostJobs
  BY <1>1, KindsApart DEF Job, Goes, PostJobs, Writes
<1>2. CASE j \in FollowJobs
  BY <1>2, KindsApart DEF Job, Goes, FollowJobs, Writes
<1> QED
  BY <1>1, <1>2 DEF Job

\* What a handler finds at its step, where it goes on and what is then to do.
Finds(j, at, todo) ==
    \/ FanoutSelf(j) /\ j \in PostJobs /\ j.at = "self" /\ at = "large"
    \/ /\ SkipLarge(j) /\ j \in PostJobs /\ j.at = "large"
       /\ at = "list" \/ missed' = MissedBy(FollowersOf(j.by), {j.id})
    \/ /\ ListFollowers(j) /\ j \in PostJobs /\ j.at = "list" /\ at = "write"
       /\ \/ missed' = MissedBy(FollowersOf(j.by), {j.id})
          \/ \E page \in SUBSET FollowersOf(j.by) :
                /\ Cardinality(page) = Min({FollowerPage, Cardinality(FollowersOf(j.by))})
                /\ todo = page \X {j.id} /\ UNCHANGED missed
    \/ /\ CheckFollower(j) /\ j \in FollowJobs /\ j.at = "exists"
       /\ at = IF tl[j.follower] = {} THEN "write" ELSE "recent"
    \/ /\ BackfillPosts(j) /\ j \in FollowJobs /\ j.at = "recent" /\ at = "write"
       /\ LET recent == {p \in By({j.by}) : Live(p)}
          IN  \/ missed' = MissedBy({j.follower}, recent)
              \/ todo = {j.follower} \X recent /\ UNCHANGED missed
    \/ \E w \in j.todo : /\ FanoutIfExists(w[1], w[2]) /\ FanoutWrite(j)
                         /\ todo = j.todo \ {w} /\ at = j.at
    \/ Redeliver(j) /\ at = IF j \in PostJobs THEN "self" ELSE "exists"

LEMMA Handlers ==
    ASSUME Typed, NEW j \in jobs, Handle(j) \/ Redeliver(j)
    PROVE  \/ Acknowledge(j) /\ j.todo = {} /\ j.at = "write"
           \/ \E k, at, todo : Becomes(j, k) /\ Goes(j, k, at, todo) /\ Finds(j, at, todo)
<1>1. Job(j) /\ j.todo \in Writes
  BY DEF Typed, Job, PostJobs, FollowJobs
<1>2. /\ j.at = "self" \/ j.at = "large" \/ j.at = "list" => j \in PostJobs
      /\ j.at = "exists" \/ j.at = "recent" => j \in FollowJobs
      /\ j \in PostJobs <=> j.kind = "post"
  BY <1>1 DEF Job, PostJobs, FollowJobs
<1>3. CASE FanoutSelf(j)
  BY <1>1, <1>2, <1>3, GoesOn DEF FanoutSelf, Finds
<1>4. CASE SkipLarge(j)
  BY <1>1, <1>2, <1>4, GoesOn DEF SkipLarge, Finds
<1>5. CASE ListFollowers(j)
  <2>1. \A page \in SUBSET FollowersOf(j.by) : page \X {j.id} \in Writes
    BY <1>1, <1>2, <1>5 DEF ListFollowers, FollowersOf, Writes, PostJobs
  <2> QED
    BY <1>1, <1>2, <1>5, <2>1, GoesOn DEF ListFollowers, Finds, Page
<1>6. CASE CheckFollower(j)
  BY <1>1, <1>2, <1>6, GoesOn, KindsApart DEF CheckFollower, Finds
<1>7. CASE BackfillPosts(j)
  <2>1. \A recent \in SUBSET Ids : {j.follower} \X recent \in Writes
    BY <1>1, <1>2, <1>7 DEF BackfillPosts, Writes, FollowJobs
  <2>2. {p \in By({j.by}) : Live(p)} \in SUBSET Ids
    BY DEF By
  <2> QED
    BY <1>1, <1>2, <1>7, <2>1, <2>2, GoesOn, KindsApart DEF BackfillPosts, Finds
<1>8. CASE FanoutWrite(j)
  <2>1. PICK w \in j.todo : FanoutIfExists(w[1], w[2]) /\ Becomes(j, [j EXCEPT !.todo = @ \ {w}])
    BY <1>8 DEF FanoutWrite
  <2>2. j.todo \ {w} \in Writes
    BY <1>1 DEF Writes
  <2>3. Goes(j, [j EXCEPT !.todo = j.todo \ {w}], j.at, j.todo \ {w})
    <3>1. j.at \in (IF j \in PostJobs THEN {"self", "large", "list", "write"}
                                      ELSE {"exists", "recent", "write"})
      BY <1>1 DEF Job, PostJobs, FollowJobs
    <3> QED
      BY <1>1, <2>2, <3>1, GoesOn
  <2> QED
    BY <1>8, <2>1, <2>3 DEF Finds
<1>9. CASE Acknowledge(j)
  BY <1>9 DEF Acknowledge
<1>10. CASE Redeliver(j)
  <2>1. {} \in Writes
    BY DEF Writes
  <2> QED
    BY <1>1, <1>2, <1>10, <2>1, GoesOn, KindsApart DEF Redeliver, Finds
<1> QED
  BY <1>3, <1>4, <1>5, <1>6, <1>7, <1>8, <1>9, <1>10 DEF Handle

\* A post is added to a timeline that is there, which is trimmed.
LEMMA Fanout ==
    ASSUME Typed, NEW u \in Users, NEW p \in Ids, FanoutIfExists(u, p)
    PROVE  /\ tl' \in [Users -> SUBSET Ids]
           /\ \A v \in Users \ {u} : tl'[v] = tl[v]
           /\ tl[u] = {} => tl'[u] = {}
           /\ tl[u] # {} => tl'[u] = Newest(Cap, tl[u] \union {p})
<1>1. \A S \in SUBSET Ids : Trim(S) \in SUBSET Ids
  BY DEF Trim, Newest
<1>2. tl \in [Users -> SUBSET Ids]
  BY DEF Typed
<1>3. tl' = [tl EXCEPT ![u] = IF tl[u] = {} THEN {} ELSE Trim(tl[u] \union {p})]
  BY DEF FanoutIfExists
<1>4. tl[u] \union {p} \in SUBSET Ids
  BY <1>2
<1>5. (IF tl[u] = {} THEN {} ELSE Trim(tl[u] \union {p})) \in SUBSET Ids
  BY <1>1, <1>4
<1> QED
  BY <1>2, <1>3, <1>5 DEF Trim

\* Jobs, timelines and what they lack, when a handler goes on.
LEMMA HandlerTypes ==
    ASSUME Typed, NEW j \in jobs, Handle(j) \/ Redeliver(j)
    PROVE  /\ \A i \in jobs' : Job(i)
           /\ tl' \in [Users -> SUBSET Ids]
           /\ missed' \subseteq Users \X Ids
           /\ UNCHANGED <<posts, follows, hidden, reader, scroll>> /\ changes' \in Nat
<1>1. UNCHANGED <<posts, follows, hidden, reader, scroll>> /\ changes' \in Nat
  <2>1. UNCHANGED changes \/ Change
    BY DEF Handle, Redeliver, FanoutSelf, SkipLarge, ListFollowers, CheckFollower, BackfillPosts,
       FanoutWrite, Acknowledge
  <2>2. changes' \in Nat
    BY <2>1 DEF Change, Typed
  <2> QED
    BY <2>2 DEF Handle, Redeliver, FanoutSelf, SkipLarge, ListFollowers, CheckFollower,
       BackfillPosts, FanoutWrite, Acknowledge
<1>2. \A i \in jobs' : Job(i)
  <2>1. jobs' = jobs \ {j} \/ \E k : Job(k) /\ jobs' = (jobs \ {j}) \union {k}
    BY Handlers DEF Becomes, Goes, Acknowledge
  <2> QED
    BY <2>1 DEF Typed
<1>3. tl' \in [Users -> SUBSET Ids]
  <2>1. CASE UNCHANGED tl
    BY <2>1 DEF Typed
  <2>2. CASE FanoutSelf(j)
    <3>1. j.by \in Users /\ j.id \in Ids
      BY <2>2 DEF FanoutSelf, Typed, Job, PostJobs, FollowJobs
    <3> QED
      BY <2>2, <3>1, Fanout DEF FanoutSelf
  <2>3. CASE FanoutWrite(j)
    <3>1. PICK w \in j.todo : FanoutIfExists(w[1], w[2])
      BY <2>3 DEF FanoutWrite
    <3>2. w[1] \in Users /\ w[2] \in Ids
      BY <3>1 DEF Typed, Job, PostJobs, FollowJobs, Writes
    <3> QED
      BY <3>1, <3>2, Fanout
  <2> QED
    BY <2>1, <2>2, <2>3 DEF Handle, Redeliver, SkipLarge, ListFollowers, CheckFollower,
       BackfillPosts, Acknowledge
<1>4. missed' \subseteq Users \X Ids
  <2>1. \A users \in SUBSET Users, ids \in SUBSET Ids : MissedBy(users, ids) \subseteq Users \X Ids
    BY DEF MissedBy, Typed
  <2>2. CASE UNCHANGED missed
    BY <2>2 DEF Typed
  <2>3. ASSUME j.at \in {"large", "list"}, missed' = MissedBy(FollowersOf(j.by), {j.id})
        PROVE  missed' \subseteq Users \X Ids
    <3>1. j.id \in Ids /\ FollowersOf(j.by) \subseteq Users
      BY <2>3 DEF Typed, Job, PostJobs, FollowJobs, FollowersOf
    <3> QED
      BY <2>1, <2>3, <3>1
  <2>4. CASE BackfillPosts(j)
    <3> DEFINE recent == {p \in By({j.by}) : Live(p)}
    <3>1. j.follower \in Users /\ recent \in SUBSET Ids
      BY <2>4 DEF BackfillPosts, Typed, Job, PostJobs, FollowJobs, By
    <3>2. UNCHANGED missed \/ missed' = MissedBy({j.follower}, recent)
      BY <2>4 DEF BackfillPosts
    <3> HIDE DEF recent
    <3> QED
      BY <2>1, <2>2, <3>1, <3>2
  <2> QED
    BY <2>2, <2>3, <2>4 DEF Handle, Redeliver, SkipLarge, ListFollowers, CheckFollower, FanoutSelf,
       FanoutWrite, Acknowledge
<1> QED
  BY <1>1, <1>2, <1>3, <1>4

\* A request of a reader between two of its steps.
LEMMA Asked ==
    ASSUME Typed, NEW v \in Readers
    PROVE  LET r == reader[v]
           IN  /\ r.at \in {"idle", "hydrate", "filter"} \union Asking
               /\ r.at = "idle" <=> r = Idle
               /\ r.at \in Asking => r \in Building
               /\ r.at \in {"hydrate", "filter"} => r \in Serving
BY DEF Typed, Idle, Asking, Building, Serving

\* What a request is after each of its steps.
LEMMA Requests ==
    ASSUME Typed, NEW v \in Readers, Home(v) \/ Read(v)
    PROVE  \E r \in {Idle} \union Building \union Serving : Steps(v, r)
<1> DEFINE r == reader[v]
           Goal == \E s \in {Idle} \union Building \union Serving : Steps(v, s)
<1>1. /\ r \in {Idle} \union Building \union Serving
      /\ r.at \in Asking => r \in Building
      /\ r.at \in {"hydrate", "filter"} => r \in Serving
      /\ tl[v] \in SUBSET Ids /\ v \in Users /\ Len(posts) \in Nat
      /\ Ids \subseteq Nat
  <2>1. /\ r \in {Idle} \union Building \union Serving /\ v \in Users
        /\ tl[v] \in SUBSET Ids
    BY TimelineAssumption DEF Typed
  <2>2. /\ r \in Serving => r.at \in {"hydrate", "filter"}
        /\ r \in Building => r.at \in Asking
        /\ r = Idle => r.at = "idle"
    BY DEF Idle, Building, Serving
  <2> HIDE DEF r
  <2>3. r.at \in Asking => r \in Building
    BY <2>1, <2>2 DEF Asking
  <2>4. r.at \in {"hydrate", "filter"} => r \in Serving
    BY <2>1, <2>2 DEF Asking
  <2> QED
    BY <2>1, <2>3, <2>4, IdsFinite
<1>2. /\ \A S \in SUBSET Ids : \A n : Newest(n, S) \in SUBSET Ids /\ Below(S, n) \in SUBSET Ids
      /\ \A P : {p \in By(P) : Live(p)} \in SUBSET Ids
  BY DEF Newest, Below, By
<1>3. CASE Home(v)
  <2>1. PICK before :
           /\ before = MaxPosts + 1 \/ (scroll[v].more /\ before = Min(scroll[v].seen))
           /\ Steps(v, [ at |-> IF tl[v] = {} THEN "following" ELSE "page", before |-> before,
                         rebuilt |-> tl[v] = {}, pulled |-> FALSE,
                         authors |-> {}, read |-> 0, ids |-> {},
                         gone |-> {p \in Ids : ~Live(p)} ])
    BY <1>3 DEF Home
  <2>2. before \in Nat
    <3>1. scroll[v].seen \in SUBSET Nat
      BY <1>1 DEF Typed
    <3>2. scroll[v].more => Min(scroll[v].seen) \in Nat
      BY <3>1, MinOf DEF Typed
    <3> QED
      BY <2>1, <3>2, TimelineAssumption
  <2> QED
    BY <2>1, <2>2 DEF Asking, Building
<1>4. CASE RebuildFollowing(v)
  <2>1. PICK authors \in SUBSET Following(v) :
           Steps(v, [r EXCEPT !.at = "recent", !.authors = authors \union {v}])
    <3> DEFINE Takes(authors) ==
                  Steps(v, [r EXCEPT !.at = "recent", !.authors = authors \union {v}])
    <3>1. \/ Takes({})
          \/ \E page \in Page(FollowingPage, Following(v)) :
                \/ Takes({a \in page : ~Large(a)})
                \/ \E silent \in SUBSET page : Takes({a \in page : ~Large(a) \/ a \in silent})
      BY <1>4 DEF RebuildFollowing
    <3>2. \A page \in Page(FollowingPage, Following(v)) : page \in SUBSET Following(v)
      BY DEF Page
    <3> HIDE DEF Takes
    <3>3. CASE Takes({})
      BY <3>3 DEF Takes
    <3>4. ASSUME NEW page \in Page(FollowingPage, Following(v)), NEW silent,
                 \/ Takes({a \in page : ~Large(a)})
                 \/ Takes({a \in page : ~Large(a) \/ a \in silent})
          PROVE  \E authors \in SUBSET Following(v) : Takes(authors)
      <4>1. \A P \in SUBSET page : P \in SUBSET Following(v)
        BY <3>2
      <4>2. /\ {a \in page : ~Large(a)} \in SUBSET Following(v)
            /\ {a \in page : ~Large(a) \/ a \in silent} \in SUBSET Following(v)
        BY <4>1
      <4> QED
        BY <3>4, <4>2
    <3> QED
      BY <3>1, <3>3, <3>4 DEF Takes
  <2>2. authors \union {v} \in SUBSET Users
    <3>1. v \in Users /\ Following(v) \in SUBSET Users
      BY <1>1 DEF Following
    <3> HIDE DEF r
    <3> QED
      BY <2>1, <3>1
  <2>3. r \in Building
    BY <1>1, <1>4 DEF RebuildFollowing, Asking
  <2> QED
    BY <2>1, <2>2, <2>3 DEF Asking, Building
<1>5. CASE RebuildRecent(v)
  <2>1. r \in Building
    BY <1>1, <1>5 DEF RebuildRecent, Asking
  <2>2. PICK authors \in SUBSET r.authors :
           Steps(v, [r EXCEPT !.at = "replace", !.authors = authors, !.read = Len(posts),
                              !.ids = {p \in By(authors) : Live(p)}])
    BY <1>5 DEF RebuildRecent, Asking
  <2>3. {p \in By(authors) : Live(p)} \in SUBSET Ids /\ authors \in SUBSET Users
    BY <1>2, <2>1 DEF Asking, Building
  <2> QED
    BY <1>1, <2>1, <2>2, <2>3 DEF Asking, Building
<1>6. CASE ReplaceTimeline(v)
  BY <1>1, <1>6 DEF ReplaceTimeline, Asking, Building
<1>7. CASE HomePage(v)
  <2>1. r \in Building
    BY <1>1, <1>7 DEF HomePage, Asking
  <2>2. PICK ids \in SUBSET Ids :
           Steps(v, IF ids = {} /\ ~r.rebuilt
                    THEN [r EXCEPT !.at = "following", !.rebuilt = TRUE, !.pulled = TRUE]
                    ELSE [at |-> "hydrate", ids |-> ids, gone |-> r.gone])
    <3> DEFINE Pulled(authors) ==
                  Newest(Over, UNION {Newest(Limit, {p \in By({a}) : Live(p)}) : a \in authors})
    <3>1. \A authors : Pulled(authors) \in SUBSET Ids
      <4>1. \A authors :
               UNION {Newest(Limit, {p \in By({a}) : Live(p)}) : a \in authors} \in SUBSET Ids
        BY <1>2
      <4> QED
        BY <1>2, <4>1
    <3>2. PICK more : /\ more = {} \/ \E authors : more = Pulled(authors)
                      /\ LET ids == Newest(Over, Below(tl[v], r.before)) \union Below(more, r.before)
                         IN  Steps(v, IF ids = {} /\ ~r.rebuilt
                                      THEN [r EXCEPT !.at = "following", !.rebuilt = TRUE,
                                                     !.pulled = TRUE]
                                      ELSE [at |-> "hydrate", ids |-> ids, gone |-> r.gone])
      BY <1>7 DEF HomePage
    <3>3. Newest(Over, Below(tl[v], r.before)) \union Below(more, r.before) \in SUBSET Ids
      <4>1. more \in SUBSET Ids
        BY <3>1, <3>2
      <4> HIDE DEF Pulled
      <4> QED
        BY <1>1, <1>2, <4>1
    <3> QED
      BY <3>2, <3>3
  <2>3. CASE ids = {} /\ ~r.rebuilt
    BY <2>1, <2>2, <2>3 DEF Asking, Building
  <2>4. CASE ~ (ids = {} /\ ~r.rebuilt)
    BY <2>1, <2>2, <2>4 DEF Asking, Building, Serving
  <2> QED
    BY <2>3, <2>4
<1>8. CASE Hydrate(v)
  BY <1>1, <1>8 DEF Hydrate, Serving
<1>9. CASE Filter(v)
  BY <1>9 DEF Filter
<1> QED
  BY <1>3, <1>4, <1>5, <1>6, <1>7, <1>8, <1>9 DEF Read

\* A page is made of what the request has, and holds Limit posts at most.
LEMMA Pages ==
    ASSUME Typed, NEW v \in Readers, Filter(v)
    PROVE  /\ reader[v] \in Serving /\ reader[v].at = "filter"
           /\ \E kinds \in SUBSET Kinds :
                 LET page == Newest(Limit, {p \in reader[v].ids : \A k \in kinds :
                                               <<v, posts[p].author, k>> \notin hidden})
                 IN  /\ page \in SUBSET reader[v].ids /\ page \in SUBSET Ids
                     /\ Cardinality(page) <= Limit
                     /\ scroll' = [scroll EXCEPT ![v] = [ seen |-> scroll[v].seen \union page,
                                                          more |-> Cardinality(page) >= Limit ]]
                     /\ kinds = Kinds \/ Change
<1>1. reader[v] \in Serving /\ reader[v].at = "filter"
  BY DEF Filter, Typed, Idle, Asking, Building
<1>2. PICK kinds \in SUBSET Kinds :
         LET page == Newest(Limit, {p \in reader[v].ids : \A k \in kinds :
                                       <<v, posts[p].author, k>> \notin hidden})
         IN  /\ scroll' = [scroll EXCEPT ![v] = [ seen |-> @.seen \union page,
                                                  more |-> Cardinality(page) >= Limit ]]
             /\ kinds = Kinds \/ Change
  BY DEF Filter
<1> DEFINE shown == {p \in reader[v].ids : \A k \in kinds : <<v, posts[p].author, k>> \notin hidden}
<1>3. /\ reader[v].ids \in SUBSET Ids /\ shown \in SUBSET reader[v].ids /\ shown \in SUBSET Nat
      /\ IsFiniteSet(shown)
  <2>1. reader[v].ids \in SUBSET Ids /\ shown \in SUBSET reader[v].ids
    BY <1>1 DEF Serving
  <2> HIDE DEF shown
  <2> QED
    BY <2>1, IdsFinite
<1>4. Newest(Limit, shown) \subseteq shown /\ Cardinality(Newest(Limit, shown)) <= Limit
  <2> HIDE DEF shown
  <2> QED
    BY <1>3, NewestBounded, TimelineAssumption
<1> QED
  BY <1>1, <1>2, <1>3, <1>4

\* What a reader was shown, their timeline and what it lacks, after a step.
LEMMA RequestTypes ==
    ASSUME Typed, NEW v \in Readers, Home(v) \/ Read(v)
    PROVE  /\ reader' \in [Readers -> {Idle} \union Building \union Serving]
           /\ scroll' \in [Readers -> [seen : SUBSET Ids, more : BOOLEAN]]
           /\ \A w \in Readers : scroll'[w].more => scroll'[w].seen # {}
           /\ tl' \in [Users -> SUBSET Ids] /\ missed' \subseteq Users \X Ids
           /\ UNCHANGED <<posts, follows, hidden, jobs>> /\ changes' \in Nat
<1>1. reader' \in [Readers -> {Idle} \union Building \union Serving]
  <2>1. PICK r \in {Idle} \union Building \union Serving : Steps(v, r)
    BY Requests
  <2> QED
    BY <2>1 DEF Steps, Typed
<1>2. /\ scroll' \in [Readers -> [seen : SUBSET Ids, more : BOOLEAN]]
      /\ \A w \in Readers : scroll'[w].more => scroll'[w].seen # {}
  <2>1. CASE UNCHANGED scroll
    BY <2>1 DEF Typed
  <2>2. CASE Home(v)
    <3>1. UNCHANGED scroll \/ scroll' = [scroll EXCEPT ![v] = Fresh]
      BY <2>2 DEF Home
    <3>2. Fresh \in [seen : SUBSET Ids, more : BOOLEAN] /\ ~Fresh.more
      BY DEF Fresh
    <3> QED
      BY <2>1, <3>1, <3>2 DEF Typed
  <2>3. CASE Filter(v)
    <3>1. PICK page \in SUBSET Ids :
             scroll' = [scroll EXCEPT ![v] = [ seen |-> scroll[v].seen \union page,
                                               more |-> Cardinality(page) >= Limit ]]
      BY <2>3, Pages
    <3>2. Cardinality(page) >= Limit => page # {}
      <4>1. Cardinality({}) = 0 /\ Limit \in Nat /\ Limit # 0
        BY FS_EmptySet, TimelineAssumption
      <4> QED
        BY <4>1
    <3> QED
      BY <3>1, <3>2 DEF Typed
  <2> QED
    BY <2>1, <2>2, <2>3 DEF Read, RebuildFollowing, RebuildRecent, ReplaceTimeline, HomePage, Hydrate
<1>3. tl' \in [Users -> SUBSET Ids] /\ missed' \subseteq Users \X Ids
  <2>1. CASE UNCHANGED <<tl, missed>>
    BY <2>1 DEF Typed
  <2>2. CASE ReplaceTimeline(v)
    <3>1. reader[v].ids \in SUBSET Ids /\ v \in Users
      <4>1. reader[v].at = "replace" /\ reader[v].at \in Asking
        BY <2>2 DEF ReplaceTimeline, Asking
      <4>2. reader[v] \in Building
        BY <4>1, Asked
      <4> QED
        BY <4>2, TimelineAssumption DEF Building
    <3>2. Newest(Cap, reader[v].ids) \in SUBSET Ids
      BY <3>1 DEF Newest
    <3>3. tl' \in [Users -> SUBSET Ids]
      BY <2>2, <3>1, <3>2 DEF ReplaceTimeline, Typed
    <3>4. missed' \subseteq Users \X Ids
      BY <2>2, <3>1 DEF ReplaceTimeline, Typed, By
    <3> QED
      BY <3>3, <3>4
  <2> QED
    BY <2>1, <2>2 DEF Home, Read, RebuildFollowing, RebuildRecent, HomePage, Hydrate, Filter
<1>4. changes' \in Nat
  <2>1. UNCHANGED changes \/ Change
    BY DEF Home, Read, RebuildFollowing, RebuildRecent, ReplaceTimeline, HomePage, Hydrate, Filter
  <2> QED
    BY <2>1 DEF Change, Typed
<1>5. UNCHANGED <<posts, follows, hidden, jobs>>
  BY DEF Home, Read, RebuildFollowing, RebuildRecent, ReplaceTimeline, HomePage, Hydrate, Filter
<1> QED
  BY <1>1, <1>2, <1>3, <1>4, <1>5

LEMMA TypedInit == Init => Typed
<1> SUFFICES ASSUME Init PROVE Typed
  OBVIOUS
<1>1. posts \in Seq([author : Users, deleted : BOOLEAN])
  <2> DEFINE post(i) == [author |-> Written[i], deleted |-> FALSE]
  <2>1. Written \in Seq(Users) /\ posts = [i \in 1 .. Len(Written) |-> post(i)]
    BY TimelineAssumption DEF Init
  <2>2. Len(Written) \in Nat
    BY <2>1
  <2>3. \A i \in 1 .. Len(Written) : post(i) \in [author : Users, deleted : BOOLEAN]
    BY <2>1
  <2> HIDE DEF post
  <2> QED
    BY <2>1, <2>2, <2>3
<1> QED
  BY <1>1 DEF Init, Typed, Idle, Fresh

\* Jobs and what is stored are of the types that have grown with the posts.
LEMMA StillTyped ==
    ASSUME Posted, \A j \in jobs' : Job(j),
           follows' \subseteq MayFollow, hidden' \subseteq Users \X Users \X Kinds,
           tl' \in [Users -> SUBSET Ids],
           reader' \in [Readers -> {Idle} \union Building \union Serving],
           scroll' \in [Readers -> [seen : SUBSET Ids, more : BOOLEAN]],
           \A v \in Readers : scroll'[v].more => scroll'[v].seen # {},
           missed' \subseteq Users \X Ids, changes' \in Nat
    PROVE  Typed'
<1>1. Ids \subseteq Ids' /\ posts' \in Seq([author : Users, deleted : BOOLEAN])
  BY DEF Posted
<1>2. /\ PostJobs \subseteq PostJobs' /\ FollowJobs \subseteq FollowJobs'
      /\ Building \subseteq Building' /\ Serving \subseteq Serving'
  BY <1>1, Wider
<1>3. ASSUME NEW j \in jobs' PROVE Job(j)'
  <2>1. CASE j \in FollowJobs
    BY <1>2, <2>1 DEF Job
  <2>2. CASE j \in PostJobs /\ posts[j.id].author = j.by
    <3>1. j.id \in Ids
      BY <2>2 DEF PostJobs
    <3> QED
      BY <1>2, <2>2, <3>1 DEF Job, Posted
  <2> QED
    BY <1>3, <2>1, <2>2 DEF Job
<1>4. /\ tl' \in [Users -> SUBSET (Ids')]
      /\ scroll' \in [Readers -> [seen : SUBSET (Ids'), more : BOOLEAN]]
      /\ missed' \subseteq Users \X Ids'
  <2>1. SUBSET Ids \subseteq SUBSET (Ids')
    BY <1>1
  <2> QED
    BY <1>1, <2>1
<1>5. reader' \in [Readers -> {Idle} \union Building' \union Serving']
  BY <1>2
<1> QED
  BY <1>1, <1>3, <1>4, <1>5 DEF Typed, Idle

LEMMA TypedStep ==
    ASSUME Typed, [Next]_vars
    PROVE  Typed'
<1>0. Posted
  BY PostsStep
<1>1. CASE UNCHANGED vars
  BY <1>0, <1>1, StillTyped DEF Typed, vars
<1>2. ASSUME NEW u \in Authors, CreatePost(u) PROVE Typed'
  <2>1. /\ u \in Users /\ Len(posts) \in Nat
        /\ Len(posts') = Len(posts) + 1 /\ posts'[Len(posts) + 1].author = u
    BY <1>2, TimelineAssumption DEF CreatePost, Typed
  <2> DEFINE new == [kind |-> "post", id |-> Len(posts) + 1, by |-> u, at |-> "self", todo |-> {}]
  <2>2. Ids \subseteq Ids'
    BY <1>0 DEF Posted
  <2>3. ASSUME NEW j \in jobs' PROVE Job(j)'
    <3>1. CASE j \in jobs
      <4>1. Job(j)
        BY <3>1 DEF Typed
      <4>2. CASE j \in FollowJobs
        BY <2>2, <4>2, Wider DEF Job
      <4>3. CASE j \in PostJobs /\ posts[j.id].author = j.by
        <5>1. j.id \in Ids
          BY <4>3 DEF PostJobs
        <5> QED
          BY <1>0, <2>2, <4>3, <5>1, Wider DEF Job, Posted
      <4> QED
        BY <4>1, <4>2, <4>3 DEF Job
    <3>2. CASE j = new
      BY <2>1, <3>2 DEF Job, PostJobs, Writes, Ids
    <3> QED
      BY <1>2, <2>3, <3>1, <3>2 DEF CreatePost
  <2>4. SUBSET Ids \subseteq SUBSET (Ids')
    BY <2>2
  <2>5. /\ tl' \in [Users -> SUBSET (Ids')]
        /\ scroll' \in [Readers -> [seen : SUBSET (Ids'), more : BOOLEAN]]
        /\ missed' \subseteq Users \X Ids'
    BY <1>2, <2>2, <2>4 DEF CreatePost, Typed
  <2>6. reader' \in [Readers -> {Idle} \union Building' \union Serving']
    BY <1>2, <2>2, Wider DEF CreatePost, Typed
  <2> QED
    BY <1>0, <1>2, <2>3, <2>5, <2>6 DEF CreatePost, Typed, Posted, Idle
<1>3. ASSUME NEW q \in Ids, DeletePost(q) PROVE Typed'
  BY <1>0, <1>3, StillTyped DEF DeletePost, Change, Typed
<1>4. ASSUME NEW e \in MayFollow, Follow(e[1], e[2]) PROVE Typed'
  <2>1. e[1] \in Users /\ e[2] \in Users /\ e = <<e[1], e[2]>>
    BY TimelineAssumption
  <2>2. \A j \in jobs' : Job(j)
    BY <1>4, <2>1 DEF Follow, Typed, Job, FollowJobs, Writes
  <2> QED
    BY <1>0, <1>4, <2>1, <2>2, StillTyped DEF Follow, Change, Typed
<1>5. ASSUME NEW e \in MayFollow, Unfollow(e[1], e[2]) PROVE Typed'
  BY <1>0, <1>5, StillTyped DEF Unfollow, Change, Typed
<1>6. ASSUME NEW v \in Readers, NEW a \in Authors, NEW k \in Kinds, Hide(v, a, k) PROVE Typed'
  <2>1. v \in Users /\ a \in Users
    BY TimelineAssumption
  <2> QED
    BY <1>0, <1>6, <2>1, StillTyped DEF Hide, Change, Typed
<1>7. ASSUME NEW u \in Users, Evict(u) PROVE Typed'
  BY <1>0, <1>7, StillTyped DEF Evict, Change, Typed
<1>8. ASSUME NEW j \in jobs, Handle(j) \/ Redeliver(j) PROVE Typed'
  BY <1>0, <1>8, HandlerTypes, StillTyped DEF Typed
<1>9. ASSUME NEW v \in Readers, Home(v) \/ Read(v) PROVE Typed'
  BY <1>0, <1>9, RequestTypes, StillTyped DEF Typed
<1>10. ASSUME NEW j \in jobs, GiveUp(j) PROVE Typed'
  <2>1. missed' \subseteq Users \X Ids
    <3>1. /\ j \in PostJobs => j.kind = "post" /\ j.by \in Users /\ j.id \in Ids
          /\ j \in FollowJobs => j.kind # "post" /\ j.follower \in Users
          /\ j \in PostJobs \/ j \in FollowJobs
      BY DEF Typed, Job, PostJobs, FollowJobs
    <3>2. \A users \in SUBSET Users, ids \in SUBSET Ids : MissedBy(users, ids) \subseteq Users \X Ids
      BY DEF MissedBy, Typed
    <3>3. FollowersOf(j.by) \in SUBSET Users /\ By({j.by}) \in SUBSET Ids
      BY DEF FollowersOf, By
    <3> QED
      BY <1>10, <3>1, <3>2, <3>3 DEF GiveUp
  <2>2. /\ UNCHANGED <<posts, follows, hidden, tl, reader, scroll>> /\ changes' \in Nat
        /\ \A i \in jobs' : Job(i)
    BY <1>10 DEF GiveUp, Change, Typed
  <2> QED
    BY <1>0, <2>1, <2>2, StillTyped DEF Typed
<1> QED
  BY <1>1, <1>2, <1>3, <1>4, <1>5, <1>6, <1>7, <1>8, <1>9, <1>10 DEF Next

-----------------------------------------------------------------------------
(* Requests.                                                               *)

\* Only its own steps move the request of a reader.
LEMMA Turns ==
    ASSUME [Next]_vars, Typed, NEW v \in Readers
    PROVE  Home(v) \/ Read(v) \/ UNCHANGED <<reader[v], scroll[v]>>
<1>1. CASE UNCHANGED <<reader, scroll>>
  BY <1>1
<1>2. ASSUME NEW w \in Readers \ {v}, Home(w) \/ Read(w) PROVE UNCHANGED <<reader[v], scroll[v]>>
  <2>1. UNCHANGED reader[v]
    <3>1. PICK r : Steps(w, r)
      BY <1>2, Requests
    <3> QED
      BY <1>2, <3>1 DEF Steps, Typed
  <2>2. UNCHANGED scroll[v]
    <3>1. UNCHANGED scroll \/ \E s : scroll' = [scroll EXCEPT ![w] = s]
      BY <1>2 DEF Home, Read, RebuildFollowing, RebuildRecent, ReplaceTimeline, HomePage, Hydrate,
         Filter
    <3> QED
      BY <1>2, <3>1 DEF Typed
  <2> QED
    BY <2>1, <2>2
<1>3. ASSUME NEW j \in jobs, Handle(j) \/ Redeliver(j) PROVE UNCHANGED <<reader, scroll>>
  BY <1>3, HandlerTypes
<1> QED
  BY <1>1, <1>2, <1>3 DEF Next, vars, CreatePost, DeletePost, Follow, Unfollow, Hide, Evict, GiveUp

\* What the steps of a request do to it.
LEMMA Moves ==
    ASSUME Typed, NEW v \in Readers, Home(v) \/ Read(v)
    PROVE  LET r == reader[v]
               s == reader'[v]
           IN  \/ /\ r = Idle /\ s.at \in Asking \ {"replace"} /\ s.gone = {p \in Ids : ~Live(p)}
                  /\ \/ scroll'[v].seen = {}
                     \/ UNCHANGED scroll[v] /\ \A q \in scroll[v].seen : s.before <= q
               \/ /\ r.at \in Asking /\ s.at \in Asking /\ UNCHANGED scroll[v]
                  /\ s.before = r.before /\ s.gone = r.gone
                  /\ s.at = "replace" => RebuildRecent(v)
               \/ /\ r.at \in Asking /\ s.at = "hydrate" /\ UNCHANGED scroll[v]
                  /\ s.gone = r.gone /\ \A p \in s.ids : p < r.before
               \/ /\ r.at = "hydrate" /\ s.at = "filter" /\ UNCHANGED scroll[v]
                  /\ s.gone = r.gone /\ s.ids \subseteq {p \in r.ids : Live(p)}
               \/ r.at = "filter" /\ s = Idle /\ Filter(v)
<1> DEFINE r == reader[v]
<1>0. /\ r.at \in {"idle", "hydrate", "filter"} \union Asking
      /\ r.at = "idle" <=> r = Idle
      /\ r.at \in Asking => r \in Building
      /\ r.at \in {"hydrate", "filter"} => r \in Serving
      /\ \A s : Steps(v, s) => reader'[v] = s
  BY Asked DEF Steps, Typed
<1>1. CASE Home(v)
  <2>1. PICK before :
           /\ \/ before = MaxPosts + 1 /\ scroll' = [scroll EXCEPT ![v] = Fresh]
              \/ scroll[v].more /\ before = Min(scroll[v].seen) /\ UNCHANGED scroll
           /\ Steps(v, [ at |-> IF tl[v] = {} THEN "following" ELSE "page", before |-> before,
                         rebuilt |-> tl[v] = {}, pulled |-> FALSE,
                         authors |-> {}, read |-> 0, ids |-> {},
                         gone |-> {p \in Ids : ~Live(p)} ])
    BY <1>1 DEF Home
  <2>2. scroll[v].more => \A q \in scroll[v].seen : Min(scroll[v].seen) <= q
    <3>1. scroll[v].seen \in SUBSET Nat
      BY IdsFinite DEF Typed
    <3> QED
      BY <3>1, MinOf DEF Typed
  <2>3. scroll' = [scroll EXCEPT ![v] = Fresh] => scroll'[v].seen = {}
    BY DEF Typed, Fresh
  <2> QED
    BY <1>0, <1>1, <2>1, <2>2, <2>3 DEF Home, Asking
<1>2. CASE RebuildFollowing(v)
  BY <1>0, <1>2 DEF RebuildFollowing, Asking, Building
<1>3. CASE RebuildRecent(v)
  BY <1>0, <1>3 DEF RebuildRecent, Asking, Building
<1>4. CASE ReplaceTimeline(v)
  BY <1>0, <1>4 DEF ReplaceTimeline, Asking, Building
<1>5. CASE HomePage(v)
  <2>1. PICK ids :
           /\ \A p \in ids : p < r.before
           /\ Steps(v, IF ids = {} /\ ~r.rebuilt
                       THEN [r EXCEPT !.at = "following", !.rebuilt = TRUE, !.pulled = TRUE]
                       ELSE [at |-> "hydrate", ids |-> ids, gone |-> r.gone])
    <3>1. \A S, n : \A p \in Below(S, n) : p < n
      BY DEF Below
    <3>2. \A S, n : Newest(n, S) \subseteq S
      BY DEF Newest
    <3>3. PICK more :
             LET ids == Newest(Over, Below(tl[v], r.before)) \union Below(more, r.before)
             IN  Steps(v, IF ids = {} /\ ~r.rebuilt
                          THEN [r EXCEPT !.at = "following", !.rebuilt = TRUE, !.pulled = TRUE]
                          ELSE [at |-> "hydrate", ids |-> ids, gone |-> r.gone])
      BY <1>5 DEF HomePage
    <3> QED
      BY <3>1, <3>2, <3>3
  <2>2. r.at = "page" /\ r \in Building /\ UNCHANGED scroll
    BY <1>0, <1>5 DEF HomePage, Asking
  <2>3. CASE ids = {} /\ ~r.rebuilt
    <3> DEFINE s == [r EXCEPT !.at = "following", !.rebuilt = TRUE, !.pulled = TRUE]
    <3>1. reader'[v] = s
      BY <1>0, <2>1, <2>3
    <3>2. s.at = "following" /\ s.before = r.before /\ s.gone = r.gone
      BY <2>2 DEF Building
    <3> QED
      BY <2>2, <3>1, <3>2 DEF Asking
  <2>4. CASE ~ (ids = {} /\ ~r.rebuilt)
    <3>1. reader'[v] = [at |-> "hydrate", ids |-> ids, gone |-> r.gone]
      BY <1>0, <2>1, <2>4
    <3> QED
      BY <2>1, <2>2, <3>1 DEF Asking
  <2> QED
    BY <2>3, <2>4
<1>6. CASE Hydrate(v)
  BY <1>0, <1>6 DEF Hydrate, Serving
<1>7. CASE Filter(v)
  BY <1>0, <1>7 DEF Filter
<1> QED
  BY <1>1, <1>2, <1>3, <1>4, <1>5, <1>6, <1>7 DEF Read

LEMMA OnwardStep ==
    ASSUME Typed, Onward, [Next]_vars
    PROVE  Onward'
<1> SUFFICES ASSUME NEW v \in Readers
             PROVE  LET s == reader'[v]
                    IN  /\ s.at \in Asking => \A q \in scroll'[v].seen : s.before <= q
                        /\ s.at \in {"hydrate", "filter"} =>
                              \A p \in s.ids, q \in scroll'[v].seen : p < q
  BY DEF Onward, Asking
<1>1. CASE UNCHANGED <<reader[v], scroll[v]>>
  BY <1>1 DEF Onward
<1>2. CASE Home(v) \/ Read(v)
  <2>1. /\ reader[v].at \in Asking =>
              reader[v].before \in Nat /\ \A q \in scroll[v].seen : reader[v].before <= q
        /\ reader[v].at = "hydrate" => \A p \in reader[v].ids, q \in scroll[v].seen : p < q
    BY Asked DEF Onward, Building
  <2>2. ASSUME reader[v].at \in Asking, reader'[v].at = "hydrate", UNCHANGED scroll[v],
               \A p \in reader'[v].ids : p < reader[v].before
        PROVE  \A p \in reader'[v].ids, q \in scroll[v].seen : p < q
    <3>1. Typed'
      BY TypedStep
    <3>2. reader'[v].ids \subseteq Ids'
      BY <2>2, <3>1 DEF Typed, Idle, Asking, Building, Serving
    <3>3. reader'[v].ids \subseteq Nat /\ scroll[v].seen \subseteq Nat
      BY <3>1, <3>2, IdsFinite DEF Ids, Typed
    <3>4. ASSUME NEW p \in reader'[v].ids, NEW q \in scroll[v].seen PROVE p < q
      <4>1. p \in Nat /\ q \in Nat /\ p < reader[v].before /\ reader[v].before <= q
        BY <2>1, <2>2, <3>3
      <4> QED
        BY <2>1, <2>2, <4>1
    <3> QED
      BY <3>4
  <2> QED
    BY <1>2, <2>1, <2>2, Moves DEF Asking, Idle
<1> QED
  BY <1>1, <1>2, Turns

LEMMA GoneStep ==
    ASSUME Typed, GoneStays, [Next]_vars
    PROVE  GoneStays'
<1> SUFFICES ASSUME NEW v \in Readers
             PROVE  LET s == reader'[v]
                    IN  /\ s.at # "idle" => \A p \in s.gone : ~Live(p)'
                        /\ s.at = "filter" => s.ids \intersect s.gone = {}
  BY DEF GoneStays
<1>1. \A p \in Ids : ~Live(p) => ~Live(p)'
  BY PostsStep DEF Posted
<1>2. reader[v].at # "idle" =>
         reader[v].gone \subseteq Ids /\ \A p \in reader[v].gone : ~Live(p) /\ ~Live(p)'
  BY <1>1, Asked DEF GoneStays, Building, Serving
<1>3. CASE UNCHANGED <<reader[v], scroll[v]>>
  BY <1>2, <1>3 DEF GoneStays
<1>4. CASE Home(v) \/ Read(v)
  BY <1>1, <1>2, <1>4, Moves DEF Asking, Idle
<1> QED
  BY <1>3, <1>4, Turns

\* Only Filter ends a request.
LEMMA Ends ==
    ASSUME Typed, [Next]_vars, NEW v \in Readers, reader[v].at = "filter", reader'[v] = Idle
    PROVE  Filter(v)
<1>1. ~ UNCHANGED reader[v]
  BY DEF Idle
<1> QED
  BY <1>1, Turns, Moves DEF Asking, Idle

LEMMA ShownOnce ==
    ASSUME Typed, Onward, NEW v \in Readers, Filter(v), scroll'[v].more
    PROVE  Cardinality(scroll'[v].seen) = Cardinality(scroll[v].seen) + Limit
<1>1. PICK page \in SUBSET Ids :
         /\ page \subseteq reader[v].ids /\ Cardinality(page) <= Limit
         /\ scroll' = [scroll EXCEPT ![v] = [ seen |-> scroll[v].seen \union page,
                                              more |-> Cardinality(page) >= Limit ]]
  BY Pages
<1>2. scroll[v].seen \in SUBSET Ids /\ reader[v].at = "filter"
  BY Pages DEF Typed
<1>3. /\ scroll'[v].seen = scroll[v].seen \union page
      /\ Cardinality(page) >= Limit
  BY <1>1 DEF Typed
<1>4. scroll[v].seen \intersect page = {}
  <2>1. \A p \in page, q \in scroll[v].seen : p < q
    BY <1>1, <1>2 DEF Onward
  <2>2. \A p \in page : p \in Nat
    BY <1>1, IdsFinite
  <2> QED
    BY <2>1, <2>2
<1>5. /\ IsFiniteSet(page) /\ IsFiniteSet(scroll[v].seen)
      /\ Cardinality(page) \in Nat /\ Cardinality(scroll[v].seen) \in Nat
  BY <1>1, <1>2, IdsFinite
<1>6. Cardinality(scroll[v].seen \union page) =
         Cardinality(scroll[v].seen) + Cardinality(page) - Cardinality(scroll[v].seen \intersect page)
  BY <1>5, FS_Union
<1>7. Cardinality(scroll[v].seen \intersect page) = 0
  BY <1>4, FS_EmptySet
<1>8. Limit \in Nat
  BY TimelineAssumption
<1>9. Cardinality(page) <= Limit
  BY <1>1
<1> QED
  BY ONLY <1>3, <1>5, <1>6, <1>7, <1>8, <1>9

LEMMA Allowed ==
    ASSUME Typed, GoneStays, NEW v \in Readers, Filter(v)
    PROVE  LET page == scroll'[v].seen \ scroll[v].seen
           IN  /\ page \intersect reader[v].gone = {}
               /\ changes' = changes =>
                     \A p \in page, k \in Kinds : <<v, posts[p].author, k>> \notin hidden
<1>1. PICK kinds \in SUBSET Kinds :
         LET page == Newest(Limit, {p \in reader[v].ids : \A k \in kinds :
                                       <<v, posts[p].author, k>> \notin hidden})
         IN  /\ scroll' = [scroll EXCEPT ![v] = [ seen |-> scroll[v].seen \union page,
                                                  more |-> Cardinality(page) >= Limit ]]
             /\ kinds = Kinds \/ Change
  BY Pages
<1>2. scroll'[v].seen \ scroll[v].seen \subseteq
         {p \in reader[v].ids : \A k \in kinds : <<v, posts[p].author, k>> \notin hidden}
  BY <1>1 DEF Typed, Newest
<1>3. reader[v].ids \intersect reader[v].gone = {}
  BY Pages DEF GoneStays
<1>4. changes' = changes => kinds = Kinds
  BY <1>1 DEF Change, Typed
<1> QED
  BY <1>2, <1>3, <1>4

-----------------------------------------------------------------------------
(* Timelines.                                                              *)

\* What is owed stays owed when posts are added or deleted.
LEMMA OwedStays ==
    ASSUME Typed, Posted, NEW j \in jobs, NEW u \in Users, NEW p \in Ids, Owes(j, u, p)
    PROVE  Owes(j, u, p)'
<1>1. PostJobs \subseteq PostJobs' /\ FollowJobs \subseteq FollowJobs'
  BY Wider DEF Posted
<1>2. posts'[p].author = posts[p].author
  BY DEF Posted
<1> QED
  BY <1>1, <1>2 DEF Owes

\* A timeline that nobody writes to goes on to hold what it held.
LEMMA CoveredStays ==
    ASSUME Typed, Complete, Posted, jobs \subseteq jobs',
           NEW u \in Users, tl'[u] # {}, UNCHANGED tl[u],
           NEW p \in By(Following(u) \union {u}),
           <<u, p>> \in missed => <<u, p>> \in missed'
    PROVE  Covered(u, p)'
<1>1. p \in Ids /\ Covered(u, p)
  BY DEF By, Complete
<1>2. ~Live(p) => ~Live(p)'
  BY <1>1 DEF Posted
<1>3. Holds(tl[u], p) => Holds(tl[u], p)'
  BY DEF Holds
<1>4. (\E j \in jobs : Owes(j, u, p)) => (\E j \in jobs : Owes(j, u, p))'
  BY <1>1, OwedStays
<1> QED
  BY <1>1, <1>2, <1>3, <1>4 DEF Covered

\* A post that is written to a timeline, or was in it, is held.
LEMMA FanoutHolds ==
    ASSUME Typed, NEW w \in Users, NEW q \in Ids, FanoutIfExists(w, q),
           NEW u \in Users, tl'[u] # {}, NEW p \in Ids,
           Holds(tl[u], p) \/ (u = w /\ p = q)
    PROVE  Holds(tl'[u], p)
<1>1. CASE u # w
  BY <1>1, Fanout
<1>2. CASE u = w
  <2> DEFINE S == tl[u] \union {q}
  <2>1. tl'[u] = Newest(Cap, S)
    BY <1>2, Fanout
  <2>2. /\ Len(posts) \in Nat /\ tl[u] \in SUBSET S /\ S \in SUBSET (0 .. Len(posts))
        /\ p \in Nat /\ Cap \in Nat
    BY IdsFinite, TimelineAssumption DEF Typed
  <2>3. Holds(S, p)
    <3>1. CASE p = q
      BY <3>1 DEF Holds
    <3>2. CASE Holds(tl[u], p)
      <4> HIDE DEF S
      <4> QED
        BY <2>2, <3>2, MoreHolds
    <3> QED
      BY <3>1, <3>2
  <2> HIDE DEF S
  <2> QED
    BY <2>1, <2>2, <2>3, TrimHolds
<1> QED
  BY <1>1, <1>2

\* If a page holds the followers of any author, it holds them all.
LEMMA WholePage ==
    ASSUME Typed, OnePage, NEW a \in Users, NEW page \in SUBSET FollowersOf(a),
           Cardinality(page) = Min({FollowerPage, Cardinality(FollowersOf(a))})
    PROVE  page = FollowersOf(a)
<1> DEFINE F == FollowersOf(a)
           M == {u \in Users : <<u, a>> \in MayFollow}
<1>1. F \in SUBSET M /\ IsFiniteSet(M)
  <2>1. F \in SUBSET M
    BY DEF FollowersOf, Typed
  <2>2. IsFiniteSet(M)
    BY FS_Subset, TimelineAssumption
  <2> QED
    BY <2>1, <2>2
<1>2. Cardinality(M) <= FollowerPage /\ FollowerPage \in Nat
  BY TimelineAssumption DEF OnePage
<1> HIDE DEF F, M
<1>3. IsFiniteSet(F) /\ Cardinality(F) \in Nat /\ Cardinality(M) \in Nat
      /\ Cardinality(F) <= Cardinality(M)
  BY <1>1, FS_Subset, FS_CardinalityType
<1>4. Cardinality(F) <= FollowerPage
  BY <1>2, <1>3
<1>5. Min({FollowerPage, Cardinality(F)}) = Cardinality(F)
  <2>1. {FollowerPage, Cardinality(F)} \in SUBSET Nat
    BY <1>2, <1>3
  <2>2. /\ Min({FollowerPage, Cardinality(F)}) \in {FollowerPage, Cardinality(F)}
        /\ Min({FollowerPage, Cardinality(F)}) <= Cardinality(F)
    BY <2>1, MinOf
  <2> QED
    BY <1>2, <1>3, <1>4, <2>2
<1>6. page \in SUBSET F /\ Cardinality(F) = Cardinality(page)
  BY <1>5 DEF F
<1> QED
  BY <1>3, <1>6, FS_Subset DEF F

\* A step of a handler leaves nothing out: each write that it owes is done, still
\* owed, or known to be missed.
LEMMA OwedStep ==
    ASSUME Typed, OnePage, NEW j \in jobs, Handle(j) \/ Redeliver(j),
           NEW u \in Users, tl[u] # {}, tl'[u] # {}, NEW p \in By(Following(u) \union {u}),
           Live(p), Owes(j, u, p)
    PROVE  Holds(tl'[u], p) \/ <<u, p>> \in missed' \/ \E k \in jobs' : Owes(k, u, p)
<1> DEFINE Goal == Holds(tl'[u], p) \/ <<u, p>> \in missed' \/ \E k \in jobs' : Owes(k, u, p)
<1>1. Job(j) /\ p \in Ids
  BY DEF Typed, By
<1>2. /\ j \in PostJobs => /\ j.id = p /\ j.by = posts[p].author /\ j.by \in Users
                           /\ j \notin FollowJobs
                           /\ u # j.by => u \in FollowersOf(j.by)
      /\ j \in FollowJobs => j.follower = u /\ j.by = posts[p].author
  <2>1. CASE j \in PostJobs
    <3>1. j.id = p /\ j.by = posts[p].author /\ j \notin FollowJobs
      BY <1>1, <2>1, KindsApart DEF Owes, Job
    <3>2. j.by \in Users /\ posts[p].author \in Following(u) \union {u}
      BY <2>1 DEF PostJobs, By
    <3> QED
      BY <3>1, <3>2 DEF Following, FollowersOf
  <2>2. CASE j \in FollowJobs
    BY <2>2, KindsApart DEF Owes
  <2> QED
    BY <1>1, <2>1, <2>2 DEF Job
<1>3. ASSUME NEW k, NEW at, NEW todo, Becomes(j, k), Goes(j, k, at, todo)
      PROVE  /\ k \in jobs' /\ k.at = at /\ k.todo = todo
             /\ j \in PostJobs => k \in PostJobs /\ k.id = p /\ k.by = j.by
             /\ j \in FollowJobs => k \in FollowJobs /\ k.follower = u /\ k.by = posts[p].author
  BY <1>2, <1>3 DEF Becomes, Goes
<1>4. ASSUME j \in PostJobs, j.at \in {"large", "list"},
             missed' = MissedBy(FollowersOf(j.by), {j.id})
      PROVE  <<u, p>> \in missed'
  BY <1>2, <1>4 DEF MissedBy, Owes
<1>5. CASE Acknowledge(j) /\ j.todo = {} /\ j.at = "write"
  BY <1>5 DEF Owes
<1>6. ASSUME NEW k, NEW todo, Becomes(j, k), Goes(j, k, "large", todo), FanoutSelf(j),
             j \in PostJobs
      PROVE  Goal
  <2>1. CASE u = j.by
    <3>1. FanoutIfExists(u, p)
      BY <1>2, <1>6, <2>1 DEF FanoutSelf
    <3> QED
      BY <1>1, <3>1, FanoutHolds
  <2>2. CASE u # j.by
    BY <1>3, <1>6, <2>2 DEF Owes
  <2> QED
    BY <2>1, <2>2
<1>7. ASSUME NEW k, NEW at, NEW todo, Becomes(j, k), Goes(j, k, at, todo),
             j \in PostJobs, j.at = "large",
             at = "list" \/ missed' = MissedBy(FollowersOf(j.by), {j.id})
      PROVE  Goal
  <2>1. u # j.by
    BY <1>2, <1>7 DEF Owes
  <2> QED
    BY <1>3, <1>4, <1>7, <2>1 DEF Owes
<1>8. ASSUME NEW k, NEW todo, Becomes(j, k), Goes(j, k, "write", todo), j \in PostJobs,
             j.at = "list",
             \/ missed' = MissedBy(FollowersOf(j.by), {j.id})
             \/ \E page \in SUBSET FollowersOf(j.by) :
                   /\ Cardinality(page) = Min({FollowerPage, Cardinality(FollowersOf(j.by))})
                   /\ todo = page \X {j.id} /\ UNCHANGED missed
      PROVE  Goal
  <2>1. u # j.by
    BY <1>2, <1>8 DEF Owes
  <2>2. missed' = MissedBy(FollowersOf(j.by), {j.id}) \/ todo = FollowersOf(j.by) \X {j.id}
    BY <1>2, <1>8, WholePage
  <2>3. todo = FollowersOf(j.by) \X {j.id} => <<u, p>> \in todo
    BY <1>2, <1>8, <2>1
  <2> QED
    BY <1>3, <1>4, <1>8, <2>2, <2>3 DEF Owes
<1>9. ASSUME NEW k, NEW at, NEW todo, Becomes(j, k), Goes(j, k, at, todo), j \in FollowJobs,
             at = IF tl[j.follower] = {} THEN "write" ELSE "recent"
      PROVE  Goal
  BY <1>2, <1>3, <1>9 DEF Owes
<1>10. ASSUME NEW k, NEW todo, Becomes(j, k), Goes(j, k, "write", todo), j \in FollowJobs,
              LET recent == {q \in By({j.by}) : Live(q)}
              IN  \/ missed' = MissedBy({j.follower}, recent)
                  \/ todo = {j.follower} \X recent /\ UNCHANGED missed
       PROVE  Goal
  <2>1. p \in {q \in By({j.by}) : Live(q)}
    BY <1>1, <1>2, <1>10 DEF By
  <2> DEFINE recent == {q \in By({j.by}) : Live(q)}
  <2>2. missed' = MissedBy({j.follower}, recent) \/ todo = {j.follower} \X recent
    BY <1>10
  <2> HIDE DEF recent
  <2>3. CASE missed' = MissedBy({j.follower}, recent)
    BY <1>2, <1>10, <2>1, <2>3 DEF MissedBy, recent
  <2>4. CASE todo = {j.follower} \X recent
    <3>1. <<u, p>> \in todo
      BY <1>2, <1>10, <2>1, <2>4 DEF recent
    <3> QED
      BY <1>3, <1>10, <3>1 DEF Owes
  <2> QED
    BY <2>2, <2>3, <2>4
<1>11. ASSUME NEW k, NEW todo, Becomes(j, k), Goes(j, k, j.at, todo), NEW w \in j.todo,
              FanoutIfExists(w[1], w[2]), todo = j.todo \ {w}
       PROVE  Goal
  <2>1. w \in Users \X Ids
    BY <1>1 DEF Job, PostJobs, FollowJobs, Writes
  <2>2. CASE w = <<u, p>>
    BY <1>1, <1>11, <2>1, <2>2, FanoutHolds
  <2>3. CASE w # <<u, p>>
    BY <1>1, <1>3, <1>11, <2>3 DEF Owes, Job
  <2> QED
    BY <2>2, <2>3
<1>12. ASSUME NEW k, NEW at, NEW todo, Becomes(j, k), Goes(j, k, at, todo),
              at = IF j \in PostJobs THEN "self" ELSE "exists"
       PROVE  Goal
  BY <1>1, <1>2, <1>3, <1>12 DEF Owes, Job
<1> SUFFICES Goal
  OBVIOUS
<1> HIDE DEF Goal
<1>13. CASE ~ (Acknowledge(j) /\ j.todo = {} /\ j.at = "write")
  <2>1. PICK k, at, todo : Becomes(j, k) /\ Goes(j, k, at, todo) /\ Finds(j, at, todo)
    BY <1>13, Handlers
  <2>2. CASE FanoutSelf(j) /\ j \in PostJobs /\ at = "large"
    BY <1>6, <2>1, <2>2
  <2>3. CASE /\ j \in PostJobs /\ j.at = "large"
             /\ at = "list" \/ missed' = MissedBy(FollowersOf(j.by), {j.id})
    BY <1>7, <2>1, <2>3
  <2> QED
    BY <2>1, <2>2, <2>3, <1>8, <1>9, <1>10, <1>11, <1>12 DEF Finds
<1>14. CASE Acknowledge(j) /\ j.todo = {} /\ j.at = "write"
  BY <1>5, <1>14 DEF Goal
<1> QED
  BY <1>13, <1>14

\* What the other handlers owe is not touched.
LEMMA HandlerCovers ==
    ASSUME Typed, OnePage, Complete, NEW j \in jobs, Handle(j) \/ Redeliver(j),
           NEW u \in Users, tl'[u] # {}, NEW p \in By(Following(u) \union {u})
    PROVE  Covered(u, p)'
<1>1. UNCHANGED <<posts, follows>> /\ p \in Ids
  BY HandlerTypes DEF By
<1>2. \/ UNCHANGED tl
      \/ \E w \in Users, q \in Ids : FanoutIfExists(w, q)
  <2>1. CASE FanoutSelf(j)
    <3>1. j.by \in Users /\ j.id \in Ids
      BY <2>1 DEF FanoutSelf, Typed, Job, PostJobs, FollowJobs
    <3> QED
      BY <2>1, <3>1 DEF FanoutSelf
  <2>2. CASE FanoutWrite(j)
    <3>1. PICK w \in j.todo : FanoutIfExists(w[1], w[2])
      BY <2>2 DEF FanoutWrite
    <3>2. w[1] \in Users /\ w[2] \in Ids
      BY DEF Typed, Job, PostJobs, FollowJobs, Writes
    <3> QED
      BY <3>1, <3>2
  <2> QED
    BY <2>1, <2>2 DEF Handle, Redeliver, SkipLarge, ListFollowers, CheckFollower, BackfillPosts,
       Acknowledge
<1>3. tl[u] # {} /\ (Holds(tl[u], p) => Holds(tl'[u], p))
  <2>1. ASSUME NEW w \in Users, NEW q \in Ids, FanoutIfExists(w, q)
        PROVE  tl[u] # {} /\ (Holds(tl[u], p) => Holds(tl'[u], p))
    <3>1. tl[u] # {}
      BY <2>1, Fanout
    <3> QED
      BY <1>1, <2>1, <3>1, FanoutHolds
  <2> QED
    BY <1>2, <2>1
<1>4. missed \subseteq missed'
  BY DEF Handle, Redeliver, FanoutSelf, SkipLarge, ListFollowers, CheckFollower, BackfillPosts,
     FanoutWrite, Acknowledge, MissedBy
<1>5. jobs \ {j} \subseteq jobs'
  BY DEF Handle, Redeliver, FanoutSelf, SkipLarge, ListFollowers, CheckFollower, BackfillPosts,
     FanoutWrite, Acknowledge, Becomes
<1>6. Covered(u, p)
  BY <1>3 DEF Complete
<1>7. Live(p)' = Live(p) /\ \A i : Owes(i, u, p)' <=> Owes(i, u, p)
  BY <1>1 DEF Live, Owes, PostJobs, FollowJobs, Writes, Ids
<1>8. CASE \E i \in jobs \ {j} : Owes(i, u, p)
  BY <1>5, <1>7, <1>8 DEF Covered
<1>9. CASE Live(p) /\ Owes(j, u, p)
  <2>1. Holds(tl'[u], p) \/ <<u, p>> \in missed' \/ \E k \in jobs' : Owes(k, u, p)
    BY <1>3, <1>9, OwedStep
  <2> QED
    BY <1>7, <2>1 DEF Covered, Holds
<1> QED
  BY <1>3, <1>4, <1>6, <1>7, <1>8, <1>9 DEF Covered, Holds

\* What a rebuild puts in the place of a timeline is what it read, and what it
\* did not is known to be missed.
LEMMA ReplaceCovers ==
    ASSUME Typed, Complete, ReadAll, Posted, NEW v \in Readers, ReplaceTimeline(v),
           NEW u \in Users, tl'[u] # {}, NEW p \in By(Following(u) \union {u})
    PROVE  Covered(u, p)'
<1> DEFINE r == reader[v]
           mine == By(Following(v) \union {v})
<1>1. /\ r \in Building /\ r.at = "replace" /\ v \in Users
      /\ tl' = [tl EXCEPT ![v] = Newest(Cap, r.ids)]
      /\ missed' = {m \in missed : m[1] # v} \union
            {<<v, q>> : q \in {q \in mine : q > r.read \/ posts[q].author \notin r.authors}}
      /\ UNCHANGED <<posts, follows, jobs>>
  BY TimelineAssumption, Asked DEF ReplaceTimeline, Asking
<1>2. CASE u # v
  <2>1. UNCHANGED tl[u]
    BY <1>1, <1>2 DEF Typed
  <2>2. <<u, p>> \in missed => <<u, p>> \in missed'
    BY <1>1, <1>2
  <2>3. jobs \subseteq jobs'
    BY <1>1
  <2> HIDE DEF mine, r
  <2> QED
    BY <2>1, <2>2, <2>3, CoveredStays
<1>3. CASE u = v
  <2>1. p \in Ids /\ p \in mine /\ p \in Nat /\ r.read \in Nat
    BY <1>1, <1>3, IdsFinite DEF By, Building
  <2>2. CASE p > r.read \/ posts[p].author \notin r.authors
    BY <1>1, <1>3, <2>1, <2>2 DEF Covered
  <2>3. CASE ~ Live(p)
    BY <1>1, <2>3 DEF Covered, Live
  <2>4. CASE p <= r.read /\ posts[p].author \in r.authors /\ Live(p)
    <3>1. p \in r.ids
      BY <1>1, <2>1, <2>4 DEF ReadAll, By
    <3>2. Len(posts) \in Nat /\ r.ids \in SUBSET (0 .. Len(posts)) /\ Cap \in Nat
      BY <1>1, IdsFinite, TimelineAssumption DEF Building
    <3>3. Holds(Newest(Cap, r.ids), p)
      <4>1. Holds(r.ids, p)
        BY <3>1 DEF Holds
      <4> QED
        BY <2>1, <3>2, <4>1, TrimHolds
    <3>4. tl'[u] = Newest(Cap, r.ids)
      BY <1>1, <1>3 DEF Typed
    <3> QED
      BY <3>3, <3>4 DEF Covered, Holds
  <2> QED
    BY <2>1, <2>2, <2>3, <2>4
<1> QED
  BY <1>2, <1>3

\* Of an event that is given up, what is not written is known to be missed.
LEMMA GiveUpCovers ==
    ASSUME Typed, Complete, Posted, NEW j \in jobs, GiveUp(j),
           NEW u \in Users, tl'[u] # {}, NEW p \in By(Following(u) \union {u})
    PROVE  Covered(u, p)'
<1>1. /\ UNCHANGED <<posts, follows, tl>> /\ jobs' = jobs \ {j}
      /\ missed \subseteq missed' /\ tl[u] # {} /\ p \in Ids
  BY DEF GiveUp, MissedBy, By
<1>2. Covered(u, p)
  BY <1>1 DEF Complete
<1>3. Live(p)' = Live(p) /\ \A i : Owes(i, u, p)' <=> Owes(i, u, p)
  BY <1>1 DEF Live, Owes, PostJobs, FollowJobs, Writes, Ids
<1>4. ASSUME Owes(j, u, p) PROVE <<u, p>> \in missed'
  <2>1. CASE j \in PostJobs
    <3>1. j.kind = "post" /\ j.id = p /\ j.by = posts[p].author
      BY <1>4, <2>1, KindsApart DEF Owes, Typed, Job, PostJobs
    <3>2. u \in FollowersOf(j.by) \union {j.by}
      BY <3>1 DEF By, Following, FollowersOf
    <3> QED
      BY <1>1, <3>1, <3>2 DEF GiveUp, MissedBy
  <2>2. CASE j \in FollowJobs
    <3>1. j.kind # "post" /\ j.follower = u /\ p \in By({j.by})
      BY <1>1, <1>4, <2>2, KindsApart DEF Owes, FollowJobs, By
    <3> QED
      BY <1>1, <3>1 DEF GiveUp, MissedBy
  <2> QED
    BY <2>1, <2>2 DEF Typed, Job
<1> QED
  BY <1>1, <1>2, <1>3, <1>4 DEF Covered, Holds

LEMMA CompleteStep ==
    ASSUME Typed, OnePage, Complete, ReadAll, [Next]_vars
    PROVE  Complete'
<1> SUFFICES ASSUME NEW u \in Users, tl'[u] # {}, NEW p \in By(Following(u) \union {u})'
             PROVE  Covered(u, p)'
  BY DEF Complete
<1>0. Posted /\ p \in Ids'
  BY PostsStep DEF By
<1>1. ASSUME jobs \subseteq jobs', UNCHANGED <<tl, missed>>, p \in By(Following(u) \union {u})
      PROVE  Covered(u, p)'
  BY <1>0, <1>1, CoveredStays
<1>2. ASSUME p \in Ids, Following(u)' \subseteq Following(u)
      PROVE  p \in By(Following(u) \union {u})
  <2>1. posts'[p].author = posts[p].author
    BY <1>0, <1>2 DEF Posted
  <2> QED
    BY <1>2, <2>1 DEF By
<1>3. CASE UNCHANGED <<posts, follows, tl, missed, jobs>>
  BY <1>0, <1>1, <1>2, <1>3 DEF Ids, Following
<1>4. ASSUME NEW w \in Authors, CreatePost(w) PROVE Covered(u, p)'
  <2>1. CASE p \in Ids
    BY <1>1, <1>2, <1>4, <2>1 DEF CreatePost, Following
  <2>2. CASE p \notin Ids
    <3>1. /\ Len(posts) \in Nat /\ Len(posts') = Len(posts) + 1 /\ w \in Users
          /\ posts'[Len(posts) + 1].author = w
      BY <1>4, TimelineAssumption DEF CreatePost, Typed
    <3>2. p = Len(posts) + 1
      BY <1>0, <2>2, <3>1 DEF Ids
    <3> DEFINE new == [kind |-> "post", id |-> p, by |-> w, at |-> "self", todo |-> {}]
    <3>3. new \in jobs'
      BY <1>4, <3>2 DEF CreatePost
    <3>4. new \in PostJobs'
      BY <1>0, <3>1 DEF PostJobs, Writes
    <3>5. Owes(new, u, p)'
      BY <3>4 DEF Owes
    <3> QED
      BY <3>3, <3>5 DEF Covered
  <2> QED
    BY <2>1, <2>2
<1>5. ASSUME NEW q \in Ids, DeletePost(q) PROVE Covered(u, p)'
  <2>1. p \in Ids
    BY <1>0, <1>5 DEF DeletePost, Ids, Typed
  <2> QED
    BY <1>1, <1>2, <1>5, <2>1 DEF DeletePost, Following
<1>6. ASSUME NEW e \in MayFollow, Follow(e[1], e[2]) PROVE Covered(u, p)'
  <2> DEFINE new == [ kind |-> "follow", id |-> 0, by |-> e[2], follower |-> e[1],
                      at |-> "exists", todo |-> {} ]
  <2>1. /\ e[1] \in Users /\ e[2] \in Users
        /\ new \in jobs' /\ UNCHANGED <<posts, tl, missed>> /\ jobs \subseteq jobs'
        /\ follows' = follows \union {<<e[1], e[2]>>}
    BY <1>6, TimelineAssumption DEF Follow
  <2>2. CASE p \in By(Following(u) \union {u})
    BY <1>1, <2>1, <2>2
  <2>3. CASE p \notin By(Following(u) \union {u})
    <3>1. p \in Ids /\ u = e[1] /\ posts'[p].author = e[2]
      BY <1>0, <2>1, <2>3 DEF By, Following, Ids
    <3>2. new \in FollowJobs'
      BY <2>1 DEF FollowJobs, Writes
    <3>3. Owes(new, u, p)'
      BY <3>1, <3>2 DEF Owes
    <3> QED
      BY <2>1, <3>3 DEF Covered
  <2> QED
    BY <2>2, <2>3
<1>7. ASSUME NEW e \in MayFollow, Unfollow(e[1], e[2]) PROVE Covered(u, p)'
  BY <1>0, <1>1, <1>2, <1>7 DEF Unfollow, Following, Ids
<1>8. ASSUME NEW v \in Readers, NEW a \in Authors, NEW k \in Kinds, Hide(v, a, k)
      PROVE  Covered(u, p)'
  BY <1>0, <1>1, <1>2, <1>8 DEF Hide, Following, Ids
<1>9. ASSUME NEW w \in Users, Evict(w) PROVE Covered(u, p)'
  <2>1. UNCHANGED <<posts, follows, jobs, missed>> /\ UNCHANGED tl[u]
    BY <1>9 DEF Evict, Typed
  <2>2. p \in By(Following(u) \union {u})
    BY <1>0, <1>2, <2>1 DEF Ids, Following
  <2> QED
    BY <1>0, <2>1, <2>2, CoveredStays
<1>10. ASSUME NEW j \in jobs, Handle(j) \/ Redeliver(j) PROVE Covered(u, p)'
  <2>1. UNCHANGED <<posts, follows>>
    BY <1>10, HandlerTypes
  <2>2. p \in By(Following(u) \union {u})
    BY <1>0, <1>2, <2>1 DEF Ids, Following
  <2> QED
    BY <1>10, <2>2, HandlerCovers
<1>11. ASSUME NEW v \in Readers, ReplaceTimeline(v) PROVE Covered(u, p)'
  <2>1. UNCHANGED <<posts, follows>>
    BY <1>11 DEF ReplaceTimeline
  <2>2. p \in By(Following(u) \union {u})
    BY <1>0, <1>2, <2>1 DEF Ids, Following
  <2> QED
    BY <1>0, <1>11, <2>2, ReplaceCovers
<1>12. ASSUME NEW j \in jobs, GiveUp(j) PROVE Covered(u, p)'
  <2>1. UNCHANGED <<posts, follows>>
    BY <1>12 DEF GiveUp
  <2>2. p \in By(Following(u) \union {u})
    BY <1>0, <1>2, <2>1 DEF Ids, Following
  <2> QED
    BY <1>0, <1>12, <2>2, GiveUpCovers
<1> QED
  BY <1>3, <1>4, <1>5, <1>6, <1>7, <1>8, <1>9, <1>10, <1>11, <1>12 DEF Next, vars, Home, Read,
     RebuildFollowing, RebuildRecent, HomePage, Hydrate, Filter

LEMMA ReadAllStep ==
    ASSUME Typed, ReadAll, [Next]_vars
    PROVE  ReadAll'
<1> SUFFICES ASSUME NEW v \in Readers, reader'[v].at = "replace"
             PROVE  /\ reader'[v].read <= Len(posts')
                    /\ \A p \in Ids' :
                          posts'[p].author \in reader'[v].authors /\ p <= reader'[v].read
                             /\ Live(p)' => p \in reader'[v].ids
  BY DEF ReadAll, By
<1>0. Posted /\ Len(posts) \in Nat /\ Len(posts') \in Nat
  BY PostsStep, IdsFinite DEF Posted
<1>1. CASE UNCHANGED <<reader[v], scroll[v]>>
  <2> DEFINE r == reader[v]
  <2>1. reader'[v] = r /\ r.at = "replace"
    BY <1>1
  <2>2. r \in Building /\ r.read \in Nat /\ r.read <= Len(posts)
    BY <2>1, Asked DEF Asking, Building, ReadAll
  <2>3. ASSUME NEW p \in Ids', posts'[p].author \in r.authors, p <= r.read, Live(p)'
        PROVE  p \in r.ids
    <3>1. p \in Ids
      BY <1>0, <2>2, <2>3 DEF Ids
    <3>2. posts[p].author \in r.authors /\ Live(p)
      BY <1>0, <2>3, <3>1 DEF Posted
    <3> QED
      BY <2>1, <2>3, <3>1, <3>2 DEF ReadAll, By
  <2>4. r.read <= Len(posts')
    BY <1>0, <2>2 DEF Posted
  <2> HIDE DEF r
  <2> QED
    BY <2>1, <2>3, <2>4
<1>2. CASE Home(v) \/ Read(v)
  <2>1. RebuildRecent(v)
    BY <1>2, Moves DEF Asking, Idle
  <2> DEFINE r == reader[v]
  <2>2. PICK authors \in SUBSET r.authors :
           Steps(v, [r EXCEPT !.at = "replace", !.authors = authors, !.read = Len(posts),
                              !.ids = {p \in By(authors) : Live(p)}])
    BY <2>1 DEF RebuildRecent
  <2>3. r \in Building
    BY <2>1, Asked DEF RebuildRecent, Asking
  <2>4. /\ reader'[v].authors = authors /\ reader'[v].read = Len(posts)
        /\ reader'[v].ids = {p \in By(authors) : Live(p)}
    BY <2>2, <2>3 DEF Steps, Building, Typed
  <2>5. UNCHANGED posts
    BY <2>1 DEF RebuildRecent
  <2>6. Ids' = Ids /\ posts' = posts /\ \A p : Live(p)' <=> Live(p)
    BY <2>5 DEF Ids, Live
  <2> QED
    BY <1>0, <2>4, <2>6 DEF By
<1> QED
  BY <1>1, <1>2, Turns

-----------------------------------------------------------------------------
(* The theorems.                                                           *)

\* What a reader is shown does not depend on how many follower ids are asked.
IInv == Typed /\ Onward /\ GoneStays

LEMMA Invariant == Spec => []IInv
<1>1. Init => IInv
  BY TypedInit DEF Init, IInv, Onward, GoneStays, Idle, Asking
<1>2. IInv /\ [Next]_vars => IInv'
  BY TypedStep, OnwardStep, GoneStep DEF IInv
<1> QED
  BY <1>1, <1>2, PTL DEF Spec

\* The types of all that is stored and on its way.
THEOREM TypeCorrect == Spec => []TypeOK
<1>1. IInv => TypeOK
  BY DEF IInv, Typed, TypeOK, Job, PostJobs, FollowJobs, Idle, Building, Serving, Asking
<1> QED
  BY <1>1, Invariant, PTL

\* For any sizes: a full page shows Limit posts that were on no page before,
\* however the timeline is rebuilt, written and evicted between the pages.
THEOREM NoneShownTwiceCorrect == Spec => NoneShownTwice
<1>1. ASSUME IInv, [Next]_vars
      PROVE  [\A v \in Readers :
                 reader[v].at = "filter" /\ reader'[v] = Idle /\ scroll'[v].more =>
                     Cardinality(scroll'[v].seen) = Cardinality(scroll[v].seen) + Limit]_vars
  BY <1>1, Ends, ShownOnce DEF IInv
<1> QED
  BY <1>1, Invariant, PTL DEF Spec, NoneShownTwice

\* For any sizes: no page holds a post that was deleted before its request,
\* or, if graph-service answered, one of an author who is blocked or muted.
THEOREM ServedIsAllowedCorrect == Spec => ServedIsAllowed
<1>1. ASSUME IInv, [Next]_vars
      PROVE  [\A v \in Readers :
                 reader[v].at = "filter" /\ reader'[v] = Idle =>
                     LET page == scroll'[v].seen \ scroll[v].seen
                     IN  /\ page \intersect reader[v].gone = {}
                         /\ changes' = changes =>
                               \A p \in page, k \in Kinds :
                                  <<v, posts[p].author, k>> \notin hidden]_vars
  BY <1>1, Ends, Allowed DEF IInv
<1> QED
  BY <1>1, Invariant, PTL DEF Spec, ServedIsAllowed

\* For any users, follows and sizes such that one page of ids holds the
\* followers of any author: a timeline that is there lacks no post but those
\* that are deleted, older than all of Cap newer ones, still to be written by
\* a handler, or known to be missed: by a call without an answer, by an event
\* that was given up, or by a rebuild that read before them or takes fewer
\* authors than its reader follows.
THEOREM WarmIsCompleteCorrect == OnePage /\ Spec => []WarmIsComplete
<1> SUFFICES ASSUME OnePage PROVE Spec => []WarmIsComplete
  OBVIOUS
<1> DEFINE Inv == Typed /\ Complete /\ ReadAll
<1>1. Init => Inv
  <2> SUFFICES ASSUME Init PROVE Complete /\ ReadAll
    BY TypedInit
  <2> QED
    BY DEF Init, Complete, ReadAll, Idle
<1>2. Inv /\ [Next]_vars => Inv'
  BY TypedStep, CompleteStep, ReadAllStep
<1>3. Inv => WarmIsComplete
  <2> SUFFICES ASSUME Typed, Complete PROVE WarmIsComplete
    OBVIOUS
  <2>1. ASSUME NEW u \in Users, NEW p \in Ids, \E j \in jobs : Owes(j, u, p)
        PROVE  Pending(u, posts[p].author)
    <3>1. PICK j \in jobs : Owes(j, u, p)
      BY <2>1
    <3>2. j \in PostJobs => posts[p].author = j.by
      BY <3>1, KindsApart DEF Typed, Job, Owes
    <3> QED
      BY <3>1, <3>2, KindsApart DEF Owes, Pending
  <2> QED
    BY <2>1 DEF WarmIsComplete, Complete, Covered, Holds, By
<1> HIDE DEF Inv
<1> QED
  BY <1>1, <1>2, <1>3, PTL DEF Spec
=============================================================================
