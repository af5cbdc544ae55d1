-------------------------- MODULE CounterProjection --------------------------
(***************************************************************************)
(* follower_count and following_count in identity.users                    *)
(* (apps/identity-service/src/counters/*.ts), projected from the events of *)
(* graph.follows and repaired by the counter-reconcile job.                *)
(*                                                                         *)
(* Events of one followee are one partition and are handled in order,      *)
(* except those that are put aside: one that failed comes back through the *)
(* retry ladder, one that relays publish out of order comes at any time,   *)
(* and either may be given up.  That each is applied once is RetryLadder's *)
(* EffectAtMostOnce.  A block and the erasure cascade remove edges without *)
(* an event, and accepting a stale request emits one without an edge.  The *)
(* reconciler reads the source tables in one statement and writes in       *)
(* another, outside any transaction.                                       *)
(***************************************************************************)
EXTENDS Integers, Sequences, SequencesExt, FiniteSets

CONSTANTS
    Users,
    Oldest,         \* the users in the order of updated_at at the start
    Limit,          \* users per reconcileBatch (100 in the code)
    MaxChanges,     \* bound: follows and unfollows
    MaxFaults,      \* bound: events put aside or redriven, and users skipped
    MaxSilent       \* bound: blocks, erasures and acceptances of stale requests

ASSUME CounterAssumption ==
    /\ Limit \in Nat \ {0}
    /\ {MaxChanges, MaxFaults, MaxSilent} \subseteq Nat

VARIABLES
    follows,        \* graph.follows
    topic,          \* events of each followee, to be handled in order
    aside,          \* events out of their partition's order, not applied yet
    givenUp,        \* those of them that nothing will deliver again
    followers, following,   \* the two columns
    erased,         \* users with status erased
    byUpdatedAt,    \* users ORDER BY updated_at
    todo,           \* users of the batch the reconciler has still to visit
    read,           \* the counts reconcileUser has read, or {}
    changes, faults, silent,
    repaired        \* history: the reconciler has changed a row

source == <<follows, topic>>
columns == <<followers, following, byUpdatedAt>>
job == <<todo, read>>
vars == <<source, aside, givenUp, columns, erased, job, changes, faults, silent, repaired>>

\* An event: +1 for user.followed, -1 for user.unfollowed.
Event == [id : 1..MaxChanges, delta : {1, -1}, follower : Users, followee : Users]

TypeOK ==
    /\ follows \subseteq Users \X Users
    /\ topic \in [Users -> Seq(Event)]
    /\ aside \subseteq Event /\ givenUp \subseteq aside
    /\ followers \in [Users -> Nat]
    /\ following \in [Users -> Nat]
    /\ erased \subseteq Users
    /\ ToSet(byUpdatedAt) = Users /\ IsInjective(byUpdatedAt)
    /\ todo \in Seq(Users)
    /\ read \in SUBSET [followers : Nat, following : Nat] /\ Cardinality(read) <= 1
    /\ changes \in 0..MaxChanges /\ faults \in 0..MaxFaults
    /\ silent \in 0..MaxSilent /\ repaired \in BOOLEAN

Init ==
    /\ follows = {}
    /\ topic = [u \in Users |-> <<>>]
    /\ aside = {} /\ givenUp = {}
    /\ followers = [u \in Users |-> 0]
    /\ following = [u \in Users |-> 0]
    /\ erased = {}
    /\ byUpdatedAt = Oldest
    /\ todo = <<>>
    /\ read = {}
    /\ changes = 0 /\ faults = 0 /\ silent = 0 /\ repaired = FALSE

FollowersOf(u) == Cardinality({f \in follows : f[2] = u})
FollowingOf(u) == Cardinality({f \in follows : f[1] = u})

-----------------------------------------------------------------------------
(* The source: graph-service.                                              *)

Emit(delta, a, b) ==
    /\ changes < MaxChanges
    /\ changes' = changes + 1
    /\ topic' = [topic EXCEPT ![b] = Append(@,
                    [id |-> changes', delta |-> delta, follower |-> a, followee |-> b])]
    /\ UNCHANGED <<aside, givenUp, columns, erased, job, faults, repaired>>

Follow(a, b) ==
    /\ a # b /\ <<a, b>> \notin follows
    /\ {a, b} \intersect erased = {}
    /\ follows' = follows \union {<<a, b>>}
    /\ Emit(1, a, b) /\ UNCHANGED silent

Unfollow(a, b) ==
    /\ <<a, b>> \in follows
    /\ follows' = follows \ {<<a, b>>}
    /\ Emit(-1, a, b) /\ UNCHANGED silent

RemoveSilently(S) ==
    /\ S \intersect follows # {}
    /\ follows' = follows \ S
    /\ UNCHANGED <<topic, aside, givenUp, columns, erased, job, changes, faults, repaired>>

Silently == silent < MaxSilent /\ silent' = silent + 1

\* acceptFollowRequest of somebody who follows already: nothing is inserted and
\* user.followed is emitted all the same.
AcceptFollower(a, b) ==
    /\ <<a, b>> \in follows
    /\ Silently
    /\ Emit(1, a, b) /\ UNCHANGED follows

\* block() severs both directions and emits only user.blocked.
Block(a, b) == Silently /\ RemoveSilently({<<a, b>>, <<b, a>>})

\* The cascade of an erased user deletes its edges.
Cascade(u) ==
    /\ u \in erased
    /\ RemoveSilently({f \in follows : u \in {f[1], f[2]}})
    /\ UNCHANGED silent

-----------------------------------------------------------------------------
(* The counter consumer.                                                   *)

\* updated_at = now() for the users of the sequence s.
Touched(s) == SelectSeq(byUpdatedAt, LAMBDA u : u \notin ToSet(s)) \o s

\* GREATEST(count - 1, 0) and count + 1; erased users are left alone.
Bump(column, u, delta) ==
    [column EXCEPT ![u] = IF u \in erased THEN @
                          ELSE IF @ + delta < 0 THEN 0 ELSE @ + delta]

\* handleFollow: one transaction.
Apply(e) ==
    /\ following' = Bump(following, e.follower, e.delta)
    /\ followers' = Bump(followers, e.followee, e.delta)
    /\ byUpdatedAt' = Touched(SelectSeq(<<e.follower, e.followee>>,
                                        LAMBDA u : u \notin erased))

Handle(u) ==
    /\ topic[u] # <<>>
    /\ Apply(Head(topic[u]))
    /\ topic' = [topic EXCEPT ![u] = Tail(@)]
    /\ UNCHANGED <<follows, aside, givenUp, erased, job, changes, faults, silent, repaired>>

\* Mutant: the claim commits before the counters change, so that the retry of
\* a failed event is taken for a duplicate.
ClaimedBefore(u) ==
    /\ topic[u] # <<>>
    /\ faults < MaxFaults
    /\ faults' = faults + 1
    /\ topic' = [topic EXCEPT ![u] = Tail(@)]
    /\ UNCHANGED <<follows, aside, givenUp, columns, erased, job, changes, silent, repaired>>

\* The handler fails (two events lock the same two users in opposite order, a
\* connection is lost) and the event moves to a retry topic; or relays publish
\* a later event first, or not this one (OutboxRelay).
PutAside(u) ==
    /\ topic[u] # <<>>
    /\ faults < MaxFaults
    /\ faults' = faults + 1
    /\ aside' = aside \union {Head(topic[u])}
    /\ topic' = [topic EXCEPT ![u] = Tail(@)]
    /\ UNCHANGED <<follows, givenUp, columns, erased, job, changes, silent, repaired>>

HandleAside(e) ==
    /\ e \in aside \ givenUp
    /\ Apply(e)
    /\ aside' = aside \ {e}
    /\ UNCHANGED <<source, givenUp, erased, job, changes, faults, silent, repaired>>

\* The event goes to the dead-letter topic, is dropped after the last tier, is
\* only logged because no copy of it could be published, was quarantined by the
\* relay, or is behind the offset a new group starts at (RetryLadder).
GiveUp(e) ==
    /\ e \in aside \ givenUp
    /\ givenUp' = givenUp \union {e}
    /\ UNCHANGED <<source, aside, columns, erased, job, changes, faults, silent, repaired>>

\* An operator redrives it (dlq-inspect.mjs, resetFailed).
Redrive(e) ==
    /\ e \in givenUp
    /\ faults < MaxFaults
    /\ faults' = faults + 1
    /\ givenUp' = givenUp \ {e}
    /\ UNCHANGED <<source, aside, columns, erased, job, changes, silent, repaired>>

\* eraseOne zeroes the columns and touches the row.
Erase(u) ==
    /\ u \notin erased
    /\ Silently
    /\ erased' = erased \union {u}
    /\ followers' = [followers EXCEPT ![u] = 0]
    /\ following' = [following EXCEPT ![u] = 0]
    /\ byUpdatedAt' = Touched(<<u>>)
    /\ UNCHANGED <<source, aside, givenUp, job, changes, faults, repaired>>

-----------------------------------------------------------------------------
(* counter-reconcile.                                                      *)

\* The batch: the first Limit users that are not erased, by updated_at.
StartBatch ==
    /\ todo = <<>>
    /\ LET live == SelectSeq(byUpdatedAt, LAMBDA u : u \notin erased) IN
       todo' = SubSeq(live, 1, IF Len(live) < Limit THEN Len(live) ELSE Limit)
    /\ todo' # <<>>
    /\ UNCHANGED <<source, aside, givenUp, columns, erased, read,
                   changes, faults, silent, repaired>>

\* reconcileUser reads the three counts ...
ReadCounts ==
    /\ todo # <<>>
    /\ read = {}
    /\ read' = {[followers |-> FollowersOf(Head(todo)),
                 following |-> FollowingOf(Head(todo))]}
    /\ UNCHANGED <<source, aside, givenUp, columns, erased, todo,
                   changes, faults, silent, repaired>>

\* Mutant: only follower_count is compared.
WriteIfFollowersDiffer ==
    /\ read # {}
    /\ LET u == Head(todo)
           r == CHOOSE x \in read : TRUE
       IN IF followers[u] = r.followers
          THEN UNCHANGED <<columns, repaired>>
          ELSE /\ followers' = [followers EXCEPT ![u] = r.followers]
               /\ following' = [following EXCEPT ![u] = r.following]
               /\ byUpdatedAt' = Touched(<<u>>)
               /\ repaired' = TRUE
    /\ read' = {}
    /\ todo' = Tail(todo)
    /\ UNCHANGED <<source, aside, givenUp, erased, changes, faults, silent>>

\* ... and writes them if they differ; only then is updated_at set.
WriteCounts ==
    /\ read # {}
    /\ LET u == Head(todo)
           r == CHOOSE x \in read : TRUE
       IN IF followers[u] = r.followers /\ following[u] = r.following
          THEN UNCHANGED <<columns, repaired>>
          ELSE /\ followers' = [followers EXCEPT ![u] = r.followers]
               /\ following' = [following EXCEPT ![u] = r.following]
               /\ byUpdatedAt' = Touched(<<u>>)
               /\ repaired' = TRUE
    /\ read' = {}
    /\ todo' = Tail(todo)
    /\ UNCHANGED <<source, aside, givenUp, erased, changes, faults, silent>>

\* A statement of reconcileUser throws: the user is skipped.
SkipUser ==
    /\ todo # <<>>
    /\ faults < MaxFaults
    /\ faults' = faults + 1
    /\ read' = {}
    /\ todo' = Tail(todo)
    /\ UNCHANGED <<source, aside, givenUp, columns, erased, changes, silent, repaired>>

-----------------------------------------------------------------------------
Reconcile == StartBatch \/ ReadCounts \/ WriteCounts

Next ==
    \/ \E a, b \in Users : Follow(a, b) \/ Unfollow(a, b) \/ AcceptFollower(a, b)
                           \/ Block(a, b)
    \/ \E u \in Users : Cascade(u) \/ Erase(u) \/ Handle(u) \/ PutAside(u)
    \/ \E e \in aside : HandleAside(e) \/ GiveUp(e) \/ Redrive(e)
    \/ Reconcile \/ SkipUser

Spec == Init /\ [][Next]_vars

\* Consumers keep consuming, an event put aside comes or is given up, and the
\* job re-arms its timer in a finally block.
FairSpec ==
    /\ Spec
    /\ \A u \in Users : WF_vars(Handle(u))
    /\ WF_vars(\E e \in aside : HandleAside(e) \/ GiveUp(e))
    /\ WF_vars(Reconcile)

-----------------------------------------------------------------------------
(* Properties.                                                             *)

\* What the events that are not applied, coming or given up, would still add to
\* a column.
Unapplied == aside \union UNION {ToSet(topic[u]) : u \in Users}
Net(S) == Cardinality({e \in S : e.delta = 1}) - Cardinality({e \in S : e.delta = -1})
FollowersOwed(u) == Net({e \in Unapplied : e.followee = u})
FollowingOwed(u) == Net({e \in Unapplied : e.follower = u})

\* As long as nothing fails, is published out of order, removed silently or
\* announced without an edge, the columns and the events to come are the truth:
\* the clamp never takes effect, even for following_count, whose events come
\* from several partitions.
ExactInOrder ==
    (faults = 0 /\ silent = 0 /\ ~ repaired) =>
        \A u \in Users :
            /\ followers[u] + FollowersOwed(u) = FollowersOf(u)
            /\ following[u] + FollowingOwed(u) = FollowingOf(u)

\* Whatever is reordered, removed without an event, announced twice or clamped:
\* a column of the consumer alone is too low only by events not applied, those
\* to come and those given up.
DriftIsUpward ==
    ~ repaired =>
        \A u \in Users \ erased :
            /\ followers[u] + FollowersOwed(u) >= FollowersOf(u)
            /\ following[u] + FollowingOwed(u) >= FollowingOf(u)

Exact == \A u \in Users \ erased :
    followers[u] = FollowersOf(u) /\ following[u] = FollowingOf(u)

\* Once the graph is quiet the columns become and stay right, although the
\* reconciler writes counts it read some time ago and events are given up.
Converges == <>[]Exact

-----------------------------------------------------------------------------
(* What documentation says of the counters.                                *)

\* graph-service.md, 8: keyed by followee, follower-count updates cannot
\* interleave into a wrong value.
FollowerCountRight ==
    (Unapplied = {} /\ ~ repaired) => \A u \in Users : followers[u] = FollowersOf(u)

\* identity-service.md: counter-reconcile recomputes the counters and corrects.
DriftIsCorrected == <>[]Exact
==============================================================================
