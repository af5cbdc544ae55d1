------------------------------ MODULE Timeline ------------------------------
(***************************************************************************)
(* Home timelines (apps/timeline-service/src: fanout/fanout.consumer.ts,   *)
(* timeline/timeline.service.ts, timeline.store.ts, timeline.controller.ts)*)
(*                                                                         *)
(* A timeline is a Redis sorted set of post ids that is kept only for who  *)
(* reads it.  The consumer adds a new post to the timelines of the author  *)
(* and of the followers, and the posts of an author to that of a new       *)
(* follower; a read builds what is not there from the follows of           *)
(* graph-service and the posts of post-service, adds the posts of authors  *)
(* with so many followers that nothing is written for them, and filters.   *)
(* The handler of an event and a read are sequences of calls of three      *)
(* services, any of which may be slow or fail.  A post is its position in  *)
(* the order of ids.  Replies, which are not fanned out, are left out, and *)
(* authors have fewer posts than the 20 or 50 that are asked of each.      *)
(***************************************************************************)
EXTENDS Naturals, Sequences, FiniteSets, FiniteSetsExt

CONSTANTS
    Users, Readers, Authors,
    Written,            \* the authors of the posts that are there at the start
    MayFollow,          \* the follows that can come to be, <<follower, followee>>
    Threshold,          \* LARGE_ACCOUNT_FOLLOWER_THRESHOLD
    FollowerPage,       \* follower ids asked of graph-service for a fan-out
    FollowingPage,      \* authors a rebuild takes of those the reader follows
    Looked, MaxPulled,  \* authors looked at for a pull, and large ones pulled
    Cap,                \* CAP
    Limit, Over,        \* size of a page, at least 1, and of what is read for one
    MaxPosts, MaxChanges                \* bounds

ASSUME TimelineAssumption ==
    /\ IsFiniteSet(Users) /\ Readers \union Authors \subseteq Users
    /\ Written \in Seq(Users) /\ MayFollow \subseteq Users \X Users
    /\ {Threshold, FollowerPage, FollowingPage, Looked, MaxPulled, Cap, Over,
        MaxPosts, MaxChanges} \subseteq Nat
    /\ Limit \in Nat \ {0}

VARIABLES
    posts,              \* post-service: author, and whether deleted
    follows, hidden,    \* graph-service: follows; blocks either way and mutes
    tl,                 \* Redis: the sorted set of each user; {}: no key
    jobs,               \* events not acknowledged, and how far their handlers are
    reader,             \* the home request of each reader
    scroll,             \* what a reader was shown from the first page on, and
                        \* whether the last page was full
    missed,             \* <<user, post>>: what a timeline is known to lack
    changes             \* bound: changes of the graph, deletions, faults

vars == <<posts, follows, hidden, tl, jobs, reader, scroll, missed, changes>>

Ids == 1 .. Len(posts)
Live(p) == ~posts[p].deleted
By(authors) == {p \in Ids : posts[p].author \in authors}
Newest(n, S) == {p \in S : Cardinality({q \in S : q > p}) < n}

\* One page of a list, whatever its order.
Page(n, S) == {page \in SUBSET S : Cardinality(page) = Min({n, Cardinality(S)})}

Following(u) == {a \in Users : <<u, a>> \in follows}
FollowersOf(a) == {u \in Users : <<u, a>> \in follows}
Large(a) == Cardinality(FollowersOf(a)) >= Threshold

Idle == [at |-> "idle"]
Fresh == [seen |-> {}, more |-> FALSE]
Kinds == {"block", "mute"}

TypeOK ==
    /\ posts \in Seq([author : Users, deleted : BOOLEAN])
    /\ follows \subseteq MayFollow /\ hidden \subseteq Users \X Users \X Kinds
    /\ tl \in [Users -> SUBSET Ids]
    /\ \A j \in jobs : j.at \in {"self", "large", "list", "exists", "recent", "write"}
    /\ \A v \in Readers :
          reader[v].at \in {"idle", "following", "recent", "replace", "page",
                            "hydrate", "filter"}
    /\ scroll \in [Readers -> [seen : SUBSET Ids, more : BOOLEAN]]
    /\ missed \subseteq Users \X Ids /\ changes \in Nat

Init ==
    /\ posts = [i \in DOMAIN Written |-> [author |-> Written[i], deleted |-> FALSE]]
    /\ follows \in SUBSET MayFollow /\ hidden = {}
    /\ tl = [u \in Users |-> {}]
    /\ jobs = {} /\ missed = {}
    /\ reader = [v \in Readers |-> Idle] /\ scroll = [v \in Readers |-> Fresh]
    /\ changes = 0

Change == changes < MaxChanges /\ changes' = changes + 1

-----------------------------------------------------------------------------
(* post-service, graph-service, Redis.                                     *)

\* post.created is published with the post, user.followed with the follow.
CreatePost(u) ==
    /\ Len(posts) < MaxPosts
    /\ posts' = Append(posts, [author |-> u, deleted |-> FALSE])
    /\ jobs' = jobs \union {[kind |-> "post", id |-> Len(posts) + 1, by |-> u,
                             at |-> "self", todo |-> {}]}
    /\ UNCHANGED <<follows, hidden, tl, reader, scroll, missed, changes>>

DeletePost(p) ==
    /\ Live(p) /\ Change
    /\ posts' = [posts EXCEPT ![p].deleted = TRUE]
    /\ UNCHANGED <<follows, hidden, tl, jobs, reader, scroll, missed>>

\* A follow again within the hour is refused (churn): the event of the one
\* before is handled by then.
Follow(u, a) ==
    /\ <<u, a>> \in MayFollow \ follows /\ Change
    /\ \A j \in jobs : j.kind = "follow" => <<j.follower, j.by>> # <<u, a>>
    /\ follows' = follows \union {<<u, a>>}
    /\ jobs' = jobs \union {[kind |-> "follow", id |-> 0, by |-> a, follower |-> u,
                             at |-> "exists", todo |-> {}]}
    /\ UNCHANGED <<posts, hidden, tl, reader, scroll, missed>>

\* Nothing is done about user.unfollowed.
Unfollow(u, a) ==
    /\ <<u, a>> \in follows /\ Change
    /\ follows' = follows \ {<<u, a>>}
    /\ UNCHANGED <<posts, hidden, tl, jobs, reader, scroll, missed>>

\* A block takes the follows between the two with it.
Hide(v, a, kind) ==
    /\ v # a /\ <<v, a, kind>> \notin hidden /\ Change
    /\ hidden' = hidden \union {<<v, a, kind>>}
    /\ follows' = IF kind = "block" THEN follows \ {<<v, a>>, <<a, v>>} ELSE follows
    /\ UNCHANGED <<posts, tl, jobs, reader, scroll, missed>>

\* volatile-lru, fourteen days without a read, or a Redis that lost its data.
Evict(u) ==
    /\ tl[u] # {} /\ Change
    /\ tl' = [tl EXCEPT ![u] = {}]
    /\ UNCHANGED <<posts, follows, hidden, jobs, reader, scroll, missed>>

-----------------------------------------------------------------------------
(* The consumer.                                                           *)

\* Mutant: the script trims from the wrong end.
TrimNewest(S) == {p \in S : Cardinality({q \in S : q < p}) < Cap}

\* ZREMRANGEBYRANK 0 -401
Trim(S) == Newest(Cap, S)

\* FANOUT_LUA: one script, and only for a key that is there.
FanoutIfExists(u, p) ==
    tl' = [tl EXCEPT ![u] = IF @ = {} THEN {} ELSE Trim(@ \union {p})]

Becomes(j, k) == jobs' = (jobs \ {j}) \union {k}

\* fanoutPost: the author's own timeline first.
FanoutSelf(j) ==
    /\ j.at = "self" /\ FanoutIfExists(j.by, j.id)
    /\ Becomes(j, [j EXCEPT !.at = "large"])
    /\ UNCHANGED <<posts, follows, hidden, reader, scroll, missed, changes>>

MissedBy(users, ids) == missed \union ({u \in users : tl[u] # {}} \X ids)

\* A large author is left to the reads.  A count that is not answered is small.
SkipLarge(j) ==
    /\ j.at = "large"
    /\ \/ /\ Large(j.by)
          /\ Becomes(j, [j EXCEPT !.at = "write"])
          /\ missed' = MissedBy(FollowersOf(j.by), {j.id})
          /\ UNCHANGED changes
       \/ /\ ~Large(j.by)
          /\ Becomes(j, [j EXCEPT !.at = "list"])
          /\ UNCHANGED <<missed, changes>>
       \/ /\ Large(j.by) /\ Change
          /\ Becomes(j, [j EXCEPT !.at = "list"])
          /\ UNCHANGED missed
    /\ UNCHANGED <<posts, follows, hidden, tl, reader, scroll>>

\* One page of follower ids; none if graph-service does not answer.
ListFollowers(j) ==
    /\ j.at = "list"
    /\ \/ /\ \E page \in Page(FollowerPage, FollowersOf(j.by)) :
                Becomes(j, [j EXCEPT !.at = "write", !.todo = page \X {j.id}])
          /\ UNCHANGED <<missed, changes>>
       \/ /\ Change
          /\ Becomes(j, [j EXCEPT !.at = "write"])
          /\ missed' = MissedBy(FollowersOf(j.by), {j.id})
    /\ UNCHANGED <<posts, follows, hidden, tl, reader, scroll>>

\* backfillOnFollow
CheckFollower(j) ==
    /\ j.at = "exists"
    /\ Becomes(j, [j EXCEPT !.at = IF tl[j.follower] = {} THEN "write" ELSE "recent"])
    /\ UNCHANGED <<posts, follows, hidden, tl, reader, scroll, missed, changes>>

\* An unanswered call is an author without posts.
BackfillPosts(j) ==
    /\ j.at = "recent"
    /\ LET recent == {p \in By({j.by}) : Live(p)}
       IN  \/ /\ Becomes(j, [j EXCEPT !.at = "write", !.todo = {j.follower} \X recent])
              /\ UNCHANGED <<missed, changes>>
           \/ /\ Change
              /\ Becomes(j, [j EXCEPT !.at = "write"])
              /\ missed' = MissedBy({j.follower}, recent)
    /\ UNCHANGED <<posts, follows, hidden, tl, reader, scroll>>

FanoutWrite(j) ==
    /\ \E w \in j.todo : /\ FanoutIfExists(w[1], w[2])
                         /\ Becomes(j, [j EXCEPT !.todo = @ \ {w}])
    /\ UNCHANGED <<posts, follows, hidden, reader, scroll, missed, changes>>

Acknowledge(j) ==
    /\ j.at = "write" /\ j.todo = {} /\ jobs' = jobs \ {j}
    /\ UNCHANGED <<posts, follows, hidden, tl, reader, scroll, missed, changes>>

\* Redis fails and the event goes up the retry ladder, or the process ends
\* before the offset is committed: the handler runs again from its start.
Redeliver(j) ==
    /\ j.at \notin {"self", "exists"} /\ Change
    /\ Becomes(j, [j EXCEPT !.at = IF j.kind = "post" THEN "self" ELSE "exists", !.todo = {}])
    /\ UNCHANGED <<posts, follows, hidden, tl, reader, scroll, missed>>

\* The relay quarantines the event, or its last retry fails, or the group starts
\* at the latest offset: it is not handled, or not to the end.
GiveUp(j) ==
    /\ Change /\ jobs' = jobs \ {j}
    /\ missed' = IF j.kind = "post" THEN MissedBy(FollowersOf(j.by) \union {j.by}, {j.id})
                 ELSE MissedBy({j.follower}, By({j.by}))
    /\ UNCHANGED <<posts, follows, hidden, tl, reader, scroll>>

-----------------------------------------------------------------------------
(* GET /v1/timelines/home                                                  *)

Steps(v, r) == reader' = [reader EXCEPT ![v] = r]

\* The first page, or the one after the last that was full; without a key the
\* timeline is built first.
Home(v) ==
    LET Begins(before) ==
            Steps(v, [ at |-> IF tl[v] = {} THEN "following" ELSE "page", before |-> before,
                       rebuilt |-> tl[v] = {}, pulled |-> FALSE,
                       authors |-> {}, read |-> 0, ids |-> {},
                       gone |-> {p \in Ids : ~Live(p)} ])
    IN  /\ reader[v] = Idle
        /\ \/ Begins(MaxPosts + 1) /\ scroll' = [scroll EXCEPT ![v] = Fresh]
           \/ scroll[v].more /\ Begins(Min(scroll[v].seen)) /\ UNCHANGED scroll
        /\ UNCHANGED <<posts, follows, hidden, tl, jobs, missed, changes>>

\* rebuild: one page of whom the reader follows, without the large ones.  No
\* answer is nobody, or an author who is small.
RebuildFollowing(v) ==
    LET r == reader[v]
        Takes(authors) == Steps(v, [r EXCEPT !.at = "recent", !.authors = authors \union {v}])
    IN  /\ r.at = "following"
        /\ \/ \E page \in Page(FollowingPage, Following(v)) :
                 \/ Takes({a \in page : ~Large(a)}) /\ UNCHANGED changes
                 \/ Change /\ \E silent \in SUBSET page :
                                Takes({a \in page : ~Large(a) \/ a \in silent})
           \/ Change /\ Takes({})
        /\ UNCHANGED <<posts, follows, hidden, tl, jobs, scroll, missed>>

\* Their recent posts; without the batch route, those of the authors whose
\* own list is answered.
RebuildRecent(v) ==
    LET r == reader[v]
        Reads(authors) ==
            Steps(v, [r EXCEPT !.at = "replace", !.authors = authors, !.read = Len(posts),
                               !.ids = {p \in By(authors) : Live(p)}])
    IN  /\ r.at = "recent"
        /\ \/ Reads(r.authors) /\ UNCHANGED changes
           \/ Change /\ \E answered \in SUBSET r.authors : Reads(answered)
        /\ UNCHANGED <<posts, follows, hidden, tl, jobs, scroll, missed>>

\* DEL and the ZADDs in one MULTI: what was written since the reads is lost.
ReplaceTimeline(v) ==
    LET r == reader[v]
        mine == By(Following(v) \union {v})
    IN  /\ r.at = "replace"
        /\ tl' = [tl EXCEPT ![v] = Newest(Cap, r.ids)]
        /\ missed' = {m \in missed : m[1] # v} \union
              {<<v, p>> : p \in {q \in mine : q > r.read \/ posts[q].author \notin r.authors}}
        /\ Steps(v, [r EXCEPT !.at = "page", !.authors = {}, !.read = 0, !.ids = {}])
        /\ UNCHANGED <<posts, follows, hidden, jobs, scroll, changes>>

\* Mutant: the cursor is inclusive.
UpTo(S, before) == {p \in S : p <= before}

\* ZREVRANGEBYLEX (before
Below(S, before) == {p \in S : p < before}

\* What is in the timeline, and pullLargeFollowing: the newest posts of some of
\* the large authors, whatever the cursor.  If there is nothing, the timeline is
\* built, once, and read again.
HomePage(v) ==
    LET r == reader[v]
        Pulled(authors) ==
            Newest(Over, UNION {Newest(Limit, {p \in By({a}) : Live(p)}) : a \in authors})
        Shows(more) ==
            LET ids == Newest(Over, Below(tl[v], r.before)) \union Below(more, r.before)
            IN  Steps(v, IF ids = {} /\ ~r.rebuilt
                         THEN [r EXCEPT !.at = "following", !.rebuilt = TRUE, !.pulled = TRUE]
                         ELSE [at |-> "hydrate", ids |-> ids, gone |-> r.gone])
    IN  /\ r.at = "page"
        /\ \/ r.pulled /\ Shows({}) /\ UNCHANGED changes
           \/ ~r.pulled /\ \E page \in Page(Looked, Following(v)) :
                 LET large == {a \in page : Large(a)}
                 IN  \/ /\ \E authors \in Page(MaxPulled, large) : Shows(Pulled(authors))
                        /\ UNCHANGED changes
                     \/ /\ Change /\ \E answered \in SUBSET large :
                              \E authors \in Page(MaxPulled, answered) : Shows(Pulled(authors))
        /\ UNCHANGED <<posts, follows, hidden, tl, jobs, scroll, missed>>

\* Mutant: deleted posts are hydrated.
HydrateAny(v) ==
    LET r == reader[v]
    IN  /\ r.at = "hydrate"
        /\ Steps(v, [r EXCEPT !.at = "filter"])
        /\ UNCHANGED <<posts, follows, hidden, tl, jobs, scroll, missed, changes>>

\* hydratePosts: an unanswered batch is an empty page.
Hydrate(v) ==
    LET r == reader[v]
    IN  /\ r.at = "hydrate"
        /\ \/ Steps(v, [r EXCEPT !.at = "filter", !.ids = {p \in @ : Live(p)}]) /\ UNCHANGED changes
           \/ Change /\ Steps(v, [r EXCEPT !.at = "filter", !.ids = {}])
        /\ UNCHANGED <<posts, follows, hidden, tl, jobs, scroll, missed>>

\* Blocks and mutes are asked for in two calls; one without an answer hides
\* nobody.
Filter(v) ==
    LET r == reader[v]
        Serves(kinds) ==
            LET shown == {p \in r.ids : \A k \in kinds : <<v, posts[p].author, k>> \notin hidden}
                page == Newest(Limit, shown)
            IN  scroll' = [scroll EXCEPT ![v] = [ seen |-> @.seen \union page,
                                                  more |-> Cardinality(page) >= Limit ]]
    IN  /\ r.at = "filter" /\ Steps(v, Idle)
        /\ \/ Serves(Kinds) /\ UNCHANGED changes
           \/ Change /\ \E kinds \in SUBSET Kinds : Serves(kinds)
        /\ UNCHANGED <<posts, follows, hidden, tl, jobs, missed>>

\* The events of an author are handled in turn but for those that are on a
\* retry topic: in any order.
Handle(j) == \/ FanoutSelf(j) \/ SkipLarge(j) \/ ListFollowers(j) \/ CheckFollower(j)
             \/ BackfillPosts(j) \/ FanoutWrite(j) \/ Acknowledge(j)

Read(v) == \/ RebuildFollowing(v) \/ RebuildRecent(v) \/ ReplaceTimeline(v)
           \/ HomePage(v) \/ Hydrate(v) \/ Filter(v)

Next ==
    \/ \E u \in Authors : CreatePost(u)
    \/ \E u \in Users : Evict(u)
    \/ \E p \in Ids : DeletePost(p)
    \/ \E e \in MayFollow : Follow(e[1], e[2]) \/ Unfollow(e[1], e[2])
    \/ \E v \in Readers, a \in Authors, k \in Kinds : Hide(v, a, k)
    \/ \E j \in jobs : Handle(j) \/ Redeliver(j) \/ GiveUp(j)
    \/ \E v \in Readers : Home(v) \/ Read(v)

Spec == Init /\ [][Next]_vars

-----------------------------------------------------------------------------
(* Properties.                                                             *)

Pending(u, a) == \E j \in jobs : j.by = a \/ (j.kind = "follow" /\ j.follower = u)

\* A timeline that is there holds every post of the user and of the authors
\* they follow, up to the newest Cap of what it holds, once the events of the
\* author are handled: a handler that is interrupted and runs again, a new
\* follow, an eviction and any order of the handlers lose nothing.  Excepted
\* are the posts that `missed` names: those of an author that was large when
\* they were fanned out, those for which graph-service or post-service did
\* not answer, those whose event was given up, and those that a rebuild did
\* not read because they, or the follow, were newer than its reads, because
\* the author was large then or because the reader follows more authors than
\* the FollowingPage that a rebuild takes.
WarmIsComplete ==
    \A u \in Users : tl[u] # {} =>
        \A p \in By(Following(u) \union {u}) :
            \/ p \in tl[u] \/ ~Live(p) \/ Large(posts[p].author)
            \/ Cardinality({q \in tl[u] : q > p}) >= Cap
            \/ Pending(u, posts[p].author)
            \/ <<u, p>> \in missed

\* However often timelines are rebuilt, written and evicted while a reader
\* scrolls, a full page shows that many posts that were on no page before.
NoneShownTwice ==
    [][\A v \in Readers :
          reader[v].at = "filter" /\ reader'[v] = Idle /\ scroll'[v].more =>
              Cardinality(scroll'[v].seen) = Cardinality(scroll[v].seen) + Limit]_vars

\* A page holds no post that was deleted before the request, however long
\* its id stays in the timeline, and, if graph-service answered, none of an
\* author whom the reader has muted or who is blocked either way.
ServedIsAllowed ==
    [][\A v \in Readers :
          reader[v].at = "filter" /\ reader'[v] = Idle =>
              LET page == scroll'[v].seen \ scroll[v].seen
              IN  /\ page \intersect reader[v].gone = {}
                  /\ changes' = changes =>
                        \A p \in page, k \in Kinds : <<v, posts[p].author, k>> \notin hidden]_vars
===============================================================================
