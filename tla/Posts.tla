-------------------------------- MODULE Posts --------------------------------
(***************************************************************************)
(* Posts, replies, reposts and likes with their counters, the removal of   *)
(* an erased author's posts, and the repair of unresolved mentions         *)
(* (apps/post-service/src/posts/posts.service.ts,                          *)
(* cascade/author-cascade.service.ts, mentions/mention-repair.service.ts). *)
(*                                                                         *)
(* A step is a statement of a READ COMMITTED transaction, or several that  *)
(* no other transaction can tell apart.  A statement reads committed rows; *)
(* it waits for a row or a key that another transaction has written, and   *)
(* what it was waiting with is then compared with the row as committed.    *)
(* A wait may end in lock_timeout or in the deadlock detector, which roll  *)
(* back.  Hashtags are left out: they are rows no counter or event depends *)
(* on.  Events are outbox rows and commit with their transaction.          *)
(***************************************************************************)
EXTENDS Naturals, FiniteSets

CONSTANTS
    Users,
    Author, First,      \* who wrote the post that is there at the start
    Mentioned,          \* the one user whom posts mention
    Ids,                \* posts that may be written
    Sessions,           \* database sessions, one transaction each at a time
    Replicas,           \* instances of post-service that repair mentions
    Conns,              \* server connections behind PgBouncer
    Batch, Rounds,      \* of the author cascade: 500 rows, 20 times
    MaxTx, MaxBegun     \* bounds: transactions; these and repair runs

ASSUME PostsAssumption ==
    /\ {Author, Mentioned} \subseteq Users /\ First \in Ids /\ "none" \notin Ids
    /\ {Batch, Rounds, MaxTx, MaxBegun} \subseteq Nat

VARIABLES
    posts,              \* post.posts, committed
    likes,              \* post.likes, committed
    mention,            \* post.mentions: at most one per post
    events,             \* how often each event was committed to the outbox
    handled,            \* authors whose user.erased was processed
    gone,               \* authors that identity has erased
    tx,                 \* the transaction of each session
    repair, lock,       \* the repair run of each replica; the advisory lock
    begun               \* the bounds' counts

vars == <<posts, likes, mention, events, handled, gone, tx, repair, lock,
          begun>>

None == "none"
NoPost == [author |-> None]
NoTx == [op |-> None]
Counters == {"reply_count", "repost_count", "like_count"}
Rows == [ author : Users, reply_to : Ids \union {None}, repost_of : Ids \union {None},
          pure : BOOLEAN, deleted_by : {None, "author", "erasure"},
          counts : [Counters -> Nat] ]

EventTypes == {"post.created", "post.replied", "post.reposted", "post.deleted",
               "post.liked", "user.mentioned"}

NewRow(u, reply, repost, pure) ==
    [ author |-> u, reply_to |-> reply, repost_of |-> repost, pure |-> pure,
      deleted_by |-> None, counts |-> [c \in Counters |-> 0] ]

Init ==
    /\ posts = [p \in Ids |-> IF p = First THEN NewRow(Author, None, None, FALSE)
                             ELSE NoPost]
    /\ likes = {}
    /\ mention = [p \in Ids |-> None]
    /\ events = [e \in EventTypes \X Ids |-> IF e = <<"post.created", First>> THEN 1 ELSE 0]
    /\ handled = {} /\ gone = {}
    /\ tx = [s \in Sessions |-> NoTx]
    /\ repair = [r \in Replicas |-> [leads |-> FALSE, batch |-> {}]]
    /\ lock = [c \in Conns |-> 0]
    /\ begun = [tx |-> 0, repair |-> 0]

OpenTx == [ op : {"create", "delete", "like", "unlike", "cascade"}, by : Users,
            at : {"insert", "count", "mark", "lock", "like", "unlike", "pick",
                  "commit"},
            post : Ids \union {None},           \* the post the request is about
            row : Rows \union {NoPost},         \* the row it inserted
            mention : {None, "open", "resolved"},
            to : Ids \union {None},             \* the post whose counter it moves
            moved : BOOLEAN, liked : BOOLEAN,   \* whether it did; the like row
            marks : SUBSET Ids,                 \* rows it soft-deleted
            picked : SUBSET Ids, rounds : Nat ] \* the cascade's batch

TypeOK ==
    /\ posts \in [Ids -> Rows \union {NoPost}]
    /\ likes \subseteq Ids \X Users
    /\ mention \in [Ids -> {None, "open", "resolved"}]
    /\ events \in [EventTypes \X Ids -> Nat]
    /\ handled \subseteq gone /\ gone \subseteq Users
    /\ tx \in [Sessions -> OpenTx \union {NoTx}]
    /\ repair \in [Replicas -> [leads : BOOLEAN, batch : SUBSET Ids]]
    /\ lock \in [Conns -> Nat]
    /\ begun \in [tx : Nat, repair : Nat]

-----------------------------------------------------------------------------
(* Rows, locks, transactions.                                              *)

Exists(p) == posts[p] # NoPost
Live(p) == Exists(p) /\ posts[p].deleted_by = None

\* The counter a new row adds to, and the post that has it.
Target(row) == IF row.reply_to # None THEN row.reply_to ELSE row.repost_of
Counter(t) == IF t.op \in {"like", "unlike"} THEN "like_count"
              ELSE IF t.row.reply_to # None THEN "reply_count" ELSE "repost_count"

\* Post rows a transaction has updated, or taken FOR UPDATE.
Holds(s) ==
    IF tx[s] = NoTx THEN {}
    ELSE tx[s].marks \union (IF tx[s].moved THEN {tx[s].to} ELSE {})
             \union (IF tx[s].op = "like" /\ tx[s].at # "lock" THEN {tx[s].post} ELSE {})
Free(s, p) == \A t \in Sessions \ {s} : p \notin Holds(t)

Others(s) == {t \in Sessions \ {s} : tx[t] # NoTx}

\* Another transaction has inserted or deleted this like and not ended.
LikeFree(s, p, u) ==
    \A t \in Others(s) : ~(tx[t].liked /\ tx[t].post = p /\ tx[t].by = u)

\* uq_posts_pure_repost
SameRepost(row, other) == /\ other # NoPost /\ row.pure /\ other.pure
                          /\ other.author = row.author
                          /\ other.repost_of = row.repost_of

Go(s, next) == tx' = [tx EXCEPT ![s].at = next]

Begin(s, t) == /\ tx[s] = NoTx /\ begun.tx < MaxTx /\ begun.tx + begun.repair < MaxBegun
               /\ begun' = [begun EXCEPT !.tx = @ + 1] /\ tx' = [tx EXCEPT ![s] = t]

NewTx(op, at, u, p) ==
    [ op |-> op, at |-> at, by |-> u, post |-> p, row |-> NoPost, mention |-> None,
      to |-> None, moved |-> FALSE, liked |-> FALSE, marks |-> {}, picked |-> {},
      rounds |-> 0 ]

Rollback(s) == tx' = [tx EXCEPT ![s] = NoTx]

Committed == <<posts, likes, mention, events, handled>>
Elsewhere == <<gone, repair, lock>>

-----------------------------------------------------------------------------
(* create                                                                  *)

\* resolveRepostTarget goes up one level.
Resolve(q) == IF Exists(q) /\ posts[q].repost_of # None THEN posts[q].repost_of ELSE q

Unused == {p \in Ids : ~Exists(p) /\ \A s \in Sessions : tx[s] # NoTx => tx[s].post # p}

\* What follows a row that is inserted or marked.
AfterRow(row) == IF Target(row) = None THEN "commit" ELSE "count"

\* The parent may be deleted, the post that is reposted may not.  The insert
\* of a row that is no pure repost waits for nobody, and nobody sees it yet.
BeginCreate(s, u, row, m) ==
    /\ Unused # {} /\ u \notin gone
    /\ row.reply_to # None => Exists(row.reply_to)
    /\ row.repost_of # None => Live(row.repost_of)
    /\ Begin(s, [NewTx("create", IF row.pure THEN "insert" ELSE AfterRow(row), u,
                       CHOOSE p \in Unused : TRUE)
                    EXCEPT !.row = row, !.mention = m, !.to = Target(row)])
    /\ UNCHANGED <<Committed, Elsewhere>>

\* A reply, a quote or a pure repost; the mentions considered are those of
\* other posts.
Create(s, u) ==
    \/ \E m \in {None, "open", "resolved"} :
          BeginCreate(s, u, NewRow(u, None, None, FALSE), m)
    \/ \E q \in Ids : BeginCreate(s, u, NewRow(u, q, None, FALSE), None)
    \/ \E q \in Ids, pure \in BOOLEAN :
          Live(q) /\ BeginCreate(s, u, NewRow(u, None, Resolve(q), pure), None)

\* The insert waits for a transaction that is writing the same pure repost.
\* After a violation the transaction is aborted, and with it the SELECT that
\* was to find the repost: the request fails.
Insert(s) ==
    LET row == tx[s].row
        same == {q \in Ids : Live(q) /\ SameRepost(row, posts[q])}
    IN  /\ tx[s] # NoTx /\ tx[s].at = "insert"
        /\ \A t \in Others(s) : ~(tx[t].op = "create" /\ tx[t].at # "insert"
                                    /\ SameRepost(row, tx[t].row))
        /\ \A q \in same : Free(s, q)
        /\ IF same # {} THEN Rollback(s)
           ELSE Go(s, "count")
        /\ UNCHANGED <<Committed, Elsewhere, begun>>

\* One up for a new row, on a post that is not deleted; one down for a
\* deleted row, on any.
Count(s) ==
    /\ tx[s] # NoTx /\ tx[s].at = "count" /\ Free(s, tx[s].to)
    /\ tx' = [tx EXCEPT ![s].at = "commit",
                        ![s].moved = tx[s].op = "create" => Live(tx[s].to)]
    /\ UNCHANGED <<Committed, Elsewhere, begun>>

-----------------------------------------------------------------------------
(* softDelete, like, unlike                                                *)

Delete(s, u, p) ==
    /\ Live(p) /\ posts[p].author = u
    /\ Begin(s, NewTx("delete", "mark", u, p))
    /\ UNCHANGED <<Committed, Elsewhere>>

\* Mutant: a post can be deleted twice.
MarkAgain(s) ==
    LET p == tx[s].post
    IN  /\ tx[s] # NoTx /\ tx[s].at = "mark" /\ Free(s, p)
        /\ tx' = [tx EXCEPT ![s].at = AfterRow(posts[p]),
                            ![s].marks = {p}, ![s].row = posts[p],
                            ![s].to = Target(posts[p])]
        /\ UNCHANGED <<Committed, Elsewhere, begun>>

\* UPDATE ... WHERE author_id AND deleted_at IS NULL, looked at after the wait.
Mark(s) ==
    LET p == tx[s].post
    IN  /\ tx[s] # NoTx /\ tx[s].at = "mark" /\ Free(s, p)
        /\ IF ~Live(p) THEN Rollback(s)
           ELSE tx' = [tx EXCEPT ![s].at = AfterRow(posts[p]),
                                 ![s].marks = {p}, ![s].row = posts[p],
                                 ![s].to = Target(posts[p])]
        /\ UNCHANGED <<Committed, Elsewhere, begun>>

\* The peek before the transaction refuses what is not there.
Like(s, u, p) ==
    /\ Live(p) /\ Begin(s, NewTx("like", "lock", u, p))
    /\ UNCHANGED <<Committed, Elsewhere>>

\* Mutant: the post is read without FOR UPDATE.
LockReads(s) ==
    LET p == tx[s].post
    IN  /\ tx[s] # NoTx /\ tx[s].at = "lock"
        /\ IF Live(p) THEN Go(s, "like") ELSE Rollback(s)
        /\ UNCHANGED <<Committed, Elsewhere, begun>>

\* SELECT ... FOR UPDATE
Lock(s) ==
    LET p == tx[s].post
    IN  /\ tx[s] # NoTx /\ tx[s].at = "lock" /\ Free(s, p)
        /\ IF Live(p) THEN Go(s, "like") ELSE Rollback(s)
        /\ UNCHANGED <<Committed, Elsewhere, begun>>

\* INSERT ... ON CONFLICT DO NOTHING, and the counter if it inserted.
InsertLike(s) ==
    LET t == tx[s]
        new == <<t.post, t.by>> \notin likes
    IN  /\ t # NoTx /\ t.at = "like" /\ LikeFree(s, t.post, t.by)
        /\ tx' = [tx EXCEPT ![s].at = "commit", ![s].liked = new,
                            ![s].to = t.post, ![s].moved = new]
        /\ UNCHANGED <<Committed, Elsewhere, begun>>

Unlike(s, u, p) ==
    /\ Exists(p) /\ Begin(s, NewTx("unlike", "unlike", u, p))
    /\ UNCHANGED <<Committed, Elsewhere>>

\* Mutant: the counter goes down whether or not a row was deleted.
DeleteLikeAlways(s) ==
    LET t == tx[s]
    IN  /\ t # NoTx /\ t.at = "unlike" /\ LikeFree(s, t.post, t.by)
        /\ tx' = [tx EXCEPT ![s].at = "count", ![s].to = t.post,
                            ![s].liked = <<t.post, t.by>> \in likes]
        /\ UNCHANGED <<Committed, Elsewhere, begun>>

\* DELETE ... RETURNING: an uncommitted like of the same user is not seen,
\* an uncommitted unlike is waited for.
DeleteLike(s) ==
    LET t == tx[s]
        old == <<t.post, t.by>> \in likes
    IN  /\ t # NoTx /\ t.at = "unlike" /\ (old => LikeFree(s, t.post, t.by))
        /\ tx' = [tx EXCEPT ![s].at = IF old THEN "count" ELSE "commit",
                            ![s].liked = old, ![s].to = t.post]
        /\ UNCHANGED <<Committed, Elsewhere, begun>>

-----------------------------------------------------------------------------
(* The author cascade.                                                     *)

\* user.erased may be delivered again; what is processed already is a
\* duplicate, and a second consumer waits on the key of processed_events.  The
\* account was deactivated 30 days before, so that none of its requests runs.
Erase(s, u) ==
    /\ u \notin handled
    /\ \A t \in Others(s) : tx[t].by # u \/ tx[t].op \in {"like", "unlike"}
    /\ Begin(s, NewTx("cascade", "pick", u, None))
    /\ gone' = gone \union {u}
    /\ UNCHANGED <<Committed, repair, lock>>

\* Mutant: a batch that is full ends the loop.
PickOnce(s) ==
    /\ tx[s] # NoTx /\ tx[s].at = "pick" /\ tx[s].picked = {}
    /\ LET left == {p \in Ids : Live(p) /\ posts[p].author = tx[s].by} \ tx[s].marks
       IN  IF left = {} \/ tx[s].rounds = 1 THEN Go(s, "commit")
           ELSE \E b \in SUBSET left :
                    /\ Cardinality(b) = IF Cardinality(left) < Batch
                                        THEN Cardinality(left) ELSE Batch
                    /\ tx' = [tx EXCEPT ![s].picked = b]
    /\ UNCHANGED <<Committed, Elsewhere, begun>>

\* The subquery: at most Batch of the author's posts that are not deleted.
Pick(s) ==
    /\ tx[s] # NoTx /\ tx[s].at = "pick" /\ tx[s].picked = {}
    /\ LET left == {p \in Ids : Live(p) /\ posts[p].author = tx[s].by} \ tx[s].marks
       IN  IF left = {} \/ tx[s].rounds = Rounds THEN Go(s, "commit")
           ELSE \E b \in SUBSET left :
                    /\ Cardinality(b) = IF Cardinality(left) < Batch
                                        THEN Cardinality(left) ELSE Batch
                    /\ tx' = [tx EXCEPT ![s].picked = b]
    /\ UNCHANGED <<Committed, Elsewhere, begun>>

\* The UPDATE, row by row as they are free, in any order.  A row that was
\* deleted while it waited is updated too, and counted.
MarkPicked(s, p) ==
    LET last == tx[s].picked = {p}
    IN  /\ tx[s] # NoTx /\ p \in tx[s].picked /\ Free(s, p)
        /\ tx' = [tx EXCEPT ![s].picked = @ \ {p}, ![s].marks = @ \union {p},
                            ![s].rounds = IF last THEN @ + 1 ELSE @]
        /\ UNCHANGED <<Committed, Elsewhere, begun>>

-----------------------------------------------------------------------------
(* Ends.                                                                   *)

Clamped(n, up) == IF up THEN n + 1 ELSE IF n > 0 THEN n - 1 ELSE 0

\* coalesce: who deleted it first stays.
Marked(row, t) ==
    IF row.deleted_by # None THEN row
    ELSE [row EXCEPT !.deleted_by = IF t.op = "cascade" THEN "erasure" ELSE "author"]

PostsAfter(t) ==
    [ p \in Ids |->
        LET row == IF t.op = "create" /\ t.post = p THEN t.row
                   ELSE IF p \in t.marks THEN Marked(posts[p], t) ELSE posts[p]
        IN  IF t.moved /\ t.to = p
            THEN [row EXCEPT !.counts[Counter(t)] = Clamped(@, t.op \in {"create", "like"})]
            ELSE row ]

Emitted(t) ==
    CASE t.op = "create" ->
            (IF t.row.reply_to = None THEN {"post.created"} ELSE {"post.replied"})
                \union (IF t.row.repost_of # None THEN {"post.reposted"} ELSE {})
                \union (IF t.mention = "resolved" /\ t.by # Mentioned
                        THEN {"user.mentioned"} ELSE {})
      [] t.op = "delete" -> {"post.deleted"}
      [] t.op = "like" /\ t.liked -> {"post.liked"}
      [] OTHER -> {}

EventsAfter(types, p) ==
    [e \in EventTypes \X Ids |-> IF e[1] \in types /\ e[2] = p THEN events[e] + 1
                                                               ELSE events[e]]

\* unlike answers 404 for a deleted post, from inside its transaction.
Commit(s) ==
    LET t == tx[s]
    IN  /\ t # NoTx /\ t.at = "commit"
        /\ IF t.op = "unlike" /\ ~Live(t.post) THEN UNCHANGED Committed
           ELSE /\ posts' = PostsAfter(t)
                /\ likes' = IF ~t.liked THEN likes
                            ELSE IF t.op = "like" THEN likes \union {<<t.post, t.by>>}
                                                  ELSE likes \ {<<t.post, t.by>>}
                /\ mention' = IF t.op = "create" THEN [mention EXCEPT ![t.post] = t.mention]
                                                 ELSE mention
                /\ events' = EventsAfter(Emitted(t), t.post)
                /\ handled' = IF t.op = "cascade" THEN handled \union {t.by} ELSE handled
        /\ Rollback(s)
        /\ UNCHANGED <<Elsewhere, begun>>

\* lock_timeout, the deadlock detector, or a connection that is lost.
Fails(s) ==
    /\ tx[s] # NoTx /\ Rollback(s)
    /\ UNCHANGED <<Committed, Elsewhere, begun>>

-----------------------------------------------------------------------------
(* Mention repair.                                                         *)

\* pg_try_advisory_lock on whatever server connection PgBouncer picks, and the
\* scan.  A connection that holds the lock gets it again.
Lead(r, c) ==
    /\ ~repair[r].leads /\ begun.tx + begun.repair < MaxBegun
    /\ begun' = [begun EXCEPT !.repair = @ + 1]
    /\ \A d \in Conns \ {c} : lock[d] = 0
    /\ lock' = [lock EXCEPT ![c] = @ + 1]
    /\ repair' = [repair EXCEPT ![r] = [ leads |-> TRUE,
                                         batch |-> {p \in Ids : mention[p] = "open"} ]]
    /\ UNCHANGED <<Committed, gone, tx>>

\* Mutant: the UPDATE does not ask whether the mention is still open.
ResolveAgain(r, p) ==
    /\ p \in repair[r].batch
    /\ repair' = [repair EXCEPT ![r].batch = @ \ {p}]
    /\ mention' = [mention EXCEPT ![p] = "resolved"]
    /\ events' = IF posts[p].author = Mentioned THEN events
                 ELSE EventsAfter({"user.mentioned"}, p)
    /\ UNCHANGED <<posts, likes, handled, gone, tx, lock, begun>>

\* One transaction per mention whose user identity knows.
ResolveMention(r, p) ==
    /\ p \in repair[r].batch
    /\ repair' = [repair EXCEPT ![r].batch = @ \ {p}]
    /\ IF mention[p] = "open"
       THEN /\ mention' = [mention EXCEPT ![p] = "resolved"]
            /\ events' = IF posts[p].author = Mentioned THEN events
                         ELSE EventsAfter({"user.mentioned"}, p)
       ELSE UNCHANGED <<mention, events>>
    /\ UNCHANGED <<posts, likes, handled, gone, tx, lock, begun>>

\* Identity does not know the name, or does not answer.
SkipMention(r, p) ==
    /\ p \in repair[r].batch
    /\ repair' = [repair EXCEPT ![r].batch = @ \ {p}]
    /\ UNCHANGED <<Committed, gone, tx, lock, begun>>

\* pg_advisory_unlock, again on any connection: one that does not hold the
\* lock only warns, and the lock stays where it is.
Unlock(r, c) ==
    /\ repair[r].leads /\ repair[r].batch = {}
    /\ repair' = [repair EXCEPT ![r].leads = FALSE]
    /\ lock' = [lock EXCEPT ![c] = IF @ > 0 THEN @ - 1 ELSE 0]
    /\ UNCHANGED <<Committed, gone, tx, begun>>

Step(s) == \/ Insert(s) \/ Count(s) \/ Mark(s) \/ Lock(s) \/ InsertLike(s)
           \/ DeleteLike(s) \/ Pick(s) \/ Commit(s)
           \/ \E p \in Ids : MarkPicked(s, p)

Next ==
    \/ \E s \in Sessions, u \in Users : Create(s, u) \/ Erase(s, u)
    \/ \E s \in Sessions, u \in Users, p \in Ids :
          Delete(s, u, p) \/ Like(s, u, p) \/ Unlike(s, u, p)
    \/ \E s \in Sessions : Step(s) \/ Fails(s)
    \/ \E r \in Replicas, c \in Conns : Lead(r, c) \/ Unlock(r, c)
    \/ \E r \in Replicas, p \in Ids : ResolveMention(r, p) \/ SkipMention(r, p)

Spec == Init /\ [][Next]_vars

-----------------------------------------------------------------------------
(* Properties.                                                             *)

Pointing(f, p) == {q \in Ids : Exists(q) /\ posts[q][f] = p /\ posts[q].deleted_by # "author"}

\* The like counter of a post is the number of its likes.  The reply and
\* repost counters of a post that is not deleted are the replies and reposts
\* of it that their authors have not deleted; those that an erasure removed
\* are still counted.
CountersMatch ==
    \A p \in Ids :
        /\ Exists(p) => posts[p].counts["like_count"] = Cardinality({l \in likes : l[1] = p})
        /\ Live(p) => /\ posts[p].counts["reply_count"] = Cardinality(Pointing("reply_to", p))
                      /\ posts[p].counts["repost_count"] = Cardinality(Pointing("repost_of", p))

\* Nobody is told of a like of a post that is deleted by then.
LikeNeedsPost ==
    [][\A p \in Ids : events'[<<"post.liked", p>>] > events[<<"post.liked", p>>] => Live(p)]_vars

\* A mention is announced once when it is resolved, when the post is written
\* or by whichever repair comes first, and never to the author themself.
MentionedOnce ==
    \A p \in Ids : events[<<"user.mentioned", p>>] =
        IF mention[p] = "resolved" /\ posts[p].author # Mentioned THEN 1 ELSE 0

\* post.deleted is published once for each post its author deleted, and for
\* no other; the erasure, which publishes nothing, never takes such a post.
DeletedIsAnnounced ==
    \A p \in Ids : events[<<"post.deleted", p>>] =
        IF Exists(p) /\ posts[p].deleted_by = "author" THEN 1 ELSE 0

\* Once user.erased of an author is processed, their posts are gone, as long
\* as there were no more than the batches of one delivery take.
ErasureComplete ==
    \A u \in handled :
        LET all == {p \in Ids : Exists(p) /\ posts[p].author = u}
        IN  Cardinality(all) <= Batch * Rounds => \A p \in all : ~Live(p)

\* What a repost points at is a post of its own and not a repost.
RepostsAreOfOriginals ==
    \A p \in Ids : Exists(p) /\ posts[p].repost_of # None =>
                       posts[posts[p].repost_of].repost_of = None

\* README.md:251: only one replica runs each repair cycle.
OneLeader == Cardinality({r \in Replicas : repair[r].leads}) <= 1
===============================================================================
