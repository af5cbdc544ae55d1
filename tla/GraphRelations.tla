---------------------------- MODULE GraphRelations ----------------------------
(***************************************************************************)
(* Follows, follow requests, blocks and mutes                              *)
(* (apps/graph-service/src/graph/graph.service.ts) as PostgreSQL runs      *)
(* them: READ COMMITTED transactions (withTransaction), one step per       *)
(* statement or per group of statements no other transaction can tell      *)
(* apart; and the DELETEs of the erasure cascade                           *)
(* (../cascade/cascade.service.ts), which run beside them and append no    *)
(* event.  How the cascade gets there is CascadeJobs.                      *)
(*                                                                         *)
(* A statement reads the committed rows and what its own transaction did.  *)
(* INSERT ... ON CONFLICT DO NOTHING waits for a transaction that inserted *)
(* or deleted the same key and has not ended; DELETE waits for one that    *)
(* deleted a row it wants, and does not see uncommitted inserts.  A        *)
(* statement that waits too long (lock_timeout), or that the deadlock      *)
(* detector picks, rolls its transaction back.                             *)
(*                                                                         *)
(* Events are the outbox rows; they commit with their transaction.         *)
(***************************************************************************)
EXTENDS Naturals, FiniteSets

CONSTANTS
    Users,
    Sessions,       \* database sessions, one transaction each at a time
    MaxTx           \* bound: transactions begun, DELETEs of the cascade included

ASSUME GraphAssumption == MaxTx \in Nat

VARIABLES
    rows,           \* committed rows, <<kind, from, to>>
    events,         \* how often each event was committed to the outbox
    tx,             \* the transaction of each session
    begun,          \* bound
    erased,         \* history: users of whom the cascade deleted rows
    raced           \* history: pairs on which two transactions were open at once

vars == <<rows, events, tx, begun, erased, raced>>

Kinds == {"follow", "request", "block", "mute"}
Rows == Kinds \X Users \X Users

EventTypes == {"user.followed", "user.unfollowed", "follow.requested",
               "user.blocked", "user.unblocked", "user.muted", "user.unmuted"}
Events == EventTypes \X Users \X Users

\* The first statement of each operation.
First == [ follow  |-> "follow: blocked?",  unfollow |-> "unfollow: delete",
           accept  |-> "accept: take",      reject   |-> "reject: delete",
           block   |-> "block: insert",     unblock  |-> "unblock: delete",
           mute    |-> "mute: insert",      unmute   |-> "unmute: delete" ]
Later == {"follow: existing?", "follow: insert", "drop request",
          "accept: blocked?", "accept: insert", "block: sever",
          "block: drop requests", "commit"}
Statements == {First[op] : op \in DOMAIN First} \union Later

\* from and to are the method's two arguments in the order of the row they
\* are about: requester and target also for accept and reject.
NoTx == [at |-> "none"]
OpenTx == [ at : Statements, from : Users, to : Users, private : BOOLEAN,
            ins : SUBSET Rows, del : SUBSET Rows, emit : SUBSET Events ]

TypeOK ==
    /\ rows \subseteq Rows
    /\ events \in [Events -> Nat]
    /\ tx \in [Sessions -> OpenTx \union {NoTx}]
    /\ begun \in 0..MaxTx
    /\ erased \subseteq Users
    /\ raced \subseteq SUBSET Users

Init ==
    /\ rows = {}
    /\ events = [e \in Events |-> 0]
    /\ tx = [s \in Sessions |-> NoTx]
    /\ begun = 0
    /\ erased = {}
    /\ raced = {}

-----------------------------------------------------------------------------
(* Transactions.                                                           *)

Open(s) == tx[s] # NoTx
At(s, stmt) == Open(s) /\ tx[s].at = stmt
From(s) == tx[s].from
To(s) == tx[s].to

\* What session s sees.
Seen(s) == (rows \ tx[s].del) \union tx[s].ins

Others(s) == {t \in Sessions \ {s} : Open(t)}
InsertWaits(s, row) == \E t \in Others(s) : row \in tx[t].ins \union tx[t].del
DeleteWaits(s, R) == \E t \in Others(s) : R \intersect Seen(s) \intersect tx[t].del # {}

\* INSERT ... ON CONFLICT DO NOTHING of row, then go on at stmt; emitted is
\* what the code appends to the outbox.
Insert(s, row, emitted, stmt) ==
    /\ ~ InsertWaits(s, row)
    /\ tx' = [tx EXCEPT ![s] =
                [tx[s] EXCEPT !.ins = tx[s].ins \union ({row} \ rows),
                              !.emit = tx[s].emit \union emitted,
                              !.at = stmt]]
    /\ UNCHANGED <<rows, events, begun, erased, raced>>

\* DELETE of the rows of R that are there.
Delete(s, R, emitted, stmt) ==
    /\ ~ DeleteWaits(s, R)
    /\ tx' = [tx EXCEPT ![s] =
                [tx[s] EXCEPT !.del = tx[s].del \union (R \intersect rows),
                              !.emit = tx[s].emit \union emitted,
                              !.at = stmt]]
    /\ UNCHANGED <<rows, events, begun, erased, raced>>

\* if (rowCount > 0) appendOutbox(...)
IfInserted(row, event) == IF row \in rows THEN {} ELSE {event}
IfDeleted(row, event) == IF row \in rows THEN {event} ELSE {}

Go(s, stmt) ==
    /\ tx' = [tx EXCEPT ![s].at = stmt]
    /\ UNCHANGED <<rows, events, begun, erased, raced>>

Rollback(s) ==
    /\ tx' = [tx EXCEPT ![s] = NoTx]
    /\ UNCHANGED <<rows, events, begun, erased, raced>>

Commit(s) ==
    /\ At(s, "commit")
    /\ rows' = Seen(s)
    /\ events' = [e \in Events |->
                    IF e \in tx[s].emit THEN events[e] + 1 ELSE events[e]]
    /\ tx' = [tx EXCEPT ![s] = NoTx]
    /\ UNCHANGED <<begun, erased, raced>>

SamePair(s, a, b) == {From(s), To(s)} = {a, b}

\* A request reaches the service.  private is what fetchTargetUser returned
\* before the transaction began: it fails open to public, and the target may
\* change it at any time.
Begin(s, op, a, b) ==
    /\ ~ Open(s)
    /\ a # b
    /\ begun < MaxTx
    /\ begun' = begun + 1
    /\ \E private \in IF op = "follow" THEN BOOLEAN ELSE {FALSE} :
          tx' = [tx EXCEPT ![s] = [at |-> First[op], from |-> a, to |-> b,
                                   private |-> private,
                                   ins |-> {}, del |-> {}, emit |-> {}]]
    /\ raced' = IF \E t \in Others(s) : SamePair(t, a, b)
                THEN raced \union {{a, b}} ELSE raced
    /\ UNCHANGED <<rows, events, erased>>

-----------------------------------------------------------------------------
(* The rows an operation is about, and the block check.                    *)

Follow(s) == <<"follow", From(s), To(s)>>
Request(s) == <<"request", From(s), To(s)>>
Block(s) == <<"block", From(s), To(s)>>
Mute(s) == <<"mute", From(s), To(s)>>
BothWays(s, kind) == {<<kind, From(s), To(s)>>, <<kind, To(s), From(s)>>}
Blocked(s) == BothWays(s, "block") \intersect Seen(s) # {}
Ev(s, type) == <<type, From(s), To(s)>>

-----------------------------------------------------------------------------
(* follow                                                                  *)

FollowChecksBlock(s) ==
    /\ At(s, "follow: blocked?")
    /\ IF Blocked(s) THEN Rollback(s) ELSE Go(s, "follow: existing?")

\* Already following: the transaction commits nothing.
FollowChecksExisting(s) ==
    /\ At(s, "follow: existing?")
    /\ Go(s, IF Follow(s) \in Seen(s) THEN "commit" ELSE "follow: insert")

FollowRequests(s) ==
    /\ At(s, "follow: insert")
    /\ tx[s].private
    /\ Insert(s, Request(s),
              IfInserted(Request(s), Ev(s, "follow.requested")), "commit")

FollowInserts(s) ==
    /\ At(s, "follow: insert")
    /\ ~ tx[s].private
    /\ Insert(s, Follow(s),
              IfInserted(Follow(s), Ev(s, "user.followed")), "drop request")

DropRequest(s) ==
    /\ At(s, "drop request")
    /\ Delete(s, {Request(s)}, {}, "commit")

(* unfollow *)
\* Mutant: unfollow announces a removal that did not happen.
UnfollowAlwaysEmits(s) ==
    /\ At(s, "unfollow: delete")
    /\ Delete(s, {Follow(s)}, {Ev(s, "user.unfollowed")}, "drop request")

UnfollowDeletes(s) ==
    /\ At(s, "unfollow: delete")
    /\ Delete(s, {Follow(s)},
              IfDeleted(Follow(s), Ev(s, "user.unfollowed")), "drop request")

(* acceptFollowRequest *)

\* No request: a follow that is there already is a success and anything else
\* a 404, and neither changes a row.
AcceptTakes(s) ==
    /\ At(s, "accept: take")
    /\ Delete(s, {Request(s)}, {},
              IF Request(s) \in rows THEN "accept: blocked?" ELSE "commit")

AcceptChecksBlock(s) ==
    /\ At(s, "accept: blocked?")
    /\ IF Blocked(s) THEN Rollback(s) ELSE Go(s, "accept: insert")

\* The event does not depend on the insert having had an effect.
AcceptInserts(s) ==
    /\ At(s, "accept: insert")
    /\ Insert(s, Follow(s), {Ev(s, "user.followed")}, "commit")

(* rejectFollowRequest *)
RejectDeletes(s) ==
    /\ At(s, "reject: delete")
    /\ Delete(s, {Request(s)}, {}, "commit")

(* block *)
\* Mutant: blocking again announces the block again.
BlockAlwaysEmits(s) ==
    /\ At(s, "block: insert")
    /\ Insert(s, Block(s), {Ev(s, "user.blocked")}, "block: sever")

BlockInserts(s) ==
    /\ At(s, "block: insert")
    /\ Insert(s, Block(s), IfInserted(Block(s), Ev(s, "user.blocked")), "block: sever")

\* Mutant: the blocked user keeps following the blocker.
BlockSeversOneWay(s) ==
    /\ At(s, "block: sever")
    /\ Delete(s, {Follow(s)}, {}, "block: drop requests")

BlockSevers(s) ==
    /\ At(s, "block: sever")
    /\ Delete(s, BothWays(s, "follow"), {}, "block: drop requests")

BlockDropsRequests(s) ==
    /\ At(s, "block: drop requests")
    /\ Delete(s, BothWays(s, "request"), {}, "commit")

(* unblock, mute, unmute *)
UnblockDeletes(s) ==
    /\ At(s, "unblock: delete")
    /\ Delete(s, {Block(s)}, IfDeleted(Block(s), Ev(s, "user.unblocked")), "commit")

MuteInserts(s) ==
    /\ At(s, "mute: insert")
    /\ Insert(s, Mute(s), IfInserted(Mute(s), Ev(s, "user.muted")), "commit")

UnmuteDeletes(s) ==
    /\ At(s, "unmute: delete")
    /\ Delete(s, {Mute(s)}, IfDeleted(Mute(s), Ev(s, "user.unmuted")), "commit")

-----------------------------------------------------------------------------
(* The erasure cascade.                                                    *)

CascadeKinds == {"follow", "block", "mute"}
RowsOf(u, kind) == {row \in rows : row[1] = kind /\ u \in {row[2], row[3]}}

\* A DELETE of deleteBatched for the erased user u, committed by itself: some
\* rows of one table, follow requests excepted.  It waits for a transaction
\* that deleted one of them, does not see uncommitted inserts, and nothing is
\* announced.
CascadeDeletes(u) ==
    /\ begun < MaxTx
    /\ begun' = begun + 1
    /\ \E kind \in CascadeKinds : \E gone \in (SUBSET RowsOf(u, kind)) \ {{}} :
          /\ \A t \in Sessions : Open(t) => gone \intersect tx[t].del = {}
          /\ rows' = rows \ gone
    /\ erased' = erased \union {u}
    /\ UNCHANGED <<events, tx, raced>>

-----------------------------------------------------------------------------
Statement(s) ==
    \/ FollowChecksBlock(s) \/ FollowChecksExisting(s) \/ FollowRequests(s)
    \/ FollowInserts(s) \/ DropRequest(s) \/ UnfollowDeletes(s)
    \/ AcceptTakes(s) \/ AcceptChecksBlock(s) \/ AcceptInserts(s)
    \/ RejectDeletes(s)
    \/ BlockInserts(s) \/ BlockSevers(s) \/ BlockDropsRequests(s)
    \/ UnblockDeletes(s) \/ MuteInserts(s) \/ UnmuteDeletes(s)
    \/ Commit(s)

\* lock_timeout, the deadlock detector, a lost connection: the open
\* transaction is rolled back and the request fails.
Fails(s) == Open(s) /\ Rollback(s)

Step(s) ==
    \/ \E op \in DOMAIN First, a, b \in Users : Begin(s, op, a, b)
    \/ Statement(s)
    \/ Fails(s)

Next ==
    \/ \E s \in Sessions : Step(s)
    \/ \E u \in Users : CascadeDeletes(u)

Spec == Init /\ [][Next]_vars

\* Mutant: no lock_timeout and no deadlock detector.
WaitsForEver(s) == Fails(s) /\ ~ Open(s)

\* What lock_timeout guarantees: a statement that waits is given up.
TimesOut(s) == Fails(s) /\ ~ ENABLED Statement(s)

FairSpec == Spec /\ \A s \in Sessions :
                       WF_vars(Statement(s)) /\ WF_vars(TimesOut(s))

-----------------------------------------------------------------------------
(* Properties.                                                             *)

Present(kind, a, b) == IF <<kind, a, b>> \in rows THEN 1 ELSE 0

\* Blocks and mutes announce every transition once, whatever interleaves, waits
\* or rolls back: of each pair there is one user.blocked (user.muted) more than
\* there are user.unblocked (user.unmuted) exactly while the row is there.  The
\* cascade of an erased user takes rows away without a word, so of a pair with
\* an erased user there may be more of them, and never fewer.
Ledger(added, removed, present, exact) ==
    IF exact THEN added = removed + present ELSE added >= removed + present

RelationLedger ==
    \A a, b \in Users :
        LET exact == {a, b} \intersect erased = {} IN
        /\ Ledger(events[<<"user.blocked", a, b>>],
                  events[<<"user.unblocked", a, b>>], Present("block", a, b), exact)
        /\ Ledger(events[<<"user.muted", a, b>>],
                  events[<<"user.unmuted", a, b>>], Present("mute", a, b), exact)

\* Consumers never know fewer follows than there are: each edge that exists
\* was announced once more than its removals were.
EveryEdgeAnnounced ==
    \A a, b \in Users :
        events[<<"user.followed", a, b>>]
            >= events[<<"user.unfollowed", a, b>>] + Present("follow", a, b)

\* Neither follows nor asks to follow the other, of whom one blocks the other.
BlockKept(a, b) ==
    \/ {<<"block", a, b>>, <<"block", b, a>>} \intersect rows = {}
    \/ {<<"follow", a, b>>, <<"request", a, b>>} \intersect rows = {}

\* Operations on a pair that do not overlap leave no follow and no request
\* between two users of whom one blocks the other, whatever overlaps on the
\* other pairs.
BlockHolds == \A a, b \in Users : {a, b} \in raced \/ BlockKept(a, b)

\* ... nor a request beside the follow it asks for.
RequestOrFollow ==
    \A a, b \in Users :
        {a, b} \in raced \/ {<<"request", a, b>>, <<"follow", a, b>>} \ rows # {}

NewFollowed(a, b) ==
    events'[<<"user.followed", a, b>>] > events[<<"user.followed", a, b>>]
        => <<"follow", a, b>> \in rows' \ rows

FollowedMeansNew == \A a, b \in Users : NewFollowed(a, b)

\* ... and user.followed is committed only with a new edge.
FollowedIsTransition ==
    [][\A a, b \in Users : {a, b} \in raced \/ NewFollowed(a, b)]_vars

\* Transactions take their row locks in different orders (follow and unfollow
\* the follow before the request, accept the other way round), and yet every
\* transaction ends.
EveryTxEnds == \A s \in Sessions : Open(s) ~> ~ Open(s)

-----------------------------------------------------------------------------
(* What documentation says of the service.                                 *)

\* graph-service.md, 5: a block severs existing follows in both directions and
\* prevents new ones.
BlockPrevails ==
    \A a, b \in Users :
        <<"follow", a, b>> \in rows =>
            {<<"block", a, b>>, <<"block", b, a>>} \intersect rows = {}

\* graph-service.md, 3: the event is emitted only on a real transition.
EventOnlyOnTransition == [][FollowedMeansNew]_vars
==============================================================================
