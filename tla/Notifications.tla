---------------------------- MODULE Notifications ----------------------------
(***************************************************************************)
(* Notifications and their delivery (apps/notification-service/src:        *)
(* app.module.ts, notifications/; apps/realtime-gateway/src: realtime/,    *)
(* stream/, ticket/).                                                      *)
(*                                                                         *)
(* notification-service turns the events of graph-service and post-service *)
(* into rows, one per recipient, group and hour, and after the commit adds *)
(* a pointer to the row to the recipient's Redis stream.  A connection of  *)
(* realtime-gateway reads that stream behind a cursor, fetches the rows    *)
(* and sends them; a client that comes back names the last entry it got.   *)
(* The model has one recipient with one client and one session, an event   *)
(* is delivered in any order and more than once, and everything between    *)
(* the event and the client may fail.  Rows are not marked as read here.   *)
(***************************************************************************)
EXTENDS Naturals, Sequences, FiniteSets, FiniteSetsExt, SequencesExt

CONSTANTS
    Consumers, Events,
    ActorOf, GroupOf,   \* mapEvent, for the events with this recipient
    Me,                 \* the recipient
    Hours,              \* values of group_window
    ActorCap,           \* ACTOR_CAP
    MaxLen,             \* STREAM_MAXLEN
    CatchUpCount, Batch,    \* entries asked of XRANGE and of XREAD
    HydrateMax,         \* entries of a batch whose rows getByIds looks up
    Block,              \* ticks that XREAD waits for an entry
    CheckEvery,         \* SESSION_CHECK_MS
    KeyLife,            \* ACCESS_TOKEN_REVOCATION_TTL_SECONDS
    TicketLife,         \* TICKET_TTL_SECONDS
    Unseen, Skipped, Dollar,
    MaxChanges          \* bound

ASSUME NotificationsAssumption ==
    /\ Hours \subseteq Nat /\ 0 \in Hours
    /\ {ActorCap, MaxLen, CatchUpCount, Batch, HydrateMax, Block, CheckEvery, KeyLife}
          \subseteq Nat \ {0}
    /\ {TicketLife, MaxChanges} \subseteq Nat
    /\ {Unseen, Skipped} \intersect ({GroupOf[e] : e \in Events} \X Hours) = {}
    /\ Unseen # Skipped /\ Dollar \notin Nat

VARIABLES
    work,               \* what each consumer does
    handled,            \* events whose handler has returned
    fate,               \* processed_events, and where the event was counted
    rows,               \* notification.notifications
    hour,               \* the clock, in group windows
    muted,              \* graph-service: actors blocked or muted
    stream, cut,        \* ntf:s:<user>, and how much of it is trimmed
    conn,               \* the delivery session of the client's connection
    client,             \* what the client was sent
    ticket,             \* rt:tk:<hash>: its age
    revokedFor,         \* session: time since the revocation
    key,                \* auth:revoked:sid:<session>: its age
    changes             \* bound: faults and changes

service == <<work, handled, fate, rows, hour, muted>>
gateway == <<conn, client, ticket, revokedFor, key>>
vars == <<service, stream, cut, gateway, changes>>

Actors == {ActorOf[e] : e \in Events}
Rows == {GroupOf[e] : e \in Events} \X Hours
Idle == [at |-> "idle"]
Closed == [at |-> "closed"]
No == {}                \* no ticket, not revoked, no key; otherwise a set of one number

TypeOK ==
    /\ \A c \in Consumers : work[c].at \in {"idle", "dedupe", "suppress", "commit", "publish"}
    /\ handled \subseteq Events /\ fate \in [Events -> Rows \union {Unseen, Skipped}]
    /\ rows \in [Rows -> [actors : Seq(Actors), count : Nat]]
    /\ hour \in Hours /\ muted \subseteq Actors
    /\ stream \in Seq([row : Rows, count : Nat]) /\ cut \in 0 .. Len(stream)
    /\ conn.at \in {"closed", "catchup", "push", "check", "read"}
    /\ client.got \in Seq([at : Nat, shown : Nat])
    /\ ticket = No \/ ticket \in {{n} : n \in 0 .. TicketLife}
    /\ revokedFor = No \/ revokedFor \in {{n} : n \in 0 .. KeyLife}
    /\ key = No \/ key \in {{n} : n \in 0 .. KeyLife - 1}
    /\ changes \in 0 .. MaxChanges

Init ==
    /\ work = [c \in Consumers |-> Idle]
    /\ handled = {} /\ fate = [e \in Events |-> Unseen]
    /\ rows = [r \in Rows |-> [actors |-> <<>>, count |-> 0]]
    /\ hour = 0 /\ muted = {}
    /\ stream = <<>> /\ cut = 0
    /\ conn = Closed /\ client = [last |-> Dollar, got |-> <<>>, ready |-> {}]
    /\ ticket = No /\ revokedFor = No /\ key = No
    /\ changes = 0

Change == changes < MaxChanges /\ changes' = changes + 1
Works(c, w) == work' = [work EXCEPT ![c] = w]

-----------------------------------------------------------------------------
(* notification-service                                                    *)

\* An event is handled once, or again: after a failure, after a rebalance even
\* if it was handled or another consumer still works on it, or from the DLQ.
Take(c, e) ==
    /\ work[c] = Idle
    /\ \/ e \notin handled /\ (\A d \in Consumers : work[d] # Idle => work[d].event # e)
          /\ UNCHANGED changes
       \/ Change
    /\ Works(c, [at |-> "dedupe", event |-> e])
    /\ UNCHANGED <<handled, fate, rows, hour, muted, stream, cut, gateway>>

Returns(c) == Works(c, Idle) /\ handled' = handled \union {work[c].event}

\* Mutant: processed_events is not asked.
DedupeNever(c) ==
    /\ work[c].at = "dedupe" /\ Works(c, [work[c] EXCEPT !.at = "suppress"])
    /\ UNCHANGED <<handled, fate, rows, hour, muted, stream, cut, gateway, changes>>

\* INSERT ... ON CONFLICT DO NOTHING waits for a transaction that has
\* inserted the same event.
Dedupe(c) ==
    LET e == work[c].event
    IN  /\ work[c].at = "dedupe"
        /\ \A d \in Consumers : work[d].at \in {"suppress", "commit"} => work[d].event # e
        /\ \/ fate[e] # Unseen /\ Returns(c)
           \/ /\ fate[e] = Unseen /\ Works(c, [work[c] EXCEPT !.at = "suppress"])
              /\ UNCHANGED handled
        /\ UNCHANGED <<fate, rows, hour, muted, stream, cut, gateway, changes>>

RowOf(e) == <<GroupOf[e], hour>>
Decides(c, skip) ==
    Works(c, [at |-> "commit", event |-> work[c].event, skip |-> skip])

\* Mutant: the pointer is published inside the transaction.
SuppressPublish(c) ==
    LET r == RowOf(work[c].event)
    IN  /\ work[c].at = "suppress" /\ Decides(c, FALSE)
        /\ stream' = Append(stream, [row |-> r, count |-> rows[r].count + 1])
        /\ UNCHANGED <<handled, fate, rows, hour, muted, cut, gateway, changes>>

\* shouldSuppress asks graph-service inside the transaction; without an
\* answer the notification is made.
Suppress(c) ==
    LET a == ActorOf[work[c].event]
    IN  /\ work[c].at = "suppress"
        /\ \/ Decides(c, a = Me \/ a \in muted) /\ UNCHANGED changes
           \/ a \in muted \ {Me} /\ Decides(c, FALSE) /\ Change
        /\ UNCHANGED <<handled, fate, rows, hour, muted, stream, cut, gateway>>

\* The upsert and the commit.
Commit(c) ==
    LET e == work[c].event
        r == RowOf(e)
        Upsert(row) == [ actors |-> SubSeq(<<ActorOf[e]>> \o row.actors, 1,
                                           Min({ActorCap, Len(row.actors) + 1})),
                         count |-> row.count + 1 ]
    IN  /\ work[c].at = "commit"
        /\ \/ /\ work[c].skip
              /\ fate' = [fate EXCEPT ![e] = Skipped] /\ Returns(c)
              /\ UNCHANGED rows
           \/ /\ ~work[c].skip
              /\ fate' = [fate EXCEPT ![e] = r]
              /\ rows' = [rows EXCEPT ![r] = Upsert(@)]
              /\ Works(c, [at |-> "publish", event |-> e,
                           entry |-> [row |-> r, count |-> rows[r].count + 1]])
              /\ UNCHANGED handled
        /\ UNCHANGED <<hour, muted, stream, cut, gateway, changes>>

\* XADD MAXLEN ~ trims nodes that are full, never below the limit; a pointer
\* that is not added is given up.
Publish(c) ==
    /\ work[c].at = "publish" /\ Returns(c)
    /\ \/ /\ stream' = Append(stream, work[c].entry)
          /\ cut' \in cut .. Max({cut, Len(stream) + 1 - MaxLen}) /\ UNCHANGED changes
       \/ Change /\ UNCHANGED <<stream, cut>>
    /\ UNCHANGED <<fate, rows, hour, muted, gateway>>

\* The handler throws or the process ends: an open transaction is rolled back.
\* The event is taken again, on the retry ladder for one, or never, in the DLQ,
\* dropped or logged.
Fail(c) ==
    /\ work[c] # Idle /\ Change /\ Works(c, Idle)
    /\ UNCHANGED <<handled, fate, rows, hour, muted, stream, cut, gateway>>

\* graph-service mutes, blocks and the reverse; the hour turns.
SetMuted(actors) ==
    /\ muted # actors /\ Change /\ muted' = actors
    /\ UNCHANGED <<work, handled, fate, rows, hour, stream, cut, gateway>>
NextHour ==
    /\ hour + 1 \in Hours /\ hour' = hour + 1 /\ Change
    /\ UNCHANGED <<work, handled, fate, rows, muted, stream, cut, gateway>>

\* Eviction, thirty days without a write, or a Redis that lost its data.
LoseStream ==
    /\ cut < Len(stream) /\ Change /\ cut' = Len(stream)
    /\ UNCHANGED <<service, stream, gateway>>

-----------------------------------------------------------------------------
(* realtime-gateway                                                        *)

\* Access tokens live no longer than the key of a revocation, which nothing
\* here asks for.
Authorised == \A n \in revokedFor : n < KeyLife

IssueTicket ==
    /\ ticket = No /\ conn = Closed /\ Authorised
    /\ ticket' = {0}
    /\ UNCHANGED <<service, stream, cut, conn, client, revokedFor, key, changes>>

\* GETDEL, and a session that reads from what the client got last, or the
\* tail.  lastSessionCheck is long ago.
Connect ==
    /\ ticket # No /\ ticket' = No /\ conn = Closed
    /\ conn' = [ at |-> "catchup", cursor |-> client.last, from |-> 0, batch |-> {},
                 clock |-> CheckEvery + Block, waited |-> 0, delay |-> 0,
                 after |-> 0, owed |-> IF key = No THEN 1 ELSE 0 ]
    /\ UNCHANGED <<service, stream, cut, client, revokedFor, key, changes>>

First(n, S) == {i \in S : Cardinality({k \in S : k < i}) < n}
Beyond(id) == {i \in cut + 1 .. Len(stream) : i > id}

\* Mutant: the start of the range is inclusive.
XRangeFrom(since) ==
    IF since \in {Dollar, 0} THEN {} ELSE First(CatchUpCount, Beyond(since - 1))

\* XRANGE (since + COUNT 200; nothing for '$' and for '0-0'.
XRange(since) ==
    IF since \in {Dollar, 0} THEN {} ELSE First(CatchUpCount, Beyond(since))

\* readCatchUp, before the session is checked; if it fails, XREAD gets them.
CatchUp ==
    /\ conn.at = "catchup"
    /\ \/ /\ conn' = [conn EXCEPT !.at = "push", !.batch = XRange(conn.cursor)]
          /\ UNCHANGED changes
       \/ Change /\ conn' = [conn EXCEPT !.at = "push"]
    /\ UNCHANGED <<service, stream, cut, client, ticket, revokedFor, key>>

Stored(r) == rows[r].count

\* getByIds, which takes HydrateMax ids, and hydrateNotifications: 0 without an
\* answer, or if the row of the entry is not in it.
Asked(ids) == {stream[ids[i]].row : i \in {k \in DOMAIN ids : k <= HydrateMax}}
Item(ids, i, answered) ==
    LET r == stream[ids[i]].row
    IN  IF answered /\ r \in Asked(ids) THEN Stored(r) ELSE 0

\* The entries of a batch in their order: one sequence.
Orders(S) == {s \in [1 .. Cardinality(S) -> S] :
                 \A i, j \in DOMAIN s : i < j => s[i] < s[j]}

\* pushEntries: the rows are fetched, or not, and one frame is sent for each
\* entry; the frames of a connection that breaks are lost from some one on.
\* After the catch-up the client is told where the session stands.
Frames(ids, answered) ==
    [i \in DOMAIN ids |-> [at |-> ids[i], shown |-> Item(ids, i, answered)]]

PushAll(ids, answered) ==
    LET cursor == IF ids = <<>> THEN conn.cursor ELSE Last(ids)
    IN  /\ conn' = [conn EXCEPT !.at = "check", !.cursor = cursor, !.batch = {}]
        /\ client' = [ last |-> IF cursor = Dollar THEN 0 ELSE cursor,
                       got |-> client.got \o Frames(ids, answered),
                       ready |-> IF client.ready = {} THEN {Len(stream)}
                                 ELSE client.ready ]

PushSome(ids, n, answered) ==
    /\ conn' = Closed
    /\ client' = [client EXCEPT !.got = @ \o SubSeq(Frames(ids, answered), 1, n),
                                !.last = IF n = 0 THEN @ ELSE ids[n]]

Push ==
    /\ conn.at = "push"
    /\ \E ids \in Orders(conn.batch), answered \in BOOLEAN :
          /\ IF answered THEN UNCHANGED changes ELSE Change
          /\ \/ PushAll(ids, answered)
             \/ \E n \in 0 .. Len(ids) - 1 : PushSome(ids, n, answered)
    /\ UNCHANGED <<service, stream, cut, ticket, revokedFor, key>>

Due == conn.clock >= CheckEvery

\* XREAD from '$' is from what is there when the command arrives.
Reads(k) == conn' = [k EXCEPT !.at = "read", !.waited = 0,
                              !.from = IF k.cursor = Dollar THEN Len(stream) ELSE k.cursor]

\* Mutant: lastSessionCheck is set with every iteration.
NotDueForgets == ~Due /\ Reads([conn EXCEPT !.clock = 0])

NotDue == ~Due /\ Reads(conn)

\* checkSession, which takes no answer for a session that is not revoked.
Check ==
    LET checked == [conn EXCEPT !.clock = 0]
    IN  /\ conn.at = "check"
        /\ \/ NotDue /\ UNCHANGED changes
           \/ Due /\ key # No /\ conn' = Closed /\ UNCHANGED changes
           \/ Due /\ key = No /\ Reads(checked) /\ UNCHANGED changes
           \/ Due /\ key # No /\ Reads([checked EXCEPT !.owed = @ + 1]) /\ Change
        /\ UNCHANGED <<service, stream, cut, client, ticket, revokedFor, key>>

\* readLive: what there is, nothing after a block, or an error.
ReadLive ==
    LET found == First(Batch, Beyond(conn.from))
    IN  /\ conn.at = "read"
        /\ \/ /\ found # {} /\ conn' = [conn EXCEPT !.at = "push", !.batch = found]
              /\ UNCHANGED changes
           \/ /\ found = {} /\ conn.waited = Block /\ conn' = [conn EXCEPT !.at = "check"]
              /\ UNCHANGED changes
           \/ Change /\ conn' = [conn EXCEPT !.at = "check"]
        /\ UNCHANGED <<service, stream, cut, client, ticket, revokedFor, key>>

\* The client, the network or the process; the age of the connection.
Break ==
    /\ conn # Closed /\ conn' = Closed
    /\ UNCHANGED <<service, stream, cut, client, ticket, revokedFor, key, changes>>

\* Without the key, a session has an interval from when it is there again.
Unkeyed(k) == [k EXCEPT !.after = 0, !.owed = 1]

\* identity-service revokes the session and writes the key, if Redis takes it;
\* a second logout writes it again.
Revoke ==
    /\ \/ revokedFor = No /\ revokedFor' = {0} /\ key' = {0} /\ UNCHANGED changes
       \/ revokedFor = No /\ revokedFor' = {0} /\ UNCHANGED key /\ Change
       \/ revokedFor # No /\ Authorised /\ UNCHANGED revokedFor /\ key' = {0} /\ Change
    /\ UNCHANGED <<service, stream, cut, conn, client, ticket>>

\* allkeys-lru, or a Redis that lost its data.
LoseKey ==
    /\ key # No /\ key' = No /\ Change
    /\ conn' = IF conn = Closed THEN conn ELSE Unkeyed(conn)
    /\ UNCHANGED <<service, stream, cut, client, ticket, revokedFor>>

Older(k) ==
    LET o == [k EXCEPT !.clock = Min({@ + 1, CheckEvery + Block})]
    IN  IF key' = No THEN Unkeyed(o) ELSE [o EXCEPT !.after = @ + 1]

\* Time passes while XREAD waits, and, as a fault, while a session waits for
\* something else: the rows, Redis, the pause after an error.
Tick ==
    /\ ticket' = {n + 1 : n \in {m \in ticket : m < TicketLife}}
    /\ revokedFor' = {Min({n + 1, KeyLife}) : n \in revokedFor}
    /\ key' = {n + 1 : n \in {m \in key : m + 1 < KeyLife}}
    /\ \/ conn = Closed /\ UNCHANGED <<conn, changes>>
       \/ /\ conn.at = "read" /\ conn.waited < Block
          /\ conn' = Older([conn EXCEPT !.waited = @ + 1]) /\ UNCHANGED changes
       \/ /\ conn.at \in {"catchup", "push", "check"} /\ Change
          /\ conn' = Older([conn EXCEPT !.delay = @ + 1])
    /\ UNCHANGED <<service, stream, cut, client>>

Session == CatchUp \/ Push \/ Check \/ ReadLive

Next ==
    \/ \E c \in Consumers, e \in Events : Take(c, e)
    \/ \E c \in Consumers : Dedupe(c) \/ Suppress(c) \/ Commit(c) \/ Publish(c) \/ Fail(c)
    \/ \E actors \in SUBSET Actors : SetMuted(actors)
    \/ NextHour \/ LoseStream
    \/ IssueTicket \/ Connect \/ Session \/ Break \/ Revoke \/ LoseKey \/ Tick

Spec == Init /\ [][Next]_vars

-----------------------------------------------------------------------------
(* Properties.                                                             *)

\* Whatever is delivered twice, by whichever consumer, and wherever a handler
\* fails, a row counts each of its events once and lists as many of their
\* actors as it may, and no event whose handler has returned is left out, but
\* for the relation of the two users.  An actor of two events counts twice.
CountsEvents ==
    /\ \A r \in Rows :
          LET mine == {e \in Events : fate[e] = r}
          IN  /\ rows[r].count = Cardinality(mine)
              /\ Len(rows[r].actors) = Min({ActorCap, Cardinality(mine)})
              /\ ToSet(rows[r].actors) \subseteq {ActorOf[e] : e \in mine}
    /\ \A e \in handled : fate[e] # Unseen

\* The row that is sent with an entry is at least as new as the event for
\* which the entry was added: the fetch never runs ahead of the commit.
ShownIsCurrent ==
    \A i \in DOMAIN client.got :
        LET g == client.got[i]
        IN  g.shown = 0 \/ g.shown >= stream[g.at].count

\* Across any number of broken connections, lost frames, failed catch-ups
\* and trims, a client that comes back with what it got last gets every
\* entry of the stream from its first one on, once and in order; what it
\* does not get was trimmed.
DeliveredInOrder ==
    \A i \in 2 .. Len(client.got) :
        LET before == client.got[i - 1].at
            this == client.got[i].at
        IN  before < this /\ before + 1 .. this - 1 \subseteq 1 .. cut

\* A connection lives on beside the key of the revocation for no longer than
\* one interval of checks and one more for each check that Redis did not
\* answer, and, if it was opened when the key was there, only the latter;
\* what it waits for but XREAD comes on top.  The interval is CheckEvery and
\* the block of XREAD that began before.  Without the key, not written,
\* evicted or expired, the connection goes on.
RevokedStops ==
    conn # Closed => conn.after <= (CheckEvery + Block - 1) * conn.owed + conn.delay

\* As documented (docs/02-components/realtime-gateway.md): what is published
\* after the client is ready reaches it.  The session asks for '$' again with
\* every block, so what is added between two blocks of a new client does not.
FirstIsNext ==
    client.got # <<>> =>
        \A n \in client.ready : Head(client.got).at <= n + 1 \/ Head(client.got).at - 1 <= cut

\* As documented: a revoked session is without connections after a check.
\* One that is opened when the key is gone stays for its twelve hours.
RevokedEnds == conn # Closed => \A n \in revokedFor : n < KeyLife

\* As documented (docs/02-components/notification-service.md:123): an event of
\* an actor whom the row lists does not count.
ListedNotRecounted ==
    [][\A r \in Rows : rows'[r].count > rows[r].count =>
          ActorOf[CHOOSE e \in Events : fate'[e] # fate[e]] \notin ToSet(rows[r].actors)]_vars
===============================================================================
