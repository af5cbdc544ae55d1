----------------------------- MODULE RetryLadder -----------------------------
(***************************************************************************)
(* The reliable consumer runtime                                           *)
(* (libs/platform-events/src/{consumer-runtime,retry}.ts) and the handler  *)
(* contract of the transactional consumers: dedupe row and effect in one   *)
(* transaction (counter.service.ts, notifications.service.ts,              *)
(* author-cascade.service.ts, cascade.service.ts).                         *)
(*                                                                         *)
(* Several consumer groups read one base topic.  Each of them also         *)
(* subscribes to the retry topics of that base topic, which are shared: a  *)
(* retry published by one group is delivered to all.  A group may run      *)
(* several consumer instances; the copies of one event travel through      *)
(* different topics, so two instances of a group can hold copies of the    *)
(* same event at once.                                                     *)
(*                                                                         *)
(* Kafka is external: a partition delivers each message to each group      *)
(* until the group commits its offset, and order between the topics of the *)
(* ladder does not exist.  The groups subscribe with fromBeginning: false, *)
(* so on a partition where a group has not committed an offset yet, it     *)
(* restarts at the latest one and never sees what it had not finished.     *)
(***************************************************************************)
EXTENDS Integers

CONSTANTS
    Groups,         \* consumer groups subscribed to the base topic
    Consumers,      \* consumer instances
    GroupOf,        \* the group each instance belongs to
    Events,         \* domain events, by eventId
    PartitionOf,    \* the partition the key of each event falls into
    NumTiers,       \* RETRY_TIERS.length (3 in the code)
    None,           \* no consumer group header / no message in hand
    MaxFailures,    \* bound: publishes of routeFailure that throw
    MaxRepeats      \* bound: duplicates of the relay, redrives and consumers
                    \* that die with a message in hand

ASSUME LadderAssumption ==
    /\ GroupOf \in [Consumers -> Groups]
    /\ None \notin Groups
    /\ DOMAIN PartitionOf = Events
    /\ {NumTiers, MaxFailures, MaxRepeats} \subseteq Nat

\* A message of the base topic (retryTier -1, no consumer group header) or of
\* a retry topic; routeFailure writes both headers.
Copies == [ev : Events, retryTier : {-1}, consumerGroup : {None}]
            \union
          [ev : Events, retryTier : 0..(NumTiers - 1), consumerGroup : Groups]

ASSUME NoneIsNoCopy == None \notin Copies

\* The topic and the partition a message lies in.
Place(c) == <<c.retryTier, PartitionOf[c.ev]>>

VARIABLES
    published,      \* events the relay has published
    backlog,        \* messages each group has not taken yet
    inHand,         \* the message of the eachMessage call of each instance
    stage,          \* how far that call is
    processed,      \* rows of processed_events, <<group, event>>
    effects,        \* how often each group applied an event
    dlq,            \* events in the DLQ, with the group that put them there
    dropped,        \* semantic failures dropped after the last tier
    onlyLogged,     \* failures that could not be published at all
    based,          \* groups with a committed offset, by place
    skipped,        \* events a group restarted beyond
    faults, repeats

world == <<published, repeats>>
database == <<processed, effects>>
failures == <<onlyLogged, faults>>
offsets == <<based, skipped>>
ladderVars == <<world, backlog, inHand, stage, database, dlq, dropped, failures,
                offsets>>

Pairs == Groups \X Events
ErrorClasses == {"poison", "semantic", "transient"}
Stages == {"idle", "handle", "lastResort", "commit"} \union ErrorClasses

LadderTypeOK ==
    /\ published \subseteq Events
    /\ backlog \in [Groups -> [Copies -> Nat]]
    /\ inHand \in [Consumers -> Copies \union {None}]
    /\ stage \in [Consumers -> Stages]
    /\ processed \subseteq Pairs
    /\ effects \in [Pairs -> Nat]
    /\ dlq \subseteq Pairs
    /\ dropped \subseteq Pairs
    /\ onlyLogged \subseteq Pairs
    /\ based \subseteq Groups \X {Place(c) : c \in Copies}
    /\ skipped \subseteq Pairs
    /\ faults \in 0..MaxFailures
    /\ repeats \in 0..MaxRepeats

LadderInit ==
    /\ published = {}
    /\ backlog = [g \in Groups |-> [c \in Copies |-> 0]]
    /\ inHand = [w \in Consumers |-> None]
    /\ stage = [w \in Consumers |-> "idle"]
    /\ processed = {}
    /\ effects = [p \in Pairs |-> 0]
    /\ dlq = {}
    /\ dropped = {}
    /\ onlyLogged = {}
    /\ based = {}
    /\ skipped = {}
    /\ faults = 0
    /\ repeats = 0

MainCopy(e) == [ev |-> e, retryTier |-> -1, consumerGroup |-> None]

\* Every group subscribed to the base topic receives the message.
ToEveryGroup(c) == [g \in Groups |-> [backlog[g] EXCEPT ![c] = @ + 1]]

Repeat == repeats < MaxRepeats /\ repeats' = repeats + 1

-----------------------------------------------------------------------------
(* The producers: the outbox relay (at least once) and the redrive CLI.    *)

RelayPublishes(e) ==
    /\ IF e \in published THEN Repeat ELSE UNCHANGED repeats
    /\ published' = published \union {e}
    /\ backlog' = ToEveryGroup(MainCopy(e))
    /\ UNCHANGED <<inHand, stage, database, dlq, dropped, failures, offsets>>

\* The CLI copies a DLQ envelope back to its base topic; the DLQ keeps it.
Redrive(g, e) ==
    /\ <<g, e>> \in dlq
    /\ Repeat
    /\ backlog' = ToEveryGroup(MainCopy(e))
    /\ UNCHANGED <<published, inHand, stage, database, dlq, dropped, failures, offsets>>

-----------------------------------------------------------------------------
(* One eachMessage call.                                                   *)

Grp(w) == GroupOf[w]
Event(w) == inHand[w].ev
PairOf(w) == <<Grp(w), Event(w)>>

Goto(w, s) == stage' = [stage EXCEPT ![w] = s]

Fetch(w, c) ==
    /\ stage[w] = "idle"
    /\ backlog[Grp(w)][c] > 0
    /\ backlog' = [backlog EXCEPT ![Grp(w)][c] = @ - 1]
    /\ inHand' = [inHand EXCEPT ![w] = c]
    /\ Goto(w, "handle")
    /\ UNCHANGED <<world, database, dlq, dropped, failures, offsets>>

\* Mutant: the effect is applied although the dedupe row was already there.
HandleIgnoresDedupe(w) ==
    /\ stage[w] = "handle"
    /\ processed' = processed \union {PairOf(w)}
    /\ effects' = [effects EXCEPT ![PairOf(w)] = @ + 1]
    /\ Goto(w, "commit")
    /\ UNCHANGED <<world, backlog, inHand, dlq, dropped, failures, offsets>>

\* The handler's transaction: INSERT INTO processed_events ... ON CONFLICT DO
\* NOTHING waits for a concurrent insert of the same key, so the check, the
\* effect and the commit are one step.
Handle(w) ==
    /\ stage[w] = "handle"
    /\ IF PairOf(w) \in processed
       THEN UNCHANGED database
       ELSE /\ processed' = processed \union {PairOf(w)}
            /\ effects' = [effects EXCEPT ![PairOf(w)] = @ + 1]
    /\ Goto(w, "commit")
    /\ UNCHANGED <<world, backlog, inHand, dlq, dropped, failures, offsets>>

\* The handler throws and its transaction rolls back; classifyError decides.
\* A value that does not parse takes the same way as class poison.
HandlerThrows(w) ==
    /\ stage[w] = "handle"
    /\ \E class \in ErrorClasses : Goto(w, class)
    /\ UNCHANGED <<world, backlog, inHand, database, dlq, dropped, failures, offsets>>

NextTier(w) == inHand[w].retryTier + 1

\* Mutant: only poison goes to the DLQ; a transient failure on the last tier
\* has no way out.
OnlyPoisonGoesToDlq(w) == stage[w] = "poison"

GoesToDlq(w) ==
    \/ stage[w] = "poison"
    \/ stage[w] = "transient" /\ NextTier(w) >= NumTiers

GoesToRetry(w) ==
    /\ stage[w] \in {"semantic", "transient"}
    /\ NextTier(w) < NumTiers

RetryCopy(w) ==
    [ev |-> Event(w), retryTier |-> NextTier(w), consumerGroup |-> Grp(w)]

\* routeFailure, one action per way out.
RouteToDlq(w) ==
    /\ GoesToDlq(w)
    /\ dlq' = dlq \union {PairOf(w)}
    /\ Goto(w, "commit")
    /\ UNCHANGED <<world, backlog, inHand, database, dropped, failures, offsets>>

RouteToRetry(w) ==
    /\ GoesToRetry(w)
    /\ backlog' = ToEveryGroup(RetryCopy(w))
    /\ Goto(w, "commit")
    /\ UNCHANGED <<world, inHand, database, dlq, dropped, failures, offsets>>

RouteToDrop(w) ==
    /\ stage[w] = "semantic"
    /\ NextTier(w) >= NumTiers
    /\ dropped' = dropped \union {PairOf(w)}
    /\ Goto(w, "commit")
    /\ UNCHANGED <<world, backlog, inHand, database, dlq, failures, offsets>>

\* Mutant: a failed publish is logged and the offset advances.
RouteFailsQuietly(w) ==
    /\ faults < MaxFailures
    /\ faults' = faults + 1
    /\ GoesToDlq(w) \/ GoesToRetry(w)
    /\ Goto(w, "commit")
    /\ UNCHANGED <<world, backlog, inHand, database, dlq, dropped, onlyLogged,
                   offsets>>

\* producer.send throws inside routeFailure; the broker may have stored the
\* message all the same.  eachMessage catches it and forces a DLQ publish.
RouteFails(w) ==
    /\ faults < MaxFailures
    /\ faults' = faults + 1
    /\ \/ /\ GoesToDlq(w)
          /\ dlq' \in {dlq, dlq \union {PairOf(w)}}
          /\ UNCHANGED backlog
       \/ /\ GoesToRetry(w)
          /\ backlog' \in {backlog, ToEveryGroup(RetryCopy(w))}
          /\ UNCHANGED dlq
    /\ Goto(w, "lastResort")
    /\ UNCHANGED <<world, inHand, database, dropped, onlyLogged, offsets>>

\* forceDlqFromRaw
ForceDlq(w) ==
    /\ stage[w] = "lastResort"
    /\ dlq' = dlq \union {PairOf(w)}
    /\ Goto(w, "commit")
    /\ UNCHANGED <<world, backlog, inHand, database, dropped, failures, offsets>>

\* ... throws as well, and nothing arrived (had it arrived, this would be
\* ForceDlq): only onError hears of it, and the call returns.
ForceDlqFails(w) ==
    /\ stage[w] = "lastResort"
    /\ onlyLogged' = onlyLogged \union {PairOf(w)}
    /\ Goto(w, "commit")
    /\ UNCHANGED <<world, backlog, inHand, database, dlq, dropped, faults,
                   offsets>>

\* eachMessage returned, so the offset advances.
CommitOffset(w) ==
    /\ stage[w] = "commit"
    /\ based' = based \union {<<Grp(w), Place(inHand[w])>>}
    /\ inHand' = [inHand EXCEPT ![w] = None]
    /\ Goto(w, "idle")
    /\ UNCHANGED <<world, backlog, database, dlq, dropped, failures, skipped>>

\* The instance dies or loses its partition before the offset is committed.
Dies(w) ==
    /\ stage[w] # "idle"
    /\ Repeat
    /\ inHand' = [inHand EXCEPT ![w] = None]
    /\ Goto(w, "idle")
    /\ UNCHANGED <<published, database, dlq, dropped, failures, based>>

\* ... The group gets the message again, whatever was done with it.
Redelivered(w) ==
    /\ Dies(w)
    /\ <<Grp(w), Place(inHand[w])>> \in based
    /\ backlog' = [backlog EXCEPT ![Grp(w)][inHand[w]] = @ + 1]
    /\ UNCHANGED skipped

\* ... Where the group has no committed offset it restarts at the latest one:
\* the message and all that waits behind it in that partition are gone.
RestartsAtLatest(w) ==
    /\ Dies(w)
    /\ <<Grp(w), Place(inHand[w])>> \notin based
    /\ LET Gone == {c \in Copies : Place(c) = Place(inHand[w])} IN
       /\ backlog' = [backlog EXCEPT ![Grp(w)] =
                        [c \in Copies |-> IF c \in Gone THEN 0 ELSE @[c]]]
       /\ skipped' = skipped \union {PairOf(w)} \union
             {<<Grp(w), c.ev>> : c \in {d \in Gone : backlog[Grp(w)][d] > 0}}

Route(w) ==
    RouteToDlq(w) \/ RouteToRetry(w) \/ RouteToDrop(w) \/ RouteFails(w)

Work(w) ==
    \/ \E c \in Copies : Fetch(w, c)
    \/ Handle(w) \/ HandlerThrows(w)
    \/ Route(w)
    \/ ForceDlq(w) \/ ForceDlqFails(w)
    \/ CommitOffset(w)

LadderNext ==
    \/ \E e \in Events : RelayPublishes(e) \/ \E g \in Groups : Redrive(g, e)
    \/ \E w \in Consumers : Work(w) \/ Redelivered(w) \/ RestartsAtLatest(w)

LadderSpec == LadderInit /\ [][LadderNext]_ladderVars

\* eachMessage never throws and sleeps at most maxSleepMs, so an instance that
\* has a message to take takes it, and a call that began returns.  That some
\* instance goes on when one can is enough: work is finite.
FairLadderSpec == LadderSpec /\ WF_ladderVars(\E w \in Consumers : Work(w))

-----------------------------------------------------------------------------
(* Properties.                                                             *)

\* Effectively-once processing (ADR-0008): whatever the relay, the ladder,
\* redeliveries and redrives duplicate, a group applies an event at most once.
EffectAtMostOnce == \A p \in Pairs : effects[p] <= 1

\* A copy of e that group g still has to deal with.
Outstanding(g, e) ==
    \/ \E c \in Copies : c.ev = e /\ backlog[g][c] > 0
    \/ \E w \in Consumers : /\ Grp(w) = g
                            /\ stage[w] \notin {"idle", "commit"}
                            /\ Event(w) = e

Concluded(g, e) == <<g, e>> \in processed \union dlq \union dropped
Decided(g, e) == Concluded(g, e) \/ <<g, e>> \in onlyLogged

\* ... or g restarted beyond it.
Past(g, e) == Decided(g, e) \/ <<g, e>> \in skipped

\* No event is lost between the relay and the outcome: for every group a
\* published event is applied, in the DLQ, deliberately dropped, or still has
\* a copy to be handled, unless the publish of a failure and the forced DLQ
\* publish after it have both thrown, or an instance died before its group had
\* committed any offset of the event's partition.
NoEventLost ==
    \A g \in Groups, e \in Events :
        e \in published => Outstanding(g, e) \/ Past(g, e)

\* The ladder ends, although each failure of each group is delivered to all of
\* them again: the traffic dies out, and each published event has a verdict in
\* every group that did not restart beyond it.
LadderEnds ==
    <>[](/\ \A w \in Consumers : stage[w] = "idle"
         /\ \A g \in Groups, e \in published : Past(g, e))

-----------------------------------------------------------------------------
(* What documentation and comments say of the runtime.                     *)

\* consumer-runtime.ts: failures are published to the retry ladder or the
\* DLQ, then the offset advances.
FailureIsPublished ==
    \A g \in Groups, e \in Events :
        e \in published =>
            Outstanding(g, e) \/ Concluded(g, e) \/ <<g, e>> \in skipped

\* system-design.md, 9.2: retry topics are read by per-group retry consumers.
RetryIsPerGroup ==
    \A w \in Consumers :
        (stage[w] # "idle" /\ inHand[w].retryTier >= 0)
            => inHand[w].consumerGroup = Grp(w)
==============================================================================
