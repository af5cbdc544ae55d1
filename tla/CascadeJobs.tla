------------------------------ MODULE CascadeJobs ------------------------------
(***************************************************************************)
(* Removal of the graph edges of erased users: the graph-cascade consumer  *)
(* enqueues a job per user.erased, and the workers of the graph-service    *)
(* instances delete in batches                                             *)
(* (apps/graph-service/src/cascade/cascade.service.ts).                    *)
(*                                                                         *)
(* A step is one statement or transaction on Postgres.  The worker of an   *)
(* instance takes one job at a time through the tables, a few batches      *)
(* each, counts what remains and closes or requeues the job; an error of   *)
(* any statement leads to the catch block, which marks the job failed and, *)
(* in a second statement, pending again, whatever has become of it since:  *)
(* the UPDATE that closed it may have taken effect although its            *)
(* acknowledgement was lost, and another instance may run the job by now.  *)
(* Nothing else ever moves a job out of running.                           *)
(*                                                                         *)
(* Edges may be inserted after the job was enqueued: GraphService.follow   *)
(* takes an unreachable identity service for an active target, and block   *)
(* and mute do not ask.                                                    *)
(***************************************************************************)
EXTENDS Naturals, Sequences, FiniteSets

CONSTANTS
    ErasedUsers,        \* accounts that may be erased
    Workers,            \* instances of graph-service
    Edges,              \* [table, from, to]: every row that may exist
    LateEdges,          \* those that do not exist at the start
    Batch,              \* rows a DELETE takes at most, 5,000 in the code
    Rounds,             \* DELETEs per table and tick, 3 in the code
    MaxAttempts         \* attempts below which a failed job is reopened, 20

Tables == {"follows", "blocks", "mutes"}
Statuses == {"none", "pending", "running", "done", "failed"}
AtWork == Tables \union {"count", "close", "requeue"}
Stages == AtWork \union {"fail", "reopen"}

NoJob == "no job"

ASSUME CascadeAssumption ==
    /\ IsFiniteSet(ErasedUsers) /\ ErasedUsers # {} /\ NoJob \notin ErasedUsers
    /\ \A e \in Edges : e.table \in Tables
    /\ LateEdges \subseteq Edges
    /\ Batch \in Nat \ {0}
    /\ Rounds \in Nat \ {0}
    /\ MaxAttempts \in Nat \ {0}

VARIABLES
    edges,              \* rows of follows, blocks and mutes
    status, attempts,   \* of the job of each user; attempts saturates at MaxAttempts
    queue,              \* users in the order of created_at of their jobs
    processed,          \* processed_events of the consumer group graph-cascade
    job, stage, round,  \* of each worker: its job, where it is, DELETEs left
    inserted,           \* history: late edges that came to exist
    unseen,             \* history: edges of a user younger than the last count
    errors,             \* history: failures of each job; saturates at 2
    lost,               \* history: users whose job was left by a dead worker or
                        \* a catch block that failed
    unacked             \* history: users whose job was closed or requeued by an
                        \* UPDATE whose acknowledgement was lost

jobs == <<status, attempts, queue, processed>>
worker == <<job, stage, round>>
history == <<inserted, unseen, errors, lost, unacked>>
cascadeVars == <<edges, jobs, worker, history>>

Of(u, rows) == {e \in rows : u \in {e.from, e.to}}
Idle(w) == job[w] = NoJob
Held(u) == \E w \in Workers : job[w] = u

CascadeTypeOK ==
    /\ edges \subseteq Edges
    /\ status \in [ErasedUsers -> Statuses]
    /\ attempts \in [ErasedUsers -> 0..MaxAttempts]
    /\ queue \in Seq(ErasedUsers)
    /\ \A i, j \in 1..Len(queue) : queue[i] = queue[j] => i = j
    /\ processed \subseteq ErasedUsers
    /\ job \in [Workers -> ErasedUsers \union {NoJob}]
    /\ stage \in [Workers -> Stages]
    /\ round \in [Workers -> 1..Rounds]
    /\ inserted \subseteq LateEdges
    /\ unseen \in [ErasedUsers -> SUBSET Edges]
    /\ errors \in [ErasedUsers -> 0..2]
    /\ lost \subseteq ErasedUsers
    /\ unacked \subseteq ErasedUsers

CascadeInit ==
    /\ edges = Edges \ LateEdges
    /\ status = [u \in ErasedUsers |-> "none"]
    /\ attempts = [u \in ErasedUsers |-> 0]
    /\ queue = <<>>
    /\ processed = {}
    /\ job = [w \in Workers |-> NoJob]
    /\ stage = [w \in Workers |-> "follows"]
    /\ round = [w \in Workers |-> Rounds]
    /\ inserted = {}
    /\ unseen = [u \in ErasedUsers |-> {}]
    /\ errors = [u \in ErasedUsers |-> 0]
    /\ lost = {}
    /\ unacked = {}

-----------------------------------------------------------------------------
(* The consumer of user.erased.                                            *)

Enqueue(u) ==
    /\ u \notin processed
    /\ status[u] \notin {"pending", "running"}
    /\ processed' = processed \union {u}
    /\ status' = [status EXCEPT ![u] = "pending"]
    /\ queue' = Append(queue, u)
    /\ UNCHANGED <<edges, attempts, worker, history>>

-----------------------------------------------------------------------------
(* A tick of a worker.                                                     *)

Plus(n, max) == IF n < max THEN n + 1 ELSE max

\* Mutant: a running job is taken as well, to pick up what a crash left.
ClaimableOpen(u) == status[u] \in {"pending", "running"}

Claimable(u) == status[u] = "pending"

\* claimJob: the oldest pending job, in one transaction.
Claim(w) ==
    /\ Idle(w)
    /\ \E i \in 1..Len(queue) :
         LET u == queue[i]
         IN /\ Claimable(u)
            /\ \A j \in 1..(i - 1) : ~ Claimable(queue[j])
            /\ status' = [status EXCEPT ![u] = "running"]
            /\ attempts' = [attempts EXCEPT ![u] = Plus(attempts[u], MaxAttempts)]
            /\ job' = [job EXCEPT ![w] = u]
    /\ stage' = [stage EXCEPT ![w] = "follows"]
    /\ round' = [round EXCEPT ![w] = Rounds]
    /\ UNCHANGED <<edges, queue, processed, history>>

After(table) ==
    CASE table = "follows" -> "blocks"
      [] table = "blocks" -> "mutes"
      [] table = "mutes" -> "count"

\* One DELETE of deleteBatched: any rows of the user, at most Batch of them.
DeleteBatch(w) ==
    LET t == stage[w]
        mine == {e \in Of(job[w], edges) : e.table = t}
    IN /\ ~ Idle(w)
       /\ t \in Tables
       /\ \E gone \in SUBSET mine :
            /\ Cardinality(gone) = Batch \/ (gone = mine /\ Cardinality(mine) < Batch)
            /\ edges' = edges \ gone
            /\ IF gone = {} \/ round[w] = 1
               THEN /\ stage' = [stage EXCEPT ![w] = After(t)]
                    /\ round' = [round EXCEPT ![w] = Rounds]
               ELSE /\ round' = [round EXCEPT ![w] = round[w] - 1]
                    /\ UNCHANGED stage
       /\ UNCHANGED <<jobs, job, history>>

\* Mutant: the mutes are not counted.
RemainingButMutes(u) == {e \in Of(u, edges) : e.table # "mutes"}

Remaining(u) == Of(u, edges)

\* remainingEdges
Count(w) ==
    /\ ~ Idle(w)
    /\ stage[w] = "count"
    /\ stage' = [stage EXCEPT ![w] = IF Remaining(job[w]) = {} THEN "close" ELSE "requeue"]
    /\ unseen' = [unseen EXCEPT ![job[w]] = {}]
    /\ UNCHANGED <<edges, jobs, job, round, inserted, errors, lost, unacked>>

Release(w) ==
    /\ job' = [job EXCEPT ![w] = NoJob]
    /\ UNCHANGED <<edges, queue, processed, stage, round>>

\* The UPDATE that closes or requeues the job, whoever runs it by now.
CloseJob(w) ==
    /\ ~ Idle(w)
    /\ stage[w] \in {"close", "requeue"}
    /\ status' = [status EXCEPT ![job[w]] =
                    IF stage[w] = "close" THEN "done" ELSE "pending"]

Close(w) ==
    /\ CloseJob(w)
    /\ Release(w)
    /\ UNCHANGED <<attempts, history>>

-----------------------------------------------------------------------------
(* Errors.  A DELETE that took effect unacknowledged is DeleteBatch, then   *)
(* WorkFails; a claim, Claim and Crash; a statement of the catch block, that *)
(* statement and then MarkFails or, of the last one, nothing else.           *)

\* A statement of the try block fails; what was deleted stays deleted.
WorkFails(w) ==
    /\ ~ Idle(w)
    /\ stage[w] \in AtWork
    /\ stage' = [stage EXCEPT ![w] = "fail"]
    /\ errors' = [errors EXCEPT ![job[w]] = Plus(errors[job[w]], 2)]
    /\ UNCHANGED <<edges, jobs, job, round, inserted, unseen, lost, unacked>>

\* The UPDATE that closes or requeues the job takes effect, and the worker is
\* told that it failed.
CloseUnacked(w) ==
    /\ CloseJob(w)
    /\ stage' = [stage EXCEPT ![w] = "fail"]
    /\ errors' = [errors EXCEPT ![job[w]] = Plus(errors[job[w]], 2)]
    /\ unacked' = unacked \union {job[w]}
    /\ UNCHANGED <<edges, attempts, queue, processed, job, round, inserted, unseen, lost>>

MarkFailed(w) ==
    /\ ~ Idle(w)
    /\ stage[w] = "fail"
    /\ status' = [status EXCEPT ![job[w]] = "failed"]
    /\ attempts' = [attempts EXCEPT ![job[w]] = Plus(attempts[job[w]], MaxAttempts)]
    /\ stage' = [stage EXCEPT ![w] = "reopen"]
    /\ UNCHANGED <<edges, queue, processed, job, round, history>>

\* Mutant: a failed job is reopened however often it failed.
ReopenAlways(w) ==
    /\ ~ Idle(w)
    /\ stage[w] = "reopen"
    /\ status' = [status EXCEPT ![job[w]] = "pending"]
    /\ Release(w)
    /\ UNCHANGED <<attempts, history>>

\* Pending again while attempts is low, and the error is thrown to the tick.
Reopen(w) ==
    /\ ~ Idle(w)
    /\ stage[w] = "reopen"
    /\ status' = [status EXCEPT ![job[w]] =
                    IF attempts[job[w]] < MaxAttempts THEN "pending" ELSE @]
    /\ Release(w)
    /\ UNCHANGED <<attempts, history>>

Leave(w) ==
    /\ ~ Idle(w)
    /\ Release(w)
    /\ lost' = lost \union {job[w]}
    /\ UNCHANGED <<status, attempts, inserted, unseen, errors, unacked>>

\* A statement of the catch block fails: nobody looks at the job again.
MarkFails(w) ==
    /\ stage[w] \in {"fail", "reopen"}
    /\ Leave(w)

\* The instance is killed, or stops while its worker is in a tick.
Crash(w) == Leave(w)

-----------------------------------------------------------------------------
\* A follow, block or mute of a user, before or after the erasure.
InsertLate(e) ==
    /\ e \notin inserted
    /\ edges' = edges \union {e}
    /\ inserted' = inserted \union {e}
    /\ unseen' = [u \in ErasedUsers |-> unseen[u] \union Of(u, {e})]
    /\ UNCHANGED <<jobs, worker, errors, lost, unacked>>

Tick(w) ==
    \/ Claim(w) \/ DeleteBatch(w) \/ Count(w) \/ Close(w)
    \/ WorkFails(w) \/ CloseUnacked(w) \/ MarkFailed(w) \/ Reopen(w)

CascadeNext ==
    \/ \E u \in ErasedUsers : Enqueue(u)
    \/ \E w \in Workers : Tick(w) \/ MarkFails(w) \/ Crash(w)
    \/ \E e \in LateEdges : InsertLate(e)

CascadeSpec == CascadeInit /\ [][CascadeNext]_cascadeVars

\* The worker of every instance wakes up every two seconds for ever.
FairCascadeSpec == CascadeSpec /\ \A w \in Workers : WF_cascadeVars(Tick(w))

-----------------------------------------------------------------------------
(* Properties.                                                             *)

\* No two instances work on one job, and while one does nobody can claim it,
\* although failures reopen it and there is no lease; except for a job whose
\* worker was not told that its closing UPDATE took effect.
OneWorkerPerJob ==
    \A v, w \in Workers :
        ~ Idle(v) /\ job[v] \notin unacked =>
            /\ status[job[v]] = IF stage[v] = "reopen" THEN "failed" ELSE "running"
            /\ job[v] = job[w] => v = w

\* A job that is done has left nothing behind that existed when it counted:
\* rows that came between two of its DELETEs brought it back instead.  (Of an
\* unacked job another worker may have counted since.)
DoneMeansGone ==
    \A u \in ErasedUsers :
        status[u] = "done" /\ u \notin unacked => Of(u, edges) \subseteq unseen[u]

\* Unless a fault hits the catch block or the process, a job is given up only
\* with its attempts used up.
GivenUpNeedsBudget ==
    \A u \in ErasedUsers :
        status[u] = "failed" /\ ~ Held(u) /\ u \notin lost => attempts[u] = MaxAttempts

\* Every job that is not left ends, however often statements fail: the ticks
\* that succeed run out of rows, those that fail of attempts.
EveryJobSettles ==
    \A u \in ErasedUsers : u \in processed ~> (u \in lost \/ [](status[u] \in {"done", "failed"}))

-----------------------------------------------------------------------------
(* What the documents and a comment say.                                   *)

\* graph-service.md: a cascade job is resumed after a kill.
JobResumes ==
    \A u \in ErasedUsers : status[u] = "running" ~> status[u] # "running"

\* cascade.service.ts, "Re-open for retry if attempts low": the first error of
\* a job does not give it up.
FirstErrorIsRetried ==
    \A u \in ErasedUsers : status[u] = "failed" /\ ~ Held(u) => errors[u] > 1
==============================================================================
