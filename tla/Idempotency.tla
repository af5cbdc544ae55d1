------------------------------ MODULE Idempotency ------------------------------
(***************************************************************************)
(* Creating a post under one Idempotency-Key of one user: createPost of    *)
(* the gateway (apps/api-gateway/src/content/content.controller.ts), the   *)
(* store in Redis (libs/platform-redis/src/idempotency.ts) and             *)
(* PostsService.create (apps/post-service/src/posts/posts.service.ts).     *)
(*                                                                         *)
(* Keys do not interact, so the state of the store is one entry.  A step   *)
(* is one Redis command, or one statement of the post service; requests    *)
(* with the key, first attempts and retries alike, interleave between      *)
(* them.  The post service does not learn that the gateway stopped         *)
(* waiting.  Retries come within the 24 hours a completed entry lives.     *)
(*                                                                         *)
(* Post identifiers are those of the request that made the post.           *)
(***************************************************************************)
EXTENDS Naturals, FiniteSets

CONSTANTS
    Requests,           \* HTTP requests carrying the key
    Bodies,             \* hashes of their bodies
    BadBodies,          \* those the post service refuses with a 4xx
    DuplicateDetect     \* whether equal content is refused (not for replies)

ASSUME IdempotencyAssumption ==
    /\ BadBodies \subseteq Bodies
    /\ DuplicateDetect \in BOOLEAN

VARIABLES
    entry,              \* the Redis entry of the key
    stage,              \* where each request is in createPost
    body,               \* the body of each request that arrived
    answer,             \* what its client was told
    job,                \* its execution at the post service
    calm                \* history: nothing has failed so far

vars == <<entry, stage, body, answer, job, calm>>

None == [state |-> "none"]
\* by: the request that wrote the entry; of a completed one, its result.
InFlight(b, r) == [state |-> "in_flight", body |-> b, by |-> r]
Completed(b, r, status) ==
    [state |-> "completed", body |-> b, by |-> r, status |-> status]

Outcomes == {"posted", "refused"}
Entries ==
    {None} \union {InFlight(b, r) : b \in Bodies, r \in Requests}
           \union {Completed(b, r, s) : b \in Bodies, r \in Requests, s \in Outcomes}

\* The client is told of the execution of a request: of its own or, replayed,
\* of an earlier one; or it gets 409, 422, a 5xx or nothing.
Told(r, status) == [kind |-> status, of |-> r]
Untold(kind) == [kind |-> kind]
Answers ==
    {Untold(k) : k \in {"none", "in_flight", "conflict", "error", "lost"}}
        \union {Told(r, s) : r \in Requests, s \in Outcomes}

\* Between begin, which answered acquired, and the end of the handler.
Executing == {"forward", "waiting", "complete", "pin", "abandon"}

TypeOK ==
    /\ entry \in Entries
    /\ stage \in [Requests -> {"new", "setnx", "getagain", "done"} \union Executing]
    /\ body \in [Requests -> Bodies]
    /\ answer \in [Requests -> Answers]
    /\ job \in [Requests -> {"none", "queued", "checked", "failed"} \union Outcomes]
    /\ calm \in BOOLEAN
    /\ \A r \in Requests :
         /\ stage[r] = "complete" => job[r] = "posted"
         /\ stage[r] = "pin" => job[r] = "refused"
         /\ stage[r] \in {"new", "setnx", "getagain", "forward"} => job[r] = "none"

Init ==
    /\ entry = None
    /\ stage = [r \in Requests |-> "new"]
    /\ body \in [Requests -> Bodies]
    /\ answer = [r \in Requests |-> Untold("none")]
    /\ job = [r \in Requests |-> "none"]
    /\ calm = TRUE

Go(r, from, to) == stage[r] = from /\ stage' = [stage EXCEPT ![r] = to]
Answer(r, a) == answer' = [answer EXCEPT ![r] = a]

-----------------------------------------------------------------------------
(* begin                                                                   *)

\* Mutant: the hash of the body is not compared.
InterpretAnyBody(r) ==
    IF entry.state = "in_flight" THEN Untold("in_flight") ELSE Told(entry.by, entry.status)

\* interpret, of an entry that exists, and what createPost makes of it.
Interpret(r) ==
    IF entry.body # body[r] THEN Untold("conflict")
    ELSE IF entry.state = "in_flight" THEN Untold("in_flight")
    ELSE Told(entry.by, entry.status)

\* The first GET.
Arrive(r) ==
    /\ IF entry = None
       THEN Go(r, "new", "setnx") /\ UNCHANGED answer
       ELSE Go(r, "new", "done") /\ Answer(r, Interpret(r))
    /\ UNCHANGED <<entry, body, job, calm>>

SetNX(r) ==
    /\ IF entry = None
       THEN Go(r, "setnx", "forward") /\ entry' = InFlight(body[r], r)
       ELSE Go(r, "setnx", "getagain") /\ UNCHANGED entry
    /\ UNCHANGED <<body, answer, job, calm>>

\* The GET after a lost race: nothing there any more counts as acquired.
GetAgain(r) ==
    /\ IF entry = None
       THEN Go(r, "getagain", "forward") /\ UNCHANGED answer
       ELSE Go(r, "getagain", "done") /\ Answer(r, Interpret(r))
    /\ UNCHANGED <<entry, body, job, calm>>

-----------------------------------------------------------------------------
(* forward, and the post service                                           *)

Forward(r) ==
    /\ Go(r, "forward", "waiting")
    /\ job' = [job EXCEPT ![r] = "queued"]
    /\ UNCHANGED <<entry, body, answer, calm>>

\* The breaker is open, or the connection is refused.
NotForwarded(r) ==
    /\ Go(r, "forward", "abandon")
    /\ Answer(r, Untold("error"))
    /\ calm' = FALSE
    /\ UNCHANGED <<entry, body, job>>

Posted == {r \in Requests : job[r] = "posted"}

\* Validation and assertNotDuplicateContent, before the transaction.
Check(r) ==
    /\ job[r] = "queued"
    /\ job' = [job EXCEPT ![r] =
                 IF \/ body[r] \in BadBodies
                    \/ DuplicateDetect /\ \E p \in Posted : body[p] = body[r]
                 THEN "refused" ELSE "checked"]
    /\ UNCHANGED <<entry, stage, body, answer, calm>>

\* The transaction that inserts the post.
Insert(r) ==
    /\ job[r] = "checked"
    /\ job' = [job EXCEPT ![r] = "posted"]
    /\ UNCHANGED <<entry, stage, body, answer, calm>>

JobFails(r) ==
    /\ job[r] \in {"queued", "checked"}
    /\ job' = [job EXCEPT ![r] = "failed"]
    /\ calm' = FALSE
    /\ UNCHANGED <<entry, stage, body, answer>>

-----------------------------------------------------------------------------
(* The rest of createPost                                                  *)

Receive(r) ==
    /\ \/ job[r] = "posted" /\ Go(r, "waiting", "complete") /\ UNCHANGED answer
       \/ job[r] = "refused" /\ Go(r, "waiting", "pin") /\ UNCHANGED answer
       \/ /\ job[r] = "failed"
          /\ Go(r, "waiting", "abandon")
          /\ Answer(r, Untold("error"))
    /\ UNCHANGED <<entry, body, job, calm>>

\* The deadline of fetchUpstream, also while the answer is being read.
Timeout(r) ==
    /\ Go(r, "waiting", "abandon")
    /\ Answer(r, Untold("error"))
    /\ calm' = FALSE
    /\ UNCHANGED <<entry, body, job>>

\* Mutant: the marker is dropped in a finally block instead of the catch.
CompleteDrops(r) ==
    /\ Go(r, "complete", "done")
    /\ entry' = None
    /\ Answer(r, Told(r, "posted"))
    /\ UNCHANGED <<body, job, calm>>

\* complete with 201, whatever the entry has become.
Complete(r) ==
    /\ Go(r, "complete", "done")
    /\ entry' = Completed(body[r], r, "posted")
    /\ Answer(r, Told(r, "posted"))
    /\ UNCHANGED <<body, job, calm>>

\* complete with the 4xx.
Pin(r) ==
    /\ Go(r, "pin", "done")
    /\ entry' = Completed(body[r], r, "refused")
    /\ Answer(r, Told(r, "refused"))
    /\ UNCHANGED <<body, job, calm>>

\* abandon: DEL, whoever wrote the entry.
Abandon(r) ==
    /\ Go(r, "abandon", "done")
    /\ entry' = None
    /\ UNCHANGED <<body, answer, job, calm>>

-----------------------------------------------------------------------------
(* Redis failing, the gateway dying, time                                  *)

\* In begin, in the catch block: a 500, the command executed or not.
RedisFails(r) ==
    /\ stage[r] \in {"new", "setnx", "getagain", "pin", "abandon"}
    /\ Go(r, stage[r], "done")
    /\ \/ UNCHANGED entry
       \/ stage[r] = "setnx" /\ entry = None /\ entry' = InFlight(body[r], r)
       \/ stage[r] = "pin" /\ entry' = Completed(body[r], r, "refused")
       \/ stage[r] = "abandon" /\ entry' = None
    /\ Answer(r, Untold("error"))
    /\ calm' = FALSE
    /\ UNCHANGED <<body, job>>

\* complete fails after a success: the catch block abandons the entry.
CompleteFails(r) ==
    /\ Go(r, "complete", "abandon")
    /\ entry' \in {entry, Completed(body[r], r, "posted")}
    /\ Answer(r, Untold("error"))
    /\ calm' = FALSE
    /\ UNCHANGED <<body, job>>

Crash(r) ==
    /\ stage[r] \notin {"new", "done"}
    /\ Go(r, stage[r], "done")
    /\ Answer(r, Untold("lost"))
    /\ calm' = FALSE
    /\ UNCHANGED <<entry, body, job>>

\* Mutant: the marker is set without EX.
ExpireNever == FALSE /\ UNCHANGED vars

\* The marker lives for 60 s: longer than a handler with the 5 s deadline, unless
\* it died.
Expire ==
    /\ entry.state = "in_flight"
    /\ stage[entry.by] = "done"
    /\ entry' = None
    /\ UNCHANGED <<stage, body, answer, job, calm>>

-----------------------------------------------------------------------------
Begin(r) == Arrive(r) \/ SetNX(r) \/ GetAgain(r)
Finish(r) == Receive(r) \/ Timeout(r) \/ Complete(r) \/ Pin(r) \/ Abandon(r)
Execute(r) == Check(r) \/ Insert(r) \/ JobFails(r)
Fail(r) == RedisFails(r) \/ CompleteFails(r) \/ Crash(r)

Next ==
    \/ \E r \in Requests :
         Begin(r) \/ Forward(r) \/ NotForwarded(r) \/ Execute(r) \/ Finish(r) \/ Fail(r)
    \/ Expire

Spec == Init /\ [][Next]_vars

\* A handler runs on, the post service works, and entries expire.
FairSpec ==
    /\ Spec
    /\ \A r \in Requests :
         /\ WF_vars(SetNX(r) \/ GetAgain(r) \/ Forward(r) \/ NotForwarded(r) \/ Finish(r))
         /\ WF_vars(Execute(r))
    /\ WF_vars(Expire)

-----------------------------------------------------------------------------
(* Properties.                                                             *)

\* Until something fails, whatever the order of concurrent requests and of their
\* bodies, one request at a time executes.
OneAtATime ==
    calm =>
        \A r, s \in Requests : stage[r] \in Executing /\ stage[s] \in Executing => r = s

\* Until something fails, all clients that are told an outcome are told the same
\* one, and sent the same body.
AnswersAgree ==
    calm =>
        \A r, s \in Requests :
            answer[r].kind \in Outcomes /\ answer[s].kind \in Outcomes =>
                answer[r] = answer[s] /\ body[r] = body[s]

\* Whatever fails, an outcome is told only of an execution that had it, and of
\* the body the client sent.
AnswersAreTrue ==
    \A r \in Requests :
        answer[r].kind \in Outcomes =>
            /\ job[answer[r].of] = answer[r].kind
            /\ body[answer[r].of] = body[r]

\* Whatever fails, the entry pins only the outcome of a finished execution of
\* its body: neither a 5xx nor a timeout nor another writer's result.
PinnedIsOutcome ==
    entry.state = "completed" =>
        job[entry.by] = entry.status /\ body[entry.by] = entry.body

\* Whatever fails, the key never stays blocked.
MarkerGoes == []<>(entry.state # "in_flight")

-----------------------------------------------------------------------------
(* What the documents say.                                                 *)

\* api-gateway.md: two simultaneous retries do not both execute.
RetriesDoNotBothExecute ==
    \A r, s \in Requests : stage[r] = "waiting" /\ stage[s] = "waiting" => r = s

\* reliability.md: no duplicate posts on retry.
NoDuplicatePosts == Cardinality(Posted) <= 1

\* api-gateway.md: a 4xx is deterministic, so that it may be stored.
PinnedRefusalIsFinal ==
    entry.state = "completed" /\ entry.status = "refused" =>
        \A p \in Posted : body[p] # entry.body
==============================================================================
