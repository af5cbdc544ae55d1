--------------------------- MODULE Gateway_proofs ---------------------------
(***************************************************************************)
(* What the gateway promises of its upstream calls and of the posts it     *)
(* forwards: proofs about CircuitBreaker and about Idempotency.            *)
(***************************************************************************)
EXTENDS CircuitBreaker, Idempotency, TLAPS

(***************************************************************************)
(* Proofs about CircuitBreaker, for any calls, window, error rate and      *)
(* times.                                                                  *)
(*                                                                         *)
(* ProbeIsAlone needs to know why the calls of the closed state are no     *)
(* longer young when the breaker turns half open: while it is open no call *)
(* enters, so each call under way is at least as old as the opening        *)
(* (Older).                                                                *)
(***************************************************************************)

Older == state = "open" => \A c \in inFlight : age[c] >= sinceOpened

BreakerInv == BreakerTypeOK /\ Older /\ NeverWedged /\ ProbeIsAlone

-----------------------------------------------------------------------------
\* A window of outcomes stays one when record adds to it.
LEMMA RecordTyped ==
    ASSUME BreakerTypeOK, NEW ok \in BOOLEAN
    PROVE  Record(ok) \in Seq(BOOLEAN) /\ Len(Record(ok)) <= VolumeThreshold
<1> DEFINE w == Append(outcomes, ok)
<1>1. w \in Seq(BOOLEAN) /\ Len(w) = Len(outcomes) + 1
  BY DEF BreakerTypeOK
<1>2. CASE Len(w) > VolumeThreshold
  <2>1. Len(outcomes) = VolumeThreshold
    BY <1>1, <1>2, BreakerAssumption DEF BreakerTypeOK
  <2>2. w # <<>>
    BY <1>1, <1>2, BreakerAssumption
  <2>3. Tail(w) \in Seq(BOOLEAN) /\ Len(Tail(w)) = Len(w) - 1
    BY <1>1, <2>2
  <2> QED
    BY <1>1, <1>2, <2>1, <2>3, BreakerAssumption DEF Record
<1>3. CASE ~ (Len(w) > VolumeThreshold)
  BY <1>1, <1>3, BreakerAssumption DEF Record
<1> QED
  BY <1>2, <1>3

\* The window may be emptied.
LEMMA EmptyTyped == <<>> \in Seq(BOOLEAN) /\ Len(<<>>) <= VolumeThreshold
<1>1. <<>> \in Seq(BOOLEAN)
  OBVIOUS
<1>2. Len(<<>>) = 0
  OBVIOUS
<1> QED
  BY <1>1, <1>2, BreakerAssumption

\* The initial state satisfies the invariant.
LEMMA BreakerInvInit == BreakerInit => BreakerInv
<1> SUFFICES ASSUME BreakerInit PROVE BreakerInv
  OBVIOUS
<1>1. BreakerTypeOK
  <2>1. outcomes \in Seq(BOOLEAN) /\ Len(outcomes) <= VolumeThreshold
    BY EmptyTyped DEF BreakerInit
  <2>2. /\ sinceOpened \in 0..HalfOpenAfter
        /\ age \in [Calls -> 0..Deadline]
        /\ flips \in 0..MaxFlips
    BY BreakerAssumption DEF BreakerInit
  <2>3. /\ state \in {"closed", "open", "half_open"}
        /\ halfOpenInFlight \in BOOLEAN
        /\ inFlight \subseteq Calls
        /\ doomed \subseteq inFlight
        /\ up \in BOOLEAN
    BY DEF BreakerInit
  <2> QED
    BY <2>1, <2>2, <2>3 DEF BreakerTypeOK
<1>2. Older /\ NeverWedged /\ ProbeIsAlone
  BY DEF BreakerInit, Older, NeverWedged, ProbeIsAlone, Young
<1> QED
  BY <1>1, <1>2 DEF BreakerInv

-----------------------------------------------------------------------------
\* Every step keeps the types.
LEMMA BreakerTypeStep == BreakerTypeOK /\ [BreakerNext]_breakerVars => BreakerTypeOK'
<1> SUFFICES ASSUME BreakerTypeOK, [BreakerNext]_breakerVars PROVE BreakerTypeOK'
  OBVIOUS
<1> USE BreakerAssumption
<1>1. ASSUME NEW c \in Calls, EnterClosed(c) PROVE BreakerTypeOK'
  BY <1>1 DEF BreakerTypeOK, EnterClosed, Admit, host
<1>2. ASSUME NEW c \in Calls, EnterAsProbe(c) PROVE BreakerTypeOK'
  BY <1>2 DEF BreakerTypeOK, EnterAsProbe, Admit, host
<1>3. ASSUME NEW c \in Calls, Leave(c), SucceedsInHalfOpen \/ FailsInHalfOpen
      PROVE BreakerTypeOK'
  <2>1. outcomes' \in Seq(BOOLEAN) /\ Len(outcomes') <= VolumeThreshold
    BY <1>3, EmptyTyped DEF SucceedsInHalfOpen, FailsInHalfOpen
  <2>2. age' \in [Calls -> 0..Deadline]
    BY <1>3 DEF BreakerTypeOK, Leave
  <2>3. sinceOpened' \in 0..HalfOpenAfter /\ flips' \in 0..MaxFlips
    BY <1>3 DEF BreakerTypeOK, Leave, SucceedsInHalfOpen, FailsInHalfOpen, host
  <2>4. /\ state' \in {"closed", "open", "half_open"}
        /\ halfOpenInFlight' \in BOOLEAN
        /\ inFlight' \subseteq Calls
        /\ doomed' \subseteq inFlight'
        /\ up' \in BOOLEAN
    BY <1>3 DEF BreakerTypeOK, Leave, SucceedsInHalfOpen, FailsInHalfOpen, host
  <2> QED
    BY <2>1, <2>2, <2>3, <2>4 DEF BreakerTypeOK
<1>4. ASSUME NEW c \in Calls, Leave(c), SucceedsElsewhere PROVE BreakerTypeOK'
  <2>1. outcomes' \in Seq(BOOLEAN) /\ Len(outcomes') <= VolumeThreshold
    BY <1>4, RecordTyped DEF SucceedsElsewhere
  <2>2. age' \in [Calls -> 0..Deadline]
    BY <1>4 DEF BreakerTypeOK, Leave
  <2>3. sinceOpened' \in 0..HalfOpenAfter /\ flips' \in 0..MaxFlips
    BY <1>4 DEF BreakerTypeOK, Leave, SucceedsElsewhere, host
  <2>4. /\ state' \in {"closed", "open", "half_open"}
        /\ halfOpenInFlight' \in BOOLEAN
        /\ inFlight' \subseteq Calls
        /\ doomed' \subseteq inFlight'
        /\ up' \in BOOLEAN
    BY <1>4 DEF BreakerTypeOK, Leave, SucceedsElsewhere, host
  <2> QED
    BY <2>1, <2>2, <2>3, <2>4 DEF BreakerTypeOK
<1>5. ASSUME NEW c \in Calls, Leave(c), FailsElsewhere PROVE BreakerTypeOK'
  <2>1. outcomes' \in Seq(BOOLEAN) /\ Len(outcomes') <= VolumeThreshold
    BY <1>5, RecordTyped DEF FailsElsewhere
  <2>2. age' \in [Calls -> 0..Deadline]
    BY <1>5 DEF BreakerTypeOK, Leave
  <2>3. sinceOpened' \in 0..HalfOpenAfter /\ flips' \in 0..MaxFlips
    <3>1. sinceOpened' = 0 \/ sinceOpened' = sinceOpened
      BY <1>5, Zenon DEF FailsElsewhere
    <3> QED
      BY <1>5, <3>1 DEF BreakerTypeOK, Leave, host
  <2>4. state' \in {"closed", "open", "half_open"}
    <3>1. state' = "open" \/ state' = state
      BY <1>5, Zenon DEF FailsElsewhere
    <3> QED
      BY <3>1 DEF BreakerTypeOK
  <2>5. /\ halfOpenInFlight' \in BOOLEAN
        /\ inFlight' \subseteq Calls
        /\ doomed' \subseteq inFlight'
        /\ up' \in BOOLEAN
    <3>1. UNCHANGED halfOpenInFlight
      BY <1>5 DEF FailsElsewhere
    <3> QED
      BY <1>5, <3>1 DEF BreakerTypeOK, Leave, host
  <2> QED
    BY <2>1, <2>2, <2>3, <2>4, <2>5 DEF BreakerTypeOK
<1>6. CASE Observe
  BY <1>6 DEF BreakerTypeOK, Observe, requests, host
<1>7. CASE Tick
  <2>1. \A c \in inFlight : age[c] + 1 \in 0..Deadline
    BY <1>7 DEF BreakerTypeOK, Tick
  <2>2. age' \in [Calls -> 0..Deadline]
    BY <1>7, <2>1 DEF BreakerTypeOK, Tick
  <2> QED
    BY <1>7, <2>2 DEF BreakerTypeOK, Tick, host
<1>8. CASE Flip
  BY <1>8 DEF BreakerTypeOK, Flip, breaker
<1>9. CASE UNCHANGED breakerVars
  BY <1>9 DEF BreakerTypeOK, breakerVars, breaker, requests, host
<1> QED
  BY <1>1, <1>2, <1>3, <1>4, <1>5, <1>6, <1>7, <1>8, <1>9
     DEF BreakerNext, Enter, EndCall, Succeeds, Fails

\* While the breaker is open every call is at least as old as the opening.
LEMMA OlderStep == BreakerTypeOK /\ Older /\ [BreakerNext]_breakerVars => Older'
<1> SUFFICES ASSUME BreakerTypeOK, Older, [BreakerNext]_breakerVars PROVE Older'
  OBVIOUS
<1> USE BreakerAssumption
<1>1. ASSUME NEW c \in Calls, EnterClosed(c) \/ EnterAsProbe(c) PROVE Older'
  BY <1>1 DEF Older, EnterClosed, EnterAsProbe
<1>2. ASSUME NEW c \in Calls, Leave(c), SucceedsInHalfOpen PROVE Older'
  BY <1>2 DEF Older, SucceedsInHalfOpen
<1>3. ASSUME NEW c \in Calls, Leave(c), FailsInHalfOpen PROVE Older'
  <2>1. age' \in [Calls -> 0..Deadline] /\ inFlight' \subseteq Calls
    BY <1>3 DEF BreakerTypeOK, Leave
  <2> QED
    BY <1>3, <2>1 DEF Older, FailsInHalfOpen
<1>4. ASSUME NEW c \in Calls, Leave(c), SucceedsElsewhere PROVE Older'
  BY <1>4 DEF BreakerTypeOK, Older, Leave, SucceedsElsewhere
<1>5. ASSUME NEW c \in Calls, Leave(c), FailsElsewhere PROVE Older'
  <2>1. age' \in [Calls -> 0..Deadline] /\ inFlight' \subseteq Calls
    BY <1>5 DEF BreakerTypeOK, Leave
  <2>2. CASE ShouldOpen(outcomes')
    BY <1>5, <2>1, <2>2 DEF Older, FailsElsewhere
  <2>3. CASE ~ ShouldOpen(outcomes')
    BY <1>5, <2>3 DEF BreakerTypeOK, Older, Leave, FailsElsewhere
  <2> QED
    BY <2>2, <2>3
<1>6. CASE Observe
  BY <1>6 DEF Older, Observe
<1>7. CASE Tick
  BY <1>7 DEF BreakerTypeOK, Older, Tick
<1>8. CASE Flip
  BY <1>8 DEF Older, Flip, breaker
<1>9. CASE UNCHANGED breakerVars
  BY <1>9 DEF Older, breakerVars, breaker, requests
<1> QED
  BY <1>1, <1>2, <1>3, <1>4, <1>5, <1>6, <1>7, <1>8, <1>9
     DEF BreakerNext, Enter, EndCall, Succeeds, Fails

\* A probe that is waited for is under way.
LEMMA WedgeStep == BreakerTypeOK /\ NeverWedged /\ [BreakerNext]_breakerVars => NeverWedged'
<1> SUFFICES ASSUME BreakerTypeOK, NeverWedged, [BreakerNext]_breakerVars PROVE NeverWedged'
  OBVIOUS
<1>1. ASSUME NEW c \in Calls, Enter(c) PROVE NeverWedged'
  BY <1>1 DEF NeverWedged, Enter, EnterClosed, EnterAsProbe, Admit
<1>2. ASSUME NEW c \in Calls, EndCall(c) PROVE NeverWedged'
  BY <1>2 DEF NeverWedged, EndCall, Succeeds, Fails, SucceedsInHalfOpen,
              SucceedsElsewhere, FailsInHalfOpen, FailsElsewhere
<1>3. CASE Observe \/ Tick \/ Flip \/ UNCHANGED breakerVars
  BY <1>3 DEF NeverWedged, Observe, Tick, Flip, breakerVars, breaker, requests
<1> QED
  BY <1>1, <1>2, <1>3 DEF BreakerNext

\* When the cool-down is over no young call is left.
LEMMA NoneIsYoung ==
    ASSUME BreakerTypeOK, Older, CooledDown
    PROVE  Young = {}
<1>1. \A c \in inFlight : age[c] \in Nat /\ age[c] >= sinceOpened
  BY BreakerAssumption DEF BreakerTypeOK, Older, CooledDown
<1>2. sinceOpened \in Nat /\ sinceOpened >= HalfOpenAfter /\ HalfOpenAfter \in Nat
  BY BreakerAssumption DEF BreakerTypeOK, CooledDown
<1>3. \A c \in inFlight : ~ (age[c] < HalfOpenAfter)
  BY <1>1, <1>2
<1> QED
  BY <1>3 DEF Young

\* The half-open breaker has no young call but its probe.
LEMMA AloneStep == BreakerInv /\ [BreakerNext]_breakerVars => ProbeIsAlone'
<1> SUFFICES ASSUME BreakerInv, [BreakerNext]_breakerVars, state' = "half_open"
             PROVE  (\A c, d \in Young' : c = d) /\ (Young' # {} => halfOpenInFlight')
  BY DEF ProbeIsAlone
<1>1. ASSUME NEW c \in Calls, EnterAsProbe(c)
      PROVE  (\A d, e \in Young' : d = e) /\ halfOpenInFlight'
  <2>1. Young = {}
    BY <1>1, NoneIsYoung DEF EnterAsProbe, BreakerInv, ProbeIsAlone
  <2>2. \A d \in Young' : d = c
    BY <1>1, <2>1 DEF EnterAsProbe, Admit, Young, BreakerInv, BreakerTypeOK
  <2> QED
    BY <1>1, <2>2 DEF EnterAsProbe
<1>2. CASE Observe
  <2>1. Young' = {}
    BY <1>2, NoneIsYoung DEF Observe, BreakerInv, requests, Young
  <2> QED
    BY <2>1
<1>3. CASE Tick
  <2>1. Young' \subseteq Young
    BY <1>3, BreakerAssumption DEF BreakerInv, BreakerTypeOK, Tick, Young
  <2> QED
    BY <1>3, <2>1 DEF BreakerInv, ProbeIsAlone, Tick
<1>4. CASE Flip \/ UNCHANGED breakerVars
  BY <1>4 DEF BreakerInv, ProbeIsAlone, Young, Flip, breakerVars, breaker, requests
<1>5. ASSUME NEW c \in Calls, EnterClosed(c) PROVE FALSE
  BY <1>5 DEF EnterClosed
<1>6. ASSUME NEW c \in Calls, EndCall(c) PROVE FALSE
  BY <1>6 DEF EndCall, Succeeds, Fails, SucceedsInHalfOpen, SucceedsElsewhere,
              FailsInHalfOpen, FailsElsewhere
<1> QED
  BY <1>1, <1>2, <1>3, <1>4, <1>5, <1>6 DEF BreakerNext, Enter

-----------------------------------------------------------------------------
\* BreakerInv is an inductive invariant of the breaker.
THEOREM BreakerInvariance == BreakerSpec => []BreakerInv
<1>1. BreakerInit => BreakerInv
  BY BreakerInvInit
<1>2. BreakerInv /\ [BreakerNext]_breakerVars => BreakerInv'
  BY BreakerTypeStep, OlderStep, WedgeStep, AloneStep DEF BreakerInv
<1> QED
  BY <1>1, <1>2, PTL DEF BreakerSpec

\* The type invariant holds in every reachable state of the breaker.
THEOREM BreakerTypeCorrect == BreakerSpec => []BreakerTypeOK
<1>1. BreakerInv => BreakerTypeOK
  BY DEF BreakerInv
<1> QED
  BY <1>1, BreakerInvariance, PTL

\* The flag that makes tryEnter refuse calls in half_open is set only while a
\* call is under way whose end will clear it.
THEOREM NeverWedgedCorrect == BreakerSpec => []NeverWedged
<1>1. BreakerInv => NeverWedged
  BY DEF BreakerInv
<1> QED
  BY <1>1, BreakerInvariance, PTL

\* However long the timeout, a half-open breaker lets one call through and has
\* its flag set while that call is young.
THEOREM ProbeIsAloneCorrect == BreakerSpec => []ProbeIsAlone
<1>1. BreakerInv => ProbeIsAlone
  BY DEF BreakerInv
<1> QED
  BY <1>1, BreakerInvariance, PTL

-----------------------------------------------------------------------------
(***************************************************************************)
(* Proofs about Idempotency, for any number of requests and bodies.        *)
(*                                                                         *)
(* What is told and pinned is true whatever fails, because an execution    *)
(* that has an outcome keeps it: a handler forwards once.  That one        *)
(* request executes at a time until something fails needs Owned: the      *)
(* one that executes has its own marker in the entry, and the entry, once  *)
(* written, is never empty again.                                          *)
(***************************************************************************)

Truth == TypeOK /\ AnswersAreTrue /\ PinnedIsOutcome

\* Until something fails: the markers and answers of the requests.
Owned ==
    calm =>
        /\ entry.state = "in_flight" => stage[entry.by] \in Executing
        /\ \A r \in Requests :
             /\ stage[r] # "abandon" /\ job[r] # "failed"
             /\ stage[r] \in Executing => entry = InFlight(body[r], r)
             /\ stage[r] = "getagain" => entry # None
             /\ answer[r].kind \in Outcomes =>
                  entry = Completed(body[r], answer[r].of, answer[r].kind)

-----------------------------------------------------------------------------
\* The initial state satisfies both invariants.
LEMMA InitInv == Init => Truth /\ Owned
BY DEF Init, Truth, TypeOK, AnswersAreTrue, PinnedIsOutcome, Owned, Entries, Answers, None,
       Untold, Outcomes, Executing

\* The entries and answers that the steps write are typed.
LEMMA Written ==
    /\ None \in Entries
    /\ \A b \in Bodies, r \in Requests :
         InFlight(b, r) \in Entries /\ \A s \in Outcomes : Completed(b, r, s) \in Entries
    /\ \A k \in {"none", "in_flight", "conflict", "error", "lost"} : Untold(k) \in Answers
    /\ \A r \in Requests, s \in Outcomes : Told(r, s) \in Answers
BY DEF Entries, Answers

\* What interpret makes of an entry that exists.
LEMMA Interpreted ==
    ASSUME TypeOK, entry # None, NEW r \in Requests
    PROVE  /\ Interpret(r) \in Answers
           /\ Interpret(r).kind \in Outcomes =>
                /\ entry.state = "completed" /\ entry.body = body[r]
                /\ Interpret(r) = Told(entry.by, entry.status)
<1>1. \/ \E b \in Bodies, q \in Requests : entry = InFlight(b, q)
      \/ \E b \in Bodies, q \in Requests, s \in Outcomes : entry = Completed(b, q, s)
  BY DEF TypeOK, Entries
<1> QED
  BY <1>1 DEF Interpret, InFlight, Completed, Untold, Told, Answers, Outcomes

-----------------------------------------------------------------------------
\* Every step keeps the types, and with them that a handler forwards once and
\* completes only what was posted.
LEMMA TypeStep == TypeOK /\ [Next]_vars => TypeOK'
<1> SUFFICES ASSUME TypeOK, [Next]_vars PROVE TypeOK'
  OBVIOUS
<1> USE Written DEF TypeOK, Go, Answer, Executing, Outcomes
<1>1. ASSUME NEW r \in Requests, Arrive(r) PROVE TypeOK'
  BY <1>1, Interpreted DEF Arrive
<1>2. ASSUME NEW r \in Requests, SetNX(r) PROVE TypeOK'
  BY <1>2 DEF SetNX
<1>3. ASSUME NEW r \in Requests, GetAgain(r) PROVE TypeOK'
  BY <1>3, Interpreted DEF GetAgain
<1>4. ASSUME NEW r \in Requests, Forward(r) PROVE TypeOK'
  BY <1>4 DEF Forward
<1>5. ASSUME NEW r \in Requests, NotForwarded(r) PROVE TypeOK'
  BY <1>5 DEF NotForwarded
<1>6. ASSUME NEW r \in Requests, Check(r) PROVE TypeOK'
  BY <1>6 DEF Check
<1>7. ASSUME NEW r \in Requests, Insert(r) PROVE TypeOK'
  BY <1>7 DEF Insert
<1>8. ASSUME NEW r \in Requests, JobFails(r) PROVE TypeOK'
  BY <1>8 DEF JobFails
<1>9. ASSUME NEW r \in Requests, Receive(r) PROVE TypeOK'
  BY <1>9 DEF Receive
<1>10. ASSUME NEW r \in Requests, Timeout(r) PROVE TypeOK'
  BY <1>10 DEF Timeout
<1>11. ASSUME NEW r \in Requests, Complete(r) PROVE TypeOK'
  BY <1>11 DEF Complete
<1>12. ASSUME NEW r \in Requests, Pin(r) PROVE TypeOK'
  BY <1>12 DEF Pin
<1>13. ASSUME NEW r \in Requests, Abandon(r) PROVE TypeOK'
  BY <1>13 DEF Abandon
<1>14. ASSUME NEW r \in Requests, RedisFails(r) PROVE TypeOK'
  <2>1. /\ entry' \in Entries
        /\ stage' = [stage EXCEPT ![r] = "done"]
        /\ answer' \in [Requests -> Answers]
    BY <1>14 DEF RedisFails
  <2> QED
    BY <1>14, <2>1 DEF RedisFails
<1>15. ASSUME NEW r \in Requests, CompleteFails(r) PROVE TypeOK'
  <2>1. /\ entry' \in Entries
        /\ stage' = [stage EXCEPT ![r] = "abandon"]
        /\ answer' \in [Requests -> Answers]
        /\ body' = body /\ job' = job /\ calm' = FALSE
    BY <1>15 DEF CompleteFails
  <2> HIDE DEF Entries, Answers
  <2> QED
    BY <2>1
<1>16. ASSUME NEW r \in Requests, Crash(r) PROVE TypeOK'
  BY <1>16 DEF Crash
<1>17. CASE Expire
  BY <1>17 DEF Expire
<1>18. CASE UNCHANGED vars
  BY <1>18 DEF vars
<1> QED
  BY <1>1, <1>2, <1>3, <1>4, <1>5, <1>6, <1>7, <1>8, <1>9, <1>10, <1>11, <1>12, <1>13, <1>14, <1>15, <1>16, <1>17, <1>18
     DEF Next, Begin, Execute, Finish, Fail

-----------------------------------------------------------------------------
\* An execution that has its outcome keeps it, and no request changes its body.
LEMMA OutcomeStays ==
    ASSUME TypeOK, [Next]_vars
    PROVE  /\ body' = body
           /\ \A r \in Requests : job[r] \in Outcomes => job'[r] = job[r]
<1>1. ASSUME NEW q \in Requests, Forward(q)
      PROVE  \A r \in Requests : job[r] \in Outcomes => job'[r] = job[r]
  BY <1>1 DEF TypeOK, Forward, Go, Outcomes
<1>2. ASSUME NEW q \in Requests, Check(q) \/ Insert(q) \/ JobFails(q)
      PROVE  \A r \in Requests : job[r] \in Outcomes => job'[r] = job[r]
  BY <1>2 DEF TypeOK, Check, Insert, JobFails, Outcomes
<1>3. ASSUME UNCHANGED job
      PROVE  \A r \in Requests : job[r] \in Outcomes => job'[r] = job[r]
  BY <1>3
<1>4. body' = body
  BY DEF Next, vars, Begin, Execute, Finish, Fail, Arrive, SetNX, GetAgain, Forward,
         NotForwarded, Check, Insert, JobFails, Receive, Timeout, Complete, Pin, Abandon,
         RedisFails, CompleteFails, Crash, Expire
<1> QED
  BY <1>1, <1>2, <1>3, <1>4
     DEF Next, vars, Begin, Execute, Finish, Fail, Arrive, SetNX, GetAgain,
         NotForwarded, Receive, Timeout, Complete, Pin, Abandon,
         RedisFails, CompleteFails, Crash, Expire

\* Where a step gets a new answer, or a new completed entry, from.
LEMMA NewAnswer ==
    ASSUME TypeOK, [Next]_vars, NEW r \in Requests, answer'[r].kind \in Outcomes
    PROVE  \/ answer'[r] = answer[r]
           \/ /\ entry.state = "completed" /\ entry.body = body[r]
              /\ answer'[r] = Told(entry.by, entry.status)
           \/ Complete(r) /\ answer'[r] = Told(r, "posted")
           \/ Pin(r) /\ answer'[r] = Told(r, "refused")
<1>1. ASSUME NEW q \in Requests, Arrive(q) \/ GetAgain(q)
      PROVE  \/ answer'[r] = answer[r]
             \/ /\ entry.state = "completed" /\ entry.body = body[r]
                /\ answer'[r] = Told(entry.by, entry.status)
  <2>1. CASE entry # None /\ q = r
    <3>1. answer'[r] = Interpret(r)
      BY <1>1, <2>1 DEF TypeOK, Arrive, GetAgain, Answer
    <3> QED
      BY <2>1, <3>1, Interpreted
  <2>2. CASE ~ (entry # None /\ q = r)
    BY <1>1, <2>2 DEF TypeOK, Arrive, GetAgain, Answer
  <2> QED
    BY <2>1, <2>2
<1>2. ASSUME NEW q \in Requests,
             NotForwarded(q) \/ Receive(q) \/ Timeout(q) \/ RedisFails(q)
                 \/ CompleteFails(q) \/ Crash(q)
      PROVE  answer'[r] = answer[r]
  <2>1. answer' = answer \/ \E k \in {"error", "lost"} : Answer(q, Untold(k))
    BY <1>2 DEF NotForwarded, Receive, Timeout, RedisFails, CompleteFails, Crash
  <2>2. \A k \in {"error", "lost"} : Untold(k).kind \notin Outcomes
    BY DEF Untold, Outcomes
  <2> QED
    BY <2>1, <2>2 DEF TypeOK, Answer
<1>3. ASSUME NEW q \in Requests, Complete(q)
      PROVE  answer'[r] = answer[r] \/ (q = r /\ answer'[r] = Told(r, "posted"))
  BY <1>3 DEF TypeOK, Complete, Answer
<1>4. ASSUME NEW q \in Requests, Pin(q)
      PROVE  answer'[r] = answer[r] \/ (q = r /\ answer'[r] = Told(r, "refused"))
  BY <1>4 DEF TypeOK, Pin, Answer
<1>5. CASE UNCHANGED answer
  BY <1>5
<1> QED
  BY <1>1, <1>2, <1>3, <1>4, <1>5
     DEF Next, vars, Begin, Execute, Finish, Fail, SetNX, Forward, Check, Insert, JobFails,
         Abandon, Expire

\* The writers of a completed entry.
LEMMA NewEntry ==
    ASSUME TypeOK, [Next]_vars
    PROVE  \/ entry' = entry
           \/ entry' = None
           \/ \E r \in Requests : SetNX(r) /\ entry = None /\ entry' = InFlight(body[r], r)
           \/ \E r \in Requests : RedisFails(r) /\ entry' = InFlight(body[r], r)
           \/ \E r \in Requests : stage[r] = "complete" /\ entry' = Completed(body[r], r, "posted")
           \/ \E r \in Requests : stage[r] = "pin" /\ entry' = Completed(body[r], r, "refused")
BY DEF Next, vars, Begin, Execute, Finish, Fail, Arrive, SetNX, GetAgain, Forward,
       NotForwarded, Check, Insert, JobFails, Receive, Timeout, Complete, Pin, Abandon,
       RedisFails, CompleteFails, Crash, Expire, Go

\* Who an answer or an entry names is a request.
LEMMA Named ==
    ASSUME TypeOK
    PROVE  /\ \A r \in Requests : answer[r].kind \in Outcomes => answer[r].of \in Requests
           /\ entry.state = "completed" =>
                entry.by \in Requests /\ entry.status \in Outcomes /\ entry.body \in Bodies
           /\ entry.state = "in_flight" => entry.by \in Requests
<1>1. ASSUME NEW r \in Requests, answer[r].kind \in Outcomes PROVE answer[r].of \in Requests
  BY <1>1 DEF TypeOK, Answers, Untold, Told, Outcomes
<1>2. /\ entry.state = "completed" =>
           entry.by \in Requests /\ entry.status \in Outcomes /\ entry.body \in Bodies
      /\ entry.state = "in_flight" => entry.by \in Requests
  BY DEF TypeOK, Entries, None, InFlight, Completed
<1> QED
  BY <1>1, <1>2

-----------------------------------------------------------------------------
\* Every step keeps what is told and what is pinned true.
LEMMA TruthStep == Truth /\ [Next]_vars => Truth'
<1> SUFFICES ASSUME Truth, [Next]_vars PROVE Truth'
  OBVIOUS
<1> USE DEF Truth
<1>1. TypeOK'
  BY TypeStep
<1>2. AnswersAreTrue'
  <2> SUFFICES ASSUME NEW r \in Requests, answer'[r].kind \in Outcomes
               PROVE  /\ job'[answer'[r].of] = answer'[r].kind
                      /\ body'[answer'[r].of] = body'[r]
    BY DEF AnswersAreTrue
  <2>1. CASE answer'[r] = answer[r]
    BY <2>1, Named, OutcomeStays DEF AnswersAreTrue
  <2>2. CASE /\ entry.state = "completed" /\ entry.body = body[r]
             /\ answer'[r] = Told(entry.by, entry.status)
    <3>1. answer'[r].of = entry.by /\ answer'[r].kind = entry.status
      BY <2>2 DEF Told
    <3> QED
      BY <2>2, <3>1, Named, OutcomeStays DEF PinnedIsOutcome
  <2>3. CASE Complete(r) /\ answer'[r] = Told(r, "posted")
    <3>1. answer'[r].of = r /\ answer'[r].kind = "posted"
      BY <2>3 DEF Told
    <3>2. job[r] = "posted"
      BY <2>3 DEF Complete, Go, TypeOK
    <3> QED
      BY <3>1, <3>2, OutcomeStays DEF Outcomes
  <2>4. CASE Pin(r) /\ answer'[r] = Told(r, "refused")
    <3>1. answer'[r].of = r /\ answer'[r].kind = "refused"
      BY <2>4 DEF Told
    <3>2. job[r] = "refused"
      BY <2>4 DEF Pin, Go, TypeOK
    <3> QED
      BY <3>1, <3>2, OutcomeStays DEF Outcomes
  <2> QED
    BY <2>1, <2>2, <2>3, <2>4, NewAnswer
<1>3. PinnedIsOutcome'
  <2>1. CASE entry' = entry
    BY <2>1, Named, OutcomeStays DEF PinnedIsOutcome
  <2>2. CASE entry' = None \/ \E r \in Requests : entry' = InFlight(body[r], r)
    BY <2>2 DEF PinnedIsOutcome, None, InFlight
  <2>3. ASSUME NEW r \in Requests, stage[r] = "complete",
               entry' = Completed(body[r], r, "posted")
        PROVE  PinnedIsOutcome'
    BY <2>3, OutcomeStays DEF TypeOK, PinnedIsOutcome, Completed, Outcomes
  <2>4. ASSUME NEW r \in Requests, stage[r] = "pin",
               entry' = Completed(body[r], r, "refused")
        PROVE  PinnedIsOutcome'
    BY <2>4, OutcomeStays DEF TypeOK, PinnedIsOutcome, Completed, Outcomes
  <2> QED
    BY <2>1, <2>2, <2>3, <2>4, NewEntry
<1> QED
  BY <1>1, <1>2, <1>3

-----------------------------------------------------------------------------
\* The entries of two writers or two kinds differ.
LEMMA Different ==
    /\ \A b, c \in Bodies, q, r \in Requests : InFlight(b, q) = InFlight(c, r) => q = r
    /\ \A b \in Bodies, r \in Requests :
         /\ InFlight(b, r) # None
         /\ InFlight(b, r).state = "in_flight" /\ InFlight(b, r).by = r
         /\ \A s \in Outcomes :
              /\ Completed(b, r, s) # None
              /\ Completed(b, r, s).state = "completed"
              /\ \A q \in Requests, c \in Bodies : InFlight(c, q) # Completed(b, r, s)
    /\ None.state = "none"
BY DEF InFlight, Completed, None

\* Until something fails, every step keeps the markers and answers.
LEMMA OwnedStep == TypeOK /\ Owned /\ [Next]_vars => Owned'
<1> SUFFICES ASSUME TypeOK, Owned, [Next]_vars, calm' PROVE Owned'
  BY DEF Owned
<1>c. calm
  BY DEF Next, Begin, Arrive, SetNX, GetAgain, Forward, NotForwarded, Execute, Check, Insert,
         JobFails, Finish, Receive, Timeout, Complete, Pin, Abandon, Fail, RedisFails,
         CompleteFails, Crash, Expire, vars
<1>0. /\ entry.state = "in_flight" => entry.by \in Requests /\ stage[entry.by] \in Executing
      /\ \A r \in Requests :
           /\ stage[r] # "abandon" /\ job[r] # "failed"
           /\ stage[r] \in Executing => entry = InFlight(body[r], r)
           /\ stage[r] = "getagain" => entry # None
           /\ answer[r].kind \in Outcomes =>
                entry = Completed(body[r], answer[r].of, answer[r].kind)
  BY <1>c, Named DEF Owned
<1>1. ASSUME NEW q \in Requests, Arrive(q) \/ GetAgain(q) PROVE Owned'
  <2>1. /\ UNCHANGED <<entry, body, job>>
        /\ stage[q] \notin Executing
        /\ stage' = [stage EXCEPT ![q] = "setnx"] \/ stage' = [stage EXCEPT ![q] = "done"]
    BY <1>0, <1>1 DEF Arrive, GetAgain, Go, Executing
  <2>2. ASSUME NEW r \in Requests, answer'[r].kind \in Outcomes
        PROVE  entry = Completed(body[r], answer'[r].of, answer'[r].kind)
    <3>1. CASE answer'[r] = answer[r]
      BY <1>0, <2>2, <3>1
    <3>2. CASE /\ entry.state = "completed" /\ entry.body = body[r]
               /\ answer'[r] = Told(entry.by, entry.status)
      <4>1. entry = Completed(entry.body, entry.by, entry.status)
        BY <3>2 DEF TypeOK, Entries, None, InFlight, Completed
      <4> QED
        BY <3>2, <4>1 DEF Told
    <3> QED
      <4>1. ~ Complete(r) /\ ~ Pin(r)
        <5>1. ASSUME Complete(r) \/ Pin(r) PROVE FALSE
          <6>1. PICK s \in Outcomes : stage[r] \in Executing /\ entry' = Completed(body[r], r, s)
            BY <5>1 DEF Complete, Pin, Go, Executing, Outcomes
          <6> QED
            BY <1>0, <2>1, <6>1, Different DEF TypeOK
        <5> QED
          BY <5>1
      <4> QED
        BY <2>2, <3>1, <3>2, <4>1, NewAnswer
  <2> QED
    BY <1>0, <2>1, <2>2 DEF TypeOK, Owned, Executing
<1>2. ASSUME NEW q \in Requests, SetNX(q) PROVE Owned'
  <2>1. CASE entry = None
    <3>1. /\ entry' = InFlight(body[q], q)
          /\ stage' = [stage EXCEPT ![q] = "forward"]
          /\ UNCHANGED <<body, answer, job>>
      BY <1>2, <2>1 DEF SetNX, Go
    <3>2. \A r \in Requests :
             /\ stage[r] \notin Executing /\ stage[r] # "getagain"
             /\ answer[r].kind \notin Outcomes
      BY <1>0, <2>1, Different, Named DEF TypeOK
    <3> QED
      BY <1>0, <3>1, <3>2, Different DEF TypeOK, Owned, Executing
  <2>2. CASE entry # None
    <3>1. /\ stage[q] = "setnx" /\ stage' = [stage EXCEPT ![q] = "getagain"]
          /\ UNCHANGED <<entry, body, answer, job>>
      BY <1>2, <2>2 DEF SetNX, Go
    <3> QED
      BY <1>0, <2>2, <3>1 DEF TypeOK, Owned, Executing
  <2> QED
    BY <2>1, <2>2
<1>3. ASSUME NEW q \in Requests, Forward(q) \/ Check(q) \/ Insert(q) \/ Receive(q)
      PROVE  Owned'
  <2>1. /\ UNCHANGED <<entry, body, answer>>
        /\ stage' = stage \/ \E k \in {"waiting", "complete", "pin"} :
                               stage[q] \in Executing /\ stage' = [stage EXCEPT ![q] = k]
    BY <1>0, <1>3 DEF Forward, Check, Insert, Receive, Go, Executing
  <2>2. \A r \in Requests : job'[r] # "failed"
    BY <1>0, <1>3 DEF TypeOK, Forward, Check, Insert, Receive
  <2> QED
    BY <1>0, <2>1, <2>2 DEF TypeOK, Owned, Executing
<1>4. ASSUME NEW q \in Requests, Complete(q) \/ Pin(q) PROVE Owned'
  <2>1. PICK s \in Outcomes :
           /\ stage[q] \in Executing /\ stage' = [stage EXCEPT ![q] = "done"]
           /\ entry' = Completed(body[q], q, s)
           /\ answer' = [answer EXCEPT ![q] = Told(q, s)]
           /\ UNCHANGED <<body, job>>
    BY <1>4 DEF Complete, Pin, Go, Answer, Executing, Outcomes
  <2>2. entry = InFlight(body[q], q)
    BY <1>0, <2>1
  <2>3. \A r \in Requests : r # q => stage[r] \notin Executing
    BY <1>0, <2>2, Different DEF TypeOK
  <2>4. ASSUME NEW r \in Requests, answer[r].kind \in Outcomes PROVE FALSE
    <3>1. entry = Completed(body[r], answer[r].of, answer[r].kind)
      BY <1>0, <2>4
    <3>2. InFlight(body[q], q).state = "in_flight"
      BY DEF InFlight
    <3>3. Completed(body[r], answer[r].of, answer[r].kind).state = "completed"
      BY DEF Completed
    <3> QED
      BY <2>2, <3>1, <3>2, <3>3
  <2>5. ASSUME NEW r \in Requests, answer'[r].kind \in Outcomes
        PROVE  entry' = Completed(body[r], answer'[r].of, answer'[r].kind)
    BY <2>1, <2>4, <2>5 DEF TypeOK, Told
  <2> QED
    BY <1>0, <2>1, <2>3, <2>5, Different DEF TypeOK, Owned, Executing
<1>5. CASE UNCHANGED vars
  BY <1>0, <1>5 DEF Owned, vars
<1> QED
  BY <1>0, <1>1, <1>2, <1>3, <1>4, <1>5
     DEF Next, Begin, Execute, Finish, Fail, NotForwarded, JobFails, Timeout, Abandon,
         RedisFails, CompleteFails, Crash, Expire, Go, Executing

-----------------------------------------------------------------------------
\* Both invariants are inductive.
THEOREM Invariance == Spec => [](Truth /\ Owned)
<1>1. Truth /\ Owned /\ [Next]_vars => (Truth /\ Owned)'
  BY TruthStep, OwnedStep DEF Truth
<1> QED
  BY InitInv, <1>1, PTL DEF Spec

\* Clients are told only of real outcomes of the body they sent, whatever fails.
THEOREM AnswersAreTrueCorrect == Spec => []AnswersAreTrue
<1>1. Truth => AnswersAreTrue
  BY DEF Truth
<1> QED
  BY Invariance, <1>1, PTL

\* The key pins only the outcome of a finished execution, whatever fails.
THEOREM PinnedIsOutcomeCorrect == Spec => []PinnedIsOutcome
<1>1. Truth => PinnedIsOutcome
  BY DEF Truth
<1> QED
  BY Invariance, <1>1, PTL

\* Until something fails, one request at a time executes.
THEOREM OneAtATimeCorrect == Spec => []OneAtATime
<1>1. Truth /\ Owned => OneAtATime
  BY Different DEF Truth, TypeOK, Owned, OneAtATime
<1> QED
  BY Invariance, <1>1, PTL

\* Until something fails, clients that are told an outcome are told the same one.
THEOREM AnswersAgreeCorrect == Spec => []AnswersAgree
<1>1. ASSUME Truth, Owned PROVE AnswersAgree
  <2> SUFFICES ASSUME calm, NEW r \in Requests, NEW s \in Requests,
                      answer[r].kind \in Outcomes, answer[s].kind \in Outcomes
               PROVE  answer[r] = answer[s] /\ body[r] = body[s]
    BY DEF AnswersAgree
  <2>1. /\ entry = Completed(body[r], answer[r].of, answer[r].kind)
        /\ entry = Completed(body[s], answer[s].of, answer[s].kind)
    BY <1>1 DEF Owned
  <2>2. /\ body[r] = body[s]
        /\ answer[r].of = answer[s].of /\ answer[r].kind = answer[s].kind
    BY <2>1 DEF Completed
  <2>3. /\ answer[r] = Told(answer[r].of, answer[r].kind)
        /\ answer[s] = Told(answer[s].of, answer[s].kind)
    BY <1>1 DEF Truth, TypeOK, Answers, Untold, Told, Outcomes
  <2> QED
    BY <2>2, <2>3
<1> QED
  BY Invariance, <1>1, PTL
==============================================================================
