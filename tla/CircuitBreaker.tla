---------------------------- MODULE CircuitBreaker ----------------------------
(***************************************************************************)
(* The sliding-window circuit breaker                                      *)
(* (libs/platform-grpc/src/circuit-breaker.ts) under fetchUpstream of the  *)
(* gateway (apps/api-gateway/src/proxy/upstream.ts).                       *)
(*                                                                         *)
(* Node runs one callback at a time, so tryEnter, onSuccess and onFailure  *)
(* are steps; calls interleave between entering and finishing, and a call  *)
(* may finish when the breaker is no longer in the state that admitted it. *)
(*                                                                         *)
(* Time is counted in ticks.  A call is cut off after Deadline ticks       *)
(* (AbortSignal.timeout), and an open breaker lets a probe through         *)
(* HalfOpenAfter ticks after openedAt: 5 s and 15 s by default, but        *)
(* UPSTREAM_TIMEOUT_MS may be as large as 60 s.                            *)
(***************************************************************************)
EXTENDS Naturals, Sequences

CONSTANTS
    Calls,              \* request handlers of the gateway, one call each at a time
    VolumeThreshold,    \* 20 in the code
    ErrorPercent,       \* errorThreshold, 50 in the code
    HalfOpenAfter,      \* halfOpenAfterMs
    Deadline,           \* UPSTREAM_TIMEOUT_MS
    MaxFlips            \* bound: how often the upstream goes down or comes up

ASSUME BreakerAssumption ==
    /\ VolumeThreshold \in Nat \ {0}
    /\ ErrorPercent \in 1..100
    /\ HalfOpenAfter \in Nat \ {0}
    /\ Deadline \in Nat \ {0}
    /\ MaxFlips \in Nat

VARIABLES
    state,              \* closed, open or half_open
    outcomes,           \* the window, TRUE = success
    sinceOpened,        \* now - openedAt, as long as that matters
    halfOpenInFlight,
    inFlight,           \* calls that entered and have not finished
    age,                \* ticks since each of them entered
    doomed,             \* calls under way while the host was down
    up, flips           \* the upstream host

breaker == <<state, outcomes, sinceOpened, halfOpenInFlight>>
host == <<up, flips>>
requests == <<inFlight, age, doomed>>
breakerVars == <<breaker, requests, host>>

BreakerTypeOK ==
    /\ state \in {"closed", "open", "half_open"}
    /\ outcomes \in Seq(BOOLEAN) /\ Len(outcomes) <= VolumeThreshold
    /\ sinceOpened \in 0..HalfOpenAfter
    /\ halfOpenInFlight \in BOOLEAN
    /\ inFlight \subseteq Calls
    /\ age \in [Calls -> 0..Deadline]
    /\ doomed \subseteq inFlight
    /\ up \in BOOLEAN
    /\ flips \in 0..MaxFlips

BreakerInit ==
    /\ state = "closed"
    /\ outcomes = <<>>
    /\ sinceOpened = 0
    /\ halfOpenInFlight = FALSE
    /\ inFlight = {}
    /\ age = [c \in Calls |-> 0]
    /\ doomed = {}
    /\ up = TRUE
    /\ flips = 0

-----------------------------------------------------------------------------
(* tryEnter                                                                *)

CooledDown == state = "open" /\ sinceOpened >= HalfOpenAfter

Admit(c) ==
    /\ inFlight' = inFlight \union {c}
    /\ age' = [age EXCEPT ![c] = 0]
    /\ doomed' = IF up THEN doomed ELSE doomed \union {c}
    /\ UNCHANGED <<outcomes, sinceOpened, host>>

EnterClosed(c) ==
    /\ c \notin inFlight
    /\ state = "closed"
    /\ Admit(c)
    /\ UNCHANGED <<state, halfOpenInFlight>>

\* Mutant: every call is a probe while the breaker is half open.
EnterAsAnotherProbe(c) ==
    /\ c \notin inFlight
    /\ CooledDown \/ state = "half_open"
    /\ Admit(c)
    /\ state' = "half_open"
    /\ halfOpenInFlight' = TRUE

\* maybeTransitionToHalfOpen and the admission of the probe.
EnterAsProbe(c) ==
    /\ c \notin inFlight
    /\ CooledDown \/ (state = "half_open" /\ ~ halfOpenInFlight)
    /\ Admit(c)
    /\ state' = "half_open"
    /\ halfOpenInFlight' = TRUE

\* getState and snapshot make the transition as well.
Observe ==
    /\ CooledDown
    /\ state' = "half_open"
    /\ halfOpenInFlight' = FALSE
    /\ UNCHANGED <<outcomes, sinceOpened, requests, host>>

-----------------------------------------------------------------------------
(* onSuccess and onFailure                                                 *)

Leave(c) ==
    /\ c \in inFlight
    /\ inFlight' = inFlight \ {c}
    /\ age' = [age EXCEPT ![c] = 0]
    /\ doomed' = doomed \ {c}
    /\ UNCHANGED host

\* record: push, then shift while the window is longer than the threshold.
Record(ok) ==
    LET w == Append(outcomes, ok)
    IN IF Len(w) > VolumeThreshold THEN Tail(w) ELSE w

Failures(w) == Len(SelectSeq(w, LAMBDA ok : ~ ok))

\* maybeOpen
ShouldOpen(w) ==
    /\ Len(w) >= VolumeThreshold
    /\ 100 * Failures(w) >= ErrorPercent * Len(w)

\* Mutant: the probe's success is recorded but does not close the breaker.
SucceedsInHalfOpenOnly ==
    /\ state = "half_open"
    /\ outcomes' = <<>>
    /\ halfOpenInFlight' = FALSE
    /\ UNCHANGED <<state, sinceOpened>>

SucceedsInHalfOpen ==
    /\ state = "half_open"
    /\ state' = "closed"
    /\ outcomes' = <<>>
    /\ halfOpenInFlight' = FALSE
    /\ UNCHANGED sinceOpened

SucceedsElsewhere ==
    /\ state # "half_open"
    /\ outcomes' = Record(TRUE)
    /\ UNCHANGED <<state, sinceOpened, halfOpenInFlight>>

\* Mutant: the probe's failure leaves the flag set.
FailsInHalfOpenKeepsFlag ==
    /\ state = "half_open"
    /\ state' = "open"
    /\ sinceOpened' = 0
    /\ outcomes' = <<>>
    /\ UNCHANGED halfOpenInFlight

FailsInHalfOpen ==
    /\ state = "half_open"
    /\ state' = "open"
    /\ sinceOpened' = 0
    /\ outcomes' = <<>>
    /\ halfOpenInFlight' = FALSE

\* A failure while the breaker is open may set openedAt once more.
FailsElsewhere ==
    /\ state # "half_open"
    /\ outcomes' = Record(FALSE)
    /\ IF ShouldOpen(outcomes')
       THEN state' = "open" /\ sinceOpened' = 0
       ELSE UNCHANGED <<state, sinceOpened>>
    /\ UNCHANGED halfOpenInFlight

Succeeds(c) ==
    /\ up
    /\ Leave(c)
    /\ SucceedsInHalfOpen \/ SucceedsElsewhere

\* A 5xx, a network error or the timeout: of a call that met the host down at
\* some time, possibly noticed after the host came up again.
Fails(c) ==
    /\ c \in doomed
    /\ Leave(c)
    /\ FailsInHalfOpen \/ FailsElsewhere

-----------------------------------------------------------------------------
(* Time and the host.                                                      *)

\* No call outlives its deadline.
Tick ==
    /\ \A c \in inFlight : age[c] < Deadline
    /\ age' = [c \in Calls |-> IF c \in inFlight THEN age[c] + 1 ELSE 0]
    /\ sinceOpened' = IF state = "open" /\ sinceOpened < HalfOpenAfter
                      THEN sinceOpened + 1 ELSE sinceOpened
    /\ age' # age \/ sinceOpened' # sinceOpened
    /\ UNCHANGED <<state, outcomes, halfOpenInFlight, inFlight, doomed, host>>

Flip ==
    /\ flips < MaxFlips
    /\ flips' = flips + 1
    /\ up' = ~ up
    /\ doomed' = IF up THEN inFlight ELSE doomed
    /\ UNCHANGED <<breaker, inFlight, age>>

-----------------------------------------------------------------------------
Enter(c) == EnterClosed(c) \/ EnterAsProbe(c)
EndCall(c) == Succeeds(c) \/ Fails(c)

BreakerNext ==
    \/ \E c \in Calls : Enter(c) \/ EndCall(c)
    \/ Observe \/ Tick \/ Flip

BreakerSpec == BreakerInit /\ [][BreakerNext]_breakerVars

\* Time passes, a call returns or is cut off, and users keep sending requests.
FairBreakerSpec ==
    /\ BreakerSpec
    /\ WF_breakerVars(Tick)
    /\ WF_breakerVars(\E c \in Calls : Enter(c))
    /\ \A c \in Calls : WF_breakerVars(EndCall(c))

-----------------------------------------------------------------------------
(* Properties.                                                             *)

\* The breaker never waits for a probe that is gone: nothing but the end of a
\* call would clear halfOpenInFlight, and every request would be refused for
\* ever.  It holds also when calls of an earlier state end in half_open.
NeverWedged == halfOpenInFlight => state = "half_open" /\ inFlight # {}

AtMostOneCall == \A c, d \in inFlight : c = d

\* Calls that are younger than the cool-down.
Young == {c \in inFlight : age[c] < HalfOpenAfter}

\* A half-open breaker lets one call through, although observers make the
\* transition too, old calls re-open and close it, and its flag has no owner:
\* what else is under way entered a whole cool-down ago.  With the default
\* settings (timeout 5 s, cool-down 15 s) there is no such call.
ProbeIsAlone ==
    state = "half_open" =>
        /\ \A c, d \in Young : c = d
        /\ Young # {} => halfOpenInFlight

\* An upstream that stays down is cut off, and stays cut off but for probes.
TripsWhenDown == (<>[] ~ up) => <>[](state # "closed")

\* An upstream that stays up is served again, whatever the window holds and
\* however late calls of the outage fail.
RecoversWhenUp == (<>[] up) => <>[](state = "closed")

-----------------------------------------------------------------------------
(* What a comment says of the breaker.                                     *)

\* circuit-breaker.ts, HALF_OPEN: single in-flight probe.
OneProbe == state = "half_open" => AtMostOneCall
==============================================================================
