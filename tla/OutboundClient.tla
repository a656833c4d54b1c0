----------------------------- MODULE OutboundClient -----------------------------
(***************************************************************************)
(* internal/outbound/http.go and internal/grpcclient/client.go: the client *)
(* of one upstream in one replica, a retry loop inside a circuit breaker,  *)
(* shared by its callers.  The two protocols differ in what they repeat    *)
(* and in what they report to the breaker.                                 *)
(*                                                                         *)
(* The breaker is gobreaker's, a library: Admits, Admitted and Reported    *)
(* model it by the settings NewHTTPClient and breakerInterceptor give it   *)
(* (no MaxRequests, so one probe when half open; no Interval, so counts    *)
(* last as long as the state).  The breaker counts a whole retry loop as   *)
(* one call.  A call it rejects changes nothing and is no step.            *)
(***************************************************************************)
EXTENDS Naturals, FiniteSets

CONSTANTS
    Callers,            \* concurrent calls of Do
    NoCall,             \* the caller is not in a call
    MaxAttempts,        \* retry.max_attempts
    FailureThreshold,   \* breaker.failure_threshold
    OpenTimeout,        \* breaker.open_timeout, in clock ticks
    MaxTime             \* bound: the clock stops here

\* validateClientPolicy.
ValidPolicy ==
    MaxAttempts \in 1 .. 5 /\ FailureThreshold \in Nat \ {0} /\ OpenTimeout \in Nat \ {0}

ASSUME PolicyAssumption ==
    /\ ValidPolicy /\ MaxTime \in Nat /\ IsFiniteSet(Callers) /\ Callers # {}

VARIABLES
    protocol,           \* "http" or "grpc", for good
    mode,               \* the state of the breaker
    failures,           \* its ConsecutiveFailures
    probing,            \* whether its one half-open call is in flight
    generation,         \* its generation: one per change of state
    reopensAt,          \* when it becomes half open
    call,               \* per caller: the call in flight
    wasted,             \* history: requests of failed calls since the last success counted
    since,              \* history: the time of that success
    now

vars == <<protocol, mode, failures, probing, generation, reopensAt, call, wasted, since, now>>

Call ==
    [repeatable: BOOLEAN, attempt: 1 .. MaxAttempts, phase: {"sending", "waiting"},
     generation: Nat, requests: 0 .. MaxAttempts]

ASSUME NoCallAssumption == NoCall \notin Call

TypeOK ==
    /\ protocol \in {"http", "grpc"}
    /\ mode \in {"closed", "open", "half_open"}
    /\ failures \in Nat /\ probing \in BOOLEAN /\ generation \in Nat /\ reopensAt \in Nat
    /\ call \in [Callers -> Call \cup {NoCall}]
    /\ wasted \in Nat /\ since \in Nat /\ now \in Nat

Init ==
    /\ protocol \in {"http", "grpc"}
    /\ mode = "closed" /\ failures = 0 /\ probing = FALSE /\ generation = 0 /\ reopensAt = 0
    /\ call = [c \in Callers |-> NoCall]
    /\ wasted = 0 /\ since = 0 /\ now = 0

-----------------------------------------------------------------------------
(* The breaker *)

\* An open breaker whose timeout has passed is half open to the next call.
HalfOpens == mode = "open" /\ now > reopensAt

Admits == mode = "closed" \/ HalfOpens \/ (mode = "half_open" /\ ~probing)

CurrentGeneration == IF HalfOpens THEN generation + 1 ELSE generation

Admitted ==
    /\ mode' = IF HalfOpens THEN "half_open" ELSE mode
    /\ failures' = IF HalfOpens THEN 0 ELSE failures
    /\ generation' = CurrentGeneration
    /\ probing' = (mode' = "half_open")
    /\ UNCHANGED reopensAt

ReadyToTrip_OneLater(count) == count > FailureThreshold

ReadyToTrip(count) == count >= FailureThreshold

Opens ==
    /\ mode' = "open" /\ reopensAt' = now + OpenTimeout
    /\ failures' = 0 /\ probing' = FALSE /\ generation' = generation + 1

BreakerUnchanged == UNCHANGED <<mode, failures, probing, generation, reopensAt>>

\* A call that is not of this generation, or is excluded, counts as neither.
\* Whether an excluded probe makes room for another is the library's affair.
ReportedNothing(c, excluded) ==
    /\ call[c].generation # CurrentGeneration \/ excluded
    /\ IF call[c].generation = CurrentGeneration
       THEN probing' \in {FALSE, probing} /\ UNCHANGED <<mode, failures, generation, reopensAt>>
       ELSE BreakerUnchanged

ReportedSuccess(c) ==
    /\ call[c].generation = CurrentGeneration
    /\ mode' = "closed" /\ failures' = 0 /\ probing' = FALSE
    /\ generation' = IF mode = "half_open" THEN generation + 1 ELSE generation
    /\ UNCHANGED reopensAt

ReportedFailure(c) ==
    /\ call[c].generation = CurrentGeneration
    /\ IF mode = "half_open" \/ ReadyToTrip(failures + 1) THEN Opens
       ELSE failures' = failures + 1 /\ UNCHANGED <<mode, probing, generation, reopensAt>>

-----------------------------------------------------------------------------
(* execute and doWithRetry *)

Attempts_Always(repeatable) == MaxAttempts

\* GET, HEAD, OPTIONS, PUT and DELETE, or the configured gRPC methods, and whatever
\* carries an idempotency key, may be repeated.
Repeatable(safe, keyed) == safe \/ keyed

Attempts(repeatable) == IF repeatable THEN MaxAttempts ELSE 1

CallBegins(c) ==
    /\ call[c] = NoCall
    /\ Admits
    /\ Admitted
    /\ \E safe, keyed \in BOOLEAN :
        call' = [call EXCEPT ![c] =
            [repeatable |-> Repeatable(safe, keyed), attempt |-> 1, phase |-> "sending",
             generation |-> CurrentGeneration, requests |-> 0]]
    /\ UNCHANGED <<wasted, since, now>>

CallEnds(c) == call' = [call EXCEPT ![c] = NoCall]

\* An answer with an HTTP status that is not retryable, or with the gRPC code OK
\* where the library takes an absent error for a success without asking IsExcluded.
AttemptSucceeds(c) ==
    /\ call[c] # NoCall /\ call[c].phase = "sending"
    /\ \/ ReportedSuccess(c) /\ wasted' = 0 /\ since' = now
       \/ ReportedNothing(c, FALSE) /\ UNCHANGED <<wasted, since>>
    /\ CallEnds(c)
    /\ UNCHANGED now

LastAttempt(c) == call[c].attempt = Attempts(call[c].repeatable)

\* An answer 429, 502, 503 or 504, or an error; the code Unavailable or
\* ResourceExhausted.  The request may have been served.
AttemptFails(c) ==
    /\ call[c] # NoCall /\ call[c].phase = "sending" /\ ~LastAttempt(c)
    /\ call' = [call EXCEPT ![c].phase = "waiting", ![c].requests = @ + 1]
    /\ UNCHANGED <<mode, failures, probing, generation, reopensAt, wasted, since, now>>

\* waitBackoff returns at the timer, and the loop goes round.
BackoffEnds(c) ==
    /\ call[c] # NoCall /\ call[c].phase = "waiting"
    /\ call' = [call EXCEPT ![c].phase = "sending", ![c].attempt = @ + 1]
    /\ UNCHANGED <<mode, failures, probing, generation, reopensAt, wasted, since, now>>

CallFails(c, requests) ==
    /\ ReportedFailure(c) \/ ReportedNothing(c, FALSE)
    /\ wasted' = wasted + requests
    /\ CallEnds(c)
    /\ UNCHANGED <<since, now>>

\* The path is not relative: an error before any request, a failure all the same.
PathRefused(c) ==
    /\ protocol = "http" /\ call[c] # NoCall /\ call[c].phase = "sending" /\ call[c].attempt = 1
    /\ CallFails(c, 0)

\* The last attempt fails: its status goes to the caller as an answer, its error
\* as an error; to the breaker both are failures.
LastAttemptFails(c) ==
    /\ call[c] # NoCall /\ call[c].phase = "sending" /\ LastAttempt(c)
    /\ CallFails(c, call[c].requests + 1)

\* waitBackoff returns the error of a context whose deadline has passed.
DeadlinePasses(c) ==
    /\ protocol = "http" /\ call[c] # NoCall /\ call[c].phase = "waiting"
    /\ CallFails(c, call[c].requests)

\* The code DeadlineExceeded is not retried, and is a failure to the breaker.
DeadlineExceeded(c) ==
    /\ protocol = "grpc" /\ call[c] # NoCall /\ call[c].phase = "sending"
    /\ CallFails(c, call[c].requests + 1)

\* IsExcluded: an answer with any other code, OK included where the library asks.
AnswerExcluded(c) ==
    /\ protocol = "grpc" /\ call[c] # NoCall /\ call[c].phase = "sending"
    /\ ReportedNothing(c, TRUE)
    /\ CallEnds(c)
    /\ UNCHANGED <<wasted, since, now>>

\* waitRetry returns the bare error of a context whose deadline has passed: its code is
\* Unknown, which is excluded.
RetryGivesUp(c) ==
    /\ protocol = "grpc" /\ call[c] # NoCall /\ call[c].phase = "waiting"
    /\ ReportedNothing(c, TRUE)
    /\ CallEnds(c)
    /\ UNCHANGED <<wasted, since, now>>

\* The context is cancelled: context.Canceled, and the code Canceled, are excluded.
CallCancelled(c) ==
    /\ call[c] # NoCall
    /\ ReportedNothing(c, TRUE)
    /\ CallEnds(c)
    /\ UNCHANGED <<wasted, since, now>>

Tick ==
    /\ now < MaxTime
    /\ now' = now + 1
    /\ UNCHANGED <<mode, failures, probing, generation, reopensAt, call, wasted, since>>

Next ==
    /\ UNCHANGED protocol
    /\ \/ \E c \in Callers :
            \/ CallBegins(c) \/ AttemptSucceeds(c) \/ AttemptFails(c) \/ BackoffEnds(c)
            \/ PathRefused(c) \/ LastAttemptFails(c) \/ DeadlinePasses(c)
            \/ DeadlineExceeded(c) \/ AnswerExcluded(c) \/ RetryGivesUp(c)
            \/ CallCancelled(c)
       \/ Tick

Spec == Init /\ [][Next]_vars

-----------------------------------------------------------------------------
(* Properties *)

\* What Dispatcher takes for granted: a POST, or an RPC, without an idempotency key
\* is made once, so an attempt at a delivery gives the provider at most one message.
UnsafeCallsAreMadeOnce ==
    \A c \in Callers : call[c] # NoCall /\ ~call[c].repeatable =>
        call[c].attempt = 1 /\ call[c].requests = 0 /\ call[c].phase = "sending"

\* Retries never defeat the breaker: between two successes the failed calls of a
\* replica cost a failing upstream no more requests than the calls that trip the
\* breaker, those in flight beside them, those left over from before the last
\* success, and one call per open_timeout.  Calls the breaker excludes are not in
\* the count: cancelled ones, and gRPC calls that time out while they back off.
LoadIsBounded ==
    wasted <= MaxAttempts *
        (FailureThreshold + 2 * (Cardinality(Callers) - 1) + (now - since) \div OpenTimeout)

=============================================================================
