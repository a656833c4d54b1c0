---------------------------- MODULE IdempotencyGate ----------------------------
(***************************************************************************)
(* internal/transport/http/middleware.go: IdempotencyExecution, the        *)
(* middleware that runs the handler of a POST once per Idempotency-Key,    *)
(* around the manager of microservice-platform-go (internal/idempotency),  *)
(* which keeps one expiring record per key in Redis.  The module is about  *)
(* the requests of all replicas that carry one key.                        *)
(*                                                                         *)
(* The manager is a library: Begin, Complete and Fail are modelled by how  *)
(* the middleware uses them and by README.md:226, "The Redis state         *)
(* transition uses Lua plus an owner token".  Each is one atomic step.  A  *)
(* request is its own owner token.                                         *)
(***************************************************************************)
EXTENDS Naturals

CONSTANTS
    Requests,       \* requests with this key, in all replicas
    Fingerprints,   \* hashes of subject, method, path and body
    NoRecord,       \* Redis has no record of the key
    ProcessingTTL,  \* idempotency.processing_ttl
    ResultTTL,      \* idempotency.result_ttl
    FailureTTL,     \* idempotency.failure_ttl
    RequestTimeout, \* http.request_timeout
    MaxTime         \* bound: the clock stops here

ASSUME TimesAssumption ==
    /\ ProcessingTTL \in Nat \ {0} /\ ResultTTL \in Nat \ {0} /\ FailureTTL \in Nat \ {0}
    /\ RequestTimeout \in Nat \ {0} /\ MaxTime \in Nat

VARIABLES
    record,         \* the record of the key
    print,          \* the fingerprint of each request
    pc,             \* where each request is
    startedAt,      \* when its handler started
    outcome,        \* what its handler answered
    answer,         \* what its client was answered, and by whose handler
    latest,         \* history: the request that acquired the key last, if any
    now

vars == <<record, print, pc, startedAt, outcome, answer, latest, now>>

-----------------------------------------------------------------------------

Outcomes == {"ok", "error"}

Record ==
    [state: {"processing", "completed", "failed"}, owner: Requests, print: Fingerprints,
     outcome: Outcomes \cup {"none"}, expires: Nat]

Answers ==
    [kind: {"none", "in_progress", "conflict", "unavailable"}]
        \cup [kind: {"executed", "replayed"}, by: Requests, outcome: Outcomes]

ASSUME NoRecordAssumption == NoRecord \notin Record

TypeOK ==
    /\ record \in Record \cup {NoRecord}
    /\ print \in [Requests -> Fingerprints]
    /\ pc \in [Requests -> {"arriving", "running", "persisting", "done"}]
    /\ startedAt \in [Requests -> Nat]
    /\ outcome \in [Requests -> Outcomes \cup {"none"}]
    /\ answer \in [Requests -> Answers]
    /\ latest \in SUBSET Requests
    /\ now \in Nat

Init ==
    /\ record = NoRecord
    /\ print \in [Requests -> Fingerprints]
    /\ pc = [r \in Requests |-> "arriving"]
    /\ startedAt = [r \in Requests |-> 0]
    /\ outcome = [r \in Requests |-> "none"]
    /\ answer = [r \in Requests |-> [kind |-> "none"]]
    /\ latest = {}
    /\ now = 0

-----------------------------------------------------------------------------
(* Begin *)

\* Redis drops the record when its TTL has passed.
Live == record # NoRecord /\ now < record.expires

MayAcquire == ~Live

ProcessingRecord_NoTTL(r) ==
    [state |-> "processing", owner |-> r, print |-> print[r], outcome |-> "none",
     expires |-> MaxTime + 1]

ProcessingRecord(r) ==
    [state |-> "processing", owner |-> r, print |-> print[r], outcome |-> "none",
     expires |-> now + ProcessingTTL]

\* StateAcquired: the handler runs.
BeginAcquires(r) ==
    /\ pc[r] = "arriving"
    /\ MayAcquire
    /\ record' = ProcessingRecord(r)
    /\ latest' = {r}
    /\ pc' = [pc EXCEPT ![r] = "running"]
    /\ startedAt' = [startedAt EXCEPT ![r] = now]
    /\ UNCHANGED <<print, outcome, answer, now>>

SameRequest_Always(r) == TRUE

SameRequest(r) == record.print = print[r]

\* The request ends with an answer and its handler does not run.
Answered(r, a) ==
    /\ pc[r] = "arriving"
    /\ pc' = [pc EXCEPT ![r] = "done"]
    /\ answer' = [answer EXCEPT ![r] = a]
    /\ UNCHANGED <<print, startedAt, outcome, now>>

BeginRefuses_FallsThrough(r) ==
    /\ pc[r] = "arriving"
    /\ ~MayAcquire /\ SameRequest(r) /\ record.state = "processing"
    /\ pc' = [pc EXCEPT ![r] = "running"]
    /\ startedAt' = [startedAt EXCEPT ![r] = now]
    /\ UNCHANGED <<record, print, outcome, answer, latest, now>>

\* StateConflict, StateProcessing, StateCompleted and StateFailed.
BeginRefuses(r) ==
    /\ ~MayAcquire
    /\ Answered(r,
        IF ~SameRequest(r) THEN [kind |-> "conflict"]
        ELSE IF record.state = "processing" THEN [kind |-> "in_progress"]
        ELSE [kind |-> "replayed", by |-> record.owner, outcome |-> record.outcome])
    /\ UNCHANGED <<record, latest>>

\* Begin returns an error.  The script may have run although its answer was lost.
BeginFails(r) ==
    /\ Answered(r, [kind |-> "unavailable"])
    /\ \/ UNCHANGED <<record, latest>>
       \/ MayAcquire /\ record' = ProcessingRecord(r) /\ latest' = {r}

-----------------------------------------------------------------------------
(* The handler, and what is kept of its answer *)

\* The handler answers; the writer passes the answer on to the client at once.
HandlerAnswers(r) ==
    /\ pc[r] = "running"
    /\ \E o \in Outcomes :
        /\ outcome' = [outcome EXCEPT ![r] = o]
        /\ answer' = [answer EXCEPT ![r] = [kind |-> "executed", by |-> r, outcome |-> o]]
    /\ pc' = [pc EXCEPT ![r] = "persisting"]
    /\ UNCHANGED <<record, print, startedAt, latest, now>>

\* Complete and Fail act for the owner of the record only.
OwnsRecord(r) == Live /\ record.owner = r

ResultRecord_Swapped(r) ==
    IF outcome[r] = "ok"
    THEN [record EXCEPT !.state = "failed", !.outcome = "error", !.expires = now + FailureTTL]
    ELSE [record EXCEPT !.state = "completed", !.outcome = "ok", !.expires = now + ResultTTL]

ResultRecord(r) ==
    IF outcome[r] = "ok"
    THEN [record EXCEPT !.state = "completed", !.outcome = "ok", !.expires = now + ResultTTL]
    ELSE [record EXCEPT !.state = "failed", !.outcome = "error", !.expires = now + FailureTTL]

\* Complete or Fail, on a context the request's end does not cancel.
Persist(r) ==
    /\ pc[r] = "persisting"
    /\ OwnsRecord(r)
    /\ record' = ResultRecord(r)
    /\ pc' = [pc EXCEPT ![r] = "done"]
    /\ UNCHANGED <<print, startedAt, outcome, answer, latest, now>>

\* Nothing is kept: the record is no longer owned, Redis fails, the answer is not
\* the unified JSON, the handler panics, or the replica dies.
NotPersisted(r) ==
    /\ pc[r] \in {"running", "persisting"}
    /\ pc' = [pc EXCEPT ![r] = "done"]
    /\ UNCHANGED <<record, print, startedAt, outcome, answer, latest, now>>

\* Time passes; Timeout ends a handler RequestTimeout after it started.
Tick ==
    /\ now < MaxTime
    /\ \A r \in Requests : pc[r] = "running" => now < startedAt[r] + RequestTimeout
    /\ now' = now + 1
    /\ UNCHANGED <<record, print, pc, startedAt, outcome, answer, latest>>

Next ==
    \/ \E r \in Requests :
        \/ BeginAcquires(r) \/ BeginRefuses(r) \/ BeginFails(r)
        \/ HandlerAnswers(r) \/ Persist(r) \/ NotPersisted(r)
    \/ Tick

Spec == Init /\ [][Next]_vars

\* Time passes, and the request timeout ends every handler.
FairSpec ==
    Spec /\ WF_vars(Tick) /\ \A r \in Requests : WF_vars(HandlerAnswers(r) \/ NotPersisted(r))

-----------------------------------------------------------------------------
(* Properties *)

\* A replayed answer is the answer the handler gave to a request with the same
\* subject, path and body: never another caller's, nor a result never produced.
ReplaysAreGenuine ==
    \A r \in Requests : answer[r].kind = "replayed" =>
        /\ print[answer[r].by] = print[r]
        /\ outcome[answer[r].by] = answer[r].outcome

\* README.md:226, "an expired worker cannot overwrite a newer owner": the record is
\* that of the request that acquired the key last, and so is the result in it.
NewestOwnerKeepsRecord ==
    record # NoRecord =>
        /\ latest = {record.owner}
        /\ record.print = print[record.owner]
        /\ record.state # "processing" => record.outcome = outcome[record.owner]

\* The handler of r runs, and has not outlived the TTL of the record it acquired.
WithinTTL(r) == pc[r] = "running" /\ now < startedAt[r] + ProcessingTTL

\* README.md:224, concurrent execution is refused: two handlers of one key run at
\* once only when one of them has outlived the processing TTL, so never with a
\* request timeout below it.
OneHandlerPerKey == \A q, r \in Requests : WithinTTL(q) /\ WithinTTL(r) => q = r

Processing == Live /\ record.state = "processing"

\* A request whose replica died, or whose result could not be kept, does not hold
\* its key for ever.
KeysAreReleased == (Processing /\ now + ProcessingTTL <= MaxTime) ~> ~Processing

=============================================================================
