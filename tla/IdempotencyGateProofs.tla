------------------------ MODULE IdempotencyGateProofs ------------------------
(***************************************************************************)
(* Proofs about IdempotencyGate, for any number of requests and any TTLs.  *)
(***************************************************************************)
EXTENDS IdempotencyGate, TLAPS

\* A handler has an outcome once it has answered, and not before.
OutcomesFollow ==
    \A r \in Requests :
        /\ pc[r] \in {"arriving", "running"} => outcome[r] = "none"
        /\ pc[r] = "persisting" => outcome[r] \in Outcomes

\* A result in the record is a handler's answer.
ResultsAreAnswers ==
    record # NoRecord /\ record.state # "processing" => record.outcome \in Outcomes

\* A handler has been running for no longer than the request timeout.
HandlersAreTimed ==
    \A r \in Requests : pc[r] = "running" => now <= startedAt[r] + RequestTimeout

\* The record of a handler within its TTL is its own, and expires with the TTL.
HandlersOwn ==
    \A r \in Requests : WithinTTL(r) =>
        /\ record # NoRecord
        /\ record.owner = r
        /\ record.expires = startedAt[r] + ProcessingTTL

GateInv ==
    /\ TypeOK
    /\ OutcomesFollow
    /\ ResultsAreAnswers
    /\ HandlersAreTimed
    /\ HandlersOwn
    /\ NewestOwnerKeepsRecord
    /\ ReplaysAreGenuine

-----------------------------------------------------------------------------

\* Before the first request there is no record.
LEMMA InitHolds == Init => GateInv
  BY NoRecordAssumption
     DEF Init, GateInv, TypeOK, OutcomesFollow, ResultsAreAnswers, HandlersAreTimed, HandlersOwn,
         WithinTTL, NewestOwnerKeepsRecord, ReplaysAreGenuine, Answers

\* The record of a handler within its TTL is live, so nobody else can acquire the key.
LEMMA RunningBlocks ==
  ASSUME GateInv, NEW r \in Requests, WithinTTL(r)
  PROVE  ~MayAcquire
  BY DEF GateInv, HandlersOwn, WithinTTL, MayAcquire, Live

\* A new processing record is well typed, and its request's.
LEMMA ProcessingRecordType ==
  ASSUME TypeOK, NEW r \in Requests
  PROVE  /\ ProcessingRecord(r) \in Record
         /\ ProcessingRecord(r) # NoRecord
         /\ ProcessingRecord(r).owner = r
         /\ ProcessingRecord(r).print = print[r]
         /\ ProcessingRecord(r).state = "processing"
         /\ ProcessingRecord(r).expires = now + ProcessingTTL
<1>1. now + ProcessingTTL \in Nat
  BY TimesAssumption DEF TypeOK
<1>2. ProcessingRecord(r) \in Record
  BY <1>1 DEF ProcessingRecord, Record, TypeOK
<1> QED BY <1>2, NoRecordAssumption DEF ProcessingRecord

\* Begin acquires the key only when no running handler needs it.
LEMMA BeginAcquiresKeeps ==
  ASSUME GateInv, NEW r \in Requests, BeginAcquires(r) PROVE GateInv'
<1> USE DEF GateInv
<1>1. /\ pc[r] = "arriving" /\ MayAcquire
      /\ record' = ProcessingRecord(r) /\ latest' = {r}
      /\ pc' = [pc EXCEPT ![r] = "running"]
      /\ startedAt' = [startedAt EXCEPT ![r] = now]
      /\ UNCHANGED <<print, outcome, answer, now>>
  BY DEF BeginAcquires
<1>2. TypeOK'
  BY <1>1, ProcessingRecordType DEF TypeOK
<1>3. OutcomesFollow' /\ ReplaysAreGenuine'
  BY <1>1 DEF OutcomesFollow, ReplaysAreGenuine, TypeOK
<1>4. ResultsAreAnswers' /\ NewestOwnerKeepsRecord'
  BY <1>1, ProcessingRecordType DEF ResultsAreAnswers, NewestOwnerKeepsRecord
<1>5. HandlersAreTimed'
  BY <1>1, TimesAssumption DEF HandlersAreTimed, TypeOK
<1>6. HandlersOwn'
  <2> SUFFICES ASSUME NEW q \in Requests, WithinTTL(q)'
               PROVE  record' # NoRecord /\ record'.owner = q
                      /\ record'.expires = startedAt'[q] + ProcessingTTL
    BY DEF HandlersOwn
  <2>1. q = r
    BY <1>1, RunningBlocks DEF WithinTTL, TypeOK
  <2> QED BY <1>1, <2>1, ProcessingRecordType DEF TypeOK
<1> QED BY <1>2, <1>3, <1>4, <1>5, <1>6

\* A refused request leaves the record alone; a replay comes out of it.
LEMMA BeginRefusesKeeps ==
  ASSUME GateInv, NEW r \in Requests, BeginRefuses(r) PROVE GateInv'
<1> USE DEF GateInv
<1>1. /\ pc[r] = "arriving" /\ pc' = [pc EXCEPT ![r] = "done"]
      /\ UNCHANGED <<print, startedAt, outcome, now, record, latest>>
  BY DEF BeginRefuses, Answered
<1>2. record # NoRecord /\ record \in Record
  BY DEF BeginRefuses, MayAcquire, Live, TypeOK
<1>3. PICK a \in Answers :
        /\ answer' = [answer EXCEPT ![r] = a]
        /\ a.kind = "replayed" =>
            /\ print[a.by] = print[r]
            /\ outcome[a.by] = a.outcome
  <2>1. CASE ~SameRequest(r)
    <3> DEFINE a == [kind |-> "conflict"]
    <3>1. answer' = [answer EXCEPT ![r] = a]
      BY <2>1 DEF BeginRefuses, Answered
    <3>2. a \in Answers /\ a.kind # "replayed"
      BY DEF Answers
    <3> HIDE DEF a
    <3> QED BY <3>1, <3>2
  <2>2. CASE SameRequest(r) /\ record.state = "processing"
    <3> DEFINE a == [kind |-> "in_progress"]
    <3>1. answer' = [answer EXCEPT ![r] = a]
      BY <2>2 DEF BeginRefuses, Answered
    <3>2. a \in Answers /\ a.kind # "replayed"
      BY DEF Answers
    <3> HIDE DEF a
    <3> QED BY <3>1, <3>2
  <2>3. CASE SameRequest(r) /\ record.state # "processing"
    <3> DEFINE a == [kind |-> "replayed", by |-> record.owner, outcome |-> record.outcome]
    <3>1. answer' = [answer EXCEPT ![r] = a]
      BY <2>3 DEF BeginRefuses, Answered
    <3>2. record.outcome \in Outcomes /\ record.owner \in Requests
      BY <1>2, <2>3 DEF ResultsAreAnswers, Record
    <3>3. a \in Answers
      BY <3>2 DEF Answers
    <3>4. print[a.by] = print[r] /\ outcome[a.by] = a.outcome
      BY <1>2, <2>3 DEF NewestOwnerKeepsRecord, SameRequest
    <3> QED BY <3>1, <3>3, <3>4
  <2> QED BY <2>1, <2>2, <2>3
<1>4. TypeOK'
  BY <1>1, <1>3 DEF TypeOK
<1>5. ReplaysAreGenuine'
  BY <1>1, <1>3 DEF ReplaysAreGenuine, TypeOK
<1>6. (OutcomesFollow /\ HandlersAreTimed /\ HandlersOwn)'
  BY <1>1 DEF OutcomesFollow, HandlersAreTimed, HandlersOwn, WithinTTL, TypeOK
<1>7. ResultsAreAnswers' /\ NewestOwnerKeepsRecord'
  BY <1>1 DEF ResultsAreAnswers, NewestOwnerKeepsRecord
<1> QED BY <1>4, <1>5, <1>6, <1>7

\* A Begin that fails may have acquired the key all the same.
LEMMA BeginFailsKeeps ==
  ASSUME GateInv, NEW r \in Requests, BeginFails(r) PROVE GateInv'
<1> USE DEF GateInv
<1>1. /\ pc[r] = "arriving" /\ pc' = [pc EXCEPT ![r] = "done"]
      /\ answer' = [answer EXCEPT ![r] = [kind |-> "unavailable"]]
      /\ UNCHANGED <<print, startedAt, outcome, now>>
  BY DEF BeginFails, Answered
<1>2. \/ UNCHANGED <<record, latest>>
      \/ MayAcquire /\ record' = ProcessingRecord(r) /\ latest' = {r}
  BY DEF BeginFails
<1>3. [kind |-> "unavailable"] \in Answers
  BY DEF Answers
<1>4. TypeOK'
  BY <1>1, <1>2, <1>3, ProcessingRecordType DEF TypeOK
<1>5. (OutcomesFollow /\ HandlersAreTimed)'
  BY <1>1 DEF OutcomesFollow, HandlersAreTimed, TypeOK
<1>6. ReplaysAreGenuine'
  BY <1>1 DEF ReplaysAreGenuine, TypeOK
<1>7. ResultsAreAnswers' /\ NewestOwnerKeepsRecord'
  BY <1>1, <1>2, ProcessingRecordType DEF ResultsAreAnswers, NewestOwnerKeepsRecord
<1>8. HandlersOwn'
  <2> SUFFICES ASSUME NEW q \in Requests, WithinTTL(q)'
               PROVE  record' # NoRecord /\ record'.owner = q
                      /\ record'.expires = startedAt'[q] + ProcessingTTL
    BY DEF HandlersOwn
  <2>1. WithinTTL(q)
    BY <1>1 DEF WithinTTL, TypeOK
  <2>2. ~MayAcquire
    BY <2>1, RunningBlocks
  <2> QED BY <1>1, <1>2, <2>1, <2>2 DEF HandlersOwn
<1> QED BY <1>4, <1>5, <1>6, <1>7, <1>8

\* The outcome of a handler is set once, before anything can be replayed from it.
LEMMA HandlerAnswersKeeps ==
  ASSUME GateInv, NEW r \in Requests, HandlerAnswers(r) PROVE GateInv'
<1> USE DEF GateInv
<1>1. /\ pc[r] = "running" /\ pc' = [pc EXCEPT ![r] = "persisting"]
      /\ UNCHANGED <<record, print, startedAt, latest, now>>
  BY DEF HandlerAnswers
<1>2. PICK o \in Outcomes :
        /\ outcome' = [outcome EXCEPT ![r] = o]
        /\ answer' = [answer EXCEPT ![r] = [kind |-> "executed", by |-> r, outcome |-> o]]
  BY DEF HandlerAnswers
<1>3. [kind |-> "executed", by |-> r, outcome |-> o] \in Answers
  BY DEF Answers
<1>4. TypeOK'
  BY <1>1, <1>2, <1>3 DEF TypeOK
<1>5. outcome[r] = "none" /\ "none" \notin Outcomes
  BY <1>1 DEF OutcomesFollow, Outcomes
<1>6. ReplaysAreGenuine'
  <2> SUFFICES ASSUME NEW q \in Requests, answer'[q].kind = "replayed"
               PROVE  /\ print'[answer'[q].by] = print'[q]
                      /\ outcome'[answer'[q].by] = answer'[q].outcome
    BY DEF ReplaysAreGenuine
  <2>1. q # r
    BY <1>2 DEF TypeOK
  <2>2. answer'[q] = answer[q]
    BY <1>2, <2>1 DEF TypeOK
  <2>3. print[answer[q].by] = print[q] /\ outcome[answer[q].by] = answer[q].outcome
    BY <2>2 DEF ReplaysAreGenuine
  <2>4. answer[q].by \in Requests /\ answer[q].outcome \in Outcomes
    BY <2>2 DEF TypeOK, Answers
  <2>5. answer[q].by # r
    BY <1>5, <2>3, <2>4
  <2> QED BY <1>1, <1>2, <2>2, <2>3, <2>4, <2>5 DEF TypeOK
<1>7. NewestOwnerKeepsRecord'
  <2>1. record # NoRecord /\ record.state # "processing" => record.owner # r
    BY <1>5 DEF NewestOwnerKeepsRecord, ResultsAreAnswers
  <2>2. record # NoRecord => record.owner \in Requests
    BY DEF TypeOK, Record
  <2> QED BY <1>1, <1>2, <2>1, <2>2 DEF NewestOwnerKeepsRecord, TypeOK
<1>8. (OutcomesFollow /\ HandlersAreTimed /\ HandlersOwn)'
  BY <1>1, <1>2 DEF OutcomesFollow, HandlersAreTimed, HandlersOwn, WithinTTL, TypeOK
<1>9. ResultsAreAnswers'
  BY <1>1 DEF ResultsAreAnswers
<1> QED BY <1>4, <1>6, <1>7, <1>8, <1>9

\* Only the owner of the record writes its result there.
LEMMA PersistKeeps ==
  ASSUME GateInv, NEW r \in Requests, Persist(r) PROVE GateInv'
<1> USE DEF GateInv
<1>1. /\ pc[r] = "persisting" /\ pc' = [pc EXCEPT ![r] = "done"]
      /\ record # NoRecord /\ record.owner = r /\ record' = ResultRecord(r)
      /\ UNCHANGED <<print, startedAt, outcome, answer, latest, now>>
  BY DEF Persist, OwnsRecord, Live
<1>2. record \in Record
  BY <1>1 DEF TypeOK
<1>3. now + ResultTTL \in Nat /\ now + FailureTTL \in Nat
  BY TimesAssumption DEF TypeOK
<1>4. /\ record' \in Record /\ record'.owner = r /\ record'.print = record.print
      /\ record'.outcome \in Outcomes /\ record'.state # "processing"
      /\ outcome[r] = "ok" => record'.outcome = "ok"
      /\ outcome[r] # "ok" => record'.outcome = "error"
  BY <1>1, <1>2, <1>3 DEF ResultRecord, Record, Outcomes
<1>5. record'.outcome = outcome[r]
  BY <1>1, <1>4 DEF OutcomesFollow, Outcomes
<1>6. TypeOK'
  BY <1>1, <1>4 DEF TypeOK
<1>7. NewestOwnerKeepsRecord'
  BY <1>1, <1>4, <1>5 DEF NewestOwnerKeepsRecord
<1>8. ResultsAreAnswers'
  BY <1>4 DEF ResultsAreAnswers
<1>9. (OutcomesFollow /\ HandlersAreTimed)'
  BY <1>1 DEF OutcomesFollow, HandlersAreTimed, TypeOK
<1>10. HandlersOwn'
  BY <1>1, <1>4 DEF HandlersOwn, WithinTTL, TypeOK
<1>11. ReplaysAreGenuine'
  BY <1>1 DEF ReplaysAreGenuine
<1> QED BY <1>6, <1>7, <1>8, <1>9, <1>10, <1>11

\* A request that keeps nothing changes nothing but its own state.
LEMMA NotPersistedKeeps ==
  ASSUME GateInv, NEW r \in Requests, NotPersisted(r) PROVE GateInv'
<1> USE DEF GateInv
<1>1. /\ pc' = [pc EXCEPT ![r] = "done"]
      /\ UNCHANGED <<record, print, startedAt, outcome, answer, latest, now>>
  BY DEF NotPersisted
<1>2. TypeOK'
  BY <1>1 DEF TypeOK
<1>3. (OutcomesFollow /\ HandlersAreTimed /\ HandlersOwn)'
  BY <1>1 DEF OutcomesFollow, HandlersAreTimed, HandlersOwn, WithinTTL, TypeOK
<1>4. (ResultsAreAnswers /\ NewestOwnerKeepsRecord /\ ReplaysAreGenuine)'
  BY <1>1 DEF ResultsAreAnswers, NewestOwnerKeepsRecord, ReplaysAreGenuine
<1> QED BY <1>2, <1>3, <1>4

\* Time stops for a handler that has reached its timeout.
LEMMA TickKeeps ==
  ASSUME GateInv, Tick PROVE GateInv'
<1> USE DEF GateInv
<1>1. now' = now + 1 /\ UNCHANGED <<record, print, pc, startedAt, outcome, answer, latest>>
  BY DEF Tick
<1>2. TypeOK'
  BY <1>1 DEF TypeOK
<1>3. HandlersAreTimed'
  BY <1>1, TimesAssumption DEF HandlersAreTimed, Tick, TypeOK
<1>4. (OutcomesFollow /\ HandlersOwn)'
  BY <1>1, TimesAssumption DEF OutcomesFollow, HandlersOwn, WithinTTL, TypeOK
<1>5. (ResultsAreAnswers /\ NewestOwnerKeepsRecord /\ ReplaysAreGenuine)'
  BY <1>1 DEF ResultsAreAnswers, NewestOwnerKeepsRecord, ReplaysAreGenuine
<1> QED BY <1>2, <1>3, <1>4, <1>5

\* Every step keeps the invariant.
LEMMA StepKeeps == GateInv /\ [Next]_vars => GateInv'
<1> SUFFICES ASSUME GateInv, [Next]_vars PROVE GateInv'
  OBVIOUS
<1>1. CASE UNCHANGED vars
  BY <1>1 DEF vars, GateInv, TypeOK, OutcomesFollow, ResultsAreAnswers, HandlersAreTimed,
              HandlersOwn, WithinTTL, NewestOwnerKeepsRecord, ReplaysAreGenuine
<1>2. CASE Next
  BY <1>2, BeginAcquiresKeeps, BeginRefusesKeeps, BeginFailsKeeps, HandlerAnswersKeeps,
     PersistKeeps, NotPersistedKeeps, TickKeeps DEF Next
<1> QED BY <1>1, <1>2

\* The inductive invariant of the gate.
THEOREM GateInvariant == Spec => []GateInv
  BY InitHolds, StepKeeps, PTL DEF Spec

\* A replayed answer was given by a handler to the same request.
THEOREM ReplaysStayGenuine == Spec => []ReplaysAreGenuine
<1>1. GateInv => ReplaysAreGenuine
  BY DEF GateInv
<1> QED BY <1>1, GateInvariant, PTL

\* An expired request never writes over the record of a newer one.
THEOREM NewestOwnerKeeps == Spec => []NewestOwnerKeepsRecord
<1>1. GateInv => NewestOwnerKeepsRecord
  BY DEF GateInv
<1> QED BY <1>1, GateInvariant, PTL

\* Two handlers of one key run at once only when one has outlived the TTL.
THEOREM HandlersExclude == Spec => []OneHandlerPerKey
<1>1. GateInv => OneHandlerPerKey
  BY DEF GateInv, HandlersOwn, OneHandlerPerKey
<1> QED BY <1>1, GateInvariant, PTL

\* With a request timeout below the processing TTL (http.request_timeout,
\* idempotency.processing_ttl), no two handlers of one key ever run at once.
THEOREM TimeoutBelowTTLExcludes ==
  ASSUME RequestTimeout < ProcessingTTL
  PROVE  Spec => [](\A q, r \in Requests : pc[q] = "running" /\ pc[r] = "running" => q = r)
<1>1. GateInv => \A q, r \in Requests : pc[q] = "running" /\ pc[r] = "running" => q = r
  <2> SUFFICES ASSUME GateInv, NEW q \in Requests, NEW r \in Requests,
                      pc[q] = "running", pc[r] = "running"
               PROVE  q = r
    OBVIOUS
  <2>1. WithinTTL(q) /\ WithinTTL(r)
    BY TimesAssumption DEF GateInv, HandlersAreTimed, WithinTTL, TypeOK
  <2> QED BY <2>1 DEF GateInv, HandlersOwn
<1> QED BY <1>1, GateInvariant, PTL

=============================================================================
