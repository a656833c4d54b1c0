------------------------- MODULE OutboundClientProofs -------------------------
(***************************************************************************)
(* Proofs about OutboundClient, for any callers, thresholds and timeouts:  *)
(* what may be repeated, and what a failing upstream is spared.            *)
(***************************************************************************)
EXTENDS OutboundClient, Integers, FiniteSetTheorems, TLAPS

-----------------------------------------------------------------------------
(* Steps *)

\* The retry loop goes on: nobody else sees it.
Progresses(c) ==
    /\ AttemptFails(c) \/ BackoffEnds(c)
    /\ UNCHANGED <<mode, failures, probing, generation, reopensAt, wasted, since, now>>

Succeeds(c) ==
    /\ call[c] # NoCall /\ ReportedSuccess(c) /\ CallEnds(c)
    /\ wasted' = 0 /\ since' = now /\ UNCHANGED now

\* The call ends, and counts for nothing.
Dropped(c) ==
    /\ call[c] # NoCall /\ CallEnds(c) /\ UNCHANGED <<wasted, since, now>>
    /\ \E excluded \in BOOLEAN : ReportedNothing(c, excluded)

Fails(c) == call[c] # NoCall /\ \E cost \in 0 .. MaxAttempts : CallFails(c, cost)

\* The attempts and requests of a call agree with what may be repeated.
CallSound(x) ==
    /\ x.generation <= generation /\ x.attempt <= Attempts(x.repeatable)
    /\ x.phase = "sending" => x.requests = x.attempt - 1
    /\ x.phase = "waiting" => x.requests = x.attempt /\ x.attempt < Attempts(x.repeatable)

CallsSound == \A c \in Callers : call[c] # NoCall => CallSound(call[c])

LEMMA PolicyFacts ==
  /\ MaxAttempts \in Nat /\ MaxAttempts \in 1 .. 5 /\ FailureThreshold \in Nat \ {0}
  /\ OpenTimeout \in Nat \ {0}
  /\ \A b \in BOOLEAN : Attempts(b) \in 1 .. MaxAttempts
  /\ Attempts(FALSE) = 1
  BY PolicyAssumption DEF ValidPolicy, Attempts

LEMMA Calling ==
  ASSUME TypeOK, CallsSound, NEW c \in Callers, call[c] # NoCall
  PROVE  call[c] \in Call /\ CallSound(call[c])
  BY DEF TypeOK, CallsSound

LEMMA FailsCost ==
  ASSUME TypeOK, CallsSound, NEW c \in Callers,
         PathRefused(c) \/ LastAttemptFails(c) \/ DeadlinePasses(c) \/ DeadlineExceeded(c)
  PROVE  Fails(c)
<1>1. call[c] # NoCall
  BY DEF PathRefused, LastAttemptFails, DeadlinePasses, DeadlineExceeded
<1>2. /\ call[c].attempt \in 1 .. MaxAttempts /\ call[c].requests \in 0 .. MaxAttempts
      /\ call[c].phase = "sending" => call[c].requests = call[c].attempt - 1
  BY <1>1, Calling DEF Call, CallSound
<1>3. \/ CallFails(c, 0) \/ CallFails(c, call[c].requests)
      \/ CallFails(c, call[c].requests + 1) /\ call[c].phase = "sending"
  BY DEF PathRefused, LastAttemptFails, DeadlinePasses, DeadlineExceeded
<1>4. 0 \in 0 .. MaxAttempts
      /\ (call[c].phase = "sending" => call[c].requests + 1 \in 0 .. MaxAttempts)
  BY <1>2, PolicyFacts
<1> QED BY <1>1, <1>2, <1>3, <1>4 DEF Fails

LEMMA EveryStep ==
  ASSUME TypeOK, CallsSound, [Next]_vars
  PROVE  /\ UNCHANGED protocol
         /\ \/ UNCHANGED vars \/ Tick
            \/ \E c \in Callers :
                 CallBegins(c) \/ Progresses(c) \/ Succeeds(c) \/ Dropped(c) \/ Fails(c)
<1>1. CASE UNCHANGED vars
  BY <1>1 DEF vars
<1>2. ASSUME NEW c \in Callers, AttemptSucceeds(c) PROVE Succeeds(c) \/ Dropped(c)
  BY <1>2 DEF AttemptSucceeds, Succeeds, Dropped
<1>3. ASSUME NEW c \in Callers, AttemptFails(c) \/ BackoffEnds(c) PROVE Progresses(c)
  BY <1>3 DEF AttemptFails, BackoffEnds, Progresses
<1>4. ASSUME NEW c \in Callers, AnswerExcluded(c) \/ RetryGivesUp(c) \/ CallCancelled(c)
      PROVE  Dropped(c)
  BY <1>4 DEF AnswerExcluded, RetryGivesUp, CallCancelled, Dropped
<1> QED BY <1>1, <1>2, <1>3, <1>4, FailsCost DEF Next

-----------------------------------------------------------------------------
(* Calls *)

\* The same call, one attempt or one pause later.
Continues(x, y) ==
    /\ y.generation = x.generation /\ y.attempt <= Attempts(y.repeatable)
    /\ y.phase = "sending" => y.requests = y.attempt - 1
    /\ y.phase = "waiting" => y.requests = y.attempt /\ y.attempt < Attempts(y.repeatable)

LEMMA ProgressOf ==
  ASSUME TypeOK, CallsSound, NEW c \in Callers, Progresses(c)
  PROVE  \E y \in Call : call' = [call EXCEPT ![c] = y] /\ Continues(call[c], y)
<1> DEFINE x == call[c]
<1>1. x # NoCall /\ x \in Call /\ CallSound(x)
  BY Calling DEF Progresses, AttemptFails, BackoffEnds
<1>2. /\ x.attempt \in 1 .. MaxAttempts /\ x.requests \in 0 .. MaxAttempts
      /\ Attempts(x.repeatable) \in 1 .. MaxAttempts
  BY <1>1, PolicyFacts DEF Call
<1>3. CASE AttemptFails(c)
  <2> DEFINE y == [x EXCEPT !.phase = "waiting", !.requests = @ + 1]
  <2>1. /\ x.phase = "sending" /\ x.attempt # Attempts(x.repeatable)
        /\ call' = [call EXCEPT ![c] = y]
    BY <1>3 DEF AttemptFails, LastAttempt
  <2>2. x.requests + 1 = x.attempt /\ x.attempt < Attempts(x.repeatable)
    BY <1>1, <1>2, <2>1 DEF CallSound
  <2>3. x.requests + 1 \in 0 .. MaxAttempts
    BY <1>2, <2>2
  <2>4. /\ y \in Call /\ y.generation = x.generation /\ y.repeatable = x.repeatable
        /\ y.phase = "waiting" /\ y.requests = x.requests + 1 /\ y.attempt = x.attempt
    BY <1>1, <2>3 DEF Call
  <2> HIDE DEF y
  <2> QED BY <1>1, <2>1, <2>2, <2>4 DEF CallSound, Continues
<1>4. CASE BackoffEnds(c)
  <2> DEFINE y == [x EXCEPT !.phase = "sending", !.attempt = @ + 1]
  <2>1. x.phase = "waiting" /\ call' = [call EXCEPT ![c] = y]
    BY <1>4 DEF BackoffEnds
  <2>2. x.requests = x.attempt /\ x.attempt < Attempts(x.repeatable)
    BY <1>1, <2>1 DEF CallSound
  <2>3. /\ x.attempt + 1 \in 1 .. MaxAttempts /\ x.attempt + 1 <= Attempts(x.repeatable)
        /\ x.requests = (x.attempt + 1) - 1
    BY <1>2, <2>2, PolicyFacts
  <2>4. /\ y \in Call /\ y.generation = x.generation /\ y.repeatable = x.repeatable
        /\ y.phase = "sending" /\ y.requests = x.requests /\ y.attempt = x.attempt + 1
    BY <1>1, <2>3 DEF Call
  <2> HIDE DEF y
  <2> QED BY <2>1, <2>3, <2>4 DEF Continues
<1> QED BY <1>3, <1>4 DEF Progresses

LEMMA TypesKept ==
  ASSUME TypeOK, CallsSound, [Next]_vars
  PROVE  TypeOK' /\ CallsSound'
<1>1. CASE UNCHANGED vars \/ Tick
  BY <1>1, EveryStep DEF vars, Tick, TypeOK, CallsSound, CallSound
<1>2. ASSUME NEW c \in Callers, CallEnds(c), generation' \in Nat, generation <= generation'
      PROVE  call' \in [Callers -> Call \cup {NoCall}] /\ CallsSound'
  <2>1. call' \in [Callers -> Call \cup {NoCall}] /\ call'[c] = NoCall
        /\ \A d \in Callers \ {c} : call'[d] = call[d]
    BY <1>2 DEF CallEnds, TypeOK
  <2>2. ASSUME NEW d \in Callers, call'[d] # NoCall PROVE CallSound(call[d])'
    <3>1. call'[d] = call[d] /\ call[d] \in Call /\ CallSound(call[d])
      BY <2>1, <2>2, Calling
    <3>2. call[d].generation \in Nat /\ generation \in Nat
      BY <3>1 DEF Call, TypeOK
    <3> QED BY <1>2, <3>1, <3>2 DEF CallSound
  <2> QED BY <2>1, <2>2 DEF CallsSound
<1>3. ASSUME NEW c \in Callers, Succeeds(c) PROVE TypeOK' /\ CallsSound'
  <2>1. /\ mode' = "closed" /\ failures' = 0 /\ probing' = FALSE /\ reopensAt' = reopensAt
        /\ generation' \in {generation, generation + 1}
        /\ CallEnds(c) /\ wasted' = 0 /\ since' = now /\ now' = now
    BY <1>3 DEF Succeeds, ReportedSuccess
  <2>2. generation' \in Nat /\ generation <= generation'
    BY <2>1 DEF TypeOK
  <2> QED BY <1>2, <2>1, <2>2, EveryStep DEF TypeOK
<1>4. ASSUME NEW c \in Callers, Dropped(c) PROVE TypeOK' /\ CallsSound'
  <2>1. /\ UNCHANGED <<mode, failures, generation, reopensAt, wasted, since, now>>
        /\ probing' = probing \/ probing' = FALSE
        /\ CallEnds(c)
    BY <1>4 DEF Dropped, ReportedNothing, BreakerUnchanged
  <2>2. generation' \in Nat /\ generation <= generation'
    BY <2>1 DEF TypeOK
  <2> QED BY <1>2, <2>1, <2>2, EveryStep DEF TypeOK
<1>5. ASSUME NEW c \in Callers, Fails(c) PROVE TypeOK' /\ CallsSound'
  <2>1. PICK cost \in 0 .. MaxAttempts : CallFails(c, cost)
    BY <1>5 DEF Fails
  <2>2. /\ mode' \in {"open", mode} /\ generation' \in {generation, generation + 1}
        /\ probing' = probing \/ probing' = FALSE
        /\ failures' \in {0, failures, failures + 1} /\ reopensAt' \in {reopensAt, now + OpenTimeout}
    BY <2>1 DEF CallFails, ReportedFailure, ReportedNothing, Opens, BreakerUnchanged
  <2>3. CallEnds(c) /\ wasted' = wasted + cost /\ since' = since /\ now' = now
    BY <2>1 DEF CallFails
  <2>4. /\ generation' \in Nat /\ generation <= generation' /\ failures' \in Nat
        /\ reopensAt' \in Nat /\ wasted' \in Nat
    BY <2>2, <2>3, PolicyFacts DEF TypeOK
  <2> QED BY <1>2, <2>2, <2>3, <2>4, EveryStep DEF TypeOK
<1>6. ASSUME NEW c \in Callers, Progresses(c) PROVE TypeOK' /\ CallsSound'
  <2>1. call[c] # NoCall /\ call[c] \in Call /\ CallSound(call[c])
    BY <1>6, Calling DEF Progresses, AttemptFails, BackoffEnds
  <2>3. UNCHANGED <<mode, failures, probing, generation, reopensAt, wasted, since, now>>
    BY <1>6 DEF Progresses
  <2>4. PICK y \in Call : call' = [call EXCEPT ![c] = y] /\ Continues(call[c], y)
    BY <1>6, ProgressOf
  <2>5. call' \in [Callers -> Call \cup {NoCall}] /\ call'[c] = y
        /\ \A d \in Callers \ {c} : call'[d] = call[d]
    BY <2>4 DEF TypeOK
  <2>6. ASSUME NEW d \in Callers, call'[d] # NoCall PROVE CallSound(call[d])'
    <3>1. CASE d = c
      BY <2>1, <2>3, <2>4, <2>5, <3>1 DEF CallSound, Continues
    <3>2. CASE d # c
      BY <2>3, <2>5, <2>6, <3>2, Calling DEF CallSound
    <3> QED BY <3>1, <3>2
  <2> QED BY <2>3, <2>5, <2>6, EveryStep DEF TypeOK, CallsSound
<1>7. ASSUME NEW c \in Callers, CallBegins(c) PROVE TypeOK' /\ CallsSound'
  <2>1. PICK repeatable \in BOOLEAN :
          call' = [call EXCEPT ![c] =
            [repeatable |-> repeatable, attempt |-> 1, phase |-> "sending",
             generation |-> CurrentGeneration, requests |-> 0]]
    BY <1>7 DEF CallBegins, Repeatable
  <2>2. /\ mode' \in {"half_open", mode} /\ failures' \in {0, failures}
        /\ generation' = CurrentGeneration /\ probing' \in BOOLEAN
        /\ UNCHANGED <<reopensAt, wasted, since, now>>
    BY <1>7 DEF CallBegins, Admitted
  <2>3. generation' \in Nat /\ CurrentGeneration \in Nat /\ generation <= generation'
    BY <2>2 DEF TypeOK, CurrentGeneration
  <2> DEFINE y == [repeatable |-> repeatable, attempt |-> 1, phase |-> "sending",
                   generation |-> CurrentGeneration, requests |-> 0]
  <2>4. y \in Call /\ y.generation = generation' /\ y.attempt = 1 /\ y.requests = 0
        /\ y.phase = "sending" /\ y.repeatable \in BOOLEAN
    BY <2>2, <2>3, PolicyFacts DEF Call
  <2>5. call' = [call EXCEPT ![c] = y]
    BY <2>1
  <2> HIDE DEF y
  <2>6. call' \in [Callers -> Call \cup {NoCall}] /\ call'[c] = y
        /\ \A d \in Callers \ {c} : call'[d] = call[d]
    BY <2>4, <2>5 DEF TypeOK
  <2>7. ASSUME NEW d \in Callers, call'[d] # NoCall PROVE CallSound(call[d])'
    <3>1. CASE d = c
      BY <2>3, <2>4, <2>6, <3>1, PolicyFacts DEF CallSound
    <3>2. CASE d # c
      <4>1. call'[d] = call[d] /\ call[d] \in Call /\ CallSound(call[d])
        BY <2>6, <2>7, <3>2, Calling
      <4>2. call[d].generation \in Nat /\ generation \in Nat
        BY <4>1 DEF Call, TypeOK
      <4> QED BY <2>3, <4>1, <4>2 DEF CallSound
    <3> QED BY <3>1, <3>2
  <2> QED BY <2>2, <2>3, <2>6, <2>7, EveryStep DEF TypeOK, CallsSound
<1> QED BY <1>1, <1>3, <1>4, <1>5, <1>6, <1>7, EveryStep

-----------------------------------------------------------------------------
(* The breaker *)

Current(c) == call[c] # NoCall /\ call[c].generation = generation

\* No call is of an open breaker's generation; one at most is of a half-open one's.
BreakerSound ==
    /\ since <= now
    /\ mode = "closed" => failures < FailureThreshold
    /\ mode = "open" => \A c \in Callers : ~Current(c)
    /\ mode = "half_open" => /\ now > reopensAt
                             /\ \A c \in Callers : Current(c) => probing
                             /\ \A c, d \in Callers : Current(c) /\ Current(d) => c = d
    /\ mode # "closed" => reopensAt <= now + OpenTimeout

\* The calls of earlier generations that are in flight.
Stale == {c \in Callers : call[c] # NoCall /\ call[c].generation # generation}

\* What the ways a call ends do to the breaker, and to the calls in flight.
LEMMA EndedCall ==
  ASSUME TypeOK, NEW c \in Callers, CallEnds(c)
  PROVE  call'[c] = NoCall /\ \A d \in Callers \ {c} : call'[d] = call[d]
  BY DEF CallEnds, TypeOK

\* A report that counts comes from a call of this generation, and not from an open breaker.
LEMMA CountedReport ==
  ASSUME TypeOK, CallsSound, BreakerSound, NEW c \in Callers, call[c] # NoCall,
         call[c].generation = CurrentGeneration
  PROVE  Current(c) /\ mode \in {"closed", "half_open"} /\ CurrentGeneration = generation
<1>1. call[c].generation \in Nat /\ call[c].generation <= generation /\ generation \in Nat
  BY Calling DEF CallSound, Call, TypeOK
<1>2. ~HalfOpens
  BY <1>1 DEF CurrentGeneration
<1>3. Current(c) /\ CurrentGeneration = generation
  BY <1>2 DEF CurrentGeneration, Current
<1> QED BY <1>3 DEF BreakerSound, TypeOK

LEMMA BeginsKeeps ==
  ASSUME TypeOK, CallsSound, BreakerSound, NEW c \in Callers, CallBegins(c)
  PROVE  BreakerSound' /\ Stale' = Stale /\ UNCHANGED <<wasted, since, now, reopensAt>>
         /\ mode' \in {mode, "half_open"}
         /\ (mode' = "closed" => mode = "closed") /\ (mode' = "half_open" => mode # "closed")
         /\ (mode' = "closed" => failures' = failures)
<1>1. /\ Admits /\ UNCHANGED <<wasted, since, now, reopensAt>> /\ call[c] = NoCall
      /\ mode' = (IF HalfOpens THEN "half_open" ELSE mode)
      /\ failures' = (IF HalfOpens THEN 0 ELSE failures)
      /\ generation' = CurrentGeneration /\ probing' = (mode' = "half_open")
  BY DEF CallBegins, Admitted
<1>2. /\ call'[c] # NoCall /\ call'[c].generation = CurrentGeneration
      /\ \A d \in Callers \ {c} : call'[d] = call[d]
  <2>1. PICK repeatable \in BOOLEAN :
          call' = [call EXCEPT ![c] =
            [repeatable |-> repeatable, attempt |-> 1, phase |-> "sending",
             generation |-> CurrentGeneration, requests |-> 0]]
    BY DEF CallBegins, Repeatable
  <2> DEFINE y == [repeatable |-> repeatable, attempt |-> 1, phase |-> "sending",
                   generation |-> CurrentGeneration, requests |-> 0]
  <2>2. CurrentGeneration \in Nat
    BY DEF CurrentGeneration, TypeOK
  <2>3. y \in Call /\ y.generation = CurrentGeneration
    BY <2>2, PolicyFacts DEF Call
  <2>4. call' = [call EXCEPT ![c] = y]
    BY <2>1
  <2> HIDE DEF y
  <2> QED BY <2>3, <2>4, NoCallAssumption DEF TypeOK
<1>3. ASSUME NEW d \in Callers, d # c, call[d] # NoCall
      PROVE  /\ HalfOpens => call[d].generation # generation /\ call[d].generation # generation'
             /\ ~HalfOpens => generation' = generation
  <2>1. call[d].generation \in Nat /\ call[d].generation <= generation /\ generation \in Nat
    BY <1>3, Calling DEF CallSound, Call, TypeOK
  <2>2. HalfOpens => call[d].generation # generation
    BY <1>3 DEF HalfOpens, BreakerSound, Current
  <2> QED BY <1>1, <2>1, <2>2 DEF CurrentGeneration
<1>4. Stale' = Stale
  BY <1>1, <1>2, <1>3 DEF Stale
<1>5. ASSUME NEW d \in Callers, d # c, Current(d)' PROVE Current(d) /\ ~HalfOpens
  BY <1>2, <1>3, <1>5 DEF Current
<1>6. mode' = "half_open" => \A d \in Callers : Current(d)' => d = c
  BY <1>1, <1>5 DEF Admits, BreakerSound
<1>7. mode' = "half_open" => now' > reopensAt'
  BY <1>1 DEF BreakerSound, HalfOpens
<1>8. mode' # "open"
  BY <1>1 DEF Admits, HalfOpens
<1>9. mode' = "closed" => mode = "closed" /\ ~HalfOpens
  BY <1>1
<1>10. mode' = "half_open" => mode # "closed"
  BY <1>1 DEF HalfOpens
<1>11. BreakerSound'
  BY <1>1, <1>6, <1>7, <1>8, <1>9, <1>10 DEF BreakerSound
<1> QED BY <1>1, <1>4, <1>9, <1>10, <1>11

LEMMA ProgressKeeps ==
  ASSUME TypeOK, CallsSound, BreakerSound, NEW c \in Callers, Progresses(c)
  PROVE  BreakerSound' /\ Stale' = Stale
<1>1. UNCHANGED <<mode, failures, probing, generation, reopensAt, wasted, since, now>>
  BY DEF Progresses
<1>2. PICK y \in Call : call' = [call EXCEPT ![c] = y] /\ Continues(call[c], y)
  BY ProgressOf
<1>3. call[c] # NoCall /\ y # NoCall /\ y.generation = call[c].generation
  BY <1>2, NoCallAssumption DEF Progresses, AttemptFails, BackoffEnds, Continues
<1>4. call'[c] = y /\ \A d \in Callers \ {c} : call'[d] = call[d]
  BY <1>2 DEF TypeOK
<1>5. \A d \in Callers : Current(d)' <=> Current(d)
  BY <1>1, <1>3, <1>4 DEF Current
<1>6. Stale' = Stale
  BY <1>1, <1>3, <1>4 DEF Stale
<1> QED BY <1>1, <1>5, <1>6 DEF BreakerSound

LEMMA SuccessKeeps ==
  ASSUME TypeOK, CallsSound, BreakerSound, NEW c \in Callers, Succeeds(c)
  PROVE  /\ BreakerSound' /\ mode' = "closed" /\ failures' = 0 /\ wasted' = 0
         /\ Stale' \subseteq Callers \ {c}
<1>1. /\ mode' = "closed" /\ failures' = 0 /\ wasted' = 0 /\ since' = now /\ now' = now
      /\ CallEnds(c)
  BY DEF Succeeds, ReportedSuccess
<1>2. Stale' \subseteq Callers \ {c}
  BY <1>1, EndedCall DEF Stale
<1>3. now \in Nat
  BY DEF TypeOK
<1> QED BY <1>1, <1>2, <1>3, PolicyFacts DEF BreakerSound

LEMMA DropKeeps ==
  ASSUME TypeOK, CallsSound, BreakerSound, NEW c \in Callers, Dropped(c)
  PROVE  /\ BreakerSound' /\ Stale' \subseteq Stale
         /\ UNCHANGED <<mode, failures, reopensAt, wasted, since>>
<1>1. /\ UNCHANGED <<mode, failures, generation, reopensAt, wasted, since, now>>
      /\ call[c] # NoCall /\ CallEnds(c)
      /\ call[c].generation = CurrentGeneration \/ probing' = probing
  BY DEF Dropped, ReportedNothing, BreakerUnchanged
<1>2. call'[c] = NoCall /\ \A d \in Callers \ {c} : call'[d] = call[d]
  BY <1>1, EndedCall
<1>3. Stale' \subseteq Stale
  BY <1>1, <1>2 DEF Stale
<1>4. \A d \in Callers : Current(d)' => d # c /\ Current(d)
  BY <1>1, <1>2 DEF Current
<1>5. call[c].generation = CurrentGeneration => Current(c)
  BY <1>1, CountedReport
<1>6. ASSUME mode' = "half_open", NEW d \in Callers, Current(d)' PROVE probing'
  <2>1. d # c /\ Current(d) /\ mode = "half_open"
    BY <1>1, <1>4, <1>6
  <2>2. ~Current(c)
    BY <2>1 DEF BreakerSound
  <2>3. probing' = probing
    BY <1>1, <1>5, <2>2
  <2> QED BY <2>1, <2>3 DEF BreakerSound
<1>7. BreakerSound'
  BY <1>1, <1>4, <1>6 DEF BreakerSound
<1> QED BY <1>1, <1>3, <1>7

\* A failed call is of an earlier generation, or is counted, or trips the breaker, or was
\* the probe of a half-open one.
LEMMA FailKeeps ==
  ASSUME TypeOK, CallsSound, BreakerSound, NEW c \in Callers, Fails(c)
  PROVE  /\ BreakerSound' /\ since' = since
         /\ \E cost \in 0 .. MaxAttempts : wasted' = wasted + cost
         /\ \/ c \in Stale /\ Stale' = Stale \ {c} /\ UNCHANGED <<mode, failures, reopensAt>>
            \/ /\ mode = "closed" /\ mode' = "closed" /\ failures' = failures + 1
               /\ Stale' \subseteq Stale
            \/ /\ mode = "closed" /\ failures + 1 = FailureThreshold
               /\ mode' = "open" /\ reopensAt' = now + OpenTimeout
               /\ Stale' \subseteq Callers \ {c}
            \/ /\ mode = "half_open" /\ mode' = "open" /\ reopensAt' = now + OpenTimeout
               /\ Stale' \subseteq Stale
<1>1. PICK cost \in 0 .. MaxAttempts : CallFails(c, cost)
  BY DEF Fails
<1>2. /\ call[c] # NoCall /\ CallEnds(c) /\ wasted' = wasted + cost /\ since' = since /\ now' = now
      /\ ReportedFailure(c) \/ ReportedNothing(c, FALSE)
  BY <1>1 DEF Fails, CallFails
<1>3. call'[c] = NoCall /\ \A d \in Callers \ {c} : call'[d] = call[d]
  BY <1>2, EndedCall
<1>4. now \in Nat /\ failures \in Nat /\ generation \in Nat /\ since \in Nat
  BY DEF TypeOK
<1>5. CASE ReportedNothing(c, FALSE)
  <2>1. call[c].generation # CurrentGeneration /\ BreakerUnchanged
    BY <1>5 DEF ReportedNothing
  <2>2. call[c].generation # generation
    BY <1>2, <2>1 DEF CurrentGeneration, HalfOpens, BreakerSound, Current
  <2>3. c \in Stale /\ Stale' = Stale \ {c}
    BY <1>2, <1>3, <2>1, <2>2 DEF Stale, BreakerUnchanged
  <2>4. \A d \in Callers : Current(d)' => Current(d)
    BY <1>3, <2>1 DEF Current, BreakerUnchanged
  <2>5. BreakerSound'
    BY <1>2, <2>1, <2>4 DEF BreakerSound, BreakerUnchanged
  <2> QED BY <1>2, <2>1, <2>3, <2>5 DEF BreakerUnchanged
<1>6. CASE ReportedFailure(c)
  <2>1. /\ call[c].generation = CurrentGeneration
        /\ IF mode = "half_open" \/ ReadyToTrip(failures + 1) THEN Opens
           ELSE failures' = failures + 1 /\ UNCHANGED <<mode, probing, generation, reopensAt>>
    BY <1>6 DEF ReportedFailure
  <2>2. Current(c) /\ mode \in {"closed", "half_open"}
    BY <1>2, <2>1, CountedReport
  <2>3. ASSUME Opens PROVE BreakerSound' /\ mode' = "open" /\ reopensAt' = now + OpenTimeout
    <3>1. mode' = "open" /\ reopensAt' = now + OpenTimeout /\ generation' = generation + 1
      BY <2>3 DEF Opens
    <3>2. ASSUME NEW d \in Callers, Current(d)' PROVE FALSE
      <4>1. call'[d] # NoCall /\ d # c /\ call'[d] = call[d] /\ call[d].generation = generation + 1
        BY <1>3, <3>1, <3>2 DEF Current
      <4>2. call[d].generation <= generation
        BY <4>1, Calling DEF CallSound
      <4> QED BY <1>4, <4>1, <4>2
    <3>3. reopensAt' <= now' + OpenTimeout /\ since' <= now'
      BY <1>2, <1>4, <3>1, PolicyFacts DEF BreakerSound
    <3> QED BY <3>1, <3>2, <3>3 DEF BreakerSound
  <2>4. CASE mode = "half_open"
    <3>1. Opens
      BY <2>1, <2>4
    <3>2. ASSUME NEW d \in Callers, d # c, call[d] # NoCall PROVE call[d].generation # generation
      BY <2>2, <2>4, <3>2 DEF BreakerSound, Current
    <3>3. Stale' \subseteq Stale
      BY <1>3, <3>2 DEF Stale
    <3> QED BY <1>2, <2>3, <2>4, <3>1, <3>3
  <2>5. CASE mode = "closed" /\ ReadyToTrip(failures + 1)
    <3>1. Opens
      BY <2>1, <2>5
    <3>2. failures + 1 = FailureThreshold
      BY <1>4, <2>5, PolicyFacts DEF ReadyToTrip, BreakerSound
    <3>3. Stale' \subseteq Callers \ {c}
      BY <1>3 DEF Stale
    <3> QED BY <1>2, <2>3, <2>5, <3>1, <3>2, <3>3
  <2>6. CASE mode = "closed" /\ ~ReadyToTrip(failures + 1)
    <3>1. failures' = failures + 1 /\ UNCHANGED <<mode, probing, generation, reopensAt>>
      BY <2>1, <2>6
    <3>2. failures' < FailureThreshold
      BY <1>4, <2>6, <3>1, PolicyFacts DEF ReadyToTrip
    <3>3. Stale' \subseteq Stale
      BY <1>3, <3>1 DEF Stale
    <3>4. BreakerSound'
      BY <1>2, <2>6, <3>1, <3>2 DEF BreakerSound
    <3> QED BY <1>2, <2>6, <3>1, <3>3, <3>4
  <2> QED BY <2>2, <2>4, <2>5, <2>6
<1> QED BY <1>2, <1>5, <1>6

-----------------------------------------------------------------------------
(* The load on a failing upstream *)

Others == Cardinality(Callers) - 1

\* The requests of failed calls are those of units calls.  A closed breaker has counted
\* these, but for calls of earlier generations that have ended; since it was tripped,
\* every call beyond was one of its probes, one per OpenTimeout.
Charges(units, probes) ==
    /\ wasted <= MaxAttempts * units
    /\ mode = "closed" => units <= failures + Others - Cardinality(Stale)
    /\ mode # "closed" =>
        /\ units <= FailureThreshold + 2 * Others - Cardinality(Stale) + probes
        /\ since + OpenTimeout * (probes + 1) <= reopensAt

LoadSound == \E units \in Int, probes \in Nat : Charges(units, probes)

LEMMA TimesMonotone ==
  ASSUME NEW k \in Nat, NEW u \in Int, NEW v \in Int, u <= v
  PROVE  k * u <= k * v
<1>1. v - u \in Nat
  OBVIOUS
<1>2. k * (v - u) \in Nat
  BY <1>1
<1>3. k * (v - u) = k * v - k * u
  OBVIOUS
<1> QED BY <1>2, <1>3

LEMMA PeriodsFit ==
  ASSUME NEW t \in Nat \ {0}, NEW x \in Nat, NEW p \in Nat, t * p <= x
  PROVE  p <= x \div t
  OBVIOUS

LEMMA OneMore ==
  ASSUME NEW k \in Nat, NEW u \in Int, NEW w \in Nat, w <= k * u, NEW cost \in 0 .. k
  PROVE  w + cost <= k * (u + 1)
  OBVIOUS

\* However the calls in flight change, those of earlier generations are some of the callers.
LEMMA StaleSize ==
  /\ Cardinality(Stale) \in Nat /\ Cardinality(Stale)' \in Nat /\ Others \in Nat
  /\ Stale' \subseteq Stale => Cardinality(Stale)' <= Cardinality(Stale)
  /\ \A c \in Callers : Stale' \subseteq Callers \ {c} => Cardinality(Stale)' <= Others
  /\ \A c \in Callers : c \in Stale /\ Stale' = Stale \ {c} =>
        Cardinality(Stale)' = Cardinality(Stale) - 1
<1>1. IsFiniteSet(Callers) /\ Callers # {}
  BY PolicyAssumption
<1>2. Cardinality(Callers) \in Nat /\ Cardinality(Callers) # 0
  BY <1>1, FS_CardinalityType, FS_EmptySet
<1>3. Stale \subseteq Callers /\ Stale' \subseteq Callers
  BY DEF Stale
<1>4. IsFiniteSet(Stale) /\ IsFiniteSet(Stale')
  BY <1>1, <1>3, FS_Subset
<1>5. Cardinality(Stale) \in Nat /\ Cardinality(Stale') \in Nat
  BY <1>4, FS_CardinalityType
<1>6. Stale' \subseteq Stale => Cardinality(Stale') <= Cardinality(Stale)
  BY <1>4, FS_Subset
<1>7. ASSUME NEW c \in Callers, Stale' \subseteq Callers \ {c}
      PROVE  Cardinality(Stale') <= Others
  <2>1. IsFiniteSet(Callers \ {c}) /\ Cardinality(Callers \ {c}) = Cardinality(Callers) - 1
    BY <1>1, FS_RemoveElement
  <2>2. Cardinality(Stale') <= Cardinality(Callers \ {c})
    BY <1>7, <2>1, FS_Subset
  <2> QED BY <2>1, <2>2 DEF Others
<1>8. ASSUME NEW c \in Callers, c \in Stale, Stale' = Stale \ {c}
      PROVE  Cardinality(Stale') = Cardinality(Stale) - 1
  BY <1>4, <1>8, FS_RemoveElement
<1> QED BY <1>2, <1>5, <1>6, <1>7, <1>8 DEF Others

\* A failed call is charged to one unit more, and to what ended with it.
LEMMA FailLoad ==
  ASSUME TypeOK, CallsSound, BreakerSound, LoadSound, NEW c \in Callers, Fails(c)
  PROVE  LoadSound'
<1> DEFINE S == Cardinality(Stale)
           T == Cardinality(Stale)'
<1>1. PICK u \in Int, p \in Nat : Charges(u, p)
  BY DEF LoadSound
<1>2. /\ wasted \in Nat /\ since \in Nat /\ now \in Nat /\ failures \in Nat /\ reopensAt \in Nat
      /\ since <= now
  BY DEF TypeOK, BreakerSound
<1>3. S \in Nat /\ T \in Nat /\ Others \in Nat /\ Others' = Others
  BY StaleSize DEF Others
<1>4. wasted' <= MaxAttempts * (u + 1) /\ since' = since
  <2>1. PICK cost \in 0 .. MaxAttempts : wasted' = wasted + cost
    BY FailKeeps
  <2> QED BY <1>1, <1>2, <2>1, OneMore, PolicyFacts, FailKeeps DEF Charges
<1>5. u + 1 \in Int /\ p + 1 \in Nat /\ 0 \in Nat
  OBVIOUS
<1>6. CASE c \in Stale /\ Stale' = Stale \ {c} /\ UNCHANGED <<mode, failures, reopensAt>>
  <2>1. T = S - 1
    BY <1>6, StaleSize
  <2>2. Charges(u + 1, p)'
    BY <1>1, <1>2, <1>3, <1>4, <1>6, <2>1, PolicyFacts DEF Charges
  <2> QED BY <1>5, <2>2 DEF LoadSound
<1>7. CASE /\ mode = "closed" /\ mode' = "closed" /\ failures' = failures + 1
           /\ Stale' \subseteq Stale
  <2>1. T <= S
    BY <1>7, StaleSize
  <2>2. Charges(u + 1, p)'
    BY <1>1, <1>2, <1>3, <1>4, <1>7, <2>1, PolicyFacts DEF Charges
  <2> QED BY <1>5, <2>2 DEF LoadSound
<1>8. CASE /\ mode = "closed" /\ failures + 1 = FailureThreshold
           /\ mode' = "open" /\ reopensAt' = now + OpenTimeout
           /\ Stale' \subseteq Callers \ {c}
  <2>1. T <= Others
    BY <1>8, StaleSize
  <2>2. u + 1 <= FailureThreshold + 2 * Others - T + 0
    BY <1>1, <1>2, <1>3, <1>8, <2>1, PolicyFacts DEF Charges
  <2>3. since' + OpenTimeout * (0 + 1) <= reopensAt'
    BY <1>2, <1>4, <1>8, PolicyFacts
  <2>4. Charges(u + 1, 0)'
    BY <1>3, <1>4, <1>8, <2>2, <2>3 DEF Charges
  <2> QED BY <1>5, <2>4 DEF LoadSound
<1>9. CASE /\ mode = "half_open" /\ mode' = "open" /\ reopensAt' = now + OpenTimeout
           /\ Stale' \subseteq Stale
  <2>1. T <= S /\ now > reopensAt
    BY <1>9, StaleSize DEF BreakerSound
  <2>2. u + 1 <= FailureThreshold + 2 * Others - T + (p + 1)
    BY <1>1, <1>2, <1>3, <1>9, <2>1, PolicyFacts DEF Charges
  <2>3. since + OpenTimeout * (p + 1) <= reopensAt
    BY <1>1, <1>9 DEF Charges
  <2>4. OpenTimeout * (p + 1) + OpenTimeout = OpenTimeout * (p + 1 + 1)
    BY PolicyFacts
  <2>5. since' + OpenTimeout * (p + 1 + 1) <= reopensAt'
    BY <1>2, <1>4, <1>9, <2>1, <2>3, <2>4, PolicyFacts
  <2>6. Charges(u + 1, p + 1)'
    BY <1>3, <1>4, <1>9, <2>2, <2>5 DEF Charges
  <2> QED BY <1>5, <2>6 DEF LoadSound
<1> QED BY <1>6, <1>7, <1>8, <1>9, FailKeeps

-----------------------------------------------------------------------------
(* The invariant *)

ClientInv == TypeOK /\ CallsSound /\ BreakerSound /\ LoadSound

LEMMA InitClient == Init => ClientInv
<1> SUFFICES ASSUME Init PROVE ClientInv
  OBVIOUS
<1>1. TypeOK /\ CallsSound
  BY DEF Init, TypeOK, CallsSound
<1>2. BreakerSound
  BY PolicyFacts DEF Init, BreakerSound
<1>3. Stale = {}
  BY DEF Init, Stale
<1>4. Cardinality(Stale) = 0 /\ Others \in Nat
  BY <1>3, FS_EmptySet, StaleSize
<1>5. Charges(0, 0)
  BY <1>4, PolicyFacts DEF Init, Charges
<1> QED BY <1>1, <1>2, <1>5 DEF ClientInv, LoadSound

LEMMA ClientStep == ClientInv /\ [Next]_vars => ClientInv'
<1> SUFFICES ASSUME TypeOK, CallsSound, BreakerSound, LoadSound, [Next]_vars
             PROVE  ClientInv'
  BY DEF ClientInv
<1>1. TypeOK' /\ CallsSound'
  BY TypesKept
<1>2. PICK u \in Int, p \in Nat : Charges(u, p)
  BY DEF LoadSound
<1>3. Cardinality(Stale) \in Nat /\ Cardinality(Stale)' \in Nat /\ Others \in Nat /\ Others' = Others
  BY StaleSize DEF Others
<1>4. ASSUME Stale' = Stale, UNCHANGED <<mode, failures, reopensAt, wasted, since>>
      PROVE  LoadSound'
  <2>1. Charges(u, p)'
    BY <1>2, <1>3, <1>4 DEF Charges
  <2> QED BY <2>1 DEF LoadSound
<1>5. CASE UNCHANGED vars
  <2>1. Stale' = Stale /\ BreakerSound'
    BY <1>5 DEF vars, Stale, BreakerSound, Current
  <2> QED BY <1>1, <1>4, <1>5, <2>1 DEF ClientInv, vars
<1>6. CASE Tick
  <2>1. /\ now' = now + 1 /\ now \in Nat /\ since \in Nat /\ reopensAt \in Nat
        /\ UNCHANGED <<mode, failures, probing, generation, reopensAt, call, wasted, since>>
    BY <1>6 DEF Tick, TypeOK
  <2>2. Stale' = Stale /\ \A c \in Callers : Current(c)' <=> Current(c)
    BY <2>1 DEF Stale, Current
  <2>3. BreakerSound'
    BY <2>1, <2>2, PolicyFacts DEF BreakerSound
  <2> QED BY <1>1, <1>4, <2>1, <2>2, <2>3 DEF ClientInv
<1>7. ASSUME NEW c \in Callers, CallBegins(c) PROVE ClientInv'
  <2>1. /\ BreakerSound' /\ Stale' = Stale /\ UNCHANGED <<wasted, since, now, reopensAt>>
        /\ (mode' = "closed" => mode = "closed" /\ failures' = failures)
        /\ (mode' # "closed" => mode # "closed")
    BY <1>7, BeginsKeeps
  <2>2. Charges(u, p)'
    BY <1>2, <1>3, <2>1 DEF Charges
  <2> QED BY <1>1, <2>1, <2>2 DEF ClientInv, LoadSound
<1>8. ASSUME NEW c \in Callers, Progresses(c) PROVE ClientInv'
  BY <1>1, <1>4, <1>8, ProgressKeeps DEF ClientInv, Progresses
<1>9. ASSUME NEW c \in Callers, Succeeds(c) PROVE ClientInv'
  <2>1. /\ BreakerSound' /\ mode' = "closed" /\ failures' = 0 /\ wasted' = 0
        /\ Cardinality(Stale)' <= Others
    BY <1>9, SuccessKeeps, StaleSize
  <2>2. Charges(0, 0)'
    BY <1>3, <2>1, PolicyFacts DEF Charges
  <2> QED BY <1>1, <2>1, <2>2 DEF ClientInv, LoadSound
<1>10. ASSUME NEW c \in Callers, Dropped(c) PROVE ClientInv'
  <2>1. /\ BreakerSound' /\ Cardinality(Stale)' <= Cardinality(Stale)
        /\ UNCHANGED <<mode, failures, reopensAt, wasted, since>>
    BY <1>10, DropKeeps, StaleSize
  <2>2. Charges(u, p)'
    BY <1>2, <1>3, <2>1, PolicyFacts DEF Charges, TypeOK
  <2> QED BY <1>1, <2>1, <2>2 DEF ClientInv, LoadSound
<1>11. ASSUME NEW c \in Callers, Fails(c) PROVE ClientInv'
  BY <1>1, <1>11, FailKeeps, FailLoad DEF ClientInv
<1> QED BY <1>5, <1>6, <1>7, <1>8, <1>9, <1>10, <1>11, EveryStep

\* The load an upstream bears follows from what the breaker has counted.
LEMMA LoadFollows == ClientInv => LoadIsBounded
<1> SUFFICES ASSUME TypeOK, BreakerSound, LoadSound PROVE LoadIsBounded
  BY DEF ClientInv
<1>1. PICK u \in Int, p \in Nat : Charges(u, p)
  BY DEF LoadSound
<1>2. /\ wasted \in Nat /\ since \in Nat /\ now \in Nat /\ failures \in Nat /\ reopensAt \in Nat
      /\ since <= now /\ now - since \in Nat
  BY DEF TypeOK, BreakerSound
<1>3. Cardinality(Stale) \in Nat /\ Others \in Nat
  BY StaleSize
<1> DEFINE periods == (now - since) \div OpenTimeout
<1>4. periods \in Nat
  BY <1>2, PolicyFacts
<1>5. u <= FailureThreshold + 2 * Others + periods
  <2>1. CASE mode = "closed"
    <3>1. u <= failures + Others - Cardinality(Stale) /\ failures < FailureThreshold
      BY <1>1, <2>1 DEF Charges, BreakerSound
    <3> HIDE DEF periods
    <3> QED BY <1>2, <1>3, <1>4, <3>1, PolicyFacts
  <2>2. CASE mode # "closed"
    <3>1. /\ u <= FailureThreshold + 2 * Others - Cardinality(Stale) + p
          /\ since + OpenTimeout * (p + 1) <= reopensAt /\ reopensAt <= now + OpenTimeout
      BY <1>1, <2>2 DEF Charges, BreakerSound
    <3>2. OpenTimeout * (p + 1) = OpenTimeout * p + OpenTimeout /\ OpenTimeout * p \in Nat
      BY PolicyFacts
    <3>3. OpenTimeout * p <= now - since
      BY <1>2, <3>1, <3>2, PolicyFacts
    <3>4. p <= periods
      BY <1>2, <3>3, PeriodsFit, PolicyFacts
    <3> HIDE DEF periods
    <3> QED BY <1>3, <1>4, <3>1, <3>4, PolicyFacts
  <2> QED BY <2>1, <2>2
<1> HIDE DEF periods
<1>6. FailureThreshold + 2 * Others + periods \in Int
  BY <1>3, <1>4, PolicyFacts
<1>7. MaxAttempts * u <= MaxAttempts * (FailureThreshold + 2 * Others + periods)
  BY <1>5, <1>6, TimesMonotone, PolicyFacts
<1>8. MaxAttempts * u \in Int /\ MaxAttempts * (FailureThreshold + 2 * Others + periods) \in Int
  BY <1>6, PolicyFacts
<1>9. wasted <= MaxAttempts * (FailureThreshold + 2 * Others + periods)
  BY <1>1, <1>2, <1>7, <1>8 DEF Charges
<1> QED BY <1>9 DEF LoadIsBounded, Others, periods

-----------------------------------------------------------------------------
(* Theorems *)

\* The inductive invariant: a call's requests agree with its attempts, no call is of an
\* open breaker's generation and one at most of a half-open one's, and the failed calls
\* are accounted for by the breaker's count, its probes and the calls it no longer hears.
THEOREM ClientInvariant == Spec => []ClientInv
  BY InitClient, ClientStep, PTL DEF Spec

\* Every variable of the client and its breaker keeps its type.
THEOREM ClientTypes == Spec => []TypeOK
<1>1. ClientInv => TypeOK
  BY DEF ClientInv
<1> QED BY <1>1, ClientInvariant, PTL

\* doWithRetry repeats nothing that is neither safe nor keyed, whatever the retry policy.
THEOREM UnsafeCallsStayAlone == Spec => []UnsafeCallsAreMadeOnce
<1>1. ClientInv => UnsafeCallsAreMadeOnce
  <2> SUFFICES ASSUME TypeOK, CallsSound, NEW c \in Callers, call[c] # NoCall, ~call[c].repeatable
               PROVE  call[c].attempt = 1 /\ call[c].requests = 0 /\ call[c].phase = "sending"
    BY DEF ClientInv, UnsafeCallsAreMadeOnce
  <2>1. /\ call[c].repeatable = FALSE /\ call[c].attempt \in 1 .. MaxAttempts
        /\ call[c].phase \in {"sending", "waiting"} /\ CallSound(call[c])
    BY Calling DEF Call
  <2>2. Attempts(call[c].repeatable) = 1
    BY DEF Attempts
  <2>3. call[c].attempt <= 1 /\ call[c].phase # "waiting"
    BY <2>1, <2>2, PolicyFacts DEF CallSound
  <2> QED BY <2>1, <2>3, PolicyFacts DEF CallSound
<1> QED BY <1>1, ClientInvariant, PTL

\* Between two successes a failing upstream bears the calls that trip the breaker, those
\* in flight beside them, and one call per open_timeout, for any number of callers.
THEOREM LoadStaysBounded == Spec => []LoadIsBounded
  BY LoadFollows, ClientInvariant, PTL

=============================================================================
