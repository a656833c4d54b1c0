--------------------------- MODULE OutboxRelayProofs ---------------------------
(***************************************************************************)
(* Proofs about OutboxRelay, for any number of replicas, events and faults *)
(* and any size of a batch.                                                *)
(***************************************************************************)
EXTENDS OutboxRelay, Integers, FiniteSetTheorems, TLAPS

\* A replica that runs, or whose loops have not returned, is connected.
LoopsHaveBus == running \subseteq bus /\ looping \subseteq bus

\* A round belongs to a loop that has not returned.
RoundsAreInLoops == \A r \in Replicas : batch[r] # {} => r \in looping

\* What the stream remembers, it has.
RememberedIsAccepted == \A e \in remembered : stream[e] > 0

\* What a round is about to mark is in the stream.
SentIsAccepted == \A r \in Replicas : sent[r] # NoEvent => stream[sent[r]] > 0

RelayInv ==
    /\ TypeOK
    /\ LoopsHaveBus
    /\ RoundsAreInLoops
    /\ RememberedIsAccepted
    /\ SentIsAccepted
    /\ NothingIsLost

-----------------------------------------------------------------------------

\* Nothing has been inserted or started.
LEMMA InitHolds == Init => RelayInv
  BY RelayAssumption
     DEF Init, RelayInv, TypeOK, LoopsHaveBus, RoundsAreInLoops,
         RememberedIsAccepted, SentIsAccepted, NothingIsLost

\* A fault is counted within its bound.
LEMMA FaultType ==
  ASSUME TypeOK, Fault \/ UNCHANGED faults
  PROVE  faults' \in 0 .. MaxFaults
  BY RelayAssumption DEF TypeOK, Fault

\* Steps of the table and of time: no row becomes published.
LEMMA TableSteps ==
  ASSUME RelayInv, NEW e \in Events, InsertEvent(e) \/ LeaseExpires(e) \/ WindowPasses(e)
  PROVE  RelayInv'
<1>1. faults' \in 0 .. MaxFaults
  BY FaultType DEF RelayInv, InsertEvent, LeaseExpires, WindowPasses
<1>2. UNCHANGED <<stream, running, looping, bus, batch, sent>>
  BY DEF InsertEvent, LeaseExpires, WindowPasses
<1>3. TypeOK'
  BY <1>1, <1>2 DEF RelayInv, TypeOK, InsertEvent, LeaseExpires, WindowPasses
<1>4. LoopsHaveBus' /\ RoundsAreInLoops' /\ SentIsAccepted'
  BY <1>2 DEF RelayInv, LoopsHaveBus, RoundsAreInLoops, SentIsAccepted
<1>5. RememberedIsAccepted'
  BY <1>2 DEF RelayInv, RememberedIsAccepted, InsertEvent, LeaseExpires, WindowPasses
<1>6. NothingIsLost'
  BY <1>2 DEF RelayInv, TypeOK, NothingIsLost, InsertEvent, LeaseExpires, WindowPasses
<1> QED BY <1>3, <1>4, <1>5, <1>6 DEF RelayInv

\* start, stop and a crash: a loop returns between two rounds, and the bus is closed last.
LEMMA RuntimeSteps ==
  ASSUME RelayInv, NEW r \in Replicas,
         Starts(r) \/ Cancels(r) \/ LoopReturns(r) \/ Closes(r) \/ Crash(r)
  PROVE  RelayInv'
<1>1. faults' \in 0 .. MaxFaults
  BY FaultType DEF RelayInv, Starts, Cancels, LoopReturns, Closes, Crash
<1>2. UNCHANGED <<row, stream, remembered>>
  BY DEF Starts, Cancels, LoopReturns, Closes, Crash
<1>3. TypeOK'
  BY <1>1, <1>2 DEF RelayInv, TypeOK, Starts, Cancels, LoopReturns, Closes, Crash
<1>4. LoopsHaveBus'
  BY DEF RelayInv, LoopsHaveBus, Starts, Cancels, LoopReturns, Closes, Crash
<1>5. RoundsAreInLoops'
  BY DEF RelayInv, TypeOK, RoundsAreInLoops, Starts, Cancels, LoopReturns, Closes, Crash
<1>6. SentIsAccepted'
  BY <1>2 DEF RelayInv, TypeOK, SentIsAccepted, Starts, Cancels, LoopReturns, Closes, Crash
<1>7. RememberedIsAccepted' /\ NothingIsLost'
  BY <1>2 DEF RelayInv, RememberedIsAccepted, NothingIsLost
<1> QED BY <1>3, <1>4, <1>5, <1>6, <1>7 DEF RelayInv

\* A round leases what is ready, which is neither published nor deleted.
LEMMA RoundBeginsKeeps ==
  ASSUME RelayInv, NEW r \in Replicas, RoundBegins(r)
  PROVE  RelayInv'
<1>1. PICK claimed \in (SUBSET Ready) \ {{}} :
        /\ batch' = [batch EXCEPT ![r] = claimed]
        /\ row' = [e \in Events |-> IF e \in claimed THEN "leased" ELSE row[e]]
  BY DEF RoundBegins
<1>2. UNCHANGED <<stream, remembered, running, looping, bus, sent, faults>> /\ r \in looping
  BY DEF RoundBegins
<1>3. claimed \subseteq Events
  BY DEF Ready
<1>4. batch[r] = {} /\ sent[r] = NoEvent
  BY DEF RoundBegins, RelayInv, TypeOK
<1>5. TypeOK'
  BY <1>1, <1>2, <1>3, <1>4 DEF RelayInv, TypeOK
<1>6. LoopsHaveBus' /\ RememberedIsAccepted' /\ SentIsAccepted'
  BY <1>2 DEF RelayInv, LoopsHaveBus, RememberedIsAccepted, SentIsAccepted
<1>7. RoundsAreInLoops'
  BY <1>1, <1>2 DEF RelayInv, TypeOK, RoundsAreInLoops
<1>8. NothingIsLost'
  BY <1>1, <1>2 DEF RelayInv, NothingIsLost
<1> QED BY <1>5, <1>6, <1>7, <1>8 DEF RelayInv

\* What the stream has accepted, it keeps.
LEMMA AcceptedKeeps ==
  ASSUME TypeOK, NEW e \in Events, Accepted(e) \/ UNCHANGED <<stream, remembered>>
  PROVE  /\ stream' \in [Events -> Nat] /\ remembered' \subseteq Events
         /\ \A f \in Events : stream'[f] >= stream[f]
  BY DEF TypeOK, Accepted

\* A publish adds what the next step marks; it may have been in the stream already.
LEMMA PublishesKeeps ==
  ASSUME RelayInv, NEW r \in Replicas, NEW e \in Events, Publishes(r, e)
  PROVE  RelayInv'
<1>1. Accepted(e) /\ e \in batch[r] /\ sent' = [sent EXCEPT ![r] = e]
  BY DEF Publishes
<1>2. UNCHANGED <<row, running, looping, bus, batch, faults>>
  BY DEF Publishes
<1>3. /\ stream' \in [Events -> Nat] /\ remembered' \subseteq Events
      /\ \A f \in Events : stream'[f] >= stream[f]
  BY <1>1, AcceptedKeeps DEF RelayInv
<1>4. TypeOK'
  BY <1>1, <1>2, <1>3 DEF RelayInv, TypeOK
<1>5. LoopsHaveBus' /\ RoundsAreInLoops'
  BY <1>2 DEF RelayInv, LoopsHaveBus, RoundsAreInLoops
<1>6. stream'[e] > 0
  BY <1>1 DEF RelayInv, TypeOK, RememberedIsAccepted, Accepted
<1>7. RememberedIsAccepted'
  BY <1>1, <1>3, <1>6 DEF RelayInv, TypeOK, RememberedIsAccepted, Accepted
<1>8. SentIsAccepted'
  BY <1>1, <1>3, <1>6 DEF RelayInv, TypeOK, SentIsAccepted
<1>9. NothingIsLost'
  BY <1>2, <1>3 DEF RelayInv, TypeOK, NothingIsLost
<1> QED BY <1>4, <1>5, <1>7, <1>8, <1>9 DEF RelayInv

\* A publish that fails for the relay may have reached the stream; its row is ready again.
LEMMA PublishFailsKeeps ==
  ASSUME RelayInv, NEW r \in Replicas, NEW e \in Events, PublishFails(r, e)
  PROVE  RelayInv'
<1>1. /\ Accepted(e) \/ UNCHANGED <<stream, remembered>>
      /\ row' = [row EXCEPT ![e] = IF @ = "leased" THEN "ready" ELSE @]
      /\ batch' = [batch EXCEPT ![r] = @ \ {e}]
      /\ sent[r] = NoEvent
  BY DEF PublishFails
<1>2. UNCHANGED <<running, looping, bus, sent>>
  BY DEF PublishFails
<1>3. /\ stream' \in [Events -> Nat] /\ remembered' \subseteq Events
      /\ \A f \in Events : stream'[f] >= stream[f]
  BY <1>1, AcceptedKeeps DEF RelayInv
<1>4. faults' \in 0 .. MaxFaults
  BY FaultType DEF RelayInv, PublishFails
<1>5. TypeOK'
  <2>1. batch' \in [Replicas -> SUBSET Events]
    BY <1>1 DEF RelayInv, TypeOK
  <2>2. \A q \in Replicas : sent'[q] \in batch'[q] \cup {NoEvent}
    BY <1>1, <1>2 DEF RelayInv, TypeOK
  <2>3. row' \in [Events -> {"none", "ready", "leased", "published", "deleted"}]
    BY <1>1 DEF RelayInv, TypeOK
  <2> QED BY <1>2, <1>3, <1>4, <2>1, <2>2, <2>3 DEF RelayInv, TypeOK
<1>6. LoopsHaveBus'
  BY <1>2 DEF RelayInv, LoopsHaveBus
<1>7. RoundsAreInLoops'
  <2>1. batch[r] # {}
    BY DEF PublishFails
  <2> QED BY <1>1, <1>2, <2>1 DEF RelayInv, TypeOK, RoundsAreInLoops
<1>8. RememberedIsAccepted'
  <2>1. CASE Accepted(e)
    <3>1. stream'[e] > 0
      BY <2>1 DEF RelayInv, TypeOK, RememberedIsAccepted, Accepted
    <3> QED BY <1>3, <2>1, <3>1 DEF RelayInv, TypeOK, RememberedIsAccepted, Accepted
  <2>2. CASE UNCHANGED <<stream, remembered>>
    BY <2>2 DEF RelayInv, RememberedIsAccepted
  <2> QED BY <1>1, <2>1, <2>2
<1>9. SentIsAccepted'
  BY <1>2, <1>3 DEF RelayInv, TypeOK, SentIsAccepted
<1>10. NothingIsLost'
  <2> SUFFICES ASSUME NEW f \in Events, row'[f] \in {"published", "deleted"}
               PROVE  stream'[f] > 0
    BY DEF NothingIsLost
  <2>1. row[f] \in {"published", "deleted"}
    BY <1>1 DEF RelayInv, TypeOK
  <2>2. stream[f] > 0 /\ stream[f] \in Nat /\ stream'[f] \in Nat /\ stream'[f] >= stream[f]
    BY <1>3, <2>1 DEF RelayInv, TypeOK, NothingIsLost
  <2> QED BY <2>2
<1> QED BY <1>5, <1>6, <1>7, <1>8, <1>9, <1>10 DEF RelayInv

\* A row is marked after the stream has its event.
LEMMA MarksKeeps ==
  ASSUME RelayInv, NEW r \in Replicas, Marks(r)
  PROVE  RelayInv'
<1>1. /\ sent[r] # NoEvent
      /\ row' = [row EXCEPT ![sent[r]] = IF @ = "deleted" THEN @ ELSE "published"]
      /\ batch' = [batch EXCEPT ![r] = @ \ {sent[r]}]
      /\ sent' = [sent EXCEPT ![r] = NoEvent]
  BY DEF Marks
<1>2. UNCHANGED <<stream, remembered, running, looping, bus, faults>>
  BY DEF Marks
<1>3. sent[r] \in Events /\ stream[sent[r]] > 0
  BY <1>1 DEF RelayInv, TypeOK, SentIsAccepted
<1>4. TypeOK'
  BY <1>1, <1>2, <1>3 DEF RelayInv, TypeOK
<1>5. LoopsHaveBus' /\ RememberedIsAccepted'
  BY <1>2 DEF RelayInv, LoopsHaveBus, RememberedIsAccepted
<1>6. RoundsAreInLoops'
  BY <1>1, <1>2 DEF RelayInv, TypeOK, RoundsAreInLoops
<1>7. SentIsAccepted'
  BY <1>1, <1>2 DEF RelayInv, TypeOK, SentIsAccepted
<1>8. NothingIsLost'
  BY <1>1, <1>2, <1>3 DEF RelayInv, TypeOK, NothingIsLost
<1> QED BY <1>4, <1>5, <1>6, <1>7, <1>8 DEF RelayInv

\* A failed round lets go of its events, and leaves the rows alone.
LEMMA RoundFailsKeeps ==
  ASSUME RelayInv, NEW r \in Replicas, RoundFails(r)
  PROVE  RelayInv'
<1>1. batch' = [batch EXCEPT ![r] = {}] /\ sent' = [sent EXCEPT ![r] = NoEvent]
  BY DEF RoundFails
<1>2. UNCHANGED <<row, stream, remembered, running, looping, bus>>
  BY DEF RoundFails
<1>3. faults' \in 0 .. MaxFaults
  BY FaultType DEF RelayInv, RoundFails
<1>4. TypeOK'
  BY <1>1, <1>2, <1>3 DEF RelayInv, TypeOK
<1>5. LoopsHaveBus' /\ RememberedIsAccepted' /\ NothingIsLost'
  BY <1>2 DEF RelayInv, LoopsHaveBus, RememberedIsAccepted, NothingIsLost
<1>6. RoundsAreInLoops' /\ SentIsAccepted'
  BY <1>1, <1>2 DEF RelayInv, TypeOK, RoundsAreInLoops, SentIsAccepted
<1> QED BY <1>4, <1>5, <1>6 DEF RelayInv

\* Only published rows are deleted.
LEMMA CleansKeeps ==
  ASSUME RelayInv, NEW r \in Replicas, NEW e \in Events, Cleans(r, e)
  PROVE  RelayInv'
<1>1. row[e] = "published" /\ row' = [row EXCEPT ![e] = "deleted"]
  BY DEF Cleans
<1>2. UNCHANGED <<stream, remembered, running, looping, bus, batch, sent, faults>>
  BY DEF Cleans
<1>3. TypeOK'
  BY <1>1, <1>2 DEF RelayInv, TypeOK
<1>4. LoopsHaveBus' /\ RoundsAreInLoops' /\ RememberedIsAccepted' /\ SentIsAccepted'
  BY <1>2 DEF RelayInv, LoopsHaveBus, RoundsAreInLoops, RememberedIsAccepted, SentIsAccepted
<1>5. NothingIsLost'
  BY <1>1, <1>2 DEF RelayInv, TypeOK, NothingIsLost
<1> QED BY <1>3, <1>4, <1>5 DEF RelayInv

\* Every step keeps the invariant.
LEMMA StepKeeps == RelayInv /\ [Next]_vars => RelayInv'
<1> SUFFICES ASSUME RelayInv, [Next]_vars PROVE RelayInv'
  OBVIOUS
<1>1. CASE UNCHANGED vars
  BY <1>1 DEF vars, RelayInv, TypeOK, LoopsHaveBus, RoundsAreInLoops, RememberedIsAccepted,
              SentIsAccepted, NothingIsLost
<1>2. CASE \E e \in Events : InsertEvent(e) \/ LeaseExpires(e) \/ WindowPasses(e)
  BY <1>2, TableSteps
<1>3. ASSUME NEW r \in Replicas, RelayStep(r)
      PROVE  RelayInv'
  BY <1>3, RuntimeSteps, RoundBeginsKeeps, PublishesKeeps, MarksKeeps, RoundFailsKeeps
     DEF RelayStep
<1>4. ASSUME NEW r \in Replicas, Cancels(r) \/ Crash(r) \/ RoundFails(r)
      PROVE  RelayInv'
  BY <1>4, RuntimeSteps, RoundFailsKeeps
<1>5. ASSUME NEW r \in Replicas, NEW e \in Events, PublishFails(r, e) \/ Cleans(r, e)
      PROVE  RelayInv'
  BY <1>5, PublishFailsKeeps, CleansKeeps
<1> QED BY <1>1, <1>2, <1>3, <1>4, <1>5 DEF Next

\* The inductive invariant of the relay.
THEOREM RelayInvariant == Spec => []RelayInv
  BY InitHolds, StepKeeps, PTL DEF Spec

\* At least once: no crash, failed publish or second relay loses an event.
THEOREM NothingIsEverLost == Spec => []NothingIsLost
<1>1. RelayInv => NothingIsLost
  BY DEF RelayInv
<1> QED BY <1>1, RelayInvariant, PTL

\* stop closes the bus after the last round over it.
THEOREM BusStaysOpen == Spec => []BusOpenWhileUsed
<1>1. RelayInv => BusOpenWhileUsed
  BY DEF RelayInv, LoopsHaveBus, RoundsAreInLoops, BusOpenWhileUsed
<1> QED BY <1>1, RelayInvariant, PTL

-----------------------------------------------------------------------------
(* Copies *)

\* The rounds that may still publish the event.
Pending(e) == {r \in Replicas : e \in batch[r] /\ sent[r] # e}

\* The rounds with the event whose replica was told to stop: their fault is counted.
Cancelling(e) == {r \in Replicas : e \in batch[r] /\ r \notin running}

\* The copies there are, the ones that may come, and the faults that are paid in advance.
Charged(e) == stream[e] + Cardinality(Pending(e)) + Cardinality(Cancelling(e))

\* A first copy is free; an event that may be leased again has had a fault for every copy.
CopiesSound(e) ==
    /\ IsFiniteSet(Pending(e)) /\ IsFiniteSet(Cancelling(e))
    /\ Charged(e) <= 1 + faults
    /\ row[e] = "none" => stream[e] = 0 /\ \A r \in Replicas : e \notin batch[r]
    /\ row[e] = "ready" => Charged(e) <= faults
    /\ row[e] = "leased" /\ (\A r \in Replicas : e \notin batch[r]) => stream[e] <= faults

Member(x, S) == IF x \in S THEN 1 ELSE 0

\* Two finite sets that differ in one element at most.
LEMMA OneElement ==
  ASSUME NEW S, NEW T, NEW x, IsFiniteSet(S), T \ {x} = S \ {x}
  PROVE  /\ IsFiniteSet(T)
         /\ Cardinality(S) \in Nat /\ Cardinality(T) \in Nat
         /\ Cardinality(T) - Member(x, T) = Cardinality(S) - Member(x, S)
<1>1. CASE x \in T
  <2>1. T = S \cup {x}
    BY <1>1
  <2>2. /\ IsFiniteSet(T)
        /\ Cardinality(T) = IF x \in S THEN Cardinality(S) ELSE Cardinality(S) + 1
    BY <2>1, FS_AddElement
  <2>3. Cardinality(S) \in Nat
    BY FS_CardinalityType
  <2> QED BY <1>1, <2>2, <2>3 DEF Member
<1>2. CASE x \notin T
  <2>1. T = S \ {x}
    BY <1>2
  <2>2. /\ IsFiniteSet(T)
        /\ Cardinality(T) = IF x \in S THEN Cardinality(S) - 1 ELSE Cardinality(S)
    BY <2>1, FS_RemoveElement
  <2>3. Cardinality(S) \in Nat /\ Cardinality(T) \in Nat
    BY <2>2, FS_CardinalityType
  <2> QED BY <1>2, <2>2, <2>3 DEF Member
<1> QED BY <1>1, <1>2

OnlyMoves(r) ==
    \A q \in Replicas \ {r} : /\ batch'[q] = batch[q] /\ sent'[q] = sent[q]
                              /\ q \in running' <=> q \in running

\* What a step of one replica does to the charge of an event.
LEMMA ChargeStep ==
  ASSUME RelayInv, TypeOK', NEW r \in Replicas, NEW e \in Events, OnlyMoves(r), CopiesSound(e)
  PROVE  /\ IsFiniteSet(Pending(e)') /\ IsFiniteSet(Cancelling(e)')
         /\ Charged(e) \in Nat /\ Charged(e)' \in Nat /\ faults \in Nat /\ faults' \in Nat
         /\ stream[e] \in Nat /\ stream'[e] \in Nat /\ stream[e] <= Charged(e)
         /\ Charged(e)' - stream'[e] - Member(r, Pending(e)') - Member(r, Cancelling(e)')
              = Charged(e) - stream[e] - Member(r, Pending(e)) - Member(r, Cancelling(e))
<1>1. Pending(e)' \ {r} = Pending(e) \ {r} /\ Cancelling(e)' \ {r} = Cancelling(e) \ {r}
  BY DEF OnlyMoves, Pending, Cancelling
<1>2. /\ IsFiniteSet(Pending(e)') /\ IsFiniteSet(Cancelling(e)')
      /\ Cardinality(Pending(e)) \in Nat /\ Cardinality(Pending(e)') \in Nat
      /\ Cardinality(Cancelling(e)) \in Nat /\ Cardinality(Cancelling(e)') \in Nat
      /\ Cardinality(Pending(e)') - Member(r, Pending(e)')
            = Cardinality(Pending(e)) - Member(r, Pending(e))
      /\ Cardinality(Cancelling(e)') - Member(r, Cancelling(e)')
            = Cardinality(Cancelling(e)) - Member(r, Cancelling(e))
  BY <1>1, OneElement DEF CopiesSound
<1>3. stream[e] \in Nat /\ stream'[e] \in Nat /\ faults \in Nat /\ faults' \in Nat
  BY RelayAssumption DEF RelayInv, TypeOK
<1>4. \A x, S : Member(x, S) \in Int
  BY DEF Member
<1> QED BY <1>2, <1>3, <1>4 DEF Charged

\* Steps of the table and of time: a lease that ends while a round has the event is a fault.
LEMMA TableCopies ==
  ASSUME RelayInv, NEW e \in Events, CopiesSound(e), NEW f \in Events,
         InsertEvent(f) \/ LeaseExpires(f) \/ WindowPasses(f)
  PROVE  CopiesSound(e)'
<1>1. UNCHANGED <<stream, batch, sent, running>>
  BY DEF InsertEvent, LeaseExpires, WindowPasses
<1>2. Pending(e)' = Pending(e) /\ Cancelling(e)' = Cancelling(e) /\ Charged(e)' = Charged(e)
  BY <1>1 DEF Pending, Cancelling, Charged
<1>3. faults \in Nat /\ stream[e] \in Nat /\ (faults' = faults \/ faults' = faults + 1)
  BY RelayAssumption DEF RelayInv, TypeOK, InsertEvent, LeaseExpires, WindowPasses, Fault
<1>4. Charged(e) \in Nat
  BY <1>3, FS_CardinalityType DEF CopiesSound, Charged
<1>5. (\A r \in Replicas : e \notin batch[r]) => Charged(e) = stream[e]
  <2>1. SUFFICES ASSUME \A r \in Replicas : e \notin batch[r] PROVE Charged(e) = stream[e]
    OBVIOUS
  <2>2. Pending(e) = {} /\ Cancelling(e) = {}
    BY <2>1 DEF Pending, Cancelling
  <2> QED BY <1>3, <2>2, FS_EmptySet DEF Charged
<1>6. CASE row'[e] = row[e]
  BY <1>1, <1>2, <1>3, <1>4, <1>6 DEF CopiesSound
<1>7. CASE row'[e] # row[e]
  <2>1. /\ f = e /\ row'[e] = "ready"
        /\ row[e] = "none" \/ (row[e] = "leased" /\ LeaseExpires(e))
    BY <1>7 DEF RelayInv, TypeOK, InsertEvent, LeaseExpires, WindowPasses
  <2>2. Charged(e) <= faults'
    BY <1>3, <1>4, <1>5, <2>1 DEF CopiesSound, LeaseExpires, Fault
  <2> QED BY <1>1, <1>2, <1>3, <1>4, <2>1, <2>2 DEF CopiesSound
<1> QED BY <1>6, <1>7

\* start, stop and a crash: a stop is charged to the round it ends, if there is one.
LEMMA RuntimeCopies ==
  ASSUME RelayInv, TypeOK', NEW e \in Events, CopiesSound(e), NEW r \in Replicas,
         Starts(r) \/ Cancels(r) \/ LoopReturns(r) \/ Closes(r) \/ Crash(r)
  PROVE  CopiesSound(e)'
<1>1. OnlyMoves(r) /\ UNCHANGED <<row, stream>>
  BY DEF OnlyMoves, RelayInv, TypeOK, Starts, Cancels, LoopReturns, Closes, Crash
<1>2. /\ IsFiniteSet(Pending(e)') /\ IsFiniteSet(Cancelling(e)')
      /\ Charged(e) \in Nat /\ Charged(e)' \in Nat /\ faults \in Nat /\ faults' \in Nat
      /\ stream[e] \in Nat /\ stream[e] <= Charged(e)
      /\ Charged(e)' - stream'[e] - Member(r, Pending(e)') - Member(r, Cancelling(e)')
           = Charged(e) - stream[e] - Member(r, Pending(e)) - Member(r, Cancelling(e))
  BY <1>1, ChargeStep
<1>3. CASE LoopReturns(r) \/ Closes(r) \/ Starts(r)
  <2>1. UNCHANGED <<batch, sent, faults>>
    BY <1>3 DEF LoopReturns, Closes, Starts
  <2>2. Member(r, Pending(e)') = Member(r, Pending(e))
    BY <2>1 DEF Member, Pending
  <2>3. Member(r, Cancelling(e)') = Member(r, Cancelling(e))
    BY <1>3, <2>1 DEF Member, Cancelling, LoopReturns, Closes, Starts, RelayInv, LoopsHaveBus, RoundsAreInLoops
  <2>4. Charged(e)' = Charged(e)
    BY <1>1, <1>2, <2>2, <2>3 DEF Member
  <2> QED BY <1>1, <1>2, <2>1, <2>4 DEF CopiesSound
<1>4. CASE Cancels(r)
  <2>1. UNCHANGED <<batch, sent>> /\ faults' = faults + 1
    BY <1>4 DEF Cancels, Fault
  <2>2. Member(r, Pending(e)') = Member(r, Pending(e))
    BY <2>1 DEF Member, Pending
  <2>3. Member(r, Cancelling(e)) = 0 /\ Member(r, Cancelling(e)') \in {0, 1}
    BY <1>4 DEF Member, Cancelling, Cancels
  <2>4. Charged(e)' <= Charged(e) + 1
    BY <1>1, <1>2, <2>2, <2>3 DEF Member
  <2> QED BY <1>1, <1>2, <2>1, <2>4 DEF CopiesSound
<1>5. CASE Crash(r)
  <2>1. faults' = faults + 1 /\ batch'[r] = {}
    BY <1>5 DEF Crash, Fault, RelayInv, TypeOK
  <2>2. Member(r, Pending(e)') = 0 /\ Member(r, Cancelling(e)') = 0
    BY <2>1 DEF Member, Pending, Cancelling
  <2>3. Member(r, Pending(e)) \in {0, 1} /\ Member(r, Cancelling(e)) \in {0, 1}
    BY DEF Member
  <2>4. Charged(e)' <= Charged(e)
    BY <1>1, <1>2, <2>2, <2>3
  <2>5. \A q \in Replicas : batch'[q] \subseteq batch[q]
    BY <1>1, <2>1 DEF OnlyMoves
  <2>6. row'[e] = "leased" => stream'[e] <= faults'
    BY <1>1, <1>2, <2>1 DEF CopiesSound
  <2>7. Charged(e)' <= 1 + faults'
    BY <1>2, <2>1, <2>4 DEF CopiesSound
  <2>8. row'[e] = "ready" => Charged(e)' <= faults'
    BY <1>1, <1>2, <2>1, <2>4 DEF CopiesSound
  <2>9. row'[e] = "none" => stream'[e] = 0 /\ \A q \in Replicas : e \notin batch'[q]
    BY <1>1, <2>5 DEF CopiesSound
  <2> QED BY <1>2, <2>6, <2>7, <2>8, <2>9 DEF CopiesSound
<1> QED BY <1>3, <1>4, <1>5

\* A round: a lease may lead to a copy, a publish makes it one, and what ends without a
\* mark was charged when it failed or when it was cancelled.
LEMMA RoundCopies ==
  ASSUME RelayInv, TypeOK', NEW e \in Events, CopiesSound(e), NEW r \in Replicas,
         \/ RoundBegins(r) \/ Marks(r) \/ RoundFails(r)
         \/ \E f \in Events : Publishes(r, f) \/ PublishFails(r, f) \/ Cleans(r, f)
  PROVE  CopiesSound(e)'
<1>1. OnlyMoves(r)
  BY DEF OnlyMoves, RelayInv, TypeOK, RoundBegins, Marks, RoundFails, Publishes, PublishFails, Cleans
<1>2. /\ IsFiniteSet(Pending(e)') /\ IsFiniteSet(Cancelling(e)')
      /\ Charged(e) \in Nat /\ Charged(e)' \in Nat /\ faults \in Nat /\ faults' \in Nat
      /\ stream[e] \in Nat /\ stream'[e] \in Nat /\ stream[e] <= Charged(e)
      /\ Charged(e)' - stream'[e] - Member(r, Pending(e)') - Member(r, Cancelling(e)')
           = Charged(e) - stream[e] - Member(r, Pending(e)) - Member(r, Cancelling(e))
  BY <1>1, ChargeStep
<1>3. /\ Member(r, Pending(e)) \in {0, 1} /\ Member(r, Pending(e)') \in {0, 1}
      /\ Member(r, Cancelling(e)) \in {0, 1} /\ Member(r, Cancelling(e)') \in {0, 1}
  BY DEF Member
<1>4. CASE RoundBegins(r)
  <2>1. PICK claimed \in (SUBSET Ready) \ {{}} :
          /\ batch' = [batch EXCEPT ![r] = claimed]
          /\ row' = [f \in Events |-> IF f \in claimed THEN "leased" ELSE row[f]]
    BY <1>4 DEF RoundBegins
  <2>2. UNCHANGED <<stream, running, sent, faults>> /\ r \in running /\ batch[r] = {}
    BY <1>4 DEF RoundBegins
  <2>3. batch'[r] = claimed /\ sent[r] = NoEvent
    BY <2>1, <2>2 DEF RelayInv, TypeOK
  <2>4. /\ Member(r, Pending(e)) = 0 /\ Member(r, Cancelling(e)) = 0
        /\ Member(r, Cancelling(e)') = 0
        /\ Member(r, Pending(e)') = IF e \in claimed THEN 1 ELSE 0
    BY <2>2, <2>3, RelayAssumption DEF Member, Pending, Cancelling
  <2>5. CASE e \in claimed
    <3>1. row[e] = "ready" /\ row'[e] = "leased" /\ e \in batch'[r]
      BY <2>1, <2>3, <2>5 DEF Ready
    <3>2. Charged(e)' = Charged(e) + 1
      BY <1>2, <2>2, <2>4, <2>5
    <3> QED BY <1>2, <2>2, <3>1, <3>2 DEF CopiesSound
  <2>6. CASE e \notin claimed
    <3>1. row'[e] = row[e] /\ Charged(e)' = Charged(e)
      BY <1>2, <2>1, <2>2, <2>4, <2>6
    <3>2. \A q \in Replicas : e \in batch'[q] <=> e \in batch[q]
      BY <1>1, <2>2, <2>3, <2>6 DEF OnlyMoves
    <3> QED BY <1>2, <2>2, <3>1, <3>2 DEF CopiesSound
  <2> QED BY <2>5, <2>6
<1>5. ASSUME NEW f \in Events, Publishes(r, f) PROVE CopiesSound(e)'
  <2>1. /\ f \in batch[r] /\ sent[r] = NoEvent /\ Accepted(f) /\ sent'[r] = f
        /\ UNCHANGED <<row, running, batch, faults>>
    BY <1>5 DEF Publishes, RelayInv, TypeOK
  <2>2. Member(r, Cancelling(e)') = Member(r, Cancelling(e))
    BY <2>1 DEF Member, Cancelling
  <2>3. CASE e = f
    <3>1. Member(r, Pending(e)) = 1 /\ Member(r, Pending(e)') = 0
      BY <2>1, <2>3, RelayAssumption DEF Member, Pending
    <3>2. stream'[e] \in {stream[e], stream[e] + 1}
      BY <2>1, <2>3 DEF Accepted, RelayInv, TypeOK
    <3>3. Charged(e)' <= Charged(e)
      BY <1>2, <1>3, <2>2, <3>1, <3>2
    <3> QED BY <1>2, <2>1, <2>3, <3>3 DEF CopiesSound
  <2>4. CASE e # f
    <3>1. Member(r, Pending(e)') = Member(r, Pending(e)) /\ stream'[e] = stream[e]
      BY <2>1, <2>4, RelayAssumption DEF Member, Pending, Accepted, RelayInv, TypeOK
    <3>2. Charged(e)' = Charged(e)
      BY <1>2, <1>3, <2>2, <3>1
    <3> QED BY <1>2, <2>1, <3>1, <3>2 DEF CopiesSound
  <2> QED BY <2>3, <2>4
<1>6. ASSUME NEW f \in Events, PublishFails(r, f) PROVE CopiesSound(e)'
  <2>1. /\ f \in batch[r] /\ sent[r] = NoEvent /\ faults' = faults + 1
        /\ batch'[r] = batch[r] \ {f} /\ UNCHANGED <<sent, running>>
        /\ stream'[f] \in {stream[f], stream[f] + 1}
        /\ \A g \in Events \ {f} : stream'[g] = stream[g] /\ row'[g] = row[g]
        /\ row'[f] = IF row[f] = "leased" THEN "ready" ELSE row[f]
    BY <1>6 DEF PublishFails, Fault, Accepted, RelayInv, TypeOK
  <2>2. CASE e = f
    <3>1. /\ Member(r, Pending(e)) = 1 /\ Member(r, Pending(e)') = 0
          /\ Member(r, Cancelling(e)') = 0
      BY <2>1, <2>2, RelayAssumption DEF Member, Pending, Cancelling
    <3>2. Charged(e)' <= Charged(e)
      BY <1>2, <1>3, <2>1, <2>2, <3>1
    <3>3. row[e] # "none" /\ row'[e] # "none" /\ row'[e] # "leased"
      BY <2>1, <2>2 DEF CopiesSound
    <3> QED BY <1>2, <2>1, <3>2, <3>3 DEF CopiesSound
  <2>3. CASE e # f
    <3>1. \A q \in Replicas : e \in batch'[q] <=> e \in batch[q]
      BY <1>1, <2>1, <2>3 DEF OnlyMoves
    <3>2. /\ Member(r, Pending(e)') = Member(r, Pending(e))
          /\ Member(r, Cancelling(e)') = Member(r, Cancelling(e))
      BY <2>1, <3>1 DEF Member, Pending, Cancelling
    <3>3. Charged(e)' = Charged(e) /\ stream'[e] = stream[e] /\ row'[e] = row[e]
      BY <1>2, <1>3, <2>1, <2>3, <3>2
    <3> QED BY <1>2, <2>1, <3>1, <3>3 DEF CopiesSound
  <2> QED BY <2>2, <2>3
<1>7. CASE Marks(r)
  <2>1. PICK f \in Events : f = sent[r]
    BY <1>7 DEF Marks, RelayInv, TypeOK
  <2>2. /\ f \in batch[r] /\ batch'[r] = batch[r] \ {f} /\ sent'[r] = NoEvent
        /\ UNCHANGED <<stream, running, faults>>
        /\ \A g \in Events \ {f} : row'[g] = row[g]
        /\ row'[f] \in {"deleted", "published"}
    BY <1>7, <2>1, RelayAssumption DEF Marks, RelayInv, TypeOK
  <2>3. CASE e = f
    <3>1. /\ Member(r, Pending(e)) = 0 /\ Member(r, Pending(e)') = 0
          /\ Member(r, Cancelling(e)') = 0
      BY <2>1, <2>2, <2>3 DEF Member, Pending, Cancelling
    <3>2. Charged(e)' <= Charged(e)
      BY <1>2, <1>3, <2>2, <3>1
    <3> QED BY <1>2, <2>2, <2>3, <3>2 DEF CopiesSound
  <2>4. CASE e # f
    <3>1. \A q \in Replicas : e \in batch'[q] <=> e \in batch[q]
      BY <1>1, <2>2, <2>4 DEF OnlyMoves
    <3>2. /\ Member(r, Pending(e)') = Member(r, Pending(e))
          /\ Member(r, Cancelling(e)') = Member(r, Cancelling(e))
      BY <2>1, <2>2, <2>4, <3>1, RelayAssumption DEF Member, Pending, Cancelling
    <3>3. Charged(e)' = Charged(e) /\ row'[e] = row[e]
      BY <1>2, <1>3, <2>2, <2>4, <3>2
    <3> QED BY <1>2, <2>2, <3>1, <3>3 DEF CopiesSound
  <2> QED BY <2>3, <2>4
<1>8. CASE RoundFails(r)
  <2>1. /\ batch'[r] = {} /\ UNCHANGED <<row, stream, running>>
        /\ IF r \in running THEN faults' = faults + 1 ELSE faults' = faults
    BY <1>8 DEF RoundFails, Fault, RelayInv, TypeOK
  <2>2. Member(r, Pending(e)') = 0 /\ Member(r, Cancelling(e)') = 0
    BY <2>1 DEF Member, Pending, Cancelling
  <2>3. Charged(e)' <= Charged(e)
    BY <1>2, <1>3, <2>1, <2>2
  <2>4. \A q \in Replicas : batch'[q] \subseteq batch[q]
    BY <1>1, <2>1 DEF OnlyMoves
  <2>5. ASSUME row[e] = "leased", \A q \in Replicas : e \notin batch'[q]
        PROVE  stream'[e] <= faults'
    <3>1. CASE e \notin batch[r]
      <4>1. \A q \in Replicas : e \notin batch[q]
        BY <1>1, <2>5, <3>1 DEF OnlyMoves
      <4> QED BY <1>2, <2>1, <2>5, <4>1 DEF CopiesSound
    <3>2. CASE e \in batch[r] /\ r \in running
      BY <1>2, <2>1, <3>2 DEF CopiesSound
    <3>3. CASE e \in batch[r] /\ r \notin running
      <4>1. Member(r, Cancelling(e)) = 1
        BY <3>3 DEF Member, Cancelling
      <4>2. Charged(e)' <= Charged(e) - 1 /\ stream'[e] <= Charged(e)'
        <5>1. Charged(e)' <= Charged(e) - 1
          BY <1>2, <1>3, <2>1, <2>2, <4>1
        <5>2. Cardinality(Pending(e)') \in Nat /\ Cardinality(Cancelling(e)') \in Nat
          BY <1>2, FS_CardinalityType
        <5> QED BY <1>2, <5>1, <5>2 DEF Charged
      <4> QED BY <1>2, <2>1, <3>3, <4>2 DEF CopiesSound
    <3> QED BY <3>1, <3>2, <3>3
  <2> QED BY <1>2, <2>1, <2>3, <2>4, <2>5 DEF CopiesSound
<1>9. ASSUME NEW f \in Events, Cleans(r, f) PROVE CopiesSound(e)'
  <2>1. /\ UNCHANGED <<stream, batch, sent, running, faults>>
        /\ row'[e] = row[e] \/ row'[e] = "deleted"
    BY <1>9 DEF Cleans, RelayInv, TypeOK
  <2>2. Pending(e)' = Pending(e) /\ Cancelling(e)' = Cancelling(e) /\ Charged(e)' = Charged(e)
    BY <2>1 DEF Pending, Cancelling, Charged
  <2> QED BY <2>1, <2>2 DEF CopiesSound
<1> QED BY <1>4, <1>5, <1>6, <1>7, <1>8, <1>9

LEMMA CopiesStep ==
  ASSUME RelayInv, [Next]_vars, NEW e \in Events, CopiesSound(e)
  PROVE  CopiesSound(e)'
<1>1. TypeOK'
  BY StepKeeps DEF RelayInv
<1>2. CASE UNCHANGED vars
  BY <1>2 DEF vars, CopiesSound, Charged, Pending, Cancelling
<1>3. CASE Next
  BY <1>1, <1>3, TableCopies, RuntimeCopies, RoundCopies DEF Next, RelayStep
<1> QED BY <1>2, <1>3

\* Replicas that relay side by side add no copy of their own: each copy beyond the first has
\* a failure, a stop or a crash behind it.
THEOREM CopiesNeedFaults == Spec => []DuplicatesNeedFaults
<1>1. Init => \A e \in Events : CopiesSound(e)
  <2> SUFFICES ASSUME Init, NEW e \in Events PROVE CopiesSound(e)
    OBVIOUS
  <2>1. Pending(e) = {} /\ Cancelling(e) = {} /\ stream[e] = 0 /\ row[e] = "none" /\ faults = 0
    BY DEF Init, Pending, Cancelling
  <2> QED BY <2>1, FS_EmptySet DEF Init, CopiesSound, Charged
<1>2. RelayInv /\ (\A e \in Events : CopiesSound(e)) /\ [Next]_vars =>
        (\A e \in Events : CopiesSound(e))'
  BY CopiesStep
<1>3. RelayInv /\ (\A e \in Events : CopiesSound(e)) => DuplicatesNeedFaults
  <2> SUFFICES ASSUME RelayInv, NEW e \in Events, CopiesSound(e) PROVE stream[e] <= 1 + faults
    BY DEF DuplicatesNeedFaults
  <2>1. Cardinality(Pending(e)) \in Nat /\ Cardinality(Cancelling(e)) \in Nat
    BY FS_CardinalityType DEF CopiesSound
  <2>2. stream[e] \in Nat /\ faults \in Nat
    BY RelayAssumption DEF RelayInv, TypeOK
  <2> QED BY <2>1, <2>2 DEF CopiesSound, Charged
<1> QED BY <1>1, <1>2, <1>3, RelayInvariant, PTL DEF Spec

=============================================================================
