------------------------ MODULE RequestAdmissionProofs ------------------------
(***************************************************************************)
(* Proofs about RequestAdmission, for any requests, callers, tenants and   *)
(* limits.  A request carries the rest of its chain; the proofs say what   *)
(* holds of it once a stage is no longer ahead of it.                      *)
(***************************************************************************)
EXTENDS RequestAdmission, Integers, FiniteSetTheorems, TLAPS

-----------------------------------------------------------------------------
(* Chains *)

Stages ==
    {"ip", "api", "authentication", "authorization", "user", "gate", "caller", "application",
     "lookup", "tenant", "template", "recipient", "work", "answer"}

\* The order every chain keeps to.
Rank ==
    [s \in Stages |->
        CASE s = "ip" -> 1 [] s = "api" -> 2 [] s = "authentication" -> 3
          [] s = "authorization" -> 4 [] s = "user" -> 5 [] s = "gate" -> 6
          [] s = "caller" -> 7 [] s = "application" -> 8 [] s = "lookup" -> 9
          [] s = "tenant" -> 10 [] s = "template" -> 11 [] s = "recipient" -> 12
          [] s = "work" -> 13 [] OTHER -> 14]

LEMMA Ranks ==
  /\ Rank["ip"] = 1 /\ Rank["api"] = 2 /\ Rank["authentication"] = 3
  /\ Rank["authorization"] = 4 /\ Rank["user"] = 5 /\ Rank["gate"] = 6
  /\ Rank["caller"] = 7 /\ Rank["application"] = 8 /\ Rank["lookup"] = 9
  /\ Rank["tenant"] = 10 /\ Rank["template"] = 11 /\ Rank["recipient"] = 12
  /\ Rank["work"] = 13 /\ Rank["answer"] = 14
  /\ \A s \in Stages : Rank[s] \in 1 .. 14
  BY DEF Rank, Stages

Sorted(left) ==
    \A i, j \in 1 .. Len(left) : i < j => Rank[left[i]] < Rank[left[j]]

\* The stages that are ahead of a request.
Ahead(left) == {left[i] : i \in 1 .. Len(left)}

\* What passing a stage does to the rest of the chain.
LEMMA TailOf ==
  ASSUME NEW left \in Seq(Stages), left # <<>>, Sorted(left)
  PROVE  /\ Tail(left) \in Seq(Stages) /\ Sorted(Tail(left))
         /\ Head(left) \in Ahead(left) /\ Ahead(Tail(left)) = Ahead(left) \ {Head(left)}
         /\ \A s \in Ahead(Tail(left)) : s \in Stages /\ Rank[Head(left)] < Rank[s]
         /\ \A s \in Ahead(left) : s \in Stages /\ Rank[Head(left)] <= Rank[s]
<1>1. /\ Len(left) \in Nat /\ Len(left) > 0 /\ Head(left) = left[1]
      /\ Tail(left) \in Seq(Stages) /\ Len(Tail(left)) = Len(left) - 1
      /\ \A i \in 1 .. Len(left) - 1 : Tail(left)[i] = left[i + 1]
      /\ \A i \in 1 .. Len(left) : left[i] \in Stages /\ Rank[left[i]] \in Nat
  BY Ranks
<1>2. Sorted(Tail(left))
  BY <1>1 DEF Sorted
<1>3. \A i \in 2 .. Len(left) : left[i] # Head(left) /\ Rank[Head(left)] < Rank[left[i]]
  BY <1>1 DEF Sorted
<1>4. Head(left) \in Ahead(left)
  BY <1>1 DEF Ahead
<1>5. Ahead(Tail(left)) = {left[i] : i \in 2 .. Len(left)}
  <2>1. ASSUME NEW i \in 2 .. Len(left) PROVE left[i] \in Ahead(Tail(left))
    <3>1. i - 1 \in 1 .. Len(Tail(left)) /\ Tail(left)[i - 1] = left[i]
      BY <1>1
    <3> QED BY <3>1 DEF Ahead
  <2>2. ASSUME NEW i \in 1 .. Len(Tail(left)) PROVE Tail(left)[i] \in {left[j] : j \in 2 .. Len(left)}
    <3>1. i + 1 \in 2 .. Len(left) /\ Tail(left)[i] = left[i + 1]
      BY <1>1
    <3> QED BY <3>1
  <2> QED BY <2>1, <2>2 DEF Ahead
<1>6. Ahead(left) = {left[i] : i \in 2 .. Len(left)} \cup {Head(left)}
  BY <1>1 DEF Ahead
<1>7. Ahead(Tail(left)) = Ahead(left) \ {Head(left)}
  BY <1>3, <1>5, <1>6
<1>8. \A s \in Ahead(Tail(left)) : s \in Stages /\ Rank[Head(left)] < Rank[s]
  BY <1>1, <1>3, <1>5
<1>9. Head(left) \in Stages /\ Rank[Head(left)] <= Rank[Head(left)]
  BY <1>1
<1>10. \A s \in Ahead(left) : s \in Stages /\ Rank[Head(left)] <= Rank[s]
  <2> SUFFICES ASSUME NEW s \in Ahead(left), s # Head(left)
               PROVE  s \in Stages /\ Rank[Head(left)] <= Rank[s]
    BY <1>9
  <2>1. s \in Stages /\ Rank[Head(left)] < Rank[s]
    BY <1>7, <1>8
  <2> QED BY <1>9, <2>1, Ranks
<1> QED BY <1>1, <1>2, <1>4, <1>7, <1>8, <1>10

\* A chain in order, from one rank to another.
Between(left, low, high) ==
    left \in Seq(Stages) /\ Sorted(left) /\ \A s \in Ahead(left) : Rank[s] \in low .. high

\* Chains one after the other.
LEMMA Joined ==
  ASSUME NEW first, NEW second, NEW a \in Nat, NEW b \in Nat, NEW c \in Nat, NEW d \in Nat,
         a <= b, b < c, c <= d, Between(first, a, b), Between(second, c, d)
  PROVE  Between(first \o second, a, d) /\ Ahead(first \o second) = Ahead(first) \cup Ahead(second)
<1> USE DEF Between
<1> DEFINE n == Len(first)
           both == first \o second
<1>1. /\ both \in Seq(Stages) /\ n \in Nat /\ Len(second) \in Nat /\ Len(both) = n + Len(second)
      /\ \A i \in 1 .. n : both[i] = first[i]
      /\ \A i \in n + 1 .. Len(both) : i - n \in 1 .. Len(second) /\ both[i] = second[i - n]
  OBVIOUS
<1>2. \A i \in 1 .. Len(second) : n + i \in n + 1 .. Len(both) /\ both[n + i] = second[i]
  BY <1>1
<1>3. Ahead(both) = Ahead(first) \cup Ahead(second)
  <2>1. ASSUME NEW i \in 1 .. Len(both) PROVE both[i] \in Ahead(first) \cup Ahead(second)
    BY <1>1 DEF Ahead
  <2>2. ASSUME NEW i \in 1 .. n PROVE first[i] \in Ahead(both)
    BY <1>1 DEF Ahead
  <2>3. ASSUME NEW i \in 1 .. Len(second) PROVE second[i] \in Ahead(both)
    BY <1>1, <1>2 DEF Ahead
  <2> QED BY <2>1, <2>2, <2>3 DEF Ahead
<1>4. ASSUME NEW i \in 1 .. Len(both), NEW j \in 1 .. Len(both), i < j
      PROVE  Rank[both[i]] < Rank[both[j]]
  <2>1. CASE j \in 1 .. n
    BY <1>1, <1>4, <2>1 DEF Sorted
  <2>2. CASE i \in n + 1 .. Len(both)
    BY <1>1, <1>4, <2>2 DEF Sorted
  <2>3. CASE i \in 1 .. n /\ j \in n + 1 .. Len(both)
    <3>1. both[i] \in Ahead(first) /\ both[j] \in Ahead(second)
      BY <1>1, <2>3 DEF Ahead
    <3>2. Rank[both[i]] \in a .. b /\ Rank[both[j]] \in c .. d
      BY <3>1
    <3>3. \A x \in a .. b, y \in c .. d : x < y
      OBVIOUS
    <3> QED BY <3>2, <3>3
  <2> QED BY <1>1, <1>4, <2>1, <2>2, <2>3
<1>5. Sorted(both)
  BY <1>4 DEF Sorted
<1>6. \A s \in Ahead(both) : Rank[s] \in a .. d
  <2>1. \A s \in Ahead(first) : Rank[s] \in a .. b
    OBVIOUS
  <2>2. \A s \in Ahead(second) : Rank[s] \in c .. d
    OBVIOUS
  <2>3. \A x \in a .. b : x \in a .. d
    OBVIOUS
  <2>4. \A x \in c .. d : x \in a .. d
    OBVIOUS
  <2> QED BY <1>3, <2>1, <2>2, <2>3, <2>4
<1> QED BY <1>1, <1>3, <1>5, <1>6

Checks == <<"caller", "application">>
Known == <<"lookup">>
Effect == <<"work", "answer">>

LEMMA Parts ==
  /\ Between(HTTPChain, 1, 6) /\ Ahead(HTTPChain) = {"ip", "api", "authentication", "authorization", "user", "gate"}
  /\ Between(GRPCChain, 3, 6) /\ Ahead(GRPCChain) = {"authentication", "authorization", "gate"}
  /\ Between(Known, 9, 9) /\ Ahead(Known) = {"lookup"}
  /\ Between(Frequency, 10, 12) /\ Ahead(Frequency) = {"tenant", "template", "recipient"}
  /\ Between(Checks, 7, 8) /\ Ahead(Checks) = {"caller", "application"}
  /\ Between(Effect, 13, 14) /\ Ahead(Effect) = {"work", "answer"}
  /\ Between(<< >>, 9, 12) /\ Ahead(<< >>) = {}
<1>1. Between(HTTPChain, 1, 6) /\ Ahead(HTTPChain) = {"ip", "api", "authentication", "authorization", "user", "gate"}
  <2>1. HTTPChain \in Seq(Stages) /\ Sorted(HTTPChain) /\ Ahead(HTTPChain) = {"ip", "api", "authentication", "authorization", "user", "gate"}
    BY Ranks DEF HTTPChain, Sorted, Ahead, Stages
  <2> QED BY <2>1, Ranks DEF Between
<1>2. Between(GRPCChain, 3, 6) /\ Ahead(GRPCChain) = {"authentication", "authorization", "gate"}
  <2>1. GRPCChain \in Seq(Stages) /\ Sorted(GRPCChain) /\ Ahead(GRPCChain) = {"authentication", "authorization", "gate"}
    BY Ranks DEF GRPCChain, Sorted, Ahead, Stages
  <2> QED BY <2>1, Ranks DEF Between
<1>3. Between(Known, 9, 9) /\ Ahead(Known) = {"lookup"}
  <2>1. Known \in Seq(Stages) /\ Sorted(Known) /\ Ahead(Known) = {"lookup"}
    BY Ranks DEF Known, Sorted, Ahead, Stages
  <2> QED BY <2>1, Ranks DEF Between
<1>4. Between(Frequency, 10, 12) /\ Ahead(Frequency) = {"tenant", "template", "recipient"}
  <2>1. Frequency \in Seq(Stages) /\ Sorted(Frequency) /\ Ahead(Frequency) = {"tenant", "template", "recipient"}
    BY Ranks DEF Frequency, Sorted, Ahead, Stages
  <2> QED BY <2>1, Ranks DEF Between
<1>5. Between(Checks, 7, 8) /\ Ahead(Checks) = {"caller", "application"}
  <2>1. Checks \in Seq(Stages) /\ Sorted(Checks) /\ Ahead(Checks) = {"caller", "application"}
    BY Ranks DEF Checks, Sorted, Ahead, Stages
  <2> QED BY <2>1, Ranks DEF Between
<1>6. Between(Effect, 13, 14) /\ Ahead(Effect) = {"work", "answer"}
  <2>1. Effect \in Seq(Stages) /\ Sorted(Effect) /\ Ahead(Effect) = {"work", "answer"}
    BY Ranks DEF Effect, Sorted, Ahead, Stages
  <2> QED BY <2>1, Ranks DEF Between
<1>7. Between(<< >>, 9, 12) /\ Ahead(<< >>) = {}
  BY DEF Between, Sorted, Ahead, Stages
<1> QED BY <1>1, <1>2, <1>3, <1>4, <1>5, <1>6, <1>7

\* The chain of every request is in that order, and a Send has all stages of its kind.
LEMMA Chains ==
  ASSUME NEW transport \in {"http", "grpc"}, NEW op
  PROVE  /\ Chain(transport, op) \in Seq(Stages) /\ Sorted(Chain(transport, op))
         /\ {"authentication", "authorization", "caller", "application", "work", "answer"}
              \subseteq Ahead(Chain(transport, op))
         /\ op = "send" =>
              {"lookup", "tenant", "template", "recipient"} \subseteq Ahead(Chain(transport, op))
         /\ op # "send" =>
              {"lookup", "tenant", "template", "recipient"} \cap Ahead(Chain(transport, op)) = {}
<1> DEFINE front == IF transport = "http" THEN HTTPChain ELSE GRPCChain
           limits == IF op = "send" THEN Known \o Frequency ELSE << >>
           checks == Checks \o limits
           service == checks \o Effect
<1>1. Between(front, 1, 6) /\ {"authentication", "authorization"} \subseteq Ahead(front)
  <2>1. Between(GRPCChain, 1, 6)
    BY Parts DEF Between
  <2> QED BY <2>1, Parts
<1>2. /\ Between(limits, 9, 12)
      /\ Ahead(limits) = IF op = "send" THEN {"lookup", "tenant", "template", "recipient"} ELSE {}
  <2>1. /\ Between(Known \o Frequency, 9, 12)
        /\ Ahead(Known \o Frequency) = Ahead(Known) \cup Ahead(Frequency)
    BY Parts, Joined
  <2> QED BY <2>1, Parts
<1> HIDE DEF front, limits
<1>3. Between(checks, 7, 12) /\ Ahead(checks) = {"caller", "application"} \cup Ahead(limits)
  BY <1>2, Parts, Joined
<1> HIDE DEF checks
<1>4. Between(service, 7, 14) /\ Ahead(service) = Ahead(checks) \cup {"work", "answer"}
  BY <1>3, Parts, Joined
<1> HIDE DEF service
<1>5. Between(front \o service, 1, 14) /\ Ahead(front \o service) = Ahead(front) \cup Ahead(service)
  BY <1>1, <1>4, Joined
<1>6. Chain(transport, op) = front \o service
  BY DEF Chain, ServiceChain, front, service, checks, limits, Known, Checks, Effect
<1>7. op # "send" => \A s \in Ahead(front) : s \notin {"lookup", "tenant", "template", "recipient"}
  <2>1. \A s \in Ahead(front) : Rank[s] \in 1 .. 6
    BY <1>1 DEF Between
  <2>2. \A s \in {"lookup", "tenant", "template", "recipient"} : Rank[s] \notin 1 .. 6
    BY Ranks
  <2> QED BY <2>1, <2>2
<1> QED BY <1>1, <1>2, <1>3, <1>4, <1>5, <1>6, <1>7 DEF Between

-----------------------------------------------------------------------------
(* What holds of a request along its chain *)

SendLimits == {"tenant", "template", "recipient"}

\* A request on its way, and one that has ended.
Carried ==
    [transport: {"http", "grpc"}, operation: Operations, credential: Tokens \cup {PSK, Nothing},
     tenant: Tenants, key: Keys \cup {NoKey}, left: Seq(Stages) \ {<< >>},
     principal: Tokens \cup {PSK, Nobody}, permitted: BOOLEAN, verified: BOOLEAN,
     charged: SUBSET Buckets, worked: BOOLEAN, repeated: BOOLEAN]

Answered ==
    {x \in [left: {<< >>}, worked: BOOLEAN, answer: Kinds] : x.answer \in Refusals => ~x.worked}

\* Entitled, of a request that is not in the table.
May(x) ==
    /\ x.principal # Nobody
    /\ x.principal \in Users => policy.jwks /\ TenantOf[x.principal] = x.tenant

\* The chain is in order and ends with the answer; limits are for Sends.
InOrder(x) ==
    /\ Sorted(x.left) /\ "answer" \in Ahead(x.left)
    /\ "authentication" \in Ahead(x.left) => "caller" \in Ahead(x.left)
    /\ x.operation # "send" => Ahead(x.left) \cap (SendLimits \cup {"lookup"}) = {}

\* What a stage that is no longer ahead has established.
Established(x) ==
    /\ "authorization" \notin Ahead(x.left) => (policy.production => x.permitted)
    /\ "caller" \notin Ahead(x.left) => May(x)
    /\ "application" \notin Ahead(x.left) => x.verified
    /\ x.operation = "send" /\ "lookup" \notin Ahead(x.left) => ~x.repeated
    /\ x.operation = "send" /\ policy.limits = "fail_closed" =>
         \A d \in SendLimits \ Ahead(x.left) : <<d, x.tenant>> \in x.charged

\* Who is charged: before authentication nobody is, but the address and the route.
ChargesSound(x) ==
    \A b \in x.charged :
        /\ "authentication" \in Ahead(x.left) => b[1] \in {"ip", "api"}
        /\ b[1] \in SendLimits => May(x) /\ x.verified /\ ~x.repeated
        /\ b[1] = "user" => b[2] = x.principal /\ (policy.production => x.permitted)

\* A request that has worked has only its answer to give.
WorkedLast(x) == x.worked => Ahead(x.left) = {"answer"}

Along(x) == InOrder(x) /\ Established(x) /\ ChargesSound(x) /\ WorkedLast(x)

\* Passing any stage but the answer.
LEMMA Forward ==
  ASSUME NEW x \in Carried, InOrder(x), Head(x.left) # "answer"
  PROVE  /\ Tail(x.left) \in Seq(Stages) \ {<< >>} /\ Sorted(Tail(x.left))
         /\ Head(x.left) \in Stages /\ Head(x.left) \in Ahead(x.left)
         /\ Ahead(Tail(x.left)) = Ahead(x.left) \ {Head(x.left)}
         /\ \A s \in Ahead(Tail(x.left)) : s \in Stages /\ Rank[Head(x.left)] < Rank[s]
<1>1. x.left \in Seq(Stages) /\ x.left # << >> /\ Sorted(x.left) /\ "answer" \in Ahead(x.left)
  BY DEF Carried, InOrder
<1>2. "answer" \in Ahead(Tail(x.left))
  BY <1>1, TailOf
<1>3. Tail(x.left) # << >>
  BY <1>2, Parts
<1>4. Head(x.left) \in Stages
  BY <1>1, TailOf
<1> QED BY <1>1, <1>3, <1>4, TailOf

\* What a step at its head may change of a request, and must establish.
Advances(x, y) ==
    /\ y \in Carried /\ y.left = Tail(x.left)
    /\ y.operation = x.operation /\ y.tenant = x.tenant /\ y.repeated = x.repeated
    /\ Head(x.left) # "answer"
    /\ Head(x.left) # "authentication" => y.principal = x.principal
    /\ x.permitted => y.permitted
    /\ x.verified => y.verified
    /\ Head(x.left) = "authorization" => (policy.production => y.permitted)
    /\ Head(x.left) = "caller" => May(y)
    /\ Head(x.left) = "application" => y.verified
    /\ Head(x.left) = "lookup" => ~y.repeated
    /\ Head(x.left) \in SendLimits /\ policy.limits = "fail_closed" =>
         <<Head(x.left), y.tenant>> \in y.charged
    /\ x.charged \subseteq y.charged
    /\ \A b \in y.charged \ x.charged :
         b[1] = Head(x.left) /\ b[1] \in Dimensions /\ (b[1] = "user" => b[2] = y.principal)
    /\ y.worked => Head(x.left) = "work"

\* Such a step keeps what holds along the chain.
LEMMA AdvanceKeeps ==
  ASSUME NEW x \in Carried, Along(x), NEW y, Advances(x, y)
  PROVE  Along(y)
<1> DEFINE A == Ahead(x.left)
           B == Ahead(y.left)
           h == Head(x.left)
<1>1. /\ y.left = Tail(x.left) /\ Sorted(y.left) /\ h \in Stages /\ h \in A /\ B = A \ {h}
      /\ h # "answer" /\ \A s \in B : s \in Stages /\ Rank[h] < Rank[s]
  BY Forward DEF Along, Advances
<1>2. y.operation = x.operation /\ y.tenant = x.tenant /\ y.repeated = x.repeated
      /\ (h # "authentication" => y.principal = x.principal)
      /\ (x.permitted => y.permitted) /\ (x.verified => y.verified)
  BY DEF Advances
<1>3. "authentication" \in B => h \in {"ip", "api"}
  BY <1>1, Ranks DEF Stages
<1>4. InOrder(y)
  BY <1>1, <1>2, <1>3 DEF Along, InOrder
<1>5. h # "authentication" /\ May(x) => May(y)
  BY <1>2 DEF May
<1>6. h = "authentication" => "caller" \in B
  BY <1>1 DEF Along, InOrder
<1>7. Established(y)
  <2>1. "authorization" \notin B => (policy.production => y.permitted)
    BY <1>1, <1>2 DEF Along, Established, Advances
  <2>2. "caller" \notin B => May(y)
    BY <1>1, <1>5, <1>6 DEF Along, Established, Advances
  <2>3. "application" \notin B => y.verified
    BY <1>1, <1>2 DEF Along, Established, Advances
  <2>4. y.operation = "send" /\ "lookup" \notin B => ~y.repeated
    BY <1>1, <1>2 DEF Along, Established, Advances
  <2>5. ASSUME y.operation = "send", policy.limits = "fail_closed", NEW d \in SendLimits \ B
        PROVE  <<d, y.tenant>> \in y.charged
    BY <1>1, <1>2, <2>5 DEF Along, Established, Advances
  <2> QED BY <2>1, <2>2, <2>3, <2>4, <2>5 DEF Established
<1>8. ASSUME NEW b \in y.charged
      PROVE  /\ "authentication" \in B => b[1] \in {"ip", "api"}
             /\ b[1] \in SendLimits => May(y) /\ y.verified /\ ~y.repeated
             /\ b[1] = "user" => b[2] = y.principal /\ (policy.production => y.permitted)
  <2>1. CASE b \in x.charged
    <3>1. /\ "authentication" \in A => b[1] \in {"ip", "api"}
          /\ b[1] \in SendLimits => May(x) /\ x.verified /\ ~x.repeated
          /\ b[1] = "user" => b[2] = x.principal /\ (policy.production => x.permitted)
      BY <2>1 DEF Along, ChargesSound
    <3>2. h = "authentication" => b[1] \notin SendLimits \cup {"user"}
      BY <1>1, <3>1 DEF SendLimits
    <3> QED BY <1>1, <1>2, <1>5, <3>1, <3>2
  <2>2. CASE b \notin x.charged
    <3>1. b[1] = h /\ b[1] \in Dimensions /\ (b[1] = "user" => b[2] = y.principal)
      BY <2>2 DEF Advances
    <3>2. CASE h \in SendLimits
      <4>1. \A s \in {"authorization", "caller", "application", "lookup", "authentication"} :
              s \notin A
        BY <1>1, <3>2, Ranks DEF SendLimits
      <4>2. x.operation = "send"
        BY <1>1, <3>2 DEF Along, InOrder
      <4>3. May(x) /\ x.verified /\ ~x.repeated
        BY <4>1, <4>2 DEF Along, Established
      <4> QED BY <1>2, <1>5, <3>1, <3>2, <4>1, <4>3, <1>1 DEF SendLimits
    <3>3. CASE h = "user"
      <4>1. "authorization" \notin A /\ "authentication" \notin B
        BY <1>1, <3>3, Ranks
      <4> QED BY <1>1, <1>2, <3>1, <3>3, <4>1 DEF Along, Established, SendLimits
    <3>4. CASE h \in {"ip", "api"}
      BY <3>1, <3>4 DEF SendLimits
    <3> QED BY <3>1, <3>2, <3>3, <3>4 DEF Dimensions, SendLimits
  <2> QED BY <2>1, <2>2
<1>9. WorkedLast(y)
  <2>1. SUFFICES ASSUME y.worked, NEW s \in B PROVE s = "answer"
    BY <1>4 DEF WorkedLast, InOrder
  <2>2. h = "work"
    BY <2>1 DEF Advances
  <2> QED BY <1>1, <2>2, Ranks DEF Stages
<1> QED BY <1>4, <1>7, <1>8, <1>9 DEF Along, ChargesSound

-----------------------------------------------------------------------------
(* One request moves *)

\* A Send has a key, and the delivery of a repeated one is in the table.
Repeats(x) ==
    /\ x.operation = "send" => x.key \in Keys
    /\ x.repeated => <<x.tenant, x.key>> \in deliveries

RequestsSound ==
    /\ policy \in Policies /\ DOMAIN request = Requests
    /\ \A r \in Requests : request[r] # NoRequest =>
        request[r] \in Answered
          \/ (request[r] \in Carried /\ Along(request[r]) /\ Repeats(request[r]))

\* A request as it arrives.
Fresh(x) ==
    /\ x \in Carried /\ x.left = Chain(x.transport, x.operation)
    /\ x.charged = {} /\ ~x.worked /\ Repeats(x)

Replaced(r, y) == request' = [request EXCEPT ![r] = y]

\* What the steps of a request do to it.
Moved(r) ==
    \E y : /\ Replaced(r, y)
           /\ \/ y \in Answered
              \/ request[r] = NoRequest /\ Fresh(y)
              \/ Open(r) /\ Advances(request[r], y) /\ y.key = request[r].key

\* It is not charged for more.
Unspent(r) ==
    \A y : Replaced(r, y) /\ y \notin Answered =>
        y.charged = {} \/ (Open(r) /\ y.charged = request[r].charged)

LEMMA Opened ==
  ASSUME RequestsSound, NEW r \in Requests, Open(r)
  PROVE  /\ request[r] \in Carried /\ Along(request[r]) /\ Repeats(request[r])
         /\ Head(request[r].left) # "answer" => ~request[r].worked
<1>1. request[r] \in Carried /\ Along(request[r]) /\ Repeats(request[r])
  BY DEF RequestsSound, Open, Answered
<1>2. Head(request[r].left) \in Ahead(request[r].left)
  BY <1>1, TailOf DEF Carried, Along, InOrder
<1> QED BY <1>1, <1>2 DEF Along, WorkedLast

\* A function replaced at one point is the same however it is written.
LEMMA OneValue ==
  ASSUME RequestsSound, NEW r \in Requests, NEW y, NEW z, Replaced(r, y), Replaced(r, z)
  PROVE  y = z
<1>1. request'[r] = y /\ request'[r] = z
  BY DEF RequestsSound, Replaced
<1> QED BY <1>1

LEMMA EndsMoves ==
  ASSUME RequestsSound, NEW r \in Requests, Open(r), NEW kind \in Kinds, Ends(r, kind),
         kind \in {"ok", "internal", "timeout"} \/ Head(request[r].left) # "answer"
  PROVE  Moved(r) /\ Unspent(r)
<1> DEFINE x == request[r]
           y == [left |-> << >>, worked |-> x.worked, answer |-> Answer(x.transport, kind)]
<1>1. x \in Carried /\ (Head(x.left) # "answer" => ~x.worked)
  BY Opened
<1>2. Answer(x.transport, kind) \in Kinds
  BY DEF Answer, grpcError, Kinds
<1>3. kind \in {"ok", "internal", "timeout"} => Answer(x.transport, kind) \notin Refusals
  BY DEF Answer, grpcError, Refusals
<1>4. y \in Answered
  BY <1>1, <1>2, <1>3 DEF Carried, Answered
<1>5. Replaced(r, y)
  BY DEF Ends, Replaced
<1> HIDE DEF y
<1> QED BY <1>4, <1>5, OneValue DEF Moved, Unspent

\* A step that only goes on.
LEMMA PassesMoves ==
  ASSUME RequestsSound, NEW r \in Requests, Open(r), Passes(r),
         Head(request[r].left) \notin {"answer", "application"},
         Head(request[r].left) = "authorization" => (policy.production => request[r].permitted),
         Head(request[r].left) = "caller" => May(request[r]),
         Head(request[r].left) = "lookup" => ~request[r].repeated,
         Head(request[r].left) \in SendLimits => policy.limits # "fail_closed"
  PROVE  Moved(r) /\ Unspent(r)
<1> DEFINE x == request[r]
           y == [x EXCEPT !.left = Tail(@)]
<1>1. x \in Carried /\ Along(x) /\ ~x.worked
  BY Opened
<1>2. Tail(x.left) \in Seq(Stages) \ {<< >>}
  BY <1>1, Forward DEF Along
<1>3. /\ y \in Carried /\ y.left = Tail(x.left)
      /\ y.operation = x.operation /\ y.tenant = x.tenant /\ y.repeated = x.repeated
      /\ y.key = x.key /\ y.principal = x.principal /\ y.permitted = x.permitted
      /\ y.verified = x.verified /\ y.charged = x.charged /\ y.worked = x.worked
  BY <1>1, <1>2 DEF Carried
<1>4. Replaced(r, y)
  BY DEF Passes, Replaced
<1> HIDE DEF y
<1>5. May(x) => May(y)
  BY <1>3 DEF May
<1>6. Advances(x, y)
  BY <1>1, <1>3, <1>5 DEF Advances
<1> QED BY <1>3, <1>4, <1>6, OneValue DEF Moved, Unspent

LEMMA ArrivalsMove ==
  ASSUME RequestsSound, NEW r \in Requests, Arrives(r) \/ KeyRefused(r) \/ Filtered(r)
  PROVE  Moved(r) /\ Unspent(r)
<1>1. CASE Arrives(r)
  <2>1. PICK transport \in {"http", "grpc"}, op \in Operations, t \in Tenants,
             credential \in Tokens \cup {PSK, Nothing}, k \in Keys \cup {NoKey} :
             (op = "send" => k \in Keys) /\ Replaced(r,
              [transport |-> transport, operation |-> op, credential |-> credential,
               tenant |-> t, key |-> k, left |-> Chain(transport, op), principal |-> Nobody,
               permitted |-> FALSE, verified |-> FALSE, charged |-> {}, worked |-> FALSE,
               repeated |-> <<t, k>> \in deliveries])
    BY <1>1 DEF Arrives, Replaced
  <2> DEFINE y == [transport |-> transport, operation |-> op, credential |-> credential,
               tenant |-> t, key |-> k, left |-> Chain(transport, op), principal |-> Nobody,
               permitted |-> FALSE, verified |-> FALSE, charged |-> {}, worked |-> FALSE,
               repeated |-> <<t, k>> \in deliveries]
  <2>2. Chain(transport, op) \in Seq(Stages) /\ "answer" \in Ahead(Chain(transport, op))
    BY Chains
  <2>3. Chain(transport, op) # << >>
    BY <2>2, Parts
  <2>4. Fresh(y)
    <3>1. (<<t, k>> \in deliveries) \in BOOLEAN
      OBVIOUS
    <3>2. y \in Carried
      BY <2>2, <2>3, <3>1 DEF Carried
    <3>3. /\ y.left = Chain(y.transport, y.operation) /\ y.charged = {} /\ y.worked = FALSE
          /\ y.tenant = t /\ y.key = k /\ y.repeated = (<<t, k>> \in deliveries)
          /\ y.operation = op
      OBVIOUS
    <3> HIDE DEF y
    <3> QED BY <2>1, <3>2, <3>3 DEF Fresh, Repeats
  <2>5. request[r] = NoRequest
    BY <1>1 DEF Arrives
  <2>6. y.charged = {} /\ Replaced(r, y)
    BY <2>1
  <2> HIDE DEF y
  <2> QED BY <2>4, <2>5, <2>6, OneValue DEF Moved, Unspent
<1>2. ASSUME NEW kind \in Kinds, Refused(r, kind) PROVE Moved(r) /\ Unspent(r)
  <2> DEFINE y == [left |-> << >>, worked |-> FALSE, answer |-> kind]
  <2>1. y \in Answered
    BY DEF Answered
  <2>2. Replaced(r, y)
    BY <1>2 DEF Refused, Replaced
  <2> HIDE DEF y
  <2> QED BY <2>1, <2>2, OneValue DEF Moved, Unspent
<1> QED BY <1>1, <1>2 DEF KeyRefused, Filtered, Kinds

LEMMA AbortsMove ==
  ASSUME RequestsSound, NEW r \in Requests, Panics(r) \/ TimesOut(r) \/ Answers(r)
  PROVE  Moved(r) /\ Unspent(r)
<1>1. Open(r) /\ \E kind \in {"ok", "internal", "timeout"} : Ends(r, kind)
  BY DEF Panics, TimesOut, Answers, At
<1>2. {"ok", "internal", "timeout"} \subseteq Kinds
  BY DEF Kinds
<1> QED BY <1>1, <1>2, EndsMoves

LEMMA AuthenticationMoves ==
  ASSUME RequestsSound, NEW r \in Requests, Authentication(r)
  PROVE  Moved(r) /\ Unspent(r)
<1>1. Open(r) /\ Head(request[r].left) = "authentication"
  BY DEF Authentication, At
<1>2. CASE Ends(r, "unauthorized")
  BY <1>1, <1>2, EndsMoves DEF Kinds
<1>3. CASE \E p \in Authenticated(r) :
             request' = [request EXCEPT ![r].principal = p, ![r].left = Tail(@)]
  <2> DEFINE x == request[r]
  <2>1. x \in Carried /\ Along(x) /\ ~x.worked
    BY <1>1, Opened
  <2>2. PICK p \in Authenticated(r) :
             request' = [request EXCEPT ![r].principal = p, ![r].left = Tail(@)]
    BY <1>3
  <2>3. p \in Tokens \cup {PSK, Nobody}
    BY DEF Authenticated, Tokens
  <2>4. Tail(x.left) \in Seq(Stages) \ {<< >>}
    BY <1>1, <2>1, Forward DEF Along
  <2> DEFINE y == [x EXCEPT !.principal = p, !.left = Tail(@)]
  <2>5. /\ y \in Carried /\ y.left = Tail(x.left)
        /\ y.operation = x.operation /\ y.tenant = x.tenant /\ y.repeated = x.repeated
        /\ y.key = x.key /\ y.permitted = x.permitted
        /\ y.verified = x.verified /\ y.charged = x.charged /\ y.worked = x.worked
    BY <2>1, <2>3, <2>4 DEF Carried
  <2>6. Replaced(r, y)
    BY <2>2 DEF Replaced
  <2> HIDE DEF y
  <2>7. Advances(x, y)
    BY <1>1, <2>1, <2>5 DEF Advances, SendLimits
  <2> QED BY <1>1, <2>5, <2>6, <2>7, OneValue DEF Moved, Unspent
<1> QED BY <1>2, <1>3 DEF Authentication

\* Every operation has a requirement on both transports.
LEMMA ProductionProtects ==
  ASSUME RequestsSound, NEW r \in Requests, Open(r), policy.production
  PROVE  Protected(r)
<1>1. policy.authorization
  BY DEF RequestsSound, Policies, Valid
<1>2. request[r].operation \in Operations
  BY Opened DEF Carried
<1> QED BY <1>1, <1>2, AdmissionAssumption DEF Protected, HTTPRequirement, GRPCRequirement

LEMMA AuthorizationMoves ==
  ASSUME RequestsSound, NEW r \in Requests, Authorization(r)
  PROVE  Moved(r) /\ Unspent(r)
<1>1. Open(r) /\ Head(request[r].left) = "authorization"
  BY DEF Authorization, At
<1>2. CASE \E kind \in {"forbidden", "unavailable"} : Ends(r, kind)
  BY <1>1, <1>2, EndsMoves DEF Kinds
<1>3. CASE ~Protected(r) /\ Passes(r)
  BY <1>1, <1>3, PassesMoves, ProductionProtects DEF SendLimits
<1>4. CASE request' = [request EXCEPT ![r].permitted = TRUE, ![r].left = Tail(@)]
  <2> DEFINE x == request[r]
             y == [x EXCEPT !.permitted = TRUE, !.left = Tail(@)]
  <2>1. x \in Carried /\ Along(x) /\ ~x.worked
    BY <1>1, Opened
  <2>2. Tail(x.left) \in Seq(Stages) \ {<< >>}
    BY <1>1, <2>1, Forward DEF Along
  <2>3. /\ y \in Carried /\ y.left = Tail(x.left)
        /\ y.operation = x.operation /\ y.tenant = x.tenant /\ y.repeated = x.repeated
        /\ y.key = x.key /\ y.permitted = TRUE /\ y.principal = x.principal
        /\ y.verified = x.verified /\ y.charged = x.charged /\ y.worked = x.worked
    BY <2>1, <2>2 DEF Carried
  <2>4. Replaced(r, y)
    BY <1>4 DEF Replaced
  <2> HIDE DEF y
  <2>5. Advances(x, y)
    BY <1>1, <2>1, <2>3 DEF Advances, SendLimits
  <2> QED BY <1>1, <2>3, <2>4, <2>5, OneValue DEF Moved, Unspent
<1> QED BY <1>2, <1>3, <1>4 DEF Authorization

LEMMA ChecksMove ==
  ASSUME RequestsSound, NEW r \in Requests, Gate(r) \/ Malformed(r) \/ Caller(r) \/ Lookup(r)
  PROVE  Moved(r) /\ Unspent(r)
<1>1. CASE Gate(r)
  BY <1>1, EndsMoves, PassesMoves DEF Gate, At, SendLimits
<1>2. CASE Malformed(r)
  BY <1>2, EndsMoves DEF Malformed, At, Kinds
<1>3. CASE Caller(r)
  <2>1. Open(r) /\ Head(request[r].left) = "caller"
    BY <1>3 DEF Caller, At
  <2>2. CASE \E kind \in {"invalid", "unauthorized", "forbidden"} : Ends(r, kind)
    BY <2>1, <2>2, EndsMoves DEF Kinds
  <2>3. CASE Passes(r) /\ request[r].principal # Nobody
             /\ MayActFor(request[r].principal, request[r].tenant)
    <3>1. request[r].tenant \in Tenants
      BY <2>1, Opened DEF Carried
    <3>2. May(request[r])
      BY <2>3, <3>1, AdmissionAssumption DEF May, MayActFor, Home
    <3> QED BY <2>1, <2>3, <3>2, PassesMoves DEF SendLimits
  <2> QED BY <1>3, <2>2, <2>3 DEF Caller
<1>4. CASE Lookup(r)
  <2>1. Open(r) /\ Head(request[r].left) = "lookup"
    BY <1>4 DEF Lookup, At
  <2>2. CASE \E kind \in {"ok", "internal"} : Ends(r, kind)
    BY <2>1, <2>2, EndsMoves DEF Kinds
  <2>3. CASE Passes(r) /\ Delivery(r) \notin deliveries
    <3>1. request[r] \in Carried /\ ~request[r].repeated
      BY <2>1, <2>3, Opened DEF Repeats, Delivery
    <3> QED BY <2>1, <2>3, <3>1, PassesMoves DEF SendLimits
  <2> QED BY <1>4, <2>2, <2>3 DEF Lookup
<1> QED BY <1>1, <1>2, <1>3, <1>4

LEMMA VerifyApplicationMoves ==
  ASSUME RequestsSound, NEW r \in Requests, VerifyApplication(r)
  PROVE  Moved(r) /\ Unspent(r)
<1>1. Open(r) /\ Head(request[r].left) = "application"
  BY DEF VerifyApplication, At
<1>2. CASE \E kind \in {"forbidden", "unavailable", "invalid"} : Ends(r, kind)
  BY <1>1, <1>2, EndsMoves DEF Kinds
<1>3. CASE request' = [request EXCEPT ![r].verified = TRUE, ![r].left = Tail(@)]
  <2> DEFINE x == request[r]
             y == [x EXCEPT !.verified = TRUE, !.left = Tail(@)]
  <2>1. x \in Carried /\ Along(x) /\ ~x.worked
    BY <1>1, Opened
  <2>2. Tail(x.left) \in Seq(Stages) \ {<< >>}
    BY <1>1, <2>1, Forward DEF Along
  <2>3. /\ y \in Carried /\ y.left = Tail(x.left)
        /\ y.operation = x.operation /\ y.tenant = x.tenant /\ y.repeated = x.repeated
        /\ y.key = x.key /\ y.permitted = x.permitted /\ y.principal = x.principal
        /\ y.verified = TRUE /\ y.charged = x.charged /\ y.worked = x.worked
    BY <2>1, <2>2 DEF Carried
  <2>4. Replaced(r, y)
    BY <1>3 DEF Replaced
  <2> HIDE DEF y
  <2>5. Advances(x, y)
    BY <1>1, <2>1, <2>3 DEF Advances, SendLimits
  <2> QED BY <1>1, <2>3, <2>4, <2>5, OneValue DEF Moved, Unspent
<1> QED BY <1>2, <1>3 DEF VerifyApplication

LEMMA WorkMoves ==
  ASSUME RequestsSound, NEW r \in Requests, Inserts(r) \/ Works(r) \/ WorkRefused(r)
  PROVE  Moved(r) /\ Unspent(r)
<1>1. Open(r) /\ Head(request[r].left) = "work"
  BY DEF Inserts, Works, WorkRefused, At
<1>2. CASE \E kind \in {"forbidden", "not_found", "conflict", "stale_version", "internal"} :
             Ends(r, kind)
  BY <1>1, <1>2, EndsMoves DEF Kinds
<1>3. CASE Worked(r)
  <2> DEFINE x == request[r]
             y == [x EXCEPT !.worked = TRUE, !.left = Tail(@)]
  <2>1. x \in Carried /\ Along(x)
    BY <1>1, Opened
  <2>2. Tail(x.left) \in Seq(Stages) \ {<< >>}
    BY <1>1, <2>1, Forward DEF Along
  <2>3. /\ y \in Carried /\ y.left = Tail(x.left)
        /\ y.operation = x.operation /\ y.tenant = x.tenant /\ y.repeated = x.repeated
        /\ y.key = x.key /\ y.permitted = x.permitted /\ y.principal = x.principal
        /\ y.verified = x.verified /\ y.charged = x.charged
    BY <2>1, <2>2 DEF Carried
  <2>4. Replaced(r, y)
    BY <1>3 DEF Worked, Replaced
  <2> HIDE DEF y
  <2>5. Advances(x, y)
    BY <1>1, <2>1, <2>3 DEF Advances, SendLimits
  <2> QED BY <1>1, <2>3, <2>4, <2>5, OneValue DEF Moved, Unspent
<1> QED BY <1>2, <1>3 DEF Inserts, Works, WorkRefused

\* Allow takes a token of one bucket for the request.
Spends(r, b) ==
    /\ Open(r) /\ b \in Buckets /\ b[1] \in Dimensions
    /\ tokens[b] > 0 /\ tokens' = [tokens EXCEPT ![b] = @ - 1]
    /\ \A y : Replaced(r, y) => y.charged = request[r].charged \cup {b} /\ y.worked = FALSE

LEMMA BucketsSound ==
  ASSUME RequestsSound, NEW r \in Requests, Open(r), NEW d \in Dimensions, NEW b \in BucketsOf(r, d)
  PROVE  /\ b \in Buckets /\ b[1] = d /\ (d = "user" => b[2] = request[r].principal)
         /\ d \in SendLimits => b = <<d, request[r].tenant>>
<1>1. /\ request[r].operation \in Operations /\ request[r].tenant \in Tenants
      /\ request[r].principal \in Tokens \cup {PSK, Nobody}
  BY Opened DEF Carried
<1>2. CASE d = "ip"
  BY <1>2 DEF BucketsOf, Buckets, SendLimits
<1>3. CASE d = "api"
  BY <1>1, <1>3 DEF BucketsOf, Buckets, SendLimits
<1>4. CASE d = "user"
  BY <1>1, <1>4 DEF BucketsOf, Buckets, SendLimits
<1>5. CASE d \in SendLimits
  BY <1>1, <1>5 DEF BucketsOf, Buckets, SendLimits
<1> QED BY <1>2, <1>3, <1>4, <1>5 DEF Dimensions, SendLimits

LEMMA RateLimitMoves ==
  ASSUME RequestsSound, NEW r \in Requests, RateLimit(r)
  PROVE  Moved(r) /\ ((Unspent(r) /\ UNCHANGED tokens) \/ \E b : Spends(r, b))
<1>1. PICK d \in Dimensions :
        /\ At(r, d)
        /\ \/ /\ policy.limits = "off" \/ BucketsOf(r, d) = {}
              /\ Passes(r) /\ UNCHANGED tokens
           \/ \E b \in BucketsOf(r, d) :
                /\ policy.limits # "off" /\ tokens[b] > 0
                /\ tokens' = [tokens EXCEPT ![b] = @ - 1]
                /\ request' = [request EXCEPT ![r].charged = @ \cup {b}, ![r].left = Tail(@)]
           \/ \E b \in BucketsOf(r, d) :
                /\ policy.limits # "off" /\ tokens[b] = 0
                /\ Ends(r, "too_many_requests") /\ UNCHANGED tokens
  BY DEF RateLimit
<1>2. Open(r) /\ Head(request[r].left) = d
  BY <1>1 DEF At
<1>3. d \notin {"answer", "application", "authorization", "caller", "lookup", "authentication", "work"}
  BY DEF Dimensions
<1>4. CASE (policy.limits = "off" \/ BucketsOf(r, d) = {}) /\ Passes(r) /\ UNCHANGED tokens
  <2>1. d \in SendLimits => policy.limits # "fail_closed"
    BY <1>4 DEF SendLimits, BucketsOf
  <2> QED BY <1>2, <1>3, <1>4, <2>1, PassesMoves
<1>5. CASE Ends(r, "too_many_requests") /\ UNCHANGED tokens
  BY <1>2, <1>3, <1>5, EndsMoves DEF Kinds
<1>6. ASSUME NEW b \in BucketsOf(r, d), tokens[b] > 0, tokens' = [tokens EXCEPT ![b] = @ - 1],
             request' = [request EXCEPT ![r].charged = @ \cup {b}, ![r].left = Tail(@)]
      PROVE  Moved(r) /\ Spends(r, b)
  <2> DEFINE x == request[r]
             y == [x EXCEPT !.charged = @ \cup {b}, !.left = Tail(@)]
  <2>1. x \in Carried /\ Along(x) /\ ~x.worked
    BY <1>2, <1>3, Opened
  <2>2. Tail(x.left) \in Seq(Stages) \ {<< >>}
    BY <1>2, <1>3, <2>1, Forward DEF Along
  <2>3. /\ b \in Buckets /\ b[1] = d /\ (d = "user" => b[2] = x.principal)
        /\ d \in SendLimits => b = <<d, x.tenant>>
    BY <1>2, BucketsSound
  <2>4. /\ y \in Carried /\ y.left = Tail(x.left)
        /\ y.operation = x.operation /\ y.tenant = x.tenant /\ y.repeated = x.repeated
        /\ y.key = x.key /\ y.permitted = x.permitted /\ y.principal = x.principal
        /\ y.verified = x.verified /\ y.charged = x.charged \cup {b} /\ y.worked = x.worked
    BY <2>1, <2>2, <2>3 DEF Carried
  <2>5. Replaced(r, y)
    BY <1>6 DEF Replaced
  <2>6. x.worked = FALSE
    BY <2>1 DEF Carried
  <2> HIDE DEF y
  <2>7. Advances(x, y)
    BY <1>2, <1>3, <2>1, <2>3, <2>4 DEF Advances
  <2> QED BY <1>2, <1>6, <2>3, <2>4, <2>5, <2>6, <2>7, OneValue DEF Moved, Spends
<1> QED BY <1>1, <1>4, <1>5, <1>6

LEMMA RateLimitFailsMoves ==
  ASSUME RequestsSound, NEW r \in Requests, RateLimitFails(r)
  PROVE  Moved(r) /\ Unspent(r)
<1>1. PICK d \in Dimensions : At(r, d)
  BY DEF RateLimitFails
<1>2. Open(r) /\ Head(request[r].left) = d
  BY <1>1 DEF At
<1>3. d \notin {"answer", "application", "authorization", "caller", "lookup"}
  BY DEF Dimensions
<1>4. CASE policy.limits = "fail_open" /\ Passes(r)
  BY <1>2, <1>3, <1>4, PassesMoves
<1>5. CASE Ends(r, "unavailable")
  BY <1>2, <1>3, <1>5, EndsMoves DEF Kinds
<1> QED BY <1>4, <1>5 DEF RateLimitFails, OnError

-----------------------------------------------------------------------------
(* All requests *)

\* Every step moves one request, spends for it, commits its Send, or is time.
LEMMA EveryStep ==
  ASSUME RequestsSound, [Next]_vars
  PROVE  /\ UNCHANGED policy /\ deliveries \subseteq deliveries'
         /\ \/ UNCHANGED <<request, tokens, accepted, refills>>
            \/ \E r \in Requests : /\ Moved(r) /\ Unspent(r)
                                   /\ Inserts(r) \/ UNCHANGED <<tokens, accepted, refills>>
            \/ \E r \in Requests : \E b : /\ Moved(r) /\ Spends(r, b)
                                          /\ UNCHANGED <<accepted, refills>>
            \/ Refill
<1>1. CASE UNCHANGED vars
  BY <1>1 DEF vars
<1>2. ASSUME NEW r \in Requests, Arrives(r) \/ KeyRefused(r) \/ Filtered(r)
      PROVE  Moved(r) /\ Unspent(r) /\ UNCHANGED <<tokens, accepted, refills, deliveries>>
  BY <1>2, ArrivalsMove DEF Arrives, KeyRefused, Filtered, Refused, Elsewhere
<1>3. ASSUME NEW r \in Requests, Panics(r) \/ TimesOut(r) \/ Answers(r)
      PROVE  Moved(r) /\ Unspent(r) /\ UNCHANGED <<tokens, accepted, refills, deliveries>>
  BY <1>3, AbortsMove DEF Panics, TimesOut, Answers, Elsewhere
<1>4. ASSUME NEW r \in Requests, Authentication(r) \/ Authorization(r) \/ VerifyApplication(r)
      PROVE  Moved(r) /\ Unspent(r) /\ UNCHANGED <<tokens, accepted, refills, deliveries>>
  BY <1>4, AuthenticationMoves, AuthorizationMoves, VerifyApplicationMoves
     DEF Authentication, Authorization, VerifyApplication, Elsewhere
<1>5. ASSUME NEW r \in Requests, Gate(r) \/ Malformed(r) \/ Caller(r) \/ Lookup(r)
      PROVE  Moved(r) /\ Unspent(r) /\ UNCHANGED <<tokens, accepted, refills, deliveries>>
  BY <1>5, ChecksMove DEF Gate, Malformed, Caller, Lookup, Elsewhere
<1>6. ASSUME NEW r \in Requests, Works(r) \/ WorkRefused(r)
      PROVE  Moved(r) /\ Unspent(r) /\ UNCHANGED <<tokens, accepted, refills, deliveries>>
  BY <1>6, WorkMoves DEF Works, WorkRefused, Elsewhere
<1>7. ASSUME NEW r \in Requests, Inserts(r)
      PROVE  Moved(r) /\ Unspent(r) /\ deliveries \subseteq deliveries'
  BY <1>7, WorkMoves DEF Inserts
<1>8. ASSUME NEW r \in Requests, RateLimitFails(r)
      PROVE  Moved(r) /\ Unspent(r) /\ UNCHANGED <<tokens, accepted, refills, deliveries>>
  BY <1>8, RateLimitFailsMoves DEF RateLimitFails
<1>9. ASSUME NEW r \in Requests, RateLimit(r)
      PROVE  /\ Moved(r) /\ ((Unspent(r) /\ UNCHANGED tokens) \/ \E b : Spends(r, b))
             /\ UNCHANGED <<accepted, refills, deliveries>>
  BY <1>9, RateLimitMoves DEF RateLimit
<1>10. Refill => UNCHANGED deliveries
  BY DEF Refill
<1> QED BY <1>1, <1>2, <1>3, <1>4, <1>5, <1>6, <1>7, <1>8, <1>9, <1>10 DEF Next

LEMMA FreshIsAlong ==
  ASSUME NEW x, Fresh(x)
  PROVE  Along(x)
<1>1. x.transport \in {"http", "grpc"} /\ x.left = Chain(x.transport, x.operation)
      /\ x.charged = {} /\ ~x.worked
  BY DEF Fresh, Carried
<1>2. /\ Sorted(x.left)
      /\ {"authentication", "authorization", "caller", "application", "work", "answer"}
           \subseteq Ahead(x.left)
      /\ x.operation = "send" =>
           {"lookup", "tenant", "template", "recipient"} \subseteq Ahead(x.left)
      /\ x.operation # "send" =>
           {"lookup", "tenant", "template", "recipient"} \cap Ahead(x.left) = {}
  BY <1>1, Chains
<1>3. InOrder(x)
  BY <1>2 DEF InOrder, SendLimits
<1>4. Established(x)
  BY <1>2 DEF Established, SendLimits
<1> QED BY <1>1, <1>3, <1>4 DEF Along, ChargesSound, WorkedLast

LEMMA MovedKeeps ==
  ASSUME RequestsSound, UNCHANGED policy, deliveries \subseteq deliveries',
         NEW r \in Requests, Moved(r)
  PROVE  RequestsSound'
<1>1. PICK y : /\ Replaced(r, y)
               /\ \/ y \in Answered
                  \/ request[r] = NoRequest /\ Fresh(y)
                  \/ Open(r) /\ Advances(request[r], y) /\ y.key = request[r].key
  BY DEF Moved
<1>2. /\ DOMAIN request' = Requests /\ request'[r] = y
      /\ \A q \in Requests \ {r} : request'[q] = request[q]
  BY <1>1 DEF RequestsSound, Replaced
<1>3. y \in Answered \/ (y \in Carried /\ Along(y) /\ Repeats(y))
  <2>1. CASE request[r] = NoRequest /\ Fresh(y)
    BY <2>1, FreshIsAlong DEF Fresh
  <2>2. CASE Open(r) /\ Advances(request[r], y) /\ y.key = request[r].key
    BY <2>2, Opened, AdvanceKeeps DEF Advances, Repeats
  <2> QED BY <1>1, <2>1, <2>2
<1>4. ASSUME NEW q \in Requests, request'[q] # NoRequest
      PROVE  (request[q] \in Answered \/ (request[q] \in Carried /\ Along(request[q]) /\ Repeats(request[q])))'
  <2>1. PICK x : x = request'[q]
    OBVIOUS
  <2>2. x \in Answered \/ (x \in Carried /\ Along(x) /\ Repeats(x))
    BY <1>2, <1>3, <1>4, <2>1 DEF RequestsSound
  <2>3. Along(x) => Along(request[q])'
    BY <2>1 DEF Along, InOrder, Established, ChargesSound, WorkedLast, May
  <2>4. Repeats(x) => Repeats(request[q])'
    BY <2>1 DEF Repeats
  <2>5. Carried' = Carried /\ Answered' = Answered
    BY DEF Carried, Answered, Buckets
  <2> QED BY <2>1, <2>2, <2>3, <2>4, <2>5
<1> QED BY <1>2, <1>4 DEF RequestsSound

LEMMA RequestsKept ==
  ASSUME RequestsSound, [Next]_vars
  PROVE  RequestsSound'
<1>1. UNCHANGED policy /\ deliveries \subseteq deliveries'
  BY EveryStep
<1>2. CASE UNCHANGED request
  BY <1>1, <1>2 DEF RequestsSound, Along, InOrder, Established, ChargesSound, WorkedLast, May, Repeats
<1> QED BY <1>1, <1>2, EveryStep, MovedKeeps DEF Refill

-----------------------------------------------------------------------------
(* Tables and limits *)

TablesSound ==
    /\ DOMAIN tokens = Buckets /\ \A b \in Buckets : tokens[b] \in 0 .. Burst[b[1]]
    /\ deliveries \subseteq Tenants \X Keys
    /\ accepted \in [Tenants -> Nat] /\ refills \in 0 .. MaxRefills /\ errors \in 0 .. MaxErrors

\* Every bucket has a rule.
LEMMA BurstsSound ==
  ASSUME NEW b \in Buckets
  PROVE  b[1] \in Dimensions /\ Burst[b[1]] \in Nat \ {0}
<1>1. b[1] \in Dimensions
  BY DEF Buckets, Dimensions
<1> QED BY <1>1, AdmissionAssumption DEF ValidRules

LEMMA InsertsSound ==
  ASSUME RequestsSound, NEW r \in Requests, Inserts(r)
  PROVE  /\ request[r].tenant \in Tenants /\ Delivery(r) \in Tenants \X Keys
         /\ accepted' = [accepted EXCEPT ![request[r].tenant] = @ + 1]
         /\ deliveries' = deliveries \cup {Delivery(r)} /\ UNCHANGED <<tokens, refills, errors>>
<1>1. Open(r) /\ request[r].operation = "send"
  BY DEF Inserts, At
<1>2. request[r].tenant \in Tenants /\ request[r].key \in Keys
  BY <1>1, Opened DEF Carried, Repeats
<1> QED BY <1>2 DEF Inserts, Delivery

\* Steps other than a commit leave the deliveries, and errors are counted.
LEMMA OtherTables ==
  ASSUME [Next]_vars
  PROVE  /\ UNCHANGED deliveries \/ \E r \in Requests : Inserts(r)
         /\ UNCHANGED errors \/ (errors < MaxErrors /\ errors' = errors + 1)
<1>1. CASE UNCHANGED vars
  BY <1>1 DEF vars
<1>2. ASSUME NEW r \in Requests,
             \/ Arrives(r) \/ KeyRefused(r) \/ Filtered(r) \/ Panics(r) \/ TimesOut(r)
             \/ Authentication(r) \/ Authorization(r) \/ Gate(r) \/ Malformed(r) \/ Caller(r)
      PROVE  UNCHANGED <<deliveries, errors>>
  BY <1>2 DEF Arrives, KeyRefused, Filtered, Refused, Panics, TimesOut, Authentication,
              Authorization, Gate, Malformed, Caller, Elsewhere
<1>3. ASSUME NEW r \in Requests,
             VerifyApplication(r) \/ Lookup(r) \/ Works(r) \/ WorkRefused(r) \/ Answers(r)
      PROVE  UNCHANGED <<deliveries, errors>>
  BY <1>3 DEF VerifyApplication, Lookup, Works, WorkRefused, Answers, Elsewhere
<1>4. ASSUME NEW r \in Requests, RateLimit(r) \/ RateLimitFails(r)
      PROVE  /\ UNCHANGED deliveries
             /\ UNCHANGED errors \/ (errors < MaxErrors /\ errors' = errors + 1)
  BY <1>4 DEF RateLimit, RateLimitFails
<1>5. ASSUME NEW r \in Requests, Inserts(r) PROVE UNCHANGED errors
  BY <1>5 DEF Inserts
<1>6. Refill => UNCHANGED <<deliveries, errors>>
  BY DEF Refill
<1> QED BY <1>1, <1>2, <1>3, <1>4, <1>5, <1>6 DEF Next

LEMMA TablesKept ==
  ASSUME RequestsSound, TablesSound, [Next]_vars
  PROVE  TablesSound'
<1>1. deliveries' \subseteq Tenants \X Keys /\ errors' \in 0 .. MaxErrors
  <2>1. deliveries' \subseteq Tenants \X Keys
    BY OtherTables, InsertsSound DEF TablesSound
  <2>2. errors' \in 0 .. MaxErrors
    BY OtherTables, AdmissionAssumption DEF TablesSound
  <2> QED BY <2>1, <2>2
<1>2. CASE UNCHANGED <<tokens, accepted, refills>>
  BY <1>1, <1>2 DEF TablesSound, Buckets
<1>3. ASSUME NEW r \in Requests, Inserts(r) PROVE TablesSound'
  <2>1. accepted' \in [Tenants -> Nat] /\ UNCHANGED <<tokens, refills>>
    BY <1>3, InsertsSound DEF TablesSound
  <2> QED BY <1>1, <2>1 DEF TablesSound
<1>4. ASSUME NEW r \in Requests, NEW b, Spends(r, b), UNCHANGED <<accepted, refills>>
      PROVE  TablesSound'
  <2>1. b \in Buckets /\ tokens[b] \in 0 .. Burst[b[1]] /\ Burst[b[1]] \in Nat
        /\ tokens[b] > 0 /\ tokens' = [tokens EXCEPT ![b] = @ - 1]
    BY <1>4, BurstsSound DEF Spends, TablesSound
  <2>2. tokens[b] - 1 \in 0 .. Burst[b[1]]
    BY <2>1
  <2>3. DOMAIN tokens' = Buckets /\ \A c \in Buckets : tokens'[c] \in 0 .. Burst[c[1]]
    BY <2>1, <2>2 DEF TablesSound
  <2> QED BY <1>1, <1>4, <2>3 DEF TablesSound
<1>5. CASE Refill
  <2>1. refills' \in 0 .. MaxRefills /\ UNCHANGED accepted
    BY <1>5, AdmissionAssumption DEF Refill, TablesSound
  <2>2. ASSUME NEW b \in Buckets PROVE tokens'[b] \in 0 .. Burst[b[1]]
    <3>1. tokens[b] \in 0 .. Burst[b[1]] /\ Burst[b[1]] \in Nat
      BY BurstsSound DEF TablesSound
    <3>2. tokens'[b] = IF tokens[b] < Burst[b[1]] THEN tokens[b] + 1 ELSE tokens[b]
      BY <1>5 DEF Refill
    <3> QED BY <3>1, <3>2
  <2>3. DOMAIN tokens' = Buckets
    BY <1>5 DEF Refill
  <2> QED BY <1>1, <2>1, <2>2, <2>3 DEF TablesSound
<1> QED BY <1>2, <1>3, <1>4, <1>5, EveryStep

\* The requests that have a token of a limit of a tenant and have not worked with it.
Paid(d, t) ==
    {r \in Requests : Open(r) /\ <<d, t>> \in request[r].charged /\ ~request[r].worked}

\* A token is in its bucket, with a request on its way, or was spent on a Send.
BudgetSound(d, t) ==
    /\ IsFiniteSet(Paid(d, t))
    /\ accepted[t] + Cardinality(Paid(d, t)) + tokens[<<d, t>>] <= Burst[d] + refills

BudgetsSound ==
    policy.limits = "fail_closed" => \A d \in SendLimits, t \in Tenants : BudgetSound(d, t)

\* Nobody but the request that moves comes to have a token, and only by spending it.
LEMMA PaidSteps ==
  ASSUME RequestsSound, NEW r \in Requests, Moved(r), NEW d, NEW t
  PROVE  /\ Paid(d, t)' \subseteq Paid(d, t) \cup {r}
         /\ Unspent(r) => Paid(d, t)' \subseteq Paid(d, t)
         /\ \A b : Spends(r, b) /\ b # <<d, t>> => Paid(d, t)' \subseteq Paid(d, t)
<1>1. PICK y : /\ Replaced(r, y)
               /\ \/ y \in Answered
                  \/ request[r] = NoRequest /\ Fresh(y)
                  \/ Open(r) /\ Advances(request[r], y) /\ y.key = request[r].key
  BY DEF Moved
<1>2. request'[r] = y /\ \A q \in Requests \ {r} : request'[q] = request[q]
  BY <1>1 DEF RequestsSound, Replaced
<1>3. ASSUME NEW q \in Paid(d, t)', q # r PROVE q \in Paid(d, t)
  BY <1>2, <1>3 DEF Paid, Open
<1>4. Open(r) /\ Advances(request[r], y) => ~request[r].worked
  BY Opened DEF Advances
<1>5. r \in Paid(d, t)' => y \notin Answered /\ <<d, t>> \in y.charged
  BY <1>2 DEF Paid, Open, Answered
<1>6. ASSUME r \in Paid(d, t)', Unspent(r) PROVE r \in Paid(d, t)
  <2>1. Open(r) /\ y.charged = request[r].charged
    BY <1>1, <1>5, <1>6 DEF Unspent
  <2>2. Open(r) => request[r] # NoRequest
    BY DEF Open
  <2> QED BY <1>1, <1>4, <1>5, <1>6, <2>1, <2>2 DEF Paid
<1>7. ASSUME r \in Paid(d, t)', NEW b, Spends(r, b), b # <<d, t>> PROVE r \in Paid(d, t)
  <2>1. Open(r) /\ y.charged = request[r].charged \cup {b}
    BY <1>1, <1>7 DEF Spends
  <2>2. Open(r) => request[r] # NoRequest
    BY DEF Open
  <2> QED BY <1>1, <1>4, <1>5, <1>7, <2>1, <2>2 DEF Paid
<1> QED BY <1>3, <1>6, <1>7

\* A Send that commits has paid all its limits, and has paid them for itself.
LEMMA InsertsPays ==
  ASSUME RequestsSound, NEW r \in Requests, Inserts(r), policy.limits = "fail_closed",
         NEW d \in SendLimits
  PROVE  r \in Paid(d, request[r].tenant) /\ request'[r].worked = TRUE
<1>1. Open(r) /\ Head(request[r].left) = "work" /\ request[r].operation = "send" /\ Worked(r)
  BY DEF Inserts, At
<1>2. request[r] \in Carried /\ Along(request[r]) /\ ~request[r].worked
  BY <1>1, Opened
<1>3. \A s \in Ahead(request[r].left) : s \in Stages /\ Rank["work"] <= Rank[s]
  BY <1>1, <1>2, TailOf DEF Carried, Along, InOrder
<1>4. d \notin Ahead(request[r].left)
  BY <1>3, Ranks DEF SendLimits
<1>5. <<d, request[r].tenant>> \in request[r].charged
  BY <1>1, <1>2, <1>4 DEF Along, Established
<1>6. request'[r].worked = TRUE
  BY <1>1, <1>2 DEF Worked, RequestsSound, Carried
<1> QED BY <1>1, <1>2, <1>5, <1>6 DEF Paid

LEMMA BudgetsKept ==
  ASSUME RequestsSound, TablesSound, TablesSound', BudgetsSound, [Next]_vars
  PROVE  BudgetsSound'
<1> SUFFICES ASSUME policy.limits = "fail_closed", NEW d \in SendLimits, NEW t \in Tenants
             PROVE  BudgetSound(d, t)'
  BY EveryStep DEF BudgetsSound
<1> DEFINE n == Cardinality(Paid(d, t))
<1>1. <<d, t>> \in Buckets /\ d \in Dimensions
  BY DEF Buckets, SendLimits, Dimensions
<1>2. /\ accepted[t] \in Nat /\ accepted'[t] \in Nat /\ refills \in Nat /\ refills' \in Nat
      /\ tokens[<<d, t>>] \in Nat /\ tokens'[<<d, t>>] \in Nat /\ Burst[d] \in Nat
  BY <1>1, BurstsSound, AdmissionAssumption DEF TablesSound, ValidRules
<1>3. /\ IsFiniteSet(Paid(d, t)) /\ n \in Nat
      /\ accepted[t] + n + tokens[<<d, t>>] <= Burst[d] + refills
  BY FS_CardinalityType DEF BudgetsSound, BudgetSound
<1>4. ASSUME Paid(d, t)' \subseteq Paid(d, t)
      PROVE  IsFiniteSet(Paid(d, t)') /\ n' \in Nat /\ n' <= n
  BY <1>3, <1>4, FS_Subset, FS_CardinalityType
<1> HIDE DEF n
<1>5. ASSUME Paid(d, t)' \subseteq Paid(d, t),
             accepted'[t] = accepted[t], tokens'[<<d, t>>] + refills <= tokens[<<d, t>>] + refills'
      PROVE  BudgetSound(d, t)'
  <2>1. accepted'[t] + n' + tokens'[<<d, t>>] <= Burst[d] + refills'
    BY <1>2, <1>3, <1>4, <1>5
  <2> QED BY <1>4, <1>5, <2>1 DEF BudgetSound, n
<1>6. CASE UNCHANGED <<request, tokens, accepted, refills>>
  <2>1. Paid(d, t)' = Paid(d, t)
    BY <1>6 DEF Paid, Open
  <2> QED BY <1>2, <1>5, <1>6, <2>1
<1>7. ASSUME NEW r \in Requests, Moved(r), Unspent(r), UNCHANGED <<tokens, accepted, refills>>
      PROVE  BudgetSound(d, t)'
  BY <1>2, <1>5, <1>7, PaidSteps
<1>8. ASSUME NEW r \in Requests, Moved(r), Unspent(r), Inserts(r)
      PROVE  BudgetSound(d, t)'
  <2>1. Paid(d, t)' \subseteq Paid(d, t) /\ UNCHANGED <<tokens, refills>>
    BY <1>8, PaidSteps, InsertsSound
  <2>2. CASE request[r].tenant # t
    <3>1. accepted'[t] = accepted[t]
      BY <1>8, <2>2, InsertsSound DEF TablesSound
    <3> QED BY <1>2, <1>5, <2>1, <3>1
  <2>3. CASE request[r].tenant = t
    <3>1. accepted'[t] = accepted[t] + 1
      BY <1>8, <2>3, InsertsSound DEF TablesSound
    <3>2. r \in Paid(d, t) /\ Paid(d, t)' \subseteq Paid(d, t) \ {r}
      <4>1. r \in Paid(d, t)
        BY <1>8, <2>3, InsertsPays
      <4>2. r \notin Paid(d, t)'
        BY <1>8, InsertsPays DEF Paid
      <4> QED BY <2>1, <4>1, <4>2
    <3>3. IsFiniteSet(Paid(d, t) \ {r}) /\ Cardinality(Paid(d, t) \ {r}) = n - 1
      BY <1>3, <3>2, FS_RemoveElement DEF n
    <3>4. IsFiniteSet(Paid(d, t)') /\ n' <= n - 1 /\ n' \in Nat
      BY <3>2, <3>3, FS_Subset, FS_CardinalityType DEF n
    <3>5. accepted'[t] + n' + tokens'[<<d, t>>] <= Burst[d] + refills'
      BY <1>2, <1>3, <2>1, <3>1, <3>4
    <3> QED BY <3>4, <3>5 DEF BudgetSound, n
  <2> QED BY <2>2, <2>3
<1>9. ASSUME NEW r \in Requests, NEW b, Moved(r), Spends(r, b), UNCHANGED <<accepted, refills>>
      PROVE  BudgetSound(d, t)'
  <2>1. tokens' = [tokens EXCEPT ![b] = @ - 1] /\ b \in Buckets
    BY <1>9 DEF Spends
  <2>2. CASE b # <<d, t>>
    <3>1. tokens'[<<d, t>>] = tokens[<<d, t>>]
      BY <1>1, <2>1, <2>2 DEF TablesSound
    <3> QED BY <1>2, <1>5, <1>9, <2>2, <3>1, PaidSteps
  <2>3. CASE b = <<d, t>>
    <3>1. tokens'[<<d, t>>] = tokens[<<d, t>>] - 1
      BY <1>1, <2>1, <2>3 DEF TablesSound
    <3>2. Paid(d, t)' \subseteq Paid(d, t) \cup {r}
      BY <1>9, PaidSteps
    <3>3. IsFiniteSet(Paid(d, t) \cup {r}) /\ Cardinality(Paid(d, t) \cup {r}) <= n + 1
          /\ Cardinality(Paid(d, t) \cup {r}) \in Nat
      <4>1. /\ IsFiniteSet(Paid(d, t) \cup {r})
            /\ Cardinality(Paid(d, t) \cup {r}) = IF r \in Paid(d, t) THEN n ELSE n + 1
        BY <1>3, FS_AddElement DEF n
      <4> QED BY <1>3, <4>1
    <3>4. IsFiniteSet(Paid(d, t)') /\ n' \in Nat /\ n' <= n + 1
      <4>1. IsFiniteSet(Paid(d, t)') /\ n' <= Cardinality(Paid(d, t) \cup {r}) /\ n' \in Nat
        BY <3>2, <3>3, FS_Subset, FS_CardinalityType DEF n
      <4> QED BY <1>3, <3>3, <4>1
    <3>5. accepted'[t] + n' + tokens'[<<d, t>>] <= Burst[d] + refills'
      BY <1>2, <1>3, <1>9, <3>1, <3>4
    <3> QED BY <3>4, <3>5 DEF BudgetSound, n
  <2> QED BY <2>2, <2>3
<1>10. CASE Refill
  <2>1. Paid(d, t)' = Paid(d, t) /\ UNCHANGED accepted /\ refills' = refills + 1
    BY <1>10 DEF Refill, Paid, Open
  <2>2. tokens'[<<d, t>>] <= tokens[<<d, t>>] + 1
    BY <1>1, <1>2, <1>10 DEF Refill
  <2> QED BY <1>2, <1>5, <2>1, <2>2
<1> QED BY <1>6, <1>7, <1>8, <1>9, <1>10, EveryStep

-----------------------------------------------------------------------------
(* The theorems *)

AdmissionInv == RequestsSound /\ TablesSound /\ BudgetsSound

LEMMA AdmissionInit == Init => AdmissionInv
<1> SUFFICES ASSUME Init PROVE AdmissionInv
  OBVIOUS
<1>1. RequestsSound
  BY DEF Init, RequestsSound
<1>2. TablesSound
  <2>1. \A b \in Buckets : tokens[b] \in 0 .. Burst[b[1]]
    BY BurstsSound DEF Init
  <2> QED BY <2>1, AdmissionAssumption DEF Init, TablesSound
<1>3. ASSUME NEW d \in SendLimits, NEW t \in Tenants PROVE BudgetSound(d, t)
  <2>1. Paid(d, t) = {}
    BY DEF Paid, Open, Init
  <2>2. <<d, t>> \in Buckets /\ <<d, t>>[1] = d
    BY DEF Buckets, SendLimits
  <2>3. accepted[t] = 0 /\ refills = 0 /\ tokens[<<d, t>>] = Burst[d] /\ Burst[d] \in Nat
    BY <2>2, BurstsSound DEF Init
  <2> QED BY <2>1, <2>3, FS_EmptySet DEF BudgetSound
<1> QED BY <1>1, <1>2, <1>3 DEF AdmissionInv, BudgetsSound

LEMMA AdmissionStep == AdmissionInv /\ [Next]_vars => AdmissionInv'
  BY RequestsKept, TablesKept, BudgetsKept DEF AdmissionInv

\* The inductive invariant of admission.
THEOREM AdmissionInvariant == Spec => []AdmissionInv
  BY AdmissionInit, AdmissionStep, PTL DEF Spec

\* Whatever requests interleave, time out or panic, the state has its types.
THEOREM AdmissionTypes == Spec => []TypeOK
<1>1. AdmissionInv => TypeOK
  <2> SUFFICES ASSUME AdmissionInv PROVE TypeOK
    OBVIOUS
  <2>1. ASSUME NEW r \in Requests, Open(r)
        PROVE  request[r].principal \in Tokens \cup {PSK, Nobody} /\ request[r].charged \subseteq Buckets
    BY <2>1, Opened DEF AdmissionInv, Carried
  <2>2. ASSUME NEW r \in Requests, request[r] # NoRequest, ~Open(r)
        PROVE  request[r].answer \in Kinds
    BY <2>2 DEF AdmissionInv, RequestsSound, Open, Carried, Answered
  <2> QED BY <2>1, <2>2 DEF AdmissionInv, RequestsSound, TablesSound, TypeOK
<1> QED BY <1>1, AdmissionInvariant, PTL

\* No path through either chain, a route that bypasses tokens included, lets a request work
\* without an entitled author, a granted application and, in production, a permission.
THEOREM EffectsStayEntitled == Spec => []EffectsAreEntitled
<1>1. AdmissionInv => EffectsAreEntitled
  <2> SUFFICES ASSUME AdmissionInv, NEW r \in Requests, Open(r), request[r].worked
               PROVE  Entitled(r) /\ request[r].verified
                      /\ (policy.production => request[r].permitted)
    BY DEF EffectsAreEntitled
  <2>1. Along(request[r])
    BY Opened DEF AdmissionInv
  <2>2. Ahead(request[r].left) = {"answer"}
    BY <2>1 DEF Along, WorkedLast
  <2>3. May(request[r]) /\ request[r].verified /\ (policy.production => request[r].permitted)
    BY <2>1, <2>2 DEF Along, Established
  <2> QED BY <2>3 DEF May, Entitled
<1> QED BY <1>1, AdmissionInvariant, PTL

\* Budgets are spent only by those they belong to, wherever a request is when it is stopped.
THEOREM BudgetsStayGuarded == Spec => []BudgetsAreGuarded
<1>1. AdmissionInv => BudgetsAreGuarded
  <2> SUFFICES ASSUME AdmissionInv, NEW r \in Requests, Open(r), NEW b \in request[r].charged
               PROVE  /\ b[1] \in {"tenant", "template", "recipient"} =>
                           Entitled(r) /\ request[r].verified
                      /\ b[1] = "user" => b[2] = request[r].principal
                                          /\ (policy.production => request[r].permitted)
    BY DEF BudgetsAreGuarded
  <2>1. ChargesSound(request[r])
    BY Opened DEF AdmissionInv, Along
  <2> QED BY <2>1 DEF ChargesSound, May, Entitled, SendLimits
<1> QED BY <1>1, AdmissionInvariant, PTL

\* The sending rate of a tenant is bounded by each of its limits, for any burst and any
\* number of requests on both transports.
THEOREM RateStaysBounded == Spec => []RateIsBounded
<1>1. AdmissionInv => RateIsBounded
  <2> SUFFICES ASSUME AdmissionInv, policy.limits = "fail_closed", NEW t \in Tenants,
                      NEW d \in SendLimits
               PROVE  accepted[t] + tokens[<<d, t>>] <= Burst[d] + refills
    BY DEF RateIsBounded, SendLimits
  <2>1. <<d, t>> \in Buckets /\ <<d, t>>[1] = d
    BY DEF Buckets, SendLimits
  <2>2. accepted[t] \in Nat /\ tokens[<<d, t>>] \in Nat /\ Burst[d] \in Nat /\ refills \in Nat
    BY <2>1, BurstsSound, AdmissionAssumption DEF AdmissionInv, TablesSound
  <2>3. /\ accepted[t] + Cardinality(Paid(d, t)) + tokens[<<d, t>>] <= Burst[d] + refills
        /\ Cardinality(Paid(d, t)) \in Nat
    BY FS_CardinalityType DEF AdmissionInv, BudgetsSound, BudgetSound
  <2> QED BY <2>2, <2>3
<1> QED BY <1>1, AdmissionInvariant, PTL

\* A repeated Send is answered before any of its limits is asked.
THEOREM RetriesStayFree == Spec => []RetriesAreFree
<1>1. AdmissionInv => RetriesAreFree
  <2> SUFFICES ASSUME AdmissionInv, NEW r \in Requests, Open(r), request[r].repeated,
                      NEW b \in request[r].charged, b \in SendLimits \X Tenants
               PROVE  FALSE
    BY DEF RetriesAreFree, SendLimits
  <2>1. ChargesSound(request[r])
    BY Opened DEF AdmissionInv, Along
  <2> QED BY <2>1 DEF ChargesSound
<1> QED BY <1>1, AdmissionInvariant, PTL

\* A client that is refused, over HTTP or through grpcError, can rely on it.
THEOREM RefusalsStayTrue == Spec => []RefusalsAreTrue
<1>1. AdmissionInv => RefusalsAreTrue
  BY DEF AdmissionInv, RequestsSound, RefusalsAreTrue, Open, Carried, Answered
<1> QED BY <1>1, AdmissionInvariant, PTL

=============================================================================
