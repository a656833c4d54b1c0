--------------------------- MODULE RequestAdmission ---------------------------
(***************************************************************************)
(* How a request is admitted: internal/transport/http (middleware chain    *)
(* and handlers), internal/transport/grpc (interceptor chain and methods), *)
(* the checks internal/notification/service.go makes before it touches the *)
(* database, and the limits of internal/ratelimit that both use.           *)
(*                                                                         *)
(* A request carries the part of its chain that it has still to pass.      *)
(* Each element is one step: two requests interleave between any two.      *)
(* The token verifier, the authorizer, the registry of applications and    *)
(* the Redis limiter are libraries or services; they may answer or fail.   *)
(***************************************************************************)
EXTENDS Naturals, Sequences, FiniteSets

CONSTANTS
    Requests,           \* each is made once
    NoRequest,          \* not made yet
    Operations,         \* the operations called
    Users,              \* users, by their tokens
    Services,           \* service accounts, by their tokens
    PSK,                \* the pre-shared key, and the account it stands for
    Nothing,            \* no credential, or one that does not verify
    Nobody,             \* no principal in the context
    Tenants, NoTenant,
    TenantOf,           \* the tenant claim of each user's token
    Keys, NoKey,        \* idempotency_key of a Send, all to one recipient
    PSKRoutes,          \* operations auth.psk.*_paths and *_methods match
    SkippedRoutes,      \* operations auth.skip_* match
    Burst,              \* per dimension: the burst of its rule
    MaxRefills,         \* bound: how often tokens come back
    MaxErrors           \* bound: how often Allow returns an error

Dimensions == {"ip", "api", "user", "tenant", "template", "recipient"}
Tokens == Users \cup Services

\* Config.Validate: the values of every rule are positive.
ValidRules == Burst \in [Dimensions -> Nat \ {0}]

\* What notificationHTTPRequirement and notificationGRPCRequirement have an entry for; both
\* let any other operation pass.
HTTPRequirement ==
    {"put_template", "get_template", "list_templates", "put_provider", "get_provider",
     "list_providers", "send", "record_receipt", "get_delivery", "list_deliveries"}

GRPCRequirement ==
    {"put_provider", "get_provider", "list_providers", "put_template", "get_template",
     "list_templates", "send", "record_receipt", "get_delivery", "list_deliveries"}

ASSUME AdmissionAssumption ==
    /\ Operations \subseteq HTTPRequirement \cup GRPCRequirement
    /\ TenantOf \in [Users -> Tenants] /\ NoTenant \notin Tenants
    /\ Users \cap Services = {} /\ Nobody \notin Tokens \cup {PSK}
    /\ Nothing \notin Tokens \cup {PSK} /\ PSK \notin Tokens
    /\ ValidRules /\ MaxRefills \in Nat /\ MaxErrors \in Nat

VARIABLES
    policy,             \* the configuration, for good
    request,            \* per request: what it asks, how far it is
    tokens,             \* per bucket: tokens left
    deliveries,         \* <<tenant, key>> of the deliveries in the table
    accepted,           \* history: per tenant, Sends that inserted a delivery
    refills,            \* history
    errors              \* history: errors of Allow

vars == <<policy, request, tokens, deliveries, accepted, refills, errors>>

-----------------------------------------------------------------------------
(* Configuration *)

Modes == {"off", "fail_closed", "fail_open"}

\* Config.Validate: production has an identity provider and an authorizer.
Valid(p) == p.production => p.jwks /\ p.authorization

Policies ==
    {p \in [production: BOOLEAN, jwks: BOOLEAN, authorization: BOOLEAN, limits: Modes] : Valid(p)}

-----------------------------------------------------------------------------
(* Chains *)

HTTPChain ==
    <<"ip", "api", "authentication", "authorization", "user", "gate">>

\* No interceptor limits addresses, routes or users.
GRPCChain == <<"authentication", "authorization", "gate">>

Frequency == <<"tenant", "template", "recipient">>

ServiceChain_LimitsFirst(op) ==
    <<"caller">> \o (IF op = "send" THEN Frequency \o <<"application", "lookup">> ELSE <<"application">>)
        \o <<"work", "answer">>

ServiceChain_LimitsBeforeLookup(op) ==
    <<"caller", "application">> \o (IF op = "send" THEN Frequency \o <<"lookup">> ELSE <<>>)
        \o <<"work", "answer">>

\* The order of the checks in Send, and in the other methods of Service.
ServiceChain(op) ==
    <<"caller", "application">> \o (IF op = "send" THEN <<"lookup">> \o Frequency ELSE <<>>)
        \o <<"work", "answer">>

Chain(transport, op) ==
    (IF transport = "http" THEN HTTPChain ELSE GRPCChain) \o ServiceChain(op)

-----------------------------------------------------------------------------
(* Answers *)

\* The errors of apperror a request may end with.
Kinds ==
    {"ok", "invalid", "unauthorized", "forbidden", "not_found", "too_many_requests",
     "conflict", "stale_version", "in_progress", "timeout", "unavailable", "internal"}

grpcError_Aborted(kind) ==
    IF kind \in {"conflict", "stale_version", "in_progress", "internal"} THEN "conflict" ELSE kind

\* The codes grpcError knows keep their meaning; every other becomes Internal.
grpcError(kind) ==
    IF kind \in {"ok", "invalid", "unauthorized", "forbidden", "not_found", "conflict",
                 "unavailable"}
    THEN kind ELSE "internal"

Answer(transport, kind) == IF transport = "grpc" THEN grpcError(kind) ELSE kind

\* What tells a client that its request did nothing.
Refusals ==
    {"invalid", "unauthorized", "forbidden", "not_found", "too_many_requests", "conflict",
     "stale_version"}

Buckets ==
    {<<"ip">>} \cup ({"api"} \X Operations) \cup ({"user"} \X (Tokens \cup {PSK}))
        \cup ({"tenant", "template", "recipient"} \X Tenants)

Open(r) == request[r] # NoRequest /\ request[r].left # <<>>

TypeOK ==
    /\ policy \in Policies
    /\ \A r \in Requests : Open(r) =>
        /\ request[r].principal \in Tokens \cup {PSK, Nobody}
        /\ request[r].charged \subseteq Buckets
    /\ \A r \in Requests : request[r] # NoRequest /\ ~Open(r) => request[r].answer \in Kinds
    /\ \A b \in Buckets : tokens[b] \in 0 .. Burst[b[1]]
    /\ deliveries \subseteq Tenants \X Keys
    /\ accepted \in [Tenants -> Nat] /\ refills \in 0 .. MaxRefills /\ errors \in 0 .. MaxErrors

Init ==
    /\ policy \in Policies
    /\ request = [r \in Requests |-> NoRequest]
    /\ tokens = [b \in Buckets |-> Burst[b[1]]]
    /\ deliveries = {}
    /\ accepted = [t \in Tenants |-> 0]
    /\ refills = 0 /\ errors = 0

-----------------------------------------------------------------------------
(* Moving along the chain *)

At(r, stage) == Open(r) /\ Head(request[r].left) = stage

Passes(r) == request' = [request EXCEPT ![r].left = Tail(@)]

\* Fail, OK and grpcError end the chain; the request's context is gone.
Ends(r, kind) ==
    request' = [request EXCEPT ![r] =
        [left |-> <<>>, worked |-> @.worked, answer |-> Answer(@.transport, kind)]]

Elsewhere == UNCHANGED <<tokens, deliveries, accepted, refills, errors>>

Arrives(r) ==
    /\ request[r] = NoRequest
    /\ \E transport \in {"http", "grpc"}, op \in Operations, t \in Tenants,
          credential \in Tokens \cup {PSK, Nothing} :
       \E k \in IF op = "send" THEN Keys ELSE {NoKey} :
        request' = [request EXCEPT ![r] =
            [transport |-> transport, operation |-> op, credential |-> credential,
             tenant |-> t, key |-> k, left |-> Chain(transport, op), principal |-> Nobody,
             permitted |-> FALSE, verified |-> FALSE, charged |-> {}, worked |-> FALSE,
             repeated |-> <<t, k>> \in deliveries]]
    /\ Elsewhere

Refused(r, kind) ==
    /\ request[r] = NoRequest
    /\ request' = [request EXCEPT ![r] = [left |-> <<>>, worked |-> FALSE, answer |-> kind]]
    /\ Elsewhere

\* A malformed idempotency key, over HTTP or gRPC.
KeyRefused(r) == Refused(r, "invalid")

\* An origin CORS does not allow, or a body that is not JSON.
Filtered(r) == Refused(r, "forbidden") \/ Refused(r, "invalid")

\* A panic is recovered.
Panics(r) == Open(r) /\ Ends(r, "internal") /\ Elsewhere

\* Timeout answers for a chain that was still silent at the deadline.
TimesOut(r) ==
    /\ Open(r) /\ request[r].transport = "http"
    /\ Ends(r, "timeout")
    /\ Elsewhere

-----------------------------------------------------------------------------
(* Authentication and authorization *)

\* Local tokens name a user without a tenant; the identity provider's have claims.
Home(u) == IF policy.jwks THEN TenantOf[u] ELSE NoTenant

\* VerifyPSK, VerifyBearer or Parse: the principal of a credential that is accepted.
Authenticated_Unverified(r) ==
    CASE request[r].operation \in PSKRoutes -> {PSK} \cap {request[r].credential}
      [] request[r].operation \in SkippedRoutes \ PSKRoutes -> {Nobody}
      [] OTHER -> {request[r].credential}

Authenticated(r) ==
    CASE request[r].operation \in PSKRoutes -> {PSK} \cap {request[r].credential}
      [] request[r].operation \in SkippedRoutes \ PSKRoutes -> {Nobody}
      [] OTHER -> (IF policy.jwks THEN Tokens ELSE Users) \cap {request[r].credential}

Authentication(r) ==
    /\ At(r, "authentication")
    /\ \/ \E p \in Authenticated(r) :
            request' = [request EXCEPT ![r].principal = p, ![r].left = Tail(@)]
       \/ Authenticated(r) = {} /\ Ends(r, "unauthorized")
    /\ Elsewhere

Protected(r) ==
    /\ policy.authorization
    /\ request[r].operation \in
        IF request[r].transport = "http" THEN HTTPRequirement ELSE GRPCRequirement

\* The authorizer permits, denies (nobody always) or cannot be asked.
Authorization(r) ==
    /\ At(r, "authorization")
    /\ \/ ~Protected(r) /\ Passes(r)
       \/ /\ Protected(r) /\ request[r].principal # Nobody
          /\ request' = [request EXCEPT ![r].permitted = TRUE, ![r].left = Tail(@)]
       \/ Protected(r) /\ \E kind \in {"forbidden", "unavailable"} : Ends(r, kind)
    /\ Elsewhere

\* IdempotencyExecution, a module of its own: the handler runs, or the gate answers,
\* for itself or with what another request was answered.
Gate(r) ==
    /\ At(r, "gate")
    /\ \/ Passes(r)
       \/ \E kind \in Kinds : Ends(r, kind)
    /\ Elsewhere

-----------------------------------------------------------------------------
(* Limits *)

\* The key of the bucket, none for the user limit of a request without a subject.
BucketsOf(r, dimension) ==
    CASE dimension = "ip" -> {<<"ip">>}
      [] dimension = "api" -> {<<"api", request[r].operation>>}
      [] dimension = "user" -> {<<"user", p>> : p \in {request[r].principal} \ {Nobody}}
      [] OTHER -> {<<dimension, request[r].tenant>>}

\* What RateLimit and checkFrequency do when Allow returns an error.
OnError_Open(r) == Passes(r)

OnError(r) == IF policy.limits = "fail_open" THEN Passes(r) ELSE Ends(r, "unavailable")

\* RateLimit, and one round of checkFrequency: Allow takes a token or refuses.
RateLimit(r) ==
    /\ \E dimension \in Dimensions :
        /\ At(r, dimension)
        /\ \/ /\ policy.limits = "off" \/ BucketsOf(r, dimension) = {}
              /\ Passes(r) /\ UNCHANGED tokens
           \/ \E b \in BucketsOf(r, dimension) :
                /\ policy.limits # "off" /\ tokens[b] > 0
                /\ tokens' = [tokens EXCEPT ![b] = @ - 1]
                /\ request' = [request EXCEPT ![r].charged = @ \cup {b}, ![r].left = Tail(@)]
           \/ \E b \in BucketsOf(r, dimension) :
                /\ policy.limits # "off" /\ tokens[b] = 0
                /\ Ends(r, "too_many_requests") /\ UNCHANGED tokens
    /\ UNCHANGED <<deliveries, accepted, refills, errors>>

\* Allow returns an error.
RateLimitFails(r) ==
    /\ errors < MaxErrors /\ errors' = errors + 1
    /\ policy.limits # "off"
    /\ \E dimension \in Dimensions : At(r, dimension) /\ BucketsOf(r, dimension) # {}
    /\ OnError(r)
    /\ UNCHANGED <<tokens, deliveries, accepted, refills>>

\* Time passes: one token comes back to every bucket that has room.
Refill ==
    /\ refills < MaxRefills
    /\ tokens' = [b \in Buckets |-> IF tokens[b] < Burst[b[1]] THEN tokens[b] + 1 ELSE tokens[b]]
    /\ refills' = refills + 1
    /\ UNCHANGED <<request, deliveries, accepted, errors>>

-----------------------------------------------------------------------------
(* The service *)

\* enforceTenant: a user acts for the tenant of the token, a service account for any.
MayActFor(p, t) == p \in Users => Home(p) = t

\* ShouldBindJSON of the handler refuses the body.
Malformed(r) == At(r, "caller") /\ request[r].transport = "http" /\ Ends(r, "invalid") /\ Elsewhere

\* The method normalises and validates the request and looks for the caller; which of
\* the two comes first only changes the answer.
Caller(r) ==
    /\ At(r, "caller")
    /\ \/ Ends(r, "invalid")
       \/ request[r].principal = Nobody /\ Ends(r, "unauthorized")
       \/ /\ request[r].principal # Nobody
          /\ IF MayActFor(request[r].principal, request[r].tenant)
             THEN Passes(r) ELSE Ends(r, "forbidden")
    /\ Elsewhere

VerifyApplication_Unavailable(r) ==
    /\ At(r, "application")
    /\ Passes(r) \/ Ends(r, "forbidden")
    /\ Elsewhere

\* verifyApplication; the lists validate their filters only after it.
VerifyApplication(r) ==
    /\ At(r, "application")
    /\ \/ request' = [request EXCEPT ![r].verified = TRUE, ![r].left = Tail(@)]
       \/ \E kind \in {"forbidden", "unavailable"} : Ends(r, kind)
       \/ request[r].operation # "send" /\ Ends(r, "invalid")
    /\ Elsewhere

Delivery(r) == <<request[r].tenant, request[r].key>>

\* GetDeliveryByKey: a Send that was made before is answered with its delivery.
Lookup(r) ==
    /\ At(r, "lookup")
    /\ \/ IF Delivery(r) \in deliveries THEN Ends(r, "ok") ELSE Passes(r)
       \/ Ends(r, "internal")
    /\ Elsewhere

Worked(r) == request' = [request EXCEPT ![r].worked = TRUE, ![r].left = Tail(@)]

\* The transaction of Send commits, unless its key is taken.
Inserts(r) ==
    /\ At(r, "work") /\ request[r].operation = "send" /\ Delivery(r) \notin deliveries
    /\ Worked(r)
    /\ deliveries' = deliveries \cup {Delivery(r)}
    /\ accepted' = [accepted EXCEPT ![request[r].tenant] = @ + 1]
    /\ UNCHANGED <<tokens, refills, errors>>

\* Any other method reads what it was asked for, or commits.
Works(r) ==
    /\ At(r, "work") /\ request[r].operation # "send"
    /\ Worked(r)
    /\ Elsewhere

\* Another tenant's row, nothing found, a disabled template, a stale version, a taken key
\* or a database error (translate).
WorkRefused(r) ==
    /\ At(r, "work")
    /\ \E kind \in {"forbidden", "not_found", "conflict", "stale_version", "internal"} :
        Ends(r, kind)
    /\ Elsewhere

\* The answer of the method, or the error of a COMMIT whose answer was lost.
Answers(r) ==
    /\ At(r, "answer")
    /\ Ends(r, "ok") \/ Ends(r, "internal")
    /\ Elsewhere

Next ==
    /\ UNCHANGED policy
    /\ \/ \E r \in Requests :
            \/ Arrives(r) \/ KeyRefused(r) \/ Filtered(r) \/ Panics(r) \/ TimesOut(r)
            \/ Authentication(r) \/ Authorization(r) \/ Gate(r) \/ RateLimit(r)
            \/ RateLimitFails(r) \/ Malformed(r) \/ Caller(r) \/ VerifyApplication(r)
            \/ Lookup(r) \/ Inserts(r) \/ Works(r) \/ WorkRefused(r) \/ Answers(r)
       \/ Refill

Spec == Init /\ [][Next]_vars

-----------------------------------------------------------------------------
(* Properties *)

Entitled(r) ==
    /\ request[r].principal # Nobody
    /\ request[r].principal \in Users => policy.jwks /\ TenantOf[request[r].principal] = request[r].tenant

\* Whatever the transport and the routes that bypass tokens, what is read or written has an
\* author who may act for the tenant, for an application the tenant was granted, and
\* in production with the authorizer's permission.
EffectsAreEntitled ==
    \A r \in Requests : Open(r) /\ request[r].worked =>
        Entitled(r) /\ request[r].verified /\ (policy.production => request[r].permitted)

\* A tenant's sending budget is spent only by callers who may send for it, and a user's
\* budget only by that user: strangers cannot use up the limits of others.
BudgetsAreGuarded ==
    \A r \in Requests : Open(r) =>
        \A b \in request[r].charged :
            /\ b[1] \in {"tenant", "template", "recipient"} => Entitled(r) /\ request[r].verified
            /\ b[1] = "user" => b[2] = request[r].principal
                                /\ (policy.production => request[r].permitted)

\* While the limiter fails closed, no outage and no mixture of HTTP and gRPC lets a
\* tenant have more Sends accepted than any of its three limits allows.
RateIsBounded ==
    policy.limits = "fail_closed" =>
        \A t \in Tenants, d \in {"tenant", "template", "recipient"} :
            accepted[t] + tokens[<<d, t>>] <= Burst[d] + refills

\* Repeating a Send that was accepted costs nothing of the sending budget, so a client
\* that lost the answer gets its delivery whatever the limits.
RetriesAreFree ==
    \A r \in Requests : Open(r) /\ request[r].repeated =>
        request[r].charged \cap ({"tenant", "template", "recipient"} \X Tenants) = {}

\* An answer by which a client gives up (a 4xx status, a gRPC code that is neither
\* Internal nor Unavailable) is given only to requests that worked nothing.
RefusalsAreTrue ==
    \A r \in Requests : request[r] # NoRequest /\ ~Open(r) /\ request[r].answer \in Refusals =>
        ~request[r].worked

=============================================================================
