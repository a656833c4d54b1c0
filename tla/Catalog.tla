------------------------------- MODULE Catalog -------------------------------
(***************************************************************************)
(* The tables notification_templates and notification_providers of one     *)
(* tenant and application: PutTemplate and PutProvider of                  *)
(* internal/notification/service.go, called by several administrators at   *)
(* once, and the two readers of the tables, Send (which accepts a delivery *)
(* under an active template) and the dispatcher's deliver (which reads the *)
(* template and the providers anew at every attempt).                      *)
(*                                                                         *)
(* A process reads its configuration when it starts.  Replicas of several  *)
(* configurations may run at once, for as long as a rollout lasts or again *)
(* after a rollback: a put and an attempt are each made under any that was *)
(* deployed so far.                                                        *)
(*                                                                         *)
(* A put reads the row on one connection and writes in a transaction on    *)
(* another.  Rows are never deleted.  A row is its version and its         *)
(* content, the columns an edit may change; the others are set once.       *)
(* written and acks are history variables.                                 *)
(***************************************************************************)
EXTENDS Integers, Sequences

CONSTANTS
    Codes,          \* template and provider codes, as their ranks in ORDER BY code
    Channels,       \* notification channels
    Upstreams,      \* upstream names a request may give
    Configurations, \* those an operator may deploy: the upstreams that are both in
                    \* outbound.http and in notification.provider_upstreams
    Priorities,     \* provider priorities
    Texts,          \* (subject, content) pairs a request may give
    ParseJoined,    \* those whose concatenation is a template
    ParseApart,     \* those of which each part is a template
    Editors,        \* concurrent calls of PutTemplate and PutProvider
    Deliveries,     \* deliveries of the readers
    NoRow,          \* no such row
    NoEdit,         \* the editor is not in a call
    NoDelivery,     \* Send has not accepted the delivery
    MaxVersion      \* bound: no row is edited beyond this version

ASSUME CodesAssumption == Codes \subseteq Nat /\ Priorities \subseteq Nat
ASSUME ConfigAssumption == Configurations \subseteq SUBSET Upstreams
ASSUME TextsAssumption == ParseJoined \subseteq Texts /\ ParseApart \subseteq Texts

VARIABLES
    configurations, \* those that were deployed
    table,          \* the two tables, by code
    edit,           \* per editor: the put between its read and its write
    accepted,       \* per delivery: its template and the version Send saw
    attempt,        \* per delivery: the template version and the route of its last attempt,
                    \* and the upstream sender refused
    written,        \* history: the contents written to each row, in order
    acks            \* history: the puts answered without error

vars == <<configurations, table, edit, accepted, attempt, written, acks>>

-----------------------------------------------------------------------------

Kinds == {"template", "provider"}

\* PutTemplate takes any status from the request; to Send whatever is not
\* "active" is disabled.
TemplateContents == [text: Texts, status: {"active", "disabled"}]

ProviderContents ==
    [channel: Channels, upstream: Upstreams, priority: Priorities, status: {"active", "disabled"}]

Contents == TemplateContents \cup ProviderContents

Row == [content: Contents, version: Nat]

Edit == [kind: Kinds, code: Codes, content: Contents, expected: Nat, found: BOOLEAN]

Ack == [kind: Kinds, code: Codes, content: Contents, version: Nat]

ASSUME NullsAssumption ==
    NoRow \notin Row /\ NoEdit \notin Edit /\ NoDelivery \notin [code: Codes, version: Nat]

\* What sender may resolve to: a stored provider, the channel's built-in sender,
\* an error; or nothing yet.
Routes == {"stored", "builtin", "error", "none"}

TypeOK ==
    /\ configurations \subseteq Configurations
    /\ table \in [Kinds -> [Codes -> Row \cup {NoRow}]]
    /\ edit \in [Editors -> Edit \cup {NoEdit}]
    /\ accepted \in [Deliveries -> [code: Codes, version: Nat] \cup {NoDelivery}]
    /\ attempt \in [Deliveries -> [version: Nat, route: Routes, refused: SUBSET Upstreams]]
    /\ written \in [Kinds -> [Codes -> Seq(Contents)]]
    /\ acks \in SUBSET Ack

Init ==
    /\ \E allowed \in Configurations : configurations = {allowed}
    /\ table = [k \in Kinds |-> [c \in Codes |-> NoRow]]
    /\ edit = [e \in Editors |-> NoEdit]
    /\ accepted = [d \in Deliveries |-> NoDelivery]
    /\ attempt = [d \in Deliveries |-> [version |-> 0, route |-> "none", refused |-> {}]]
    /\ written = [k \in Kinds |-> [c \in Codes |-> <<>>]]
    /\ acks = {}

-----------------------------------------------------------------------------
(* PutTemplate and PutProvider: up to the read *)

\* template.Parse(Subject + Content)
ValidTemplate(content) == content.text \in ParseJoined

ValidProvider_AnyUpstream(content, allowed) == TRUE

\* The upstream is configured and allowed.
ValidProvider(content, allowed) == content.upstream \in allowed

\* GetTemplate finds none: a new template is active and expected is not looked
\* at.  It finds one: expected is left to the UPDATE.
PutTemplateReads(e) ==
    /\ edit[e] = NoEdit
    /\ \E code \in Codes, content \in TemplateContents, expected \in 0 .. MaxVersion :
        LET found == table["template"][code] # NoRow IN
        /\ ValidTemplate(content)
        /\ edit' = [edit EXCEPT ![e] =
                [kind |-> "template", code |-> code, expected |-> expected, found |-> found,
                 content |-> IF found THEN content ELSE [content EXCEPT !.status = "active"]]]
    /\ UNCHANGED <<configurations, table, accepted, attempt, written, acks>>

\* GetProvider finds none and expected is 0, or it finds the expected version.
PutProviderReads(e) ==
    /\ edit[e] = NoEdit
    /\ \E code \in Codes, content \in ProviderContents, expected \in 0 .. MaxVersion :
        LET row == table["provider"][code] IN
        /\ \E allowed \in configurations : ValidProvider(content, allowed)
        /\ IF row = NoRow THEN expected = 0 ELSE expected > 0 /\ expected = row.version
        /\ edit' = [edit EXCEPT ![e] =
                [kind |-> "provider", code |-> code, content |-> content, expected |-> expected,
                 found |-> row # NoRow]]
    /\ UNCHANGED <<configurations, table, accepted, attempt, written, acks>>

-----------------------------------------------------------------------------
(* PutTemplate and PutProvider: the transaction *)

UpdateMatches_Exists(put) == table[put.kind][put.code] # NoRow

\* UPDATE ... WHERE id=? AND version=?
UpdateMatches(put) ==
    LET row == table[put.kind][put.code] IN row # NoRow /\ row.version = put.expected

InsertAllowed_Always(put) == TRUE

\* The unique constraints notification_templates_scope_code_key and
\* notification_provider_scope_code_uq.
InsertAllowed(put) == table[put.kind][put.code] = NoRow

\* version=version+1, in an UPDATE that matched
NextVersion(put) == table[put.kind][put.code].version + 1

\* The transaction commits.  The put answers with version 1, or expected + 1,
\* or with the error COMMIT reported although it committed.
Write(e, version, answer) ==
    LET put == edit[e] IN
    /\ table' = [table EXCEPT ![put.kind][put.code] = [content |-> put.content, version |-> version]]
    /\ written' = [written EXCEPT ![put.kind][put.code] = Append(@, put.content)]
    /\ \/ acks' = acks \cup {[kind |-> put.kind, code |-> put.code, content |-> put.content,
                              version |-> answer]}
       \/ UNCHANGED acks
    /\ edit' = [edit EXCEPT ![e] = NoEdit]
    /\ UNCHANGED <<configurations, accepted, attempt>>

PutInserts(e) ==
    /\ edit[e] # NoEdit /\ ~edit[e].found
    /\ InsertAllowed(edit[e])
    /\ Write(e, 1, 1)

PutUpdates(e) ==
    /\ edit[e] # NoEdit /\ edit[e].found
    /\ UpdateMatches(edit[e]) /\ edit[e].expected < MaxVersion
    /\ Write(e, NextVersion(edit[e]), edit[e].expected + 1)

\* Stale version, unique constraint, or a database error: nothing is written.
PutFails(e) ==
    /\ edit[e] # NoEdit
    /\ edit' = [edit EXCEPT ![e] = NoEdit]
    /\ UNCHANGED <<configurations, table, accepted, attempt, written, acks>>

-----------------------------------------------------------------------------
(* The readers *)

\* Send finds the template active, and accepts the delivery.
SendAccepts(d) ==
    /\ accepted[d] = NoDelivery
    /\ \E code \in Codes :
        LET row == table["template"][code] IN
        /\ row # NoRow /\ row.content.status = "active"
        /\ accepted' = [accepted EXCEPT ![d] = [code |-> code, version |-> row.version]]
    /\ UNCHANGED <<configurations, table, edit, attempt, written, acks>>

\* deliver reads the template, whatever its status, and renders it.  A
\* template that does not parse, or lacks a variable, ends the attempt.
DeliverRenders(d) ==
    /\ accepted[d] # NoDelivery
    /\ LET row == table["template"][accepted[d].code] IN
        /\ row # NoRow
        /\ row.content.text \in ParseApart
        /\ attempt' = [attempt EXCEPT ![d] =
                [version |-> row.version, route |-> "none", refused |-> {}]]
    /\ UNCHANGED <<configurations, table, edit, accepted, written, acks>>

\* WHERE channel=? AND status='active'
Candidates(channel) ==
    {c \in Codes : LET row == table["provider"][c] IN
        row # NoRow /\ row.content.channel = channel /\ row.content.status = "active"}

\* ORDER BY priority,code
Precedes(c, b) ==
    LET p == table["provider"][c].content.priority
        q == table["provider"][b].content.priority
    IN p < q \/ (p = q /\ c <= b)

\* sender: the first candidate or the channel's own sender; a provider whose
\* upstream is not allowed is an error, and the next candidate is not tried.
DeliverResolves(d) ==
    /\ attempt[d].version > 0 /\ attempt[d].route = "none"
    /\ \E channel \in Channels :
        \/ /\ Candidates(channel) = {}
           /\ attempt' = [attempt EXCEPT ![d].route = "builtin"]
        \/ \E c \in Candidates(channel) :
            /\ \A b \in Candidates(channel) : Precedes(c, b)
            /\ \E allowed \in configurations :
                LET upstream == table["provider"][c].content.upstream IN
                attempt' = [attempt EXCEPT
                    ![d].route = IF upstream \in allowed THEN "stored" ELSE "error",
                    ![d].refused = {upstream} \ allowed]
    /\ UNCHANGED <<configurations, table, edit, accepted, written, acks>>

-----------------------------------------------------------------------------

\* A replica starts with another configuration.
Deploy ==
    /\ \E allowed \in Configurations : configurations' = configurations \cup {allowed}
    /\ UNCHANGED <<table, edit, accepted, attempt, written, acks>>

Next ==
    \/ \E e \in Editors :
        \/ PutTemplateReads(e) \/ PutProviderReads(e)
        \/ PutInserts(e) \/ PutUpdates(e) \/ PutFails(e)
    \/ \E d \in Deliveries : SendAccepts(d) \/ DeliverRenders(d) \/ DeliverResolves(d)
    \/ Deploy

Spec == Init /\ [][Next]_vars

-----------------------------------------------------------------------------
(* Properties *)

\* No lost update: a put answered with version n made the n-th write of its row,
\* so what it replaced is exactly the version its caller named (or nothing), and
\* two administrators who edit the same version are never both told they won.
EditsAreSerial ==
    \A a \in acks :
        /\ a.version \in 1 .. Len(written[a.kind][a.code])
        /\ written[a.kind][a.code][a.version] = a.content

\* A delivery Send accepted finds its template at every attempt, and never an
\* older one than Send saw or an earlier attempt rendered.
TemplatesOutliveDeliveries ==
    \A d \in Deliveries : accepted[d] # NoDelivery =>
        LET row == table["template"][accepted[d].code] IN
        /\ row # NoRow
        /\ row.version >= accepted[d].version
        /\ row.version >= attempt[d].version

\* sender refuses the first provider of a channel only where two configurations that were
\* deployed differ about its upstream, as in a rollout: PutProvider lets none be stored
\* that no replica could use.  Under one configuration no provider blocks its channel.
RoutesFollowConfiguration ==
    \A d \in Deliveries : attempt[d].route = "error" =>
        \E a, b \in configurations : \E u \in attempt[d].refused : u \in a /\ u \notin b

\* TestPutTemplateRejectsInvalidSyntax (service_test.go:161), "invalid template
\* accepted": a template deliver cannot parse is not stored.
StoredTemplatesParse ==
    \A c \in Codes : table["template"][c] # NoRow =>
        table["template"][c].content.text \in ParseApart

=============================================================================
