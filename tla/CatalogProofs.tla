---------------------------- MODULE CatalogProofs ----------------------------
(***************************************************************************)
(* Proofs about Catalog, for any number of administrators, codes,          *)
(* upstreams, texts and deliveries.                                        *)
(***************************************************************************)
EXTENDS Catalog, TLAPS, SequenceTheorems

\* The row of every version counts the writes that made it, and a row exists
\* once it was written.
VersionsCount ==
    \A k \in Kinds, c \in Codes :
        IF table[k][c] = NoRow
        THEN written[k][c] = <<>>
        ELSE table[k][c].version = Len(written[k][c]) /\ table[k][c].version > 0

\* Providers hold only upstreams PutProvider let pass under some configuration, in the
\* table and in the puts on their way to it.
UpstreamsPassed ==
    /\ \A c \in Codes : table["provider"][c] # NoRow =>
            \E a \in configurations : table["provider"][c].content.upstream \in a
    /\ \A e \in Editors : edit[e] # NoEdit /\ edit[e].kind = "provider" =>
            \E a \in configurations : edit[e].content.upstream \in a

\* An attempt of a delivery was made after Send accepted it.
AttemptsFollow == \A d \in Deliveries : accepted[d] = NoDelivery => attempt[d].version = 0

CatalogInv ==
    /\ TypeOK
    /\ VersionsCount
    /\ EditsAreSerial
    /\ TemplatesOutliveDeliveries
    /\ UpstreamsPassed
    /\ AttemptsFollow
    /\ RoutesFollowConfiguration

-----------------------------------------------------------------------------

\* The empty catalogue satisfies the invariant.
LEMMA InitHolds == Init => CatalogInv
  BY NullsAssumption
     DEF Init, CatalogInv, TypeOK, VersionsCount, EditsAreSerial, TemplatesOutliveDeliveries,
         UpstreamsPassed, AttemptsFollow, RoutesFollowConfiguration, Kinds, Routes

\* The read of PutTemplate keeps the invariant.
LEMMA PutTemplateReadsKeeps ==
  ASSUME CatalogInv, NEW e \in Editors, PutTemplateReads(e) PROVE CatalogInv'
<1> USE NullsAssumption DEF CatalogInv
<1>1. PICK code \in Codes, content \in TemplateContents, expected \in 0 .. MaxVersion,
           new \in TemplateContents, found \in BOOLEAN :
        edit' = [edit EXCEPT ![e] =
            [kind |-> "template", code |-> code, expected |-> expected, found |-> found,
             content |-> new]]
  BY DEF PutTemplateReads, TemplateContents
<1>2. expected \in Nat
  OBVIOUS
<1>3. [kind |-> "template", code |-> code, expected |-> expected, found |-> found,
       content |-> new] \in Edit
  BY <1>2 DEF Edit, Kinds, Contents
<1>4. UNCHANGED <<configurations, table, accepted, attempt, written, acks>>
  BY DEF PutTemplateReads
<1>5. TypeOK'
  BY <1>1, <1>3, <1>4 DEF TypeOK
<1>6. UpstreamsPassed'
  BY <1>1, <1>3, <1>4 DEF UpstreamsPassed, TypeOK
<1>7. (VersionsCount /\ EditsAreSerial /\ TemplatesOutliveDeliveries /\ AttemptsFollow
        /\ RoutesFollowConfiguration)'
  BY <1>4 DEF VersionsCount, EditsAreSerial, TemplatesOutliveDeliveries, AttemptsFollow,
              RoutesFollowConfiguration
<1> QED BY <1>5, <1>6, <1>7

\* The read of PutProvider keeps it: what it lets through has an allowed upstream.
LEMMA PutProviderReadsKeeps ==
  ASSUME CatalogInv, NEW e \in Editors, PutProviderReads(e) PROVE CatalogInv'
<1> USE NullsAssumption DEF CatalogInv
<1>1. PICK code \in Codes, content \in ProviderContents, expected \in 0 .. MaxVersion,
           found \in BOOLEAN :
        /\ \E a \in configurations : content.upstream \in a
        /\ edit' = [edit EXCEPT ![e] =
            [kind |-> "provider", code |-> code, content |-> content, expected |-> expected,
             found |-> found]]
  BY DEF PutProviderReads, ValidProvider
<1>2. expected \in Nat
  OBVIOUS
<1>3. [kind |-> "provider", code |-> code, content |-> content, expected |-> expected,
       found |-> found] \in Edit
  BY <1>2 DEF Edit, Kinds, Contents
<1>4. UNCHANGED <<configurations, table, accepted, attempt, written, acks>>
  BY DEF PutProviderReads
<1>5. TypeOK'
  BY <1>1, <1>3, <1>4 DEF TypeOK
<1>6. UpstreamsPassed'
  BY <1>1, <1>3, <1>4 DEF UpstreamsPassed, TypeOK
<1>7. (VersionsCount /\ EditsAreSerial /\ TemplatesOutliveDeliveries /\ AttemptsFollow
        /\ RoutesFollowConfiguration)'
  BY <1>4 DEF VersionsCount, EditsAreSerial, TemplatesOutliveDeliveries, AttemptsFollow,
              RoutesFollowConfiguration
<1> QED BY <1>5, <1>6, <1>7

\* The last element of a sequence after Append, and the others.
LEMMA AppendAt ==
  ASSUME NEW S, NEW seq \in Seq(S), NEW elt \in S, NEW n, n = Len(seq) + 1
  PROVE  /\ Append(seq, elt) \in Seq(S)
         /\ Len(Append(seq, elt)) = n
         /\ Append(seq, elt)[n] = elt
         /\ \A i \in 1 .. Len(seq) : Append(seq, elt)[i] = seq[i]
         /\ Len(seq) \in Nat
  BY AppendProperties, LenProperties

\* What both writes come to: a write that makes the version the count of the
\* row's writes, and answers with that version.
LEMMA WriteKeeps ==
  ASSUME CatalogInv, NEW e \in Editors, edit[e] # NoEdit,
         NEW n \in Nat \ {0}, n = Len(written[edit[e].kind][edit[e].code]) + 1,
         Write(e, n, n)
  PROVE  CatalogInv'
<1>0. n > 0 /\ n \in 1 .. n
  OBVIOUS
<1> USE NullsAssumption DEF CatalogInv
<1> DEFINE put == edit[e]
           K == put.kind
           C == put.code
           W == written[K][C]
           A == Append(W, put.content)
<1>1. put \in Edit /\ K \in Kinds /\ C \in Codes /\ put.content \in Contents
  BY DEF TypeOK, Edit
<1>2. W \in Seq(Contents)
  BY <1>1 DEF TypeOK
<1>3. /\ A \in Seq(Contents) /\ Len(A) = n /\ A[n] = put.content
      /\ \A i \in 1 .. Len(W) : A[i] = W[i]
      /\ Len(W) \in Nat /\ n = Len(W) + 1
  <2>1. n = Len(W) + 1
    OBVIOUS
  <2> HIDE DEF W
  <2> QED BY <1>1, <1>2, <2>1, AppendAt
<1>4. [content |-> put.content, version |-> n] \in Row
  BY <1>1 DEF Row
<1>5. table' = [table EXCEPT ![K][C] = [content |-> put.content, version |-> n]]
  BY DEF Write
<1>6. written' = [written EXCEPT ![K][C] = A]
  BY DEF Write
<1>7. edit' = [edit EXCEPT ![e] = NoEdit] /\ UNCHANGED <<configurations, accepted, attempt>>
  BY DEF Write
<1>8. acks' \subseteq acks \cup {[kind |-> K, code |-> C, content |-> put.content, version |-> n]}
  BY DEF Write
<1>9. \A k \in Kinds, c \in Codes :
        /\ table'[k][c] = IF k = K /\ c = C THEN [content |-> put.content, version |-> n]
                          ELSE table[k][c]
        /\ written'[k][c] = IF k = K /\ c = C THEN A ELSE written[k][c]
  BY <1>1, <1>5, <1>6 DEF TypeOK
<1>10. TypeOK'
  <2>1. table' \in [Kinds -> [Codes -> Row \cup {NoRow}]]
    BY <1>1, <1>4, <1>5 DEF TypeOK
  <2>2. written' \in [Kinds -> [Codes -> Seq(Contents)]]
    BY <1>1, <1>3, <1>6 DEF TypeOK
  <2>3. acks' \in SUBSET Ack
    BY <1>1, <1>8 DEF TypeOK, Ack
  <2> QED BY <1>7, <2>1, <2>2, <2>3 DEF TypeOK
<1>11. VersionsCount'
  <2> SUFFICES ASSUME NEW k \in Kinds, NEW c \in Codes
               PROVE  IF table'[k][c] = NoRow
                      THEN written'[k][c] = <<>>
                      ELSE table'[k][c].version = Len(written'[k][c]) /\ table'[k][c].version > 0
    BY DEF VersionsCount
  <2>1. CASE k = K /\ c = C
    <3>1. table'[k][c] = [content |-> put.content, version |-> n] /\ written'[k][c] = A
      BY <1>9, <2>1
    <3>2. table'[k][c] # NoRow /\ table'[k][c].version = n
      BY <1>4, <3>1
    <3> HIDE DEF A, W, K, C, put
    <3>3. Len(A) = n
      BY <1>3
    <3> QED BY <1>0, <3>1, <3>2, <3>3
  <2>2. CASE ~(k = K /\ c = C)
    BY <1>9, <2>2 DEF VersionsCount
  <2> QED BY <2>1, <2>2
<1>12. EditsAreSerial'
  <2> SUFFICES ASSUME NEW a \in acks'
               PROVE  /\ a.version \in 1 .. Len(written'[a.kind][a.code])
                      /\ written'[a.kind][a.code][a.version] = a.content
    BY DEF EditsAreSerial
  <2>1. CASE a \in acks
    <3>1. a \in Ack /\ a.kind \in Kinds /\ a.code \in Codes
      BY <2>1 DEF TypeOK, Ack
    <3>2. /\ a.version \in 1 .. Len(written[a.kind][a.code])
          /\ written[a.kind][a.code][a.version] = a.content
      BY <2>1 DEF EditsAreSerial
    <3>3. CASE a.kind = K /\ a.code = C
      <4> HIDE DEF A
      <4>1. written'[a.kind][a.code] = A /\ written[a.kind][a.code] = W
        BY <1>9, <3>1, <3>3
      <4> QED BY <1>3, <3>2, <4>1
    <3>4. CASE ~(a.kind = K /\ a.code = C)
      BY <1>9, <3>1, <3>2, <3>4
    <3> QED BY <3>3, <3>4
  <2>2. CASE a = [kind |-> K, code |-> C, content |-> put.content, version |-> n]
    <3>1. written'[a.kind][a.code] = A /\ a.version = n /\ a.content = put.content
      BY <1>1, <1>9, <2>2
    <3> HIDE DEF A, W, K, C, put
    <3>2. Len(A) = n /\ A[n] = put.content /\ n \in Nat \ {0}
      BY <1>3
    <3> QED BY <1>0, <3>1, <3>2
  <2> QED BY <1>8, <2>1, <2>2
<1>13. TemplatesOutliveDeliveries'
  <2> SUFFICES ASSUME NEW d \in Deliveries, accepted[d] # NoDelivery
               PROVE  LET row == table'["template"][accepted[d].code] IN
                      /\ row # NoRow
                      /\ row.version >= accepted[d].version
                      /\ row.version >= attempt[d].version
    BY <1>7 DEF TemplatesOutliveDeliveries
  <2>1. accepted[d] \in [code: Codes, version: Nat] /\ accepted[d].code \in Codes
        /\ accepted[d].version \in Nat /\ attempt[d].version \in Nat
    BY DEF TypeOK
  <2>2. "template" \in Kinds
    BY DEF Kinds
  <2>3. /\ table["template"][accepted[d].code] # NoRow
        /\ table["template"][accepted[d].code].version >= accepted[d].version
        /\ table["template"][accepted[d].code].version >= attempt[d].version
    BY DEF TemplatesOutliveDeliveries
  <2>4. table["template"][accepted[d].code].version = Len(written["template"][accepted[d].code])
    BY <2>1, <2>2, <2>3 DEF VersionsCount
  <2>5. CASE K = "template" /\ C = accepted[d].code
    BY <1>2, <1>4, <1>9, <2>1, <2>2, <2>3, <2>4, <2>5, <1>3
  <2>6. CASE ~(K = "template" /\ C = accepted[d].code)
    BY <1>9, <2>1, <2>2, <2>3, <2>6
  <2> QED BY <2>5, <2>6
<1>14. UpstreamsPassed'
  <2>1. K = "provider" => \E a \in configurations : put.content.upstream \in a
    BY DEF UpstreamsPassed
  <2>2. ASSUME NEW c \in Codes, table'["provider"][c] # NoRow
        PROVE  \E a \in configurations' : table'["provider"][c].content.upstream \in a
    <3>1. CASE K = "provider" /\ C = c
      <4>1. table'["provider"][c].content = put.content
        BY <1>1, <1>9, <3>1
      <4> QED BY <1>7, <2>1, <3>1, <4>1
    <3>2. CASE ~(K = "provider" /\ C = c)
      <4>1. table'["provider"][c] = table["provider"][c]
        BY <1>9, <3>2 DEF Kinds
      <4> QED BY <1>7, <2>2, <4>1 DEF UpstreamsPassed
    <3> QED BY <3>1, <3>2
  <2>3. ASSUME NEW x \in Editors, edit'[x] # NoEdit, edit'[x].kind = "provider"
        PROVE  \E a \in configurations' : edit'[x].content.upstream \in a
    <3>1. edit'[x] = edit[x]
      BY <1>7, <2>3 DEF TypeOK
    <3> QED BY <1>7, <2>3, <3>1 DEF UpstreamsPassed
  <2> QED BY <2>2, <2>3 DEF UpstreamsPassed
<1>15. AttemptsFollow' /\ RoutesFollowConfiguration'
  BY <1>7 DEF AttemptsFollow, RoutesFollowConfiguration
<1> QED BY <1>10, <1>11, <1>12, <1>13, <1>14, <1>15

\* An insert is the first write of its row.
LEMMA PutInsertsKeeps ==
  ASSUME CatalogInv, NEW e \in Editors, PutInserts(e) PROVE CatalogInv'
<1>1. edit[e] \in Edit /\ edit[e].kind \in Kinds /\ edit[e].code \in Codes
  BY DEF CatalogInv, TypeOK, PutInserts, Edit
<1>2. written[edit[e].kind][edit[e].code] = <<>>
  BY <1>1 DEF CatalogInv, VersionsCount, PutInserts, InsertAllowed
<1>3. Len(written[edit[e].kind][edit[e].code]) = 0
  BY <1>2, EmptySeq
<1> QED BY <1>3, WriteKeeps DEF PutInserts

\* An update that matched its version is the next write of its row.
LEMMA PutUpdatesKeeps ==
  ASSUME CatalogInv, NEW e \in Editors, PutUpdates(e) PROVE CatalogInv'
<1>1. edit[e] \in Edit /\ edit[e].kind \in Kinds /\ edit[e].code \in Codes
      /\ edit[e].expected \in Nat
  BY DEF CatalogInv, TypeOK, PutUpdates, Edit
<1>2. /\ table[edit[e].kind][edit[e].code] # NoRow
      /\ table[edit[e].kind][edit[e].code].version = edit[e].expected
      /\ NextVersion(edit[e]) = edit[e].expected + 1
  BY DEF PutUpdates, UpdateMatches, NextVersion
<1>3. Len(written[edit[e].kind][edit[e].code]) = edit[e].expected
  BY <1>1, <1>2 DEF CatalogInv, VersionsCount
<1>4. Write(e, edit[e].expected + 1, edit[e].expected + 1)
  BY <1>2 DEF PutUpdates
<1>5. edit[e].expected + 1 \in Nat \ {0} /\ edit[e] # NoEdit
  BY <1>1 DEF PutUpdates
<1> QED BY <1>3, <1>4, <1>5, WriteKeeps

\* A put that fails writes nothing.
LEMMA PutFailsKeeps ==
  ASSUME CatalogInv, NEW e \in Editors, PutFails(e) PROVE CatalogInv'
  BY DEF CatalogInv, PutFails, TypeOK, VersionsCount, EditsAreSerial,
         TemplatesOutliveDeliveries, UpstreamsPassed, AttemptsFollow, RoutesFollowConfiguration

\* Send records the version it saw, the current one.
LEMMA SendAcceptsKeeps ==
  ASSUME CatalogInv, NEW d \in Deliveries, SendAccepts(d) PROVE CatalogInv'
<1> USE NullsAssumption DEF CatalogInv
<1>1. PICK code \in Codes :
        /\ table["template"][code] # NoRow
        /\ accepted' = [accepted EXCEPT ![d] =
                [code |-> code, version |-> table["template"][code].version]]
  BY DEF SendAccepts
<1>2. accepted[d] = NoDelivery /\ UNCHANGED <<configurations, table, edit, attempt, written, acks>>
  BY DEF SendAccepts
<1>3. table["template"][code].version \in Nat
  BY <1>1 DEF TypeOK, Kinds, Row
<1>4. TypeOK'
  BY <1>1, <1>2, <1>3 DEF TypeOK
<1>5. attempt[d].version = 0
  BY <1>2 DEF AttemptsFollow
<1>6. TemplatesOutliveDeliveries'
  BY <1>1, <1>2, <1>3, <1>5 DEF TemplatesOutliveDeliveries, TypeOK
<1>7. AttemptsFollow'
  BY <1>1, <1>2, <1>3 DEF AttemptsFollow, TypeOK
<1>8. (VersionsCount /\ EditsAreSerial /\ UpstreamsPassed /\ RoutesFollowConfiguration)'
  BY <1>2 DEF VersionsCount, EditsAreSerial, UpstreamsPassed, RoutesFollowConfiguration
<1> QED BY <1>4, <1>6, <1>7, <1>8

\* deliver renders the current version.
LEMMA DeliverRendersKeeps ==
  ASSUME CatalogInv, NEW d \in Deliveries, DeliverRenders(d) PROVE CatalogInv'
<1> USE NullsAssumption DEF CatalogInv
<1> DEFINE row == table["template"][accepted[d].code]
<1>1. /\ accepted[d] # NoDelivery /\ row # NoRow
      /\ attempt' = [attempt EXCEPT ![d] = [version |-> row.version, route |-> "none", refused |-> {}]]
      /\ UNCHANGED <<configurations, table, edit, accepted, written, acks>>
  BY DEF DeliverRenders
<1>2. accepted[d].code \in Codes
  BY <1>1 DEF TypeOK
<1>3. row.version \in Nat
  BY <1>1, <1>2 DEF TypeOK, Kinds, Row
<1>4. TypeOK'
  BY <1>1, <1>3 DEF TypeOK, Routes
<1>5. TemplatesOutliveDeliveries'
  BY <1>1, <1>3 DEF TemplatesOutliveDeliveries, TypeOK
<1>6. AttemptsFollow'
  BY <1>1 DEF AttemptsFollow, TypeOK
<1>7. RoutesFollowConfiguration'
  BY <1>1 DEF RoutesFollowConfiguration, TypeOK
<1>8. (VersionsCount /\ EditsAreSerial /\ UpstreamsPassed)'
  BY <1>1 DEF VersionsCount, EditsAreSerial, UpstreamsPassed
<1> QED BY <1>4, <1>5, <1>6, <1>7, <1>8

\* sender finds an upstream its configuration allows, uses the built-in sender, or refuses
\* an upstream that PutProvider's configuration allowed.
LEMMA DeliverResolvesKeeps ==
  ASSUME CatalogInv, NEW d \in Deliveries, DeliverResolves(d) PROVE CatalogInv'
<1> USE NullsAssumption DEF CatalogInv
<1>1. UNCHANGED <<configurations, table, edit, accepted, written, acks>>
  BY DEF DeliverResolves
<1>2. \/ attempt' = [attempt EXCEPT ![d].route = "builtin"]
      \/ \E c \in Codes, b \in configurations :
            /\ table["provider"][c] # NoRow
            /\ attempt' = [attempt EXCEPT
                    ![d].route = IF table["provider"][c].content.upstream \in b
                                 THEN "stored" ELSE "error",
                    ![d].refused = {table["provider"][c].content.upstream} \ b]
  BY DEF DeliverResolves, Candidates
<1>3. ASSUME TypeOK', RoutesFollowConfiguration',
             \A x \in Deliveries : attempt'[x].version = attempt[x].version
      PROVE  CatalogInv'
  BY <1>1, <1>3 DEF TemplatesOutliveDeliveries, AttemptsFollow, VersionsCount, EditsAreSerial,
                    UpstreamsPassed
<1>4. CASE attempt' = [attempt EXCEPT ![d].route = "builtin"]
  <2>1. TypeOK' /\ \A x \in Deliveries : attempt'[x].version = attempt[x].version
    BY <1>1, <1>4 DEF TypeOK, Routes
  <2>2. RoutesFollowConfiguration'
    BY <1>1, <1>4 DEF RoutesFollowConfiguration, TypeOK
  <2> QED BY <1>3, <2>1, <2>2
<1>5. ASSUME NEW c \in Codes, NEW b \in configurations, table["provider"][c] # NoRow,
             attempt' = [attempt EXCEPT
                ![d].route = IF table["provider"][c].content.upstream \in b
                             THEN "stored" ELSE "error",
                ![d].refused = {table["provider"][c].content.upstream} \ b]
      PROVE  CatalogInv'
  <2> DEFINE u == table["provider"][c].content.upstream
  <2>1. PICK a \in configurations : u \in a
    BY <1>5 DEF UpstreamsPassed
  <2>2. u \in Upstreams
    BY <2>1, ConfigAssumption DEF TypeOK
  <2>3. PICK r \in Routes : /\ r = "error" => u \notin b
                            /\ attempt' = [attempt EXCEPT ![d].route = r, ![d].refused = {u} \ b]
    BY <1>5 DEF Routes
  <2> HIDE DEF u
  <2>4. /\ attempt' \in [Deliveries -> [version: Nat, route: Routes, refused: SUBSET Upstreams]]
        /\ attempt'[d].route = r /\ attempt'[d].refused = {u} \ b
        /\ attempt'[d].version = attempt[d].version
        /\ \A x \in Deliveries \ {d} : attempt'[x] = attempt[x]
    BY <2>2, <2>3 DEF TypeOK
  <2>5. TypeOK' /\ \A x \in Deliveries : attempt'[x].version = attempt[x].version
    BY <1>1, <2>4 DEF TypeOK
  <2>6. r = "error" => u \in {u} \ b /\ u \in a /\ u \notin b
    BY <2>1, <2>3
  <2>7. RoutesFollowConfiguration'
    BY <1>1, <2>4, <2>6 DEF RoutesFollowConfiguration
  <2> QED BY <1>3, <2>5, <2>7
<1> QED BY <1>2, <1>4, <1>5

\* A configuration more takes nothing back.
LEMMA DeployKeeps ==
  ASSUME CatalogInv, Deploy PROVE CatalogInv'
<1> USE DEF CatalogInv
<1>1. /\ configurations \subseteq configurations' /\ configurations' \subseteq Configurations
      /\ UNCHANGED <<table, edit, accepted, attempt, written, acks>>
  BY DEF Deploy, TypeOK
<1>2. UpstreamsPassed' /\ RoutesFollowConfiguration'
  BY <1>1 DEF UpstreamsPassed, RoutesFollowConfiguration
<1> QED BY <1>1, <1>2 DEF TypeOK, VersionsCount, EditsAreSerial, TemplatesOutliveDeliveries,
                          AttemptsFollow

\* Every step keeps the invariant.
LEMMA StepKeeps == CatalogInv /\ [Next]_vars => CatalogInv'
<1> SUFFICES ASSUME CatalogInv, [Next]_vars PROVE CatalogInv'
  OBVIOUS
<1>1. CASE UNCHANGED vars
  BY <1>1 DEF vars, CatalogInv, TypeOK, VersionsCount, EditsAreSerial,
              TemplatesOutliveDeliveries, UpstreamsPassed, AttemptsFollow, RoutesFollowConfiguration
<1>2. CASE \E e \in Editors :
        \/ PutTemplateReads(e) \/ PutProviderReads(e)
        \/ PutInserts(e) \/ PutUpdates(e) \/ PutFails(e)
  BY <1>2, PutTemplateReadsKeeps, PutProviderReadsKeeps, PutInsertsKeeps, PutUpdatesKeeps,
     PutFailsKeeps
<1>3. CASE \E d \in Deliveries : SendAccepts(d) \/ DeliverRenders(d) \/ DeliverResolves(d)
  BY <1>3, SendAcceptsKeeps, DeliverRendersKeeps, DeliverResolvesKeeps
<1>4. CASE Deploy
  BY <1>4, DeployKeeps
<1> QED BY <1>1, <1>2, <1>3, <1>4 DEF Next

\* The inductive invariant of the catalogue.
THEOREM CatalogInvariant == Spec => []CatalogInv
  BY InitHolds, StepKeeps, PTL DEF Spec

\* No lost update in PutTemplate and PutProvider.
THEOREM EditsStaySerial == Spec => []EditsAreSerial
<1>1. CatalogInv => EditsAreSerial
  BY DEF CatalogInv
<1> QED BY <1>1, CatalogInvariant, PTL

\* deliver always finds the template Send accepted the delivery under, never an
\* older version of it.
THEOREM TemplatesStay == Spec => []TemplatesOutliveDeliveries
<1>1. CatalogInv => TemplatesOutliveDeliveries
  BY DEF CatalogInv
<1> QED BY <1>1, CatalogInvariant, PTL

\* sender fails on a provider PutProvider stored only where configurations differ.
THEOREM RoutesFollow == Spec => []RoutesFollowConfiguration
<1>1. CatalogInv => RoutesFollowConfiguration
  BY DEF CatalogInv
<1> QED BY <1>1, CatalogInvariant, PTL

\* As long as all replicas have run one configuration, sender fails on no provider.
THEOREM OneConfigurationResolves ==
  Spec => []((\A a, b \in configurations : a = b) => \A d \in Deliveries : attempt[d].route # "error")
<1>1. CatalogInv => ((\A a, b \in configurations : a = b)
                        => \A d \in Deliveries : attempt[d].route # "error")
  BY DEF CatalogInv, RoutesFollowConfiguration
<1> QED BY <1>1, CatalogInvariant, PTL

=============================================================================
