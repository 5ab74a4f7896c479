---------------------------- MODULE WebhookProofs ----------------------------
(***************************************************************************)
(* Acknowledged means stored, one notification at most, to the owner, and  *)
(* none only for a reason outside the handler, for any number of events,   *)
(* deliveries, vaults and resources and any tolerance.                     *)
(*                                                                         *)
(* What the invariant adds to the properties is that of the deliveries of  *)
(* one event only the one whose insert made the row is past the insert     *)
(* (OneHandler), and what a delivery at each stage has established         *)
(* (SlotsOK): the vault it found is the one in the row, which is never     *)
(* written again.  What the routing adds is that eventSubjectIDs finds the *)
(* subject in every shape of data that says what it is, and takes nothing  *)
(* else for it (Routing).                                                  *)
(***************************************************************************)
EXTENDS Webhook, TLAPS

\* The delivery has recorded its event; it has also found the vault.
Handling(d) == pc[d] \in {"resolving", "chaincode", "notifying"}
Located(d) == pc[d] \in {"chaincode", "notifying"}

\* The vault in the row of what event e is about.
SubjectRow(e) == ownerRow[content[e].about.kind][content[e].about.id]

SlotsOK ==
    \A d \in Slot :
        /\ pc[d] # "idle" => ev[d] \in Event /\ content[ev[d]] # None
        /\ Handling(d) => ev[d] \in recorded /\ queued[ev[d]] = <<>>
        /\ Located(d) =>
            /\ content[ev[d]].about.kind # Empty
            /\ vault[d] \in Vault /\ vault[d] = SubjectRow(ev[d])

OneHandler ==
    \A c, d \in Slot : Handling(c) /\ Handling(d) /\ ev[c] = ev[d] => c = d

\* Whoever has been notified is in the row of what the event is about.
NotifiedHasRow ==
    \A e \in Event : \A k \in DOMAIN queued[e] :
        /\ content[e] # None
        /\ content[e].about.kind # Empty
        /\ queued[e][k] \in Vault /\ queued[e][k] = SubjectRow(e)

\* The rows the REST handlers wrote are right.
RowsRight ==
    \A kind \in Kind, id \in Id : ownerRow[kind][id] \in {None, OwnerIn[kind][id]}

WebInv ==
    /\ TypeOK
    /\ SlotsOK
    /\ OneHandler
    /\ RowsRight
    /\ AckedIsRecorded
    /\ NoDoubleNotify
    /\ NotifiedHasRow
    /\ MissedOnlyIfExcused

-----------------------------------------------------------------------------
(* Routing. *)

\* What an event is about is nothing of a vault's, or a resource of a kind.
LEMMA AboutType ==
    ASSUME NEW c \in Content
    PROVE  /\ c.about.kind \in Kind \cup {Empty}
           /\ c.about.kind # Empty => c.about.kind \in Kind /\ c.about.id \in Id
<1>1. ASSUME NEW k \in Readable
      PROVE  /\ k.about.kind \in Kind \cup {Empty}
             /\ k.about.kind # Empty => k.about.kind \in Kind /\ k.about.id \in Id
  BY DEF Readable, Existing, About, Payload, Kind
<1> QED BY <1>1 DEF Content

\* eventSubjectIDs finds the resource every readable event is about, whatever
\* the type and whichever other IDs its data carries.
LEMMA RoutingReadable ==
    ASSUME NEW c \in Readable
    PROVE  eventSubjectIDs(c.type, c.data) =
                IF Silent(c) THEN About(Empty, Empty) ELSE c.about
<1> USE WebhookAssumption DEF eventSubjectIDs, Found, FirstOf, FirstCard, Own, About,
        Payload, Kind, Existing, Silent, NoData
<1>1. CASE c \in {[type |-> "CARD_TRANSACTION_CREATED", about |-> About("card", x),
                   data |-> Payload(i, x, a, <<>>)] : i \in Id, x \in Existing("card"),
                   a \in Existing("account") \cup {Empty}}
  BY <1>1
<1>2. CASE c \in {[type |-> "CARD_SHIPMENT_STATUS_UPDATED", about |-> About("card", x),
                   data |-> Payload(i, Empty, Empty, <<x>>)] :
                   i \in Id, x \in Existing("card")}
  BY <1>2
<1>3. CASE c \in {[type |-> "CARD_STATUS_UPDATED", about |-> About("card", x),
                   data |-> Payload(x, Empty, a, <<>>)] : x \in Existing("card"),
                   a \in Existing("account") \cup {Empty}}
  BY <1>3
<1>4. CASE c \in {[type |-> "CRYPTO_DEPOSIT_CREATED", about |-> About("account", a),
                   data |-> Payload(i, Empty, a, <<>>)] :
                   i \in Id, a \in Existing("account")}
  BY <1>4
<1>5. CASE c \in {[type |-> "ACCOUNT_STATUS_UPDATED", about |-> About("account", a),
                   data |-> Payload(a, Empty, Empty, <<>>)] : a \in Existing("account")}
  BY <1>5
<1>6. CASE c \in {[type |-> "USER_APPLICATION_STATUS_UPDATED", about |-> About("user", u),
                   data |-> Payload(u, Empty, Empty, <<>>)] : u \in Existing("user")}
  BY <1>6
<1>7. CASE c \in {[type |-> "COMPANY_STATUS_UPDATED", about |-> About(Empty, Empty),
                   data |-> Payload(i, Empty, Empty, <<>>)] : i \in Id}
  BY <1>7
<1>8. CASE c \in {[type |-> "CARD_TOKENIZATION_REQUESTED", about |-> About("card", x),
                   data |-> Payload(i, x, Empty, <<>>)] : i \in Id, x \in Existing("card")}
  BY <1>8
<1>9. CASE c \in {[type |-> "CARD_TOKENIZATION_REQUESTED", about |-> About("card", x),
                   data |-> Payload(i, Empty, Empty, <<>>)] :
                   i \in Id, x \in Existing("card")}
  BY <1>9
<1> QED
  BY <1>1, <1>2, <1>3, <1>4, <1>5, <1>6, <1>7, <1>8, <1>9 DEF Readable

\* It finds nothing, and no wrong resource, in an event that is Silent.
LEMMA Routing ==
    ASSUME NEW c \in Content
    PROVE  eventSubjectIDs(c.type, c.data) =
                IF Silent(c) THEN About(Empty, Empty) ELSE c.about
<1>1. CASE c \in Readable
  BY <1>1, RoutingReadable
<1>2. ASSUME NEW k \in Readable, c = [type |-> k.type, about |-> k.about, data |-> NoData]
      PROVE  eventSubjectIDs(c.type, c.data) = About(Empty, Empty) /\ Silent(c)
  <2>1. c.data = NoData
    BY <1>2
  <2>2. Silent(c)
    BY <2>1 DEF Silent
  <2>3. eventSubjectIDs(c.type, NoData) = About(Empty, Empty)
    BY DEF eventSubjectIDs, Found, FirstOf, FirstCard, Own, NoData, Payload
  <2> QED BY <2>1, <2>2, <2>3
<1> QED BY <1>1, <1>2 DEF Content

\* resolveVault finds the vault in the row, or finds nobody since the event
\* does not say whom, or nobody is recorded.
LEMMA Resolution ==
    ASSUME WebInv, NEW e \in Event, content[e] # None
    PROVE  /\ resolveVault(e) = None => Unroutable(e)
           /\ resolveVault(e) # None =>
                /\ content[e].about.kind # Empty
                /\ resolveVault(e) \in Vault /\ resolveVault(e) = SubjectRow(e)
<1> DEFINE a == content[e].about
           s == eventSubjectIDs(content[e].type, content[e].data)
<1>1. content[e] \in Content
  BY DEF WebInv, TypeOK
<1>2. s = IF Silent(content[e]) THEN About(Empty, Empty) ELSE a
  BY <1>1, Routing
<1>3. a.kind # Empty => a.kind \in Kind /\ a.id \in Id
  BY <1>1, AboutType
<1>4. resolveVault(e) = IF s.kind = Empty THEN None ELSE ownerRow[s.kind][s.id]
  BY DEF resolveVault
<1>5. About(Empty, Empty).kind = Empty
  BY DEF About
<1>6. a.kind # Empty => ownerRow[a.kind][a.id] \in Vault \cup {None}
  BY <1>3 DEF WebInv, TypeOK
<1>7. CASE Silent(content[e])
  BY <1>2, <1>4, <1>5, <1>7 DEF Unroutable
<1>8. CASE ~Silent(content[e])
  <2>1. resolveVault(e) = IF a.kind = Empty THEN None ELSE ownerRow[a.kind][a.id]
    BY <1>2, <1>4, <1>8
  <2> QED BY <1>6, <2>1 DEF Unroutable, SubjectRow
<1> QED BY <1>7, <1>8

-----------------------------------------------------------------------------
(* The steps. *)

LEMMA WebInit == Init => WebInv
<1> SUFFICES ASSUME Init PROVE WebInv
  OBVIOUS
<1> USE WebhookAssumption DEF Init
<1>1. TypeOK
  BY DEF TypeOK, Stage
<1>2. SlotsOK /\ OneHandler /\ RowsRight
  BY DEF SlotsOK, OneHandler, RowsRight, Handling, Located
<1>3. AckedIsRecorded /\ NoDoubleNotify /\ NotifiedHasRow
  BY DEF AckedIsRecorded, NoDoubleNotify, NotifiedHasRow
<1>4. MissedOnlyIfExcused
  BY DEF MissedOnlyIfExcused
<1> QED BY <1>1, <1>2, <1>3, <1>4 DEF WebInv

\* REAP emits an event; what was emitted before stays as it was.
LEMMA EmitStep ==
    ASSUME WebInv, NEW e \in Event, NEW c \in Content, Emit(e, c)
    PROVE  WebInv'
<1> USE DEF Emit, tables
<1>1. TypeOK'
  BY DEF WebInv, TypeOK
<1>2. \A f \in Event : content[f] # None => content'[f] = content[f]
  BY DEF WebInv, TypeOK
<1>3. SlotsOK'
  BY <1>2 DEF WebInv, SlotsOK, Handling, Located, SubjectRow
<1>4. OneHandler' /\ RowsRight' /\ AckedIsRecorded' /\ NoDoubleNotify'
  BY DEF WebInv, OneHandler, Handling, RowsRight, AckedIsRecorded, NoDoubleNotify
<1>5. NotifiedHasRow'
  BY <1>2 DEF WebInv, NotifiedHasRow, SubjectRow
<1>6. MissedOnlyIfExcused'
  BY DEF WebInv, MissedOnlyIfExcused, Notifying
<1> QED BY <1>1, <1>3, <1>4, <1>5, <1>6 DEF WebInv

\* The REST handlers fill the tables.
LEMMA TableStep ==
    ASSUME WebInv,
           \/ \E kind \in Kind, id \in Id : RecordOwner(kind, id)
           \/ \E v \in Vault : RecordChainCode(v)
    PROVE  WebInv'
<1>1. UNCHANGED <<content, client, recorded, queued, excused, acked, pc, ev, vault>>
  BY DEF RecordOwner, RecordChainCode
<1>2. /\ ownerRow' \in [Kind -> [Id -> Vault \cup {None}]] /\ hasChain' \subseteq Vault
      /\ RowsRight'
      /\ \A k \in Kind, i \in Id : ownerRow[k][i] \in Vault => ownerRow'[k][i] = ownerRow[k][i]
  <2>1. ASSUME NEW kind \in Kind, NEW id \in Id, RecordOwner(kind, id)
        PROVE  /\ ownerRow' \in [Kind -> [Id -> Vault \cup {None}]] /\ RowsRight'
               /\ \A k \in Kind, i \in Id :
                    ownerRow[k][i] \in Vault => ownerRow'[k][i] = ownerRow[k][i]
    <3>1. OwnerIn[kind][id] \in Vault
      BY <2>1, WebhookAssumption DEF RecordOwner, Existing
    <3>2. ownerRow' = [ownerRow EXCEPT ![kind] = [@ EXCEPT ![id] = OwnerIn[kind][id]]]
      BY <2>1 DEF RecordOwner
    <3>3. ownerRow' \in [Kind -> [Id -> Vault \cup {None}]]
      BY <3>1, <3>2 DEF WebInv, TypeOK
    <3>4. \A k \in Kind, i \in Id :
            ownerRow'[k][i] = IF k = kind /\ i = id THEN OwnerIn[k][i] ELSE ownerRow[k][i]
      BY <3>2 DEF WebInv, TypeOK
    <3>5. ownerRow[kind][id] \notin Vault
      BY <2>1, WebhookAssumption DEF RecordOwner
    <3>6. RowsRight'
      BY <3>4 DEF WebInv, RowsRight
    <3> QED BY <3>3, <3>4, <3>5, <3>6
  <2>2. ASSUME NEW v \in Vault, RecordChainCode(v)
        PROVE  ownerRow' = ownerRow /\ hasChain' \subseteq Vault
    BY <2>2 DEF RecordChainCode, WebInv, TypeOK
  <2>3. CASE ownerRow' = ownerRow /\ hasChain' \subseteq Vault
    BY <2>3 DEF WebInv, TypeOK, RowsRight
  <2>4. (\E kind \in Kind, id \in Id : RecordOwner(kind, id)) => hasChain' \subseteq Vault
    BY DEF RecordOwner, WebInv, TypeOK
  <2> QED BY <2>1, <2>2, <2>3, <2>4
<1>3. TypeOK'
  BY <1>1, <1>2 DEF WebInv, TypeOK
<1>4. \A e \in Event : content[e] # None /\ content[e].about.kind # Empty
                            /\ SubjectRow(e) \in Vault => SubjectRow(e)' = SubjectRow(e)
  <2> SUFFICES ASSUME NEW e \in Event, content[e] # None, content[e].about.kind # Empty,
                      SubjectRow(e) \in Vault
               PROVE  SubjectRow(e)' = SubjectRow(e)
    OBVIOUS
  <2>1. content[e].about.kind \in Kind /\ content[e].about.id \in Id
    BY AboutType DEF WebInv, TypeOK
  <2> QED BY <1>1, <1>2, <2>1 DEF SubjectRow
<1>5. SlotsOK'
  <2>1. ASSUME NEW d \in Slot, Located(d)
        PROVE  ev[d] \in Event /\ vault[d] = SubjectRow(ev[d])'
    <3>1. ev[d] \in Event /\ content[ev[d]] # None /\ content[ev[d]].about.kind # Empty
      BY <2>1 DEF WebInv, SlotsOK, Located
    <3>2. vault[d] \in Vault /\ vault[d] = SubjectRow(ev[d])
      BY <2>1 DEF WebInv, SlotsOK
    <3>3. SubjectRow(ev[d])' = SubjectRow(ev[d])
      BY <1>1, <1>4, <3>1, <3>2 DEF SubjectRow
    <3> QED BY <3>1, <3>2, <3>3
  <2> QED BY <1>1, <2>1 DEF WebInv, SlotsOK, Handling, Located
<1>6. NotifiedHasRow'
  BY <1>1, <1>4 DEF WebInv, NotifiedHasRow, TypeOK
<1>7. OneHandler' /\ AckedIsRecorded' /\ NoDoubleNotify'
  BY <1>1 DEF WebInv, OneHandler, Handling, AckedIsRecorded, NoDoubleNotify
<1>8. MissedOnlyIfExcused'
  BY <1>1 DEF WebInv, MissedOnlyIfExcused, Notifying
<1> QED BY <1>2, <1>3, <1>5, <1>6, <1>7, <1>8 DEF WebInv

\* A delivery that verifies is one of an emitted event.
LEMMA DeliverStep ==
    ASSUME WebInv, NEW d \in Slot, NEW e \in Event,
           NEW authentic \in BOOLEAN, NEW skew \in -MaxSkew..MaxSkew,
           Deliver(d, e, authentic, skew)
    PROVE  WebInv'
<1> USE DEF Deliver, tables
<1>1. content[e] # None
  BY DEF VerifyWebhookSignature
<1>2. TypeOK'
  BY DEF WebInv, TypeOK, Stage
<1>3. SlotsOK' /\ OneHandler'
  BY <1>1 DEF WebInv, TypeOK, SlotsOK, OneHandler, Handling, Located, SubjectRow
<1>4. RowsRight' /\ AckedIsRecorded' /\ NoDoubleNotify' /\ NotifiedHasRow'
  BY DEF WebInv, RowsRight, AckedIsRecorded, NoDoubleNotify, NotifiedHasRow, SubjectRow
<1>5. MissedOnlyIfExcused'
  <2>1. ASSUME NEW f \in recorded, client = "ready", queued[f] = <<>>, ~Notifying(f)'
        PROVE  ~Notifying(f)
    BY <2>1 DEF Notifying, WebInv, TypeOK
  <2> QED BY <2>1 DEF WebInv, MissedOnlyIfExcused
<1> QED BY <1>2, <1>3, <1>4, <1>5 DEF WebInv

\* A delivery goes on with its event: the one whose insert made the row, or
\* one that made it before and has found out more.
LEMMA MoveStep ==
    ASSUME WebInv, NEW d \in Slot, pc[d] # "idle",
           pc' \in [Slot -> Stage], pc'[d] \in {"resolving", "chaincode", "notifying"},
           vault' \in [Slot -> Vault \cup {None}],
           \A c \in Slot : c # d => pc'[c] = pc[c] /\ vault'[c] = vault[c],
           \/ Handling(d) /\ recorded' = recorded
           \/ /\ ev[d] \notin recorded /\ recorded' = recorded \cup {ev[d]}
              /\ pc'[d] = "resolving",
           pc'[d] # "resolving" =>
                /\ content[ev[d]].about.kind # Empty
                /\ vault'[d] \in Vault /\ vault'[d] = SubjectRow(ev[d]),
           UNCHANGED <<content, client, tables, queued, excused, acked, ev>>
    PROVE  WebInv'
<1> USE DEF tables
<1>1. ev[d] \in Event /\ content[ev[d]] # None
  BY DEF WebInv, SlotsOK
<1>2. ev[d] \in recorded' /\ queued[ev[d]] = <<>>
  BY <1>1 DEF WebInv, TypeOK, SlotsOK, NoDoubleNotify
<1>3. TypeOK'
  BY <1>1 DEF WebInv, TypeOK
<1>4. SlotsOK'
  BY <1>1, <1>2 DEF WebInv, SlotsOK, Handling, Located, SubjectRow
<1>5. OneHandler'
  <2>1. \A c \in Slot : Handling(c) /\ ev[c] = ev[d] => c = d
    BY DEF WebInv, OneHandler, SlotsOK, Handling
  <2> QED BY <2>1 DEF WebInv, OneHandler, Handling
<1>6. RowsRight' /\ AckedIsRecorded' /\ NoDoubleNotify' /\ NotifiedHasRow'
  BY DEF WebInv, RowsRight, AckedIsRecorded, NoDoubleNotify, NotifiedHasRow, SubjectRow
<1>7. MissedOnlyIfExcused'
  <2>1. Notifying(ev[d])'
    BY DEF Notifying
  <2>2. ASSUME NEW f \in recorded', f # ev[d], Notifying(f)
        PROVE  Notifying(f)'
    BY <2>2 DEF Notifying
  <2> QED BY <2>1, <2>2 DEF WebInv, MissedOnlyIfExcused
<1> QED BY <1>3, <1>4, <1>5, <1>6, <1>7 DEF WebInv

\* A delivery ends.  If it was past the insert, or made the row and ends at
\* once, its event has been notified, is excused, or there is no client.
LEMMA EndStep ==
    ASSUME WebInv, NEW d \in Slot, pc[d] # "idle", Done(d),
           recorded' \in {recorded, recorded \cup {ev[d]}},
           acked' \in {acked, acked \cup {ev[d]}}, acked' \subseteq recorded',
           excused' \in {excused, excused \cup {ev[d]}},
           \/ queued' = queued
           \/ Located(d) /\ queued' = [queued EXCEPT ![ev[d]] = Append(@, vault[d])],
           \/ pc[d] = "recording" /\ recorded' = recorded
           \/ ev[d] \in excused' \/ client # "ready" \/ queued' # queued,
           UNCHANGED <<content, client, tables>>
    PROVE  WebInv'
<1> USE DEF tables, Done
<1>1. ev[d] \in Event /\ content[ev[d]] # None
  BY DEF WebInv, SlotsOK
<1>2. /\ \A e \in Event : e # ev[d] => queued'[e] = queued[e]
      /\ queued'[ev[d]] \in {queued[ev[d]], <<vault[d]>>}
      /\ queued'[ev[d]] # queued[ev[d]] =>
            Located(d) /\ queued'[ev[d]] = <<vault[d]>>
      /\ queued' \in [Event -> Seq(Vault)]
  <2>1. CASE queued' = queued
    BY <2>1 DEF WebInv, TypeOK
  <2>2. CASE Located(d) /\ queued' = [queued EXCEPT ![ev[d]] = Append(@, vault[d])]
    <3>1. queued[ev[d]] = <<>> /\ vault[d] \in Vault
      BY <2>2 DEF WebInv, SlotsOK, Handling, Located
    <3>2. Append(queued[ev[d]], vault[d]) = <<vault[d]>> /\ <<vault[d]>> \in Seq(Vault)
      BY <3>1
    <3> QED BY <1>1, <2>2, <3>2 DEF WebInv, TypeOK
  <2> QED BY <2>1, <2>2
<1>3. TypeOK'
  BY <1>1, <1>2 DEF WebInv, TypeOK, Stage
<1>4. \A c \in Slot : c # d => pc'[c] = pc[c] /\ ev'[c] = ev[c] /\ vault'[c] = vault[c]
  BY DEF WebInv, TypeOK
<1>5. pc'[d] = "idle"
  BY DEF WebInv, TypeOK
<1>6. SlotsOK'
  <2>1. ASSUME NEW c \in Slot, c # d, Handling(c)
        PROVE  ev[c] \in recorded' /\ queued'[ev[c]] = <<>>
    <3>1. ev[c] \in recorded /\ ev[c] \in Event /\ queued[ev[c]] = <<>>
      BY <2>1 DEF WebInv, SlotsOK, Handling
    <3>2. queued' # queued => ev[c] # ev[d]
      BY <2>1 DEF WebInv, OneHandler, Handling, Located
    <3> QED BY <1>2, <3>1, <3>2
  <2> QED BY <1>4, <1>5, <2>1 DEF WebInv, SlotsOK, Handling, Located, SubjectRow
<1>7. OneHandler'
  BY <1>4, <1>5 DEF WebInv, OneHandler, Handling
<1>8. RowsRight' /\ AckedIsRecorded'
  BY DEF WebInv, RowsRight, AckedIsRecorded
<1>9. NoDoubleNotify'
  <2>1. ASSUME NEW e \in Event
        PROVE  Len(queued'[e]) <= 1 /\ (queued'[e] # <<>> => e \in recorded')
    <3>1. CASE queued'[e] = queued[e]
      BY <3>1 DEF WebInv, NoDoubleNotify
    <3>2. CASE e = ev[d] /\ queued'[e] = <<vault[d]>> /\ Located(d)
      BY <3>2 DEF WebInv, SlotsOK, Handling, Located
    <3> QED BY <1>2, <3>1, <3>2
  <2> QED BY <2>1 DEF NoDoubleNotify
<1>10. NotifiedHasRow'
  <2>1. ASSUME NEW e \in Event, NEW k \in DOMAIN queued'[e]
        PROVE  /\ content[e] # None
               /\ content[e].about.kind # Empty
               /\ queued'[e][k] \in Vault /\ queued'[e][k] = SubjectRow(e)
    <3>1. CASE queued'[e] = queued[e]
      BY <2>1, <3>1 DEF WebInv, NotifiedHasRow, SubjectRow
    <3>2. CASE e = ev[d] /\ queued'[e] = <<vault[d]>> /\ Located(d)
      BY <1>1, <2>1, <3>2 DEF WebInv, SlotsOK, SubjectRow
    <3> QED BY <1>2, <3>1, <3>2
  <2> QED BY <2>1 DEF NotifiedHasRow, SubjectRow
<1>11. MissedOnlyIfExcused'
  <2> SUFFICES ASSUME NEW e \in recorded', client = "ready", queued'[e] = <<>>,
                      ~Notifying(e)'
               PROVE  e \in excused'
    BY DEF MissedOnlyIfExcused
  <2>1. e \in Event
    BY <1>3 DEF TypeOK
  <2>2. CASE e # ev[d] \/ (pc[d] = "recording" /\ recorded' = recorded)
    <3>1. e \in recorded /\ queued[e] = <<>>
      BY <1>2, <2>1, <2>2 DEF WebInv, NoDoubleNotify
    <3>2. ~Notifying(e)
      BY <1>4, <2>2 DEF Notifying
    <3> QED BY <3>1, <3>2 DEF WebInv, MissedOnlyIfExcused
  <2>3. CASE e = ev[d] /\ queued' # queued
    BY <1>2, <2>3 DEF WebInv, TypeOK, SlotsOK, Located
  <2> QED BY <2>2, <2>3
<1> QED
  BY <1>3, <1>6, <1>7, <1>8, <1>9, <1>10, <1>11 DEF WebInv

\* Every step of a handler preserves the invariant.
LEMMA HandlerStep ==
    ASSUME WebInv, NEW d \in Slot, Step(d) \/ Crash(d)
    PROVE  WebInv'
<1> USE DEF NoNotification, Answer2xx, AnswerError, InsertFails
<1>1. \A c \in Slot : pc[c] # "idle" => ev[c] \in Event /\ content[ev[c]] # None
  BY DEF WebInv, SlotsOK
<1>2. acked \subseteq recorded /\ (Handling(d) => ev[d] \in recorded)
  BY DEF WebInv, AckedIsRecorded, SlotsOK
<1>3. CASE RecordNew(d)
  <2>1. CASE client = "nil"
    BY <1>2, <1>3, <2>1, EndStep DEF RecordNew
  <2>2. CASE client = "ready"
    BY <1>3, <2>2, MoveStep DEF RecordNew, WebInv, TypeOK, Stage
  <2> QED BY <1>3, <2>1, <2>2 DEF RecordNew
<1>4. CASE RecordDuplicate(d)
  BY <1>2, <1>4, EndStep DEF RecordDuplicate
<1>5. CASE RecordFails(d)
  BY <1>2, <1>5, EndStep DEF RecordFails
<1>6. CASE Resolve(d)
  BY <1>1, <1>6, MoveStep, Resolution DEF Resolve, Handling, WebInv, TypeOK, Stage
<1>7. CASE GetHexChainCode(d)
  <2>1. Located(d) /\ Handling(d)
    BY <1>7 DEF GetHexChainCode, Located, Handling
  <2> QED
    BY <1>7, <2>1, MoveStep DEF GetHexChainCode, WebInv, TypeOK, Stage, SlotsOK
<1>8. CASE Unresolved(d)
  <2>1. ev[d] \in excused'
    BY <1>1, <1>8, Resolution DEF Unresolved
  <2> QED BY <1>2, <1>8, <2>1, EndStep DEF Unresolved, Handling
<1>9. CASE NoChainCode(d)
  BY <1>2, <1>9, EndStep DEF NoChainCode, Handling
<1>10. CASE LookupFails(d)
  BY <1>2, <1>10, EndStep DEF LookupFails, Handling
<1>11. CASE Notify(d)
  <2>1. Located(d) /\ Handling(d) /\ ev[d] \in recorded
    BY <1>2, <1>11 DEF Notify, Located, Handling
  <2>2. CASE queued' = [queued EXCEPT ![ev[d]] = Append(@, vault[d])] /\ UNCHANGED excused
    <3>1. queued[ev[d]] = <<>> /\ ev[d] \in Event /\ vault[d] \in Vault
      BY <1>1, <1>11, <2>1 DEF WebInv, SlotsOK, Notify
    <3>2. queued'[ev[d]] = <<vault[d]>>
      BY <2>2, <3>1 DEF WebInv, TypeOK
    <3>3. queued' # queued
      <4>1. <<vault[d]>> # <<>>
        OBVIOUS
      <4> QED BY <3>1, <3>2, <4>1
    <3> QED BY <1>11, <2>1, <2>2, <3>3, <1>2, EndStep DEF Notify
  <2>3. CASE excused' = excused \cup {ev[d]} /\ UNCHANGED queued
    BY <1>2, <1>11, <2>1, <2>3, EndStep DEF Notify
  <2> QED BY <1>11, <2>2, <2>3 DEF Notify
<1>12. CASE Crash(d)
  BY <1>2, <1>12, EndStep DEF Crash
<1> QED
  BY <1>3, <1>4, <1>5, <1>6, <1>7, <1>8, <1>9, <1>10, <1>11, <1>12 DEF Step

LEMMA WebStep == WebInv /\ [Next]_vars => WebInv'
<1> SUFFICES ASSUME WebInv, [Next]_vars PROVE WebInv'
  OBVIOUS
<1>1. CASE \E e \in Event, c \in Content : Emit(e, c)
  BY <1>1, EmitStep
<1>2. CASE \/ \E kind \in Kind, id \in Id : RecordOwner(kind, id)
           \/ \E v \in Vault : RecordChainCode(v)
  BY <1>2, TableStep
<1>3. ASSUME NEW d \in Slot, NEW e \in Event, NEW authentic \in BOOLEAN,
             NEW skew \in -MaxSkew..MaxSkew, Deliver(d, e, authentic, skew)
      PROVE  WebInv'
  BY <1>3, DeliverStep
<1>4. ASSUME NEW d \in Slot, Step(d) \/ Crash(d) PROVE WebInv'
  BY <1>4, HandlerStep
<1>5. CASE UNCHANGED vars
  <2> USE <1>5 DEF vars, tables
  <2>1. TypeOK' /\ SlotsOK' /\ OneHandler' /\ RowsRight'
    BY DEF WebInv, TypeOK, SlotsOK, OneHandler, RowsRight, Handling, Located, SubjectRow
  <2>2. AckedIsRecorded' /\ NoDoubleNotify' /\ NotifiedHasRow'
    BY DEF WebInv, AckedIsRecorded, NoDoubleNotify, NotifiedHasRow, SubjectRow
  <2>3. MissedOnlyIfExcused'
    BY DEF WebInv, MissedOnlyIfExcused, Notifying
  <2> QED BY <2>1, <2>2, <2>3 DEF WebInv
<1> QED BY <1>1, <1>2, <1>3, <1>4, <1>5 DEF Next

-----------------------------------------------------------------------------

LEMMA Invariance == Spec => []WebInv
BY WebInit, WebStep, PTL DEF Spec

\* The event table, the ownership rows, the queue and the handlers' locals
\* keep their types.
THEOREM TypeCorrect == Spec => []TypeOK
<1>1. WebInv => TypeOK
  BY DEF WebInv
<1> QED BY <1>1, Invariance, PTL

\* HandleEvent answers 2xx only once the event's row exists, whatever fails.
THEOREM AckedMeansRecorded == Spec => []AckedIsRecorded
<1>1. WebInv => AckedIsRecorded
  BY DEF WebInv
<1> QED BY <1>1, Invariance, PTL

\* The INSERT .. ON CONFLICT DO NOTHING lets one delivery of an event notify,
\* and that one at most once.
THEOREM NotifiedAtMostOnce == Spec => []NoDoubleNotify
<1>1. WebInv => NoDoubleNotify
  BY DEF WebInv
<1> QED BY <1>1, Invariance, PTL

\* resolveVault leads to the owner of what the event is about, given that the
\* ownership rows are right.
THEOREM NotifiesTheOwner == Spec => []OwnerIsNotified
<1>1. ASSUME WebInv PROVE OwnerIsNotified
  <2> SUFFICES ASSUME NEW e \in Event, NEW k \in DOMAIN queued[e]
               PROVE  /\ content[e] # None
                      /\ content[e].about.kind # Empty
                      /\ queued[e][k] = OwnerIn[content[e].about.kind][content[e].about.id]
    BY DEF OwnerIsNotified
  <2>1. /\ content[e] # None /\ content[e].about.kind # Empty
        /\ queued[e][k] \in Vault /\ queued[e][k] = SubjectRow(e)
    BY <1>1 DEF WebInv, NotifiedHasRow
  <2>2. content[e].about.kind \in Kind /\ content[e].about.id \in Id
    BY <1>1, <2>1, AboutType DEF WebInv, TypeOK
  <2> QED BY <1>1, <2>1, <2>2, WebhookAssumption DEF WebInv, RowsRight, SubjectRow
<1> QED BY <1>1, Invariance, PTL

\* notifyVault drops no notification it could have sent: of every type of event
\* it finds the subject whenever the data says what it is.
THEOREM MissesNothing == Spec => []MissedOnlyIfExcused
<1>1. WebInv => MissedOnlyIfExcused
  BY DEF WebInv
<1> QED BY <1>1, Invariance, PTL
=============================================================================
