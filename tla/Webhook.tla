------------------------------- MODULE Webhook -------------------------------
(***************************************************************************)
(* POST /webhooks/reap: WebhookService.HandleEvent, from REAP's at-least-  *)
(* once deliveries to the notification queue.                              *)
(*                                                                         *)
(* An event is recorded by one INSERT .. ON CONFLICT DO NOTHING, and only  *)
(* the delivery whose insert created the row goes on to notify: it finds   *)
(* the vault through the ownership tables, reads the vault's chain code    *)
(* and enqueues.  Deliveries of one event may overlap; a failing step may  *)
(* have taken effect; the server may die.  Meanwhile the REST handlers     *)
(* fill the ownership tables, and a login records a chain code.            *)
(*                                                                         *)
(* Cards, accounts, users and everything else draw their IDs from one set, *)
(* so that an ID taken from the wrong field names somebody else's thing.   *)
(* The notification's wording is left out.                                 *)
(***************************************************************************)
EXTENDS Integers, Sequences

CONSTANTS
    Vault,
    Id,          \* IDs REAP gives to resources of any kind
    Empty,       \* a field that is absent or ""
    OwnerIn,     \* the vault REAP creates each resource for, by kind and ID,
                 \* None if it never creates it
    Event,       \* event IDs
    Slot,        \* handler slots
    None,
    Tolerance,   \* webhookTimestampTolerance
    MaxSkew      \* bound on |arrival - signing time| of the deliveries

Kind == {"card", "account", "user"}

ASSUME WebhookAssumption ==
    /\ OwnerIn \in [Kind -> [Id -> Vault \cup {None}]]
    /\ Empty \notin Id \cup Kind
    /\ None \notin Vault
    /\ None \notin Event
    /\ Tolerance \in Nat /\ MaxSkew \in Nat

-----------------------------------------------------------------------------
(* What REAP sends: a type, and data in the shape of the API resource.     *)

Existing(kind) == {id \in Id : OwnerIn[kind][id] # None}

Payload(id, cardId, accountId, cards) ==
    [ID |-> id, CardID |-> cardId, AccountID |-> accountId, Cards |-> cards]

\* The resource an event is about; kind Empty for events about no vault's.
About(kind, id) == [kind |-> kind, id |-> id]

\* The events of each type, with the resource each is about.  A card-scoped
\* resource, and a card, may name an account too.  The cards of a shipment
\* are one vault's.  What a tokenization's data is like is not known: it has
\* an ID of its own, and may name its card or not.
Readable ==
    {[type |-> "CARD_TRANSACTION_CREATED", about |-> About("card", c),
      data |-> Payload(i, c, a, <<>>)] : i \in Id, c \in Existing("card"),
        a \in Existing("account") \cup {Empty}}
    \cup
    {[type |-> "CARD_SHIPMENT_STATUS_UPDATED", about |-> About("card", c),
      data |-> Payload(i, Empty, Empty, <<c>>)] : i \in Id, c \in Existing("card")}
    \cup
    {[type |-> "CARD_STATUS_UPDATED", about |-> About("card", c),
      data |-> Payload(c, Empty, a, <<>>)] : c \in Existing("card"),
        a \in Existing("account") \cup {Empty}}
    \cup
    {[type |-> "CRYPTO_DEPOSIT_CREATED", about |-> About("account", a),
      data |-> Payload(i, Empty, a, <<>>)] : i \in Id, a \in Existing("account")}
    \cup
    {[type |-> "ACCOUNT_STATUS_UPDATED", about |-> About("account", a),
      data |-> Payload(a, Empty, Empty, <<>>)] : a \in Existing("account")}
    \cup
    {[type |-> "USER_APPLICATION_STATUS_UPDATED", about |-> About("user", u),
      data |-> Payload(u, Empty, Empty, <<>>)] : u \in Existing("user")}
    \cup
    {[type |-> "COMPANY_STATUS_UPDATED", about |-> About(Empty, Empty),
      data |-> Payload(i, Empty, Empty, <<>>)] : i \in Id}
    \cup
    {[type |-> "CARD_TOKENIZATION_REQUESTED", about |-> About("card", c),
      data |-> Payload(i, c, Empty, <<>>)] : i \in Id, c \in Existing("card")}
    \cup
    {[type |-> "CARD_TOKENIZATION_REQUESTED", about |-> About("card", c),
      data |-> Payload(i, Empty, Empty, <<>>)] : i \in Id, c \in Existing("card")}

\* Data that does not parse leaves no field.
NoData == Payload(Empty, Empty, Empty, <<>>)

Content ==
    Readable \cup
    {[type |-> c.type, about |-> c.about, data |-> NoData] : c \in Readable}

\* Nothing in the data says what the event is about.
Silent(c) ==
    \/ c.data = NoData
    \/ c.type = "CARD_TOKENIZATION_REQUESTED" /\ c.data.CardID = Empty

ASSUME ContentAssumption == None \notin Content

-----------------------------------------------------------------------------

VARIABLES
    content,    \* what each emitted event says, None before REAP emits it
    client,     \* the notification client: "ready", or "nil" if not set up
    ownerRow,   \* the vault in each row of the ownership and mapping tables
    hasChain,   \* vaults whose row carries a chain code
    recorded,   \* rows of vultisig_reap_webhook_events
    queued,     \* the vaults notified of each event, in order
    excused,    \* events nobody can be blamed for not notifying about
    acked,      \* events REAP got a 2xx for
    pc,         \* stage of each delivery
    ev,         \* its event
    vault       \* the vault resolveVault returned

tables == <<ownerRow, hasChain>>
vars == <<content, client, tables, recorded, queued, excused, acked, pc, ev, vault>>

Stage == {"idle", "recording", "resolving", "chaincode", "notifying"}

TypeOK ==
    /\ content \in [Event -> Content \cup {None}]
    /\ client \in {"ready", "nil"}
    /\ ownerRow \in [Kind -> [Id -> Vault \cup {None}]]
    /\ hasChain \subseteq Vault
    /\ recorded \subseteq Event
    /\ queued \in [Event -> Seq(Vault)]
    /\ excused \subseteq Event
    /\ acked \subseteq Event
    /\ pc \in [Slot -> Stage]
    /\ ev \in [Slot -> Event \cup {None}]
    /\ vault \in [Slot -> Vault \cup {None}]

\* A mapping row from before hex_chain_code existed has none.
Init ==
    /\ content = [e \in Event |-> None]
    /\ client \in {"ready", "nil"}
    /\ ownerRow = [kind \in Kind |-> [id \in Id |-> None]]
    /\ hasChain \in SUBSET Vault
    /\ recorded = {}
    /\ queued = [e \in Event |-> <<>>]
    /\ excused = {}
    /\ acked = {}
    /\ pc = [d \in Slot |-> "idle"]
    /\ ev = [d \in Slot |-> None]
    /\ vault = [d \in Slot |-> None]

-----------------------------------------------------------------------------
(* Elsewhere: REAP emits events, the REST handlers record ownership.       *)

Emit(e, c) ==
    /\ content[e] = None
    /\ content' = [content EXCEPT ![e] = c]
    /\ UNCHANGED <<client, tables, recorded, queued, excused, acked, pc, ev, vault>>

RecordOwner(kind, id) ==
    /\ id \in Existing(kind)
    /\ ownerRow[kind][id] = None
    /\ ownerRow' = [ownerRow EXCEPT ![kind][id] = OwnerIn[kind][id]]
    /\ UNCHANGED <<content, client, hasChain, recorded, queued, excused, acked, pc, ev, vault>>

RecordChainCode(v) ==
    /\ v \notin hasChain
    /\ hasChain' = hasChain \cup {v}
    /\ UNCHANGED <<content, client, ownerRow, recorded, queued, excused, acked, pc, ev, vault>>

-----------------------------------------------------------------------------
(* The handler. *)

\* Mutant: a timestamp ahead of this server's clock is refused.
VerifyOneSided(authentic, skew) == authentic /\ skew \in 0..Tolerance

\* authentic: the HMAC is REAP's; skew: now minus the signed timestamp.
VerifyWebhookSignature(authentic, skew) ==
    authentic /\ skew \in -Tolerance..Tolerance

\* The handler is done with the delivery.
Done(d) ==
    /\ pc' = [pc EXCEPT ![d] = "idle"]
    /\ ev' = [ev EXCEPT ![d] = None]
    /\ vault' = [vault EXCEPT ![d] = None]

\* A 2xx, which may not reach REAP.
Answer2xx(d) == Done(d) /\ acked' \in {acked, acked \cup {ev[d]}}

AnswerError(d) == Done(d) /\ UNCHANGED acked

\* A delivery of e comes in.  Only REAP's are authentic, and only of events
\* it has emitted.  The check is local: a delivery that fails it, or whose
\* envelope does not parse or names no event, gets a 400 and leaves no trace.
Deliver(d, e, authentic, skew) ==
    /\ pc[d] = "idle"
    /\ authentic => content[e] # None
    /\ VerifyWebhookSignature(authentic, skew)
    /\ pc' = [pc EXCEPT ![d] = "recording"]
    /\ ev' = [ev EXCEPT ![d] = e]
    /\ UNCHANGED <<content, client, tables, recorded, queued, excused, acked, vault>>

\* The insert creates the row; without a notification client that is all.
RecordNew(d) ==
    /\ pc[d] = "recording"
    /\ ev[d] \notin recorded
    /\ recorded' = recorded \cup {ev[d]}
    /\ \/ client = "nil" /\ Answer2xx(d)
       \/ /\ client = "ready"
          /\ pc' = [pc EXCEPT ![d] = "resolving"]
          /\ UNCHANGED <<acked, ev, vault>>
    /\ UNCHANGED <<content, client, tables, queued, excused>>

\* Mutant: a redelivery notifies again.
RecordDuplicateGoesOn(d) ==
    /\ pc[d] = "recording"
    /\ ev[d] \in recorded
    /\ pc' = [pc EXCEPT ![d] = "resolving"]
    /\ UNCHANGED <<content, client, tables, recorded, queued, excused, acked, ev, vault>>

\* A redelivery.
RecordDuplicate(d) ==
    /\ pc[d] = "recording"
    /\ ev[d] \in recorded
    /\ Answer2xx(d)
    /\ UNCHANGED <<content, client, tables, recorded, queued, excused>>

\* The insert errors, with its effect or without.  With it, the event counts
\* as seen from now on, and nobody is notified of it.
InsertFails(d) ==
    \/ UNCHANGED <<recorded, excused>>
    \/ /\ recorded' = recorded \cup {ev[d]}
       /\ excused' = excused \cup {ev[d]}

\* Mutant: the failure is logged and the event acknowledged.
RecordFailsSilently(d) ==
    /\ pc[d] = "recording"
    /\ InsertFails(d)
    /\ Answer2xx(d)
    /\ UNCHANGED <<content, client, tables, queued>>

\* A 500, which REAP retries.
RecordFails(d) ==
    /\ pc[d] = "recording"
    /\ InsertFails(d)
    /\ AnswerError(d)
    /\ UNCHANGED <<content, client, tables, queued>>

FirstOf(x, y) == IF x # Empty THEN x ELSE y

\* The resource's own ID, in an event whose data is the resource itself.
Own(type, p, t) == IF type = t THEN p.ID ELSE Empty

FirstCard(p) == IF Len(p.Cards) > 0 THEN p.Cards[1] ELSE Empty

\* A card before an account before a user.
Found(card, account, user) ==
    IF card # Empty THEN About("card", card)
    ELSE IF account # Empty THEN About("account", account)
    ELSE IF user # Empty THEN About("user", user)
    ELSE About(Empty, Empty)

\* Mutant: an account is looked for under the resource's own ID first.
eventSubjectIDsByID(type, p) ==
    Found(FirstOf(p.CardID, FirstOf(FirstCard(p), Own(type, p, "CARD_STATUS_UPDATED"))),
          FirstOf(p.ID, p.AccountID),
          Own(type, p, "USER_APPLICATION_STATUS_UPDATED"))

\* Mutant: the cards of a shipment are not looked at.
eventSubjectIDsNoShipment(type, p) ==
    Found(FirstOf(p.CardID, Own(type, p, "CARD_STATUS_UPDATED")),
          FirstOf(p.AccountID, Own(type, p, "ACCOUNT_STATUS_UPDATED")),
          Own(type, p, "USER_APPLICATION_STATUS_UPDATED"))

\* The subject of an event, from its type and the fields of its data.
eventSubjectIDs(type, p) ==
    Found(FirstOf(p.CardID, FirstOf(FirstCard(p), Own(type, p, "CARD_STATUS_UPDATED"))),
          FirstOf(p.AccountID, Own(type, p, "ACCOUNT_STATUS_UPDATED")),
          Own(type, p, "USER_APPLICATION_STATUS_UPDATED"))

\* OwnerOf and GetPublicKeyByReapUserID: the row as it is now, or none.
resolveVault(e) ==
    LET s == eventSubjectIDs(content[e].type, content[e].data)
    IN  IF s.kind = Empty THEN None ELSE ownerRow[s.kind][s.id]

\* Mutant: an unresolved vault and a missing chain code are not checked for.
ResolveFallsThrough(d) ==
    /\ pc[d] = "resolving"
    /\ vault' = [vault EXCEPT ![d] = resolveVault(ev[d])]
    /\ pc' = [pc EXCEPT ![d] = "notifying"]
    /\ UNCHANGED <<content, client, tables, recorded, queued, excused, acked, ev>>

Resolve(d) ==
    /\ pc[d] = "resolving"
    /\ resolveVault(ev[d]) # None
    /\ vault' = [vault EXCEPT ![d] = resolveVault(ev[d])]
    /\ pc' = [pc EXCEPT ![d] = "chaincode"]
    /\ UNCHANGED <<content, client, tables, recorded, queued, excused, acked, ev>>

GetHexChainCode(d) ==
    /\ pc[d] = "chaincode"
    /\ vault[d] \in hasChain
    /\ pc' = [pc EXCEPT ![d] = "notifying"]
    /\ UNCHANGED <<content, client, tables, recorded, queued, excused, acked, ev, vault>>

\* Nobody could find the vault: the event is about none, or does not say what
\* it is about, or no row says whose that is.
Unroutable(e) ==
    LET a == content[e].about
    IN  a.kind = Empty \/ Silent(content[e]) \/ ownerRow[a.kind][a.id] = None

\* The event is recorded and nobody is notified: logged, and that is all.
NoNotification(d) ==
    /\ Answer2xx(d)
    /\ UNCHANGED <<content, client, tables, recorded, queued>>

Unresolved(d) ==
    /\ pc[d] = "resolving"
    /\ resolveVault(ev[d]) = None
    /\ excused' = IF Unroutable(ev[d]) THEN excused \cup {ev[d]} ELSE excused
    /\ NoNotification(d)

NoChainCode(d) ==
    /\ pc[d] = "chaincode"
    /\ vault[d] \notin hasChain
    /\ excused' = excused \cup {ev[d]}
    /\ NoNotification(d)

LookupFails(d) ==
    /\ pc[d] \in {"resolving", "chaincode"}
    /\ excused' = excused \cup {ev[d]}
    /\ NoNotification(d)

\* The enqueue may fail, with its effect or without; that is only logged.
Notify(d) ==
    /\ pc[d] = "notifying"
    /\ \/ /\ queued' = [queued EXCEPT ![ev[d]] = Append(@, vault[d])]
          /\ UNCHANGED excused
       \/ /\ excused' = excused \cup {ev[d]}
          /\ UNCHANGED queued
    /\ Answer2xx(d)
    /\ UNCHANGED <<content, client, tables, recorded>>

\* The server dies with the delivery in flight, and a recorded event is not
\* taken up again.
Crash(d) ==
    /\ pc[d] # "idle"
    /\ excused' = IF pc[d] = "recording" THEN excused ELSE excused \cup {ev[d]}
    /\ AnswerError(d)
    /\ UNCHANGED <<content, client, tables, recorded, queued>>

-----------------------------------------------------------------------------

Step(d) ==
    \/ RecordNew(d) \/ RecordDuplicate(d) \/ RecordFails(d)
    \/ Resolve(d) \/ Unresolved(d) \/ GetHexChainCode(d) \/ NoChainCode(d)
    \/ LookupFails(d) \/ Notify(d)

Next ==
    \/ \E e \in Event, c \in Content : Emit(e, c)
    \/ \E kind \in Kind, id \in Id : RecordOwner(kind, id)
    \/ \E v \in Vault : RecordChainCode(v)
    \/ \E d \in Slot :
        \/ \E e \in Event, authentic \in BOOLEAN, skew \in -MaxSkew..MaxSkew :
            Deliver(d, e, authentic, skew)
        \/ Step(d)
        \/ Crash(d)

Spec == Init /\ [][Next]_vars

\* REAP redelivers an event, with a fresh signature, until it gets a 2xx; the
\* delivery comes in skew after the signature by the two clocks.
Redeliver(d, e, skew) == e \notin acked /\ Deliver(d, e, TRUE, skew)

\* However far apart the clocks are within the tolerance, and whichever is
\* ahead, REAP keeps redelivering; the server runs its handlers; an insert
\* that is tried for ever does not fail for ever.
Fairness ==
    /\ \E skew \in -Tolerance..Tolerance :
        \A e \in Event : SF_vars(\E d \in Slot : Redeliver(d, e, skew))
    /\ \A d \in Slot : WF_vars(Step(d))
    /\ \A e \in Event : SF_vars(\E d \in Slot : ev[d] = e /\ RecordNew(d))

FairSpec == Spec /\ Fairness

-----------------------------------------------------------------------------
(* What is to hold. *)

\* REAP is told 2xx only for an event whose row exists: a 2xx ends the
\* redeliveries, so anything else would lose the event.
AckedIsRecorded == acked \subseteq recorded

\* However deliveries of one event overlap or are repeated, and whatever
\* fails in between, at most one notification is queued for it, and only for
\* a recorded event.
NoDoubleNotify ==
    \A e \in Event :
        /\ Len(queued[e]) <= 1
        /\ queued[e] # <<>> => e \in recorded

\* A notification goes to the vault that owns the resource the event is
\* about, and to nobody for an event about no vault's resource.
OwnerIsNotified ==
    \A e \in Event : \A k \in DOMAIN queued[e] :
        /\ content[e] # None
        /\ content[e].about.kind # Empty
        /\ queued[e][k] = OwnerIn[content[e].about.kind][content[e].about.id]

\* A delivery of e has recorded it and is about to notify.
Notifying(e) == \E d \in Slot : ev[d] = e /\ pc[d] \notin {"idle", "recording"}

\* No notification is dropped by the routing: with a notification client, a
\* recorded event that nobody was notified of, and that no handler is at, was
\* cut off by a failure or a crash (nothing retries those, the redelivery is a
\* duplicate), or came before the row of its resource or before the vault's
\* chain code, or is about no vault, or is Silent: its data does not parse, or
\* is a tokenization's that does not name the card.
MissedOnlyIfExcused ==
    \A e \in recorded :
        client = "ready" /\ queued[e] = <<>> /\ ~Notifying(e) => e \in excused

\* Every event REAP emits ends up in the table: errors on the way are
\* answered so that REAP comes again, and a redelivery passes verification
\* although the clocks differ, up to the tolerance and in either direction.
EmittedIsRecorded ==
    \A e \in Event : content[e] # None ~> e \in recorded
=============================================================================
