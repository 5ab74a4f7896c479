------------------------------ MODULE Shipment ------------------------------
(***************************************************************************)
(* The card shipment endpoints: CardShipmentService over REAP's shipments. *)
(*                                                                         *)
(* The server keeps no table of shipments.  Whose a shipment is follows    *)
(* from its cards: every operation on one fetches it from REAP, checks     *)
(* that the vault owns each card in the answer, one query per card, and    *)
(* then makes its own REAP call.  By that time the shipment may have been  *)
(* changed by other requests.  Listing checks the card it filters by and   *)
(* hands out whole shipments.                                              *)
(*                                                                         *)
(* Rows of the card ownership table come and stay (module Ownership).  Of  *)
(* a shipment only its status and its cards are kept; a member is named by *)
(* its card.                                                               *)
(***************************************************************************)
CONSTANTS
    Vault, Card,
    Shipment,    \* IDs REAP gives to shipments
    Slot,        \* handler slots
    None

ASSUME ShipmentAssumption == None \notin Vault /\ None \notin Card /\ None \notin Shipment

VARIABLES
    cardRow,     \* vultisig_card_ownership
    status,      \* REAP: status of each shipment, "none" before it exists
    members,     \* REAP: the cards in each shipment
    job,         \* what each handler slot is doing
    touched,     \* changes REAP made for a vault: <<vault, shipment>>
    seen         \* cards shown to a vault as part of a shipment: <<vault, card>>

reapSide == <<status, members>>
vars == <<cardRow, reapSide, job, touched, seen>>

\* The operations on one shipment, which go through fetchOwnedShipment.
OnShipment == {"get", "delete", "update", "add", "remove", "submit"}

Stage == {"idle", "fetch", "owns", "member", "act"}

Job ==
    [stage : Stage, op : OnShipment \cup {"create", "list", None},
     vault : Vault \cup {None}, ship : Shipment \cup {None},
     card : Card \cup {None},   \* the card to add, remove or list by
     cards : SUBSET Card,       \* the cards the request stands on
     todo : SUBSET Card]        \* those whose owner is still to be checked

Idle == [stage |-> "idle", op |-> None, vault |-> None, ship |-> None,
         card |-> None, cards |-> {}, todo |-> {}]

\* A request that is let through to REAP stands on at least one card.
TypeOK ==
    /\ cardRow \in [Card -> Vault \cup {None}]
    /\ status \in [Shipment -> {"none", "DRAFT", "PLACED", "deleted"}]
    /\ members \in [Shipment -> SUBSET Card]
    /\ job \in [Slot -> Job]
    /\ touched \subseteq Vault \X Shipment
    /\ seen \subseteq Vault \X Card
    /\ \A r \in Slot : job[r].stage \in {"member", "act"} => job[r].cards # {}

Init ==
    /\ cardRow = [c \in Card |-> None]
    /\ status = [s \in Shipment |-> "none"]
    /\ members = [s \in Shipment |-> {}]
    /\ job = [r \in Slot |-> Idle]
    /\ touched = {}
    /\ seen = {}

\* POST /card records the owner of a card, once.
RecordCard(c, v) ==
    /\ cardRow[c] = None
    /\ cardRow' = [cardRow EXCEPT ![c] = v]
    /\ UNCHANGED <<reapSide, job, touched, seen>>

-----------------------------------------------------------------------------
(* Requests, and the checks before the REAP call. *)

Done(r) == job' = [job EXCEPT ![r] = Idle]

\* Where a request is when the cards in todo are still unchecked.
After(op, todo) ==
    IF todo # {} THEN "owns" ELSE IF op = "add" THEN "member" ELSE "act"

\* Mutant: a create without cards passes the check of its cards.
AskCreateEmpty(r, v, cards) ==
    /\ job[r].stage = "idle"
    /\ job' = [job EXCEPT ![r] =
                [Idle EXCEPT !.stage = After("create", cards), !.op = "create",
                             !.vault = v, !.cards = cards, !.todo = cards]]
    /\ UNCHANGED <<cardRow, reapSide, touched, seen>>

\* checkShipmentMembers wants at least one card, and each with an ID.
AskCreate(r, v, cards) ==
    /\ job[r].stage = "idle"
    /\ cards # {}
    /\ job' = [job EXCEPT ![r] =
                [Idle EXCEPT !.stage = "owns", !.op = "create",
                             !.vault = v, !.cards = cards, !.todo = cards]]
    /\ UNCHANGED <<cardRow, reapSide, touched, seen>>

\* Only the first cardId of the query counts, and REAP sees no other.
AskList(r, v, c) ==
    /\ job[r].stage = "idle"
    /\ job' = [job EXCEPT ![r] =
                [Idle EXCEPT !.stage = "owns", !.op = "list", !.vault = v,
                             !.card = c, !.cards = {c}, !.todo = {c}]]
    /\ UNCHANGED <<cardRow, reapSide, touched, seen>>

\* Only add and remove name a card.
AskOn(r, v, op, s, c) ==
    /\ job[r].stage = "idle"
    /\ c = None <=> op \notin {"add", "remove"}
    /\ job' = [job EXCEPT ![r] =
                [Idle EXCEPT !.stage = "fetch", !.op = op, !.vault = v,
                             !.ship = s, !.card = c]]
    /\ UNCHANGED <<cardRow, reapSide, touched, seen>>

\* Mutant: a shipment without cards is not refused.
FetchableEmptied(s) == status[s] \in {"DRAFT", "PLACED"}

\* REAP answers with the shipment, and shipmentCardIDs finds a card in it.
Fetchable(s) == status[s] \in {"DRAFT", "PLACED"} /\ members[s] # {}

Fetch(r) ==
    LET cards == members[job[r].ship]
    IN  /\ job[r].stage = "fetch"
        /\ Fetchable(job[r].ship)
        /\ job' = [job EXCEPT ![r].cards = cards, ![r].todo = cards,
                              ![r].stage = After(job[r].op, cards)]
        /\ UNCHANGED <<cardRow, reapSide, touched, seen>>

\* checkCardOwnership of one of the cards.
CheckOwner(r, c) ==
    LET todo == job[r].todo \ {c}
    IN  /\ job[r].stage = "owns"
        /\ c \in job[r].todo
        /\ cardRow[c] = job[r].vault
        /\ job' = [job EXCEPT ![r].todo = todo, ![r].stage = After(job[r].op, todo)]
        /\ UNCHANGED <<cardRow, reapSide, touched, seen>>

\* Mutant: the card to add is not looked at.
CheckMemberSkipped(r) ==
    /\ job[r].stage = "member"
    /\ job' = [job EXCEPT ![r].stage = "act"]
    /\ UNCHANGED <<cardRow, reapSide, touched, seen>>

\* The card to add is the vault's as well.
CheckMember(r) ==
    /\ job[r].stage = "member"
    /\ cardRow[job[r].card] = job[r].vault
    /\ job' = [job EXCEPT ![r].stage = "act"]
    /\ UNCHANGED <<cardRow, reapSide, touched, seen>>

\* Not owned, not found, a failed lookup or REAP call, or the server dies.
GiveUp(r) ==
    /\ job[r].stage # "idle"
    /\ Done(r)
    /\ UNCHANGED <<cardRow, reapSide, touched, seen>>

-----------------------------------------------------------------------------
(* The REAP call.  Whether its answer arrives makes no difference to       *)
(* anything the server keeps.  REAP changes DRAFT shipments only.          *)

Act(r, op) == job[r].stage = "act" /\ job[r].op = op /\ Done(r)

Touch(r, s) == touched' = touched \cup {<<job[r].vault, s>>}

Show(r, cards) == seen' = seen \cup {<<job[r].vault, c>> : c \in cards}

CreateCardShipment(r, s) ==
    /\ Act(r, "create")
    /\ status[s] = "none"
    /\ status' = [status EXCEPT ![s] = "DRAFT"]
    /\ members' = [members EXCEPT ![s] = job[r].cards]
    /\ Touch(r, s)
    /\ UNCHANGED <<cardRow, seen>>

ListCardShipments(r) ==
    /\ Act(r, "list")
    /\ Show(r, UNION {members[s] : s \in {x \in Shipment :
                /\ status[x] \in {"DRAFT", "PLACED"}
                /\ job[r].card \in members[x]}})
    /\ UNCHANGED <<cardRow, reapSide, touched>>

\* The shipment as it was fetched is the answer.
GetCardShipment(r) ==
    /\ Act(r, "get")
    /\ Show(r, job[r].cards)
    /\ UNCHANGED <<cardRow, reapSide, touched>>

DeleteCardShipment(r) ==
    /\ Act(r, "delete")
    /\ status[job[r].ship] = "DRAFT"
    /\ status' = [status EXCEPT ![job[r].ship] = "deleted"]
    /\ Touch(r, job[r].ship)
    /\ UNCHANGED <<cardRow, members, seen>>

UpdateCardShipment(r) ==
    /\ Act(r, "update")
    /\ status[job[r].ship] = "DRAFT"
    /\ Touch(r, job[r].ship)
    /\ UNCHANGED <<cardRow, reapSide, seen>>

AddCardToShipment(r) ==
    /\ Act(r, "add")
    /\ status[job[r].ship] = "DRAFT"
    /\ members' = [members EXCEPT ![job[r].ship] = @ \cup {job[r].card}]
    /\ Touch(r, job[r].ship)
    /\ UNCHANGED <<cardRow, status, seen>>

RemoveCardFromShipment(r) ==
    /\ Act(r, "remove")
    /\ status[job[r].ship] = "DRAFT"
    /\ job[r].card \in members[job[r].ship]
    /\ members' = [members EXCEPT ![job[r].ship] = @ \ {job[r].card}]
    /\ Touch(r, job[r].ship)
    /\ UNCHANGED <<cardRow, status, seen>>

SubmitCardShipment(r) ==
    /\ Act(r, "submit")
    /\ status[job[r].ship] = "DRAFT"
    /\ status' = [status EXCEPT ![job[r].ship] = "PLACED"]
    /\ Touch(r, job[r].ship)
    /\ UNCHANGED <<cardRow, members, seen>>

-----------------------------------------------------------------------------

Ask(r) ==
    \E v \in Vault :
        \/ \E cards \in SUBSET Card : AskCreate(r, v, cards)
        \/ \E c \in Card : AskList(r, v, c)
        \/ \E op \in OnShipment, s \in Shipment, c \in Card \cup {None} :
            AskOn(r, v, op, s, c)

Check(r) ==
    \/ Fetch(r)
    \/ \E c \in Card : CheckOwner(r, c)
    \/ CheckMember(r)

Call(r) ==
    \/ \E s \in Shipment : CreateCardShipment(r, s)
    \/ ListCardShipments(r) \/ GetCardShipment(r)
    \/ DeleteCardShipment(r) \/ UpdateCardShipment(r)
    \/ AddCardToShipment(r) \/ RemoveCardFromShipment(r)
    \/ SubmitCardShipment(r)

Next ==
    \/ \E c \in Card, v \in Vault : RecordCard(c, v)
    \/ \E r \in Slot : Ask(r) \/ Check(r) \/ Call(r) \/ GiveUp(r)

Spec == Init /\ [][Next]_vars

-----------------------------------------------------------------------------
(* What is to hold. *)

\* A shipment stays with one vault: REAP changes it for that vault only, and
\* it holds that vault's cards only, although each request decided on a
\* fetched copy and others changed the shipment before its own call.
StaysWithVault ==
    \A v \in Vault, s \in Shipment :
        <<v, s>> \in touched =>
            /\ \A c \in members[s] : cardRow[c] = v
            /\ \A w \in Vault : <<w, s>> \in touched => w = v

\* Of shipments a vault is shown its own cards only, although listing checks
\* no card but the one it filters by.
SeenIsOwned == \A v \in Vault, c \in Card : <<v, c>> \in seen => cardRow[c] = v
=============================================================================
