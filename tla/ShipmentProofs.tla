--------------------------- MODULE ShipmentProofs ---------------------------
(***************************************************************************)
(* A shipment stays with one vault, and listings show a vault its own      *)
(* cards only, for any number of vaults, cards, shipments and requests.    *)
(*                                                                         *)
(* StaysWithVault is not inductive: it says nothing of the requests that   *)
(* have fetched a shipment and not yet called REAP, nor of a shipment all  *)
(* of whose cards are gone.  Belongs adds both: one vault owns the cards   *)
(* in the shipment, the cards in every fetched copy still in use, and made *)
(* every change.  A request acts only on a copy with a card in it that is  *)
(* its vault's own, so its vault is that one.                              *)
(***************************************************************************)
EXTENDS Shipment, TLAPS

\* What the stages of a request guarantee about it.
Sane(j) ==
    /\ j.stage = "idle" => j = Idle
    /\ j.stage # "idle" => j.vault \in Vault
    /\ j.stage \in {"fetch", "member"} => j.op \in OnShipment
    /\ j.stage # "idle" /\ j.op \in OnShipment => j.ship \in Shipment
    /\ j.op \notin OnShipment => j.ship = None
    /\ j.stage # "idle" /\ j.op \in {"add", "remove"} => j.card \in Card
    /\ j.stage \in {"idle", "fetch"} => j.cards = {} /\ j.todo = {}
    /\ j.stage \in {"member", "act"} => j.todo = {} /\ j.cards # {}
    /\ j.stage = "owns" => j.todo # {} /\ j.todo \subseteq j.cards
    /\ j.stage = "member" => j.op = "add"
    /\ j.stage # "idle" /\ j.op = "list" => j.card \in j.cards

\* What its checks so far have established.
Checked(j) ==
    /\ \A c \in j.cards \ j.todo : cardRow[c] = j.vault
    /\ j.stage = "act" /\ j.op = "add" => cardRow[j.card] = j.vault

\* Everything about shipment s is vault v's.
BelongsTo(s, v) ==
    /\ \A c \in members[s] : cardRow[c] = v
    /\ \A r \in Slot : job[r].ship = s => \A c \in job[r].cards : cardRow[c] = v
    /\ \A w \in Vault : <<w, s>> \in touched => w = v

\* Nothing refers to a shipment that does not exist yet.
Unborn(s) ==
    /\ members[s] = {}
    /\ \A r \in Slot : job[r].ship = s => job[r].cards = {}
    /\ \A w \in Vault : <<w, s>> \notin touched

Belongs ==
    \A s \in Shipment :
        IF status[s] = "none" THEN Unborn(s) ELSE \E v \in Vault : BelongsTo(s, v)

ShipInv ==
    /\ TypeOK
    /\ \A r \in Slot : Sane(job[r])
    /\ \A r \in Slot : Checked(job[r])
    /\ Belongs
    /\ SeenIsOwned

-----------------------------------------------------------------------------

\* The stage After gives is one of three.
LEMMA AfterCases ==
    ASSUME NEW op, NEW todo
    PROVE  \/ todo # {} /\ After(op, todo) = "owns"
           \/ todo = {} /\ op = "add" /\ After(op, todo) = "member"
           \/ todo = {} /\ op # "add" /\ After(op, todo) = "act"
BY DEF After

\* The record of a slot at rest.
LEMMA IdleFacts ==
    /\ Idle \in Job
    /\ Idle.stage = "idle" /\ Idle.op = None /\ Idle.ship = None
    /\ Idle.cards = {} /\ Idle.todo = {}
BY DEF Idle, Job, Stage

\* The inductive invariant holds when the server starts.
LEMMA ShipInit == Init => ShipInv
<1> SUFFICES ASSUME Init PROVE ShipInv
    OBVIOUS
<1> USE DEF Init
<1>1. TypeOK
    BY IdleFacts DEF TypeOK
<1>2. \A r \in Slot : Sane(job[r]) /\ Checked(job[r])
    BY IdleFacts DEF Sane, Checked
<1>3. Belongs
    BY IdleFacts DEF Belongs, Unborn
<1>4. SeenIsOwned
    BY DEF SeenIsOwned
<1> QED
    BY <1>1, <1>2, <1>3, <1>4 DEF ShipInv

\* A step that only moves one request along preserves the invariant, if the
\* request's new record is in order.
LEMMA JobStep ==
    ASSUME ShipInv, NEW r \in Slot, NEW j \in Job,
           job' = [job EXCEPT ![r] = j],
           Sane(j), Checked(j),
           \A s \in Shipment : j.ship = s /\ j.cards # {} =>
                /\ status[s] # "none"
                /\ \A v \in Vault : BelongsTo(s, v) => \A c \in j.cards : cardRow[c] = v,
           UNCHANGED <<cardRow, reapSide, touched, seen>>
    PROVE  ShipInv'
<1> USE DEF reapSide
<1>1. TypeOK'
    BY DEF ShipInv, TypeOK, Sane
<1>2. (\A q \in Slot : Sane(job[q]))'
    BY DEF ShipInv, TypeOK, Sane
<1>3. (\A q \in Slot : Checked(job[q]))'
    BY DEF ShipInv, TypeOK, Checked
<1>4. ASSUME NEW s \in Shipment, status[s] = "none"
      PROVE  Unborn(s)'
    BY <1>4 DEF ShipInv, TypeOK, Belongs, Unborn
<1>5. ASSUME NEW s \in Shipment, status[s] # "none"
      PROVE  \E v \in Vault : BelongsTo(s, v)'
  <2>1. PICK v \in Vault : BelongsTo(s, v)
    BY <1>5 DEF ShipInv, Belongs
  <2>2. \A c \in j.cards : j.ship = s => cardRow[c] = v
    BY <2>1
  <2>3. BelongsTo(s, v)'
    BY <2>1, <2>2 DEF ShipInv, TypeOK, BelongsTo
  <2> QED
    BY <2>3
<1>6. Belongs'
    BY <1>4, <1>5 DEF Belongs
<1>7. SeenIsOwned'
    BY DEF ShipInv, SeenIsOwned
<1> QED
    BY <1>1, <1>2, <1>3, <1>6, <1>7 DEF ShipInv

\* What is known when a request calls REAP: the cards it stands on are its
\* vault's, and so is the shipment, as it is by then.
LEMMA ActFacts ==
    ASSUME ShipInv, NEW r \in Slot, job[r].stage = "act"
    PROVE  /\ job[r].vault \in Vault
           /\ job[r].cards # {}
           /\ \A c \in job[r].cards : cardRow[c] = job[r].vault
           /\ job[r].op \in OnShipment =>
                /\ job[r].ship \in Shipment
                /\ status[job[r].ship] # "none"
                /\ BelongsTo(job[r].ship, job[r].vault)
<1> DEFINE s == job[r].ship
           v == job[r].vault
<1>1. Sane(job[r]) /\ Checked(job[r]) /\ job[r] \in Job
    BY DEF ShipInv, TypeOK
<1>2. v \in Vault /\ job[r].cards # {} /\ \A c \in job[r].cards : cardRow[c] = v
    BY <1>1 DEF Sane, Checked
<1>3. ASSUME job[r].op \in OnShipment
      PROVE  s \in Shipment /\ status[s] # "none" /\ BelongsTo(s, v)
  <2>1. s \in Shipment
    BY <1>1, <1>3 DEF Sane
  <2>2. status[s] # "none"
    BY <1>2, <2>1 DEF ShipInv, Belongs, Unborn
  <2>3. PICK w \in Vault : BelongsTo(s, w)
    BY <2>1, <2>2 DEF ShipInv, Belongs
  <2>4. w = v
    BY <1>2, <2>3 DEF BelongsTo
  <2> QED
    BY <2>1, <2>2, <2>3, <2>4
<1> QED
    BY <1>2, <1>3

\* A REAP call of slot r that leaves shipment t alone leaves Belongs alone.
LEMMA OtherShipment ==
    ASSUME ShipInv, NEW r \in Slot, NEW t \in Shipment,
           job' = [job EXCEPT ![r] = Idle],
           cardRow' = cardRow,
           status'[t] = "none" <=> status[t] = "none",
           members'[t] = members[t],
           \A w \in Vault : <<w, t>> \in touched' => <<w, t>> \in touched
    PROVE  (IF status[t] = "none" THEN Unborn(t) ELSE \E v \in Vault : BelongsTo(t, v))'
<1>1. CASE status[t] = "none"
    BY <1>1, IdleFacts DEF ShipInv, TypeOK, Belongs, Unborn
<1>2. CASE status[t] # "none"
  <2>1. PICK v \in Vault : BelongsTo(t, v)
    BY <1>2 DEF ShipInv, Belongs
  <2>2. BelongsTo(t, v)'
    BY <2>1, IdleFacts DEF ShipInv, TypeOK, BelongsTo
  <2> QED
    BY <1>2, <2>2
<1> QED
    BY <1>1, <1>2

\* A REAP call that changes one shipment, for the vault it belongs to.
LEMMA CallStep ==
    ASSUME ShipInv, NEW r \in Slot, NEW s \in Shipment, NEW v \in Vault,
           job' = [job EXCEPT ![r] = Idle],
           cardRow' = cardRow,
           seen' = seen,
           status' \in [Shipment -> {"none", "DRAFT", "PLACED", "deleted"}],
           members' \in [Shipment -> SUBSET Card],
           status'[s] # "none",
           \A t \in Shipment \ {s} : status'[t] = status[t] /\ members'[t] = members[t],
           touched' = touched \cup {<<v, s>>},
           \A c \in members'[s] : cardRow[c] = v,
           \A q \in Slot : job[q].ship = s => \A c \in job[q].cards : cardRow[c] = v,
           \A w \in Vault : <<w, s>> \in touched => w = v
    PROVE  ShipInv'
<1>1. TypeOK'
    BY IdleFacts DEF ShipInv, TypeOK
<1>2. (\A q \in Slot : Sane(job[q]))'
    BY IdleFacts DEF ShipInv, TypeOK, Sane
<1>3. (\A q \in Slot : Checked(job[q]))'
    BY IdleFacts DEF ShipInv, TypeOK, Checked
<1>4. BelongsTo(s, v)'
    BY IdleFacts DEF ShipInv, TypeOK, BelongsTo
<1>5. Belongs'
    BY <1>4, OtherShipment DEF Belongs
<1>6. SeenIsOwned'
    BY DEF ShipInv, SeenIsOwned
<1> QED
    BY <1>1, <1>2, <1>3, <1>5, <1>6 DEF ShipInv

\* A call that only shows cards, all of them the vault's.
LEMMA ShowStep ==
    ASSUME ShipInv, NEW r \in Slot, NEW v \in Vault, NEW C \in SUBSET Card,
           job' = [job EXCEPT ![r] = Idle],
           UNCHANGED <<cardRow, reapSide, touched>>,
           seen' = seen \cup {<<v, c>> : c \in C},
           \A c \in C : cardRow[c] = v
    PROVE  ShipInv'
<1> USE DEF reapSide
<1>1. TypeOK'
    BY IdleFacts DEF ShipInv, TypeOK
<1>2. (\A q \in Slot : Sane(job[q]))'
    BY IdleFacts DEF ShipInv, TypeOK, Sane
<1>3. (\A q \in Slot : Checked(job[q]))'
    BY IdleFacts DEF ShipInv, TypeOK, Checked
<1>4. Belongs'
    BY OtherShipment DEF Belongs
<1>5. SeenIsOwned'
    BY DEF ShipInv, SeenIsOwned
<1> QED
    BY <1>1, <1>2, <1>3, <1>4, <1>5 DEF ShipInv

-----------------------------------------------------------------------------

\* Recording a card's owner gives no row a second owner.
LEMMA RecordCardStep ==
    ASSUME ShipInv, NEW c \in Card, NEW v \in Vault, RecordCard(c, v)
    PROVE  ShipInv'
<1> USE ShipmentAssumption DEF RecordCard, reapSide
<1>1. TypeOK'
    BY DEF ShipInv, TypeOK
<1>2. \A d \in Card : cardRow[d] # None => cardRow'[d] = cardRow[d]
    BY DEF ShipInv, TypeOK
<1>3. (\A r \in Slot : Sane(job[r]))'
    BY DEF ShipInv, Sane
<1>4. ASSUME NEW r \in Slot
      PROVE  Checked(job[r])'
  <2>1. job[r] \in Job /\ Sane(job[r]) /\ Checked(job[r])
    BY DEF ShipInv, TypeOK
  <2>2. job[r].stage # "idle" => job[r].vault # None
    BY <2>1 DEF Sane
  <2>3. job[r].stage = "idle" => job[r].cards = {}
    BY <2>1 DEF Sane
  <2>4. job[r].stage = "act" /\ job[r].op = "add" => job[r].card \in Card
    BY <2>1 DEF Sane
  <2> QED
    BY <1>2, <2>1, <2>2, <2>3, <2>4 DEF Checked, Job
<1>5. ASSUME NEW s \in Shipment, status[s] = "none"
      PROVE  Unborn(s)'
    BY <1>5 DEF ShipInv, Belongs, Unborn
<1>6. ASSUME NEW s \in Shipment, status[s] # "none"
      PROVE  \E w \in Vault : BelongsTo(s, w)'
  <2>1. PICK w \in Vault : BelongsTo(s, w)
    BY <1>6 DEF ShipInv, Belongs
  <2>2. members[s] \subseteq Card /\ \A r \in Slot : job[r].cards \subseteq Card
    BY DEF ShipInv, TypeOK, Job
  <2>3. BelongsTo(s, w)'
    BY <1>2, <2>1, <2>2 DEF BelongsTo
  <2> QED
    BY <2>3
<1>7. Belongs'
    BY <1>5, <1>6 DEF Belongs
<1>8. SeenIsOwned'
    BY <1>2 DEF ShipInv, SeenIsOwned
<1> QED
    BY <1>1, <1>3, <1>4, <1>7, <1>8 DEF ShipInv

\* A request comes in.
LEMMA AskStep ==
    ASSUME ShipInv, NEW r \in Slot, Ask(r)
    PROVE  ShipInv'
<1> PICK v \in Vault :
        \/ \E cards \in SUBSET Card : AskCreate(r, v, cards)
        \/ \E c \in Card : AskList(r, v, c)
        \/ \E op \in OnShipment, s \in Shipment, c \in Card \cup {None} :
                AskOn(r, v, op, s, c)
    BY DEF Ask
<1> USE ShipmentAssumption
<1>1. ASSUME NEW C \in SUBSET Card, AskCreate(r, v, C)
      PROVE  ShipInv'
  <2> DEFINE j == [Idle EXCEPT !.stage = "owns", !.op = "create",
                               !.vault = v, !.cards = C, !.todo = C]
  <2>1. job' = [job EXCEPT ![r] = j] /\ UNCHANGED <<cardRow, reapSide, touched, seen>>
    BY <1>1 DEF AskCreate
  <2>2. j \in Job /\ Sane(j) /\ Checked(j) /\ (j.ship \in Shipment => j.cards = {})
    BY <1>1 DEF Idle, Job, Stage, OnShipment, Sane, Checked, AskCreate
  <2> HIDE DEF j
  <2> QED
    BY <2>1, <2>2, JobStep
<1>2. ASSUME NEW c \in Card, AskList(r, v, c)
      PROVE  ShipInv'
  <2> DEFINE j == [Idle EXCEPT !.stage = "owns", !.op = "list", !.vault = v,
                               !.card = c, !.cards = {c}, !.todo = {c}]
  <2>1. job' = [job EXCEPT ![r] = j] /\ UNCHANGED <<cardRow, reapSide, touched, seen>>
    BY <1>2 DEF AskList
  <2>2. j \in Job /\ Sane(j) /\ Checked(j) /\ (j.ship \in Shipment => j.cards = {})
    BY <1>2 DEF Idle, Job, Stage, OnShipment, Sane, Checked, AskList
  <2> HIDE DEF j
  <2> QED
    BY <2>1, <2>2, JobStep
<1>3. ASSUME NEW op \in OnShipment, NEW s \in Shipment, NEW c \in Card \cup {None},
             AskOn(r, v, op, s, c)
      PROVE  ShipInv'
  <2> DEFINE j == [Idle EXCEPT !.stage = "fetch", !.op = op, !.vault = v,
                               !.ship = s, !.card = c]
  <2>1. job' = [job EXCEPT ![r] = j] /\ UNCHANGED <<cardRow, reapSide, touched, seen>>
    BY <1>3 DEF AskOn
  <2>2. j \in Job /\ Sane(j) /\ Checked(j) /\ (j.ship \in Shipment => j.cards = {})
    BY <1>3 DEF AskOn, Idle, Job, Stage, OnShipment, Sane, Checked
  <2> HIDE DEF j
  <2> QED
    BY <2>1, <2>2, JobStep
<1> QED
    BY <1>1, <1>2, <1>3

\* A check passes.
LEMMA CheckStep ==
    ASSUME ShipInv, NEW r \in Slot, Check(r)
    PROVE  ShipInv'
<1>1. job \in [Slot -> Job] /\ job[r] \in Job /\ Sane(job[r]) /\ Checked(job[r])
    BY DEF ShipInv, TypeOK
<1>2. CASE Fetch(r)
  <2> DEFINE s == job[r].ship
             C == members[s]
             j == [job[r] EXCEPT !.cards = C, !.todo = C, !.stage = After(job[r].op, C)]
  <2>1. s \in Shipment /\ C \in SUBSET Card /\ C # {} /\ status[s] # "none"
    BY <1>1, <1>2 DEF Fetch, Fetchable, Sane, ShipInv, TypeOK
  <2>2. After(job[r].op, C) = "owns"
    BY <2>1, AfterCases
  <2>3. job' = [job EXCEPT ![r] = j] /\ UNCHANGED <<cardRow, reapSide, touched, seen>>
    BY <1>1, <1>2 DEF Fetch
  <2>4. j \in Job
    BY <1>1, <2>1, <2>2 DEF Job, Stage
  <2>5. Sane(j) /\ Checked(j)
    BY <1>1, <1>2, <2>1, <2>2 DEF Fetch, Sane, Checked, Job, OnShipment
  <2>6. \A v \in Vault : BelongsTo(s, v) => \A c \in j.cards : cardRow[c] = v
    BY <1>1, <2>1 DEF BelongsTo, Job
  <2>7. j.ship = s
    BY <1>1 DEF Job
  <2> HIDE DEF j
  <2> QED
    BY <2>1, <2>3, <2>4, <2>5, <2>6, <2>7, JobStep
<1>3. ASSUME NEW c \in Card, CheckOwner(r, c)
      PROVE  ShipInv'
  <2> DEFINE T == job[r].todo \ {c}
             j == [job[r] EXCEPT !.todo = T, !.stage = After(job[r].op, T)]
  <2>1. job' = [job EXCEPT ![r] = j] /\ UNCHANGED <<cardRow, reapSide, touched, seen>>
    BY <1>1, <1>3 DEF CheckOwner
  <2>2. /\ j.op = job[r].op /\ j.vault = job[r].vault /\ j.ship = job[r].ship
        /\ j.card = job[r].card /\ j.cards = job[r].cards
        /\ j.todo = T /\ j.stage = After(job[r].op, T)
    BY <1>1 DEF Job
  <2>3. j.cards # {} /\ T \subseteq j.cards /\ T \in SUBSET Card
    BY <1>1, <1>3, <2>2 DEF CheckOwner, Sane, Job
  <2>4. j \in Job
    <3>1. After(job[r].op, T) \in Stage
        BY AfterCases DEF Stage
    <3> QED
        BY <1>1, <2>3, <3>1 DEF Job
  <2>5. Sane(j)
    BY <1>1, <1>3, <2>2, <2>3, AfterCases DEF CheckOwner, Sane, OnShipment
  <2>6. Checked(j)
    BY <1>1, <1>3, <2>2, AfterCases DEF CheckOwner, Checked
  <2>7. ASSUME NEW s \in Shipment, j.ship = s, j.cards # {}
        PROVE  /\ status[s] # "none"
               /\ \A v \in Vault : BelongsTo(s, v) => \A d \in j.cards : cardRow[d] = v
    BY <2>2, <2>7 DEF ShipInv, Belongs, Unborn, BelongsTo
  <2> HIDE DEF j
  <2> QED
    BY <2>1, <2>4, <2>5, <2>6, <2>7, JobStep
<1>4. CASE CheckMember(r)
  <2> DEFINE j == [job[r] EXCEPT !.stage = "act"]
  <2>1. job' = [job EXCEPT ![r] = j] /\ UNCHANGED <<cardRow, reapSide, touched, seen>>
    BY <1>1, <1>4 DEF CheckMember
  <2>2. /\ j.op = job[r].op /\ j.vault = job[r].vault /\ j.ship = job[r].ship
        /\ j.card = job[r].card /\ j.cards = job[r].cards
        /\ j.todo = job[r].todo /\ j.stage = "act"
    BY <1>1 DEF Job
  <2>3. j \in Job
    BY <1>1, <2>2 DEF Job, Stage
  <2>4. Sane(j)
    BY <1>1, <1>4, <2>2 DEF CheckMember, Sane, OnShipment
  <2>5. Checked(j)
    BY <1>1, <1>4, <2>2 DEF CheckMember, Checked
  <2>6. ASSUME NEW s \in Shipment, j.ship = s, j.cards # {}
        PROVE  /\ status[s] # "none"
               /\ \A v \in Vault : BelongsTo(s, v) => \A d \in j.cards : cardRow[d] = v
    BY <2>2, <2>6 DEF ShipInv, Belongs, Unborn, BelongsTo
  <2> HIDE DEF j
  <2> QED
    BY <2>1, <2>3, <2>4, <2>5, <2>6, JobStep
<1> QED
    BY <1>2, <1>3, <1>4 DEF Check

\* REAP is called.
LEMMA CallsStep ==
    ASSUME ShipInv, NEW r \in Slot, Call(r)
    PROVE  ShipInv'
<1> DEFINE s == job[r].ship
           v == job[r].vault
<1>1. /\ status \in [Shipment -> {"none", "DRAFT", "PLACED", "deleted"}]
      /\ members \in [Shipment -> SUBSET Card]
      /\ job[r] \in Job /\ Sane(job[r]) /\ Checked(job[r])
    BY DEF ShipInv, TypeOK
<1>2. ASSUME NEW t \in Shipment, CreateCardShipment(r, t)
      PROVE  ShipInv'
  <2> USE <1>2 DEF CreateCardShipment, Act, Done, Touch
  <2>1. Unborn(t) /\ t \in Shipment
    BY DEF ShipInv, Belongs
  <2>2. v \in Vault /\ \A c \in job[r].cards : cardRow[c] = v
    BY ActFacts
  <2>3. job[r].cards \in SUBSET Card
    BY <1>1 DEF Job
  <2>4. /\ status' \in [Shipment -> {"none", "DRAFT", "PLACED", "deleted"}]
        /\ members' \in [Shipment -> SUBSET Card]
        /\ status'[t] # "none"
        /\ \A x \in Shipment \ {t} : status'[x] = status[x] /\ members'[x] = members[x]
        /\ \A c \in members'[t] : cardRow[c] = v
    BY <1>1, <2>2, <2>3
  <2>5. /\ \A q \in Slot : job[q].ship = t => \A c \in job[q].cards : cardRow[c] = v
        /\ \A w \in Vault : <<w, t>> \in touched => w = v
    BY <2>1 DEF Unborn
  <2> QED
    BY <2>2, <2>4, <2>5, CallStep
<1>3. CASE ListCardShipments(r)
  <2> USE <1>3 DEF ListCardShipments, Act, Done, Show
  <2> DEFINE Hit == {x \in Shipment : status[x] \in {"DRAFT", "PLACED"}
                                        /\ job[r].card \in members[x]}
             C == UNION {members[x] : x \in Hit}
  <2>1. v \in Vault /\ job[r].card \in job[r].cards /\ cardRow[job[r].card] = v
    BY <1>1, ActFacts DEF Sane
  <2>2. ASSUME NEW x \in Hit
        PROVE  \A c \in members[x] : cardRow[c] = v
    <3>1. PICK w \in Vault : BelongsTo(x, w)
      BY <2>2 DEF ShipInv, Belongs
    <3> QED
      BY <2>1, <3>1 DEF BelongsTo
  <2>3. C \in SUBSET Card /\ \A c \in C : cardRow[c] = v
    BY <1>1, <2>2
  <2>4. seen' = seen \cup {<<v, c>> : c \in C}
    OBVIOUS
  <2>5. job' = [job EXCEPT ![r] = Idle] /\ UNCHANGED <<cardRow, reapSide, touched>>
    OBVIOUS
  <2> HIDE DEF C
  <2> QED
    BY <2>1, <2>3, <2>4, <2>5, ShowStep
<1>4. CASE GetCardShipment(r)
  <2> USE <1>4 DEF GetCardShipment, Act, Done, Show
  <2>1. v \in Vault /\ job[r].cards \in SUBSET Card /\ \A c \in job[r].cards : cardRow[c] = v
    BY <1>1, ActFacts DEF Job
  <2> QED
    BY <2>1, ShowStep
<1>5. ASSUME job[r].stage = "act", job[r].op \in OnShipment
      PROVE  /\ s \in Shipment /\ v \in Vault /\ status[s] # "none"
             /\ \A c \in members[s] : cardRow[c] = v
             /\ \A q \in Slot : job[q].ship = s => \A c \in job[q].cards : cardRow[c] = v
             /\ \A w \in Vault : <<w, s>> \in touched => w = v
    BY <1>5, ActFacts DEF BelongsTo
<1>6. ASSUME DeleteCardShipment(r) \/ SubmitCardShipment(r) \/ UpdateCardShipment(r)
      PROVE  ShipInv'
  <2> USE <1>6 DEF DeleteCardShipment, SubmitCardShipment, UpdateCardShipment,
                   Act, Done, Touch, reapSide
  <2>1. job[r].stage = "act" /\ job[r].op \in OnShipment
    BY DEF OnShipment
  <2>2. /\ status' \in [Shipment -> {"none", "DRAFT", "PLACED", "deleted"}]
        /\ members' = members
        /\ status'[s] # "none"
        /\ \A x \in Shipment \ {s} : status'[x] = status[x]
    BY <1>1, <1>5, <2>1
  <2>3. /\ job' = [job EXCEPT ![r] = Idle] /\ cardRow' = cardRow /\ seen' = seen
        /\ touched' = touched \cup {<<v, s>>}
    OBVIOUS
  <2> QED
    BY <1>1, <1>5, <2>1, <2>2, <2>3, CallStep
<1>7. ASSUME AddCardToShipment(r) \/ RemoveCardFromShipment(r)
      PROVE  ShipInv'
  <2> USE <1>7 DEF AddCardToShipment, RemoveCardFromShipment, Act, Done, Touch
  <2>1. job[r].stage = "act" /\ job[r].op \in OnShipment
    BY DEF OnShipment
  <2>2. job[r].card \in Card /\ (job[r].op = "add" => cardRow[job[r].card] = v)
    BY <1>1 DEF Sane, Checked
  <2>3. /\ members' \in [Shipment -> SUBSET Card]
        /\ status' = status
        /\ \A x \in Shipment \ {s} : members'[x] = members[x]
    BY <1>1, <2>2
  <2>4. \A c \in members'[s] : cardRow[c] = v
    BY <1>1, <1>5, <2>1, <2>2
  <2>5. /\ job' = [job EXCEPT ![r] = Idle] /\ cardRow' = cardRow /\ seen' = seen
        /\ touched' = touched \cup {<<v, s>>}
    OBVIOUS
  <2> QED
    BY <1>1, <1>5, <2>1, <2>3, <2>4, <2>5, CallStep
<1> QED
    BY <1>2, <1>3, <1>4, <1>6, <1>7 DEF Call

\* Every step preserves the invariant.
LEMMA ShipStep == ShipInv /\ [Next]_vars => ShipInv'
<1> SUFFICES ASSUME ShipInv, [Next]_vars PROVE ShipInv'
    OBVIOUS
<1>1. ASSUME NEW c \in Card, NEW v \in Vault, RecordCard(c, v)
      PROVE  ShipInv'
    BY <1>1, RecordCardStep
<1>2. ASSUME NEW r \in Slot, Ask(r) \/ Check(r) \/ Call(r)
      PROVE  ShipInv'
    BY <1>2, AskStep, CheckStep, CallsStep
<1>3. ASSUME NEW r \in Slot, GiveUp(r)
      PROVE  ShipInv'
  <2>1. Sane(Idle) /\ Checked(Idle)
    BY IdleFacts DEF Sane, Checked
  <2> QED
    BY <1>3, <2>1, IdleFacts, JobStep DEF GiveUp, Done
<1>4. CASE UNCHANGED vars
    BY <1>4 DEF vars, reapSide, ShipInv, TypeOK, Sane, Checked, Belongs, Unborn,
                BelongsTo, SeenIsOwned
<1> QED
    BY <1>1, <1>2, <1>3, <1>4 DEF Next

-----------------------------------------------------------------------------

\* Every reachable state is well typed, and no request reaches REAP without a
\* card to stand on (checkShipmentMembers and shipmentCardIDs refuse none).
THEOREM TypeCorrect == Spec => []TypeOK
<1>1. ShipInv => TypeOK
    BY DEF ShipInv
<1> QED
    BY <1>1, ShipInit, ShipStep, PTL DEF Spec

\* A shipment stays with one vault, although fetchOwnedShipment's answer is
\* old by the time of the call it allows.
THEOREM ShipmentStays == Spec => []StaysWithVault
<1>1. ShipInv => StaysWithVault
  <2> SUFFICES ASSUME ShipInv, NEW v \in Vault, NEW s \in Shipment, <<v, s>> \in touched
               PROVE  /\ \A c \in members[s] : cardRow[c] = v
                      /\ \A w \in Vault : <<w, s>> \in touched => w = v
    BY DEF StaysWithVault
  <2>1. PICK u \in Vault : BelongsTo(s, u)
    BY DEF ShipInv, Belongs, Unborn
  <2> QED
    BY <2>1 DEF BelongsTo
<1> QED
    BY <1>1, ShipInit, ShipStep, PTL DEF Spec

\* Shipments show a vault its own cards only, in ListCardShipments too.
THEOREM ShownCardsAreOwned == Spec => []SeenIsOwned
<1>1. ShipInv => SeenIsOwned
    BY DEF ShipInv
<1> QED
    BY <1>1, ShipInit, ShipStep, PTL DEF Spec
=============================================================================
