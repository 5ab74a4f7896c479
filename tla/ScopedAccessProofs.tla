------------------------- MODULE ScopedAccessProofs -------------------------
(***************************************************************************)
(* Proofs about ScopedAccess, for any number of vaults, resources and      *)
(* requests.  One inductive invariant carries both properties: it says     *)
(* what each stage of a request has established, and that none of it can   *)
(* be undone, since rows are written once and a thing stays on its card.   *)
(***************************************************************************)
EXTENDS ScopedAccess, TLAPS

\* Which fields an operation's request has, and at which stages it can be.
Shape(j) ==
    j.stage # "idle" =>
        /\ j.vault \in Vault /\ j.op \in Op
        /\ j.op \in AccountOp => j.account # None
        /\ j.op \in ThingOp => j.thing # None
        /\ j.op \in SimulateOp => j.card # None
        /\ j.op = "listAlerts" => j.card # None \/ j.thing # None
        /\ j.op = "listActivities" => j.card # None \/ j.account # None
        /\ j.stage = "card" => j.card # None
        /\ j.stage \in {"thing", "thingCard"} => LooksUp(j)
        /\ j.stage = "account" => j.account # None
        /\ j.stage = "user" => j.op \in UserOp

\* What the checks behind a request have established, with REAP's things ts.
Passed(j, ts) ==
    /\ j.op \in UserOp /\ j.stage \notin {"idle", "user"} =>
        j.user # None /\ VaultOf[j.user] = j.vault
    /\ j.card # None /\ j.stage \notin {"idle", "user", "card"} =>
        Owner(j.card) = j.vault
    /\ LooksUp(j) /\ j.stage \in {"thingCard", "account", "act"} =>
        ts[j.thing] # None /\ j.learned = ts[j.thing].card
    /\ LooksUp(j) /\ j.stage \in {"account", "act"} =>
        Owner(j.learned) = j.vault
    /\ j.account # None /\ j.stage = "act" => Owner(j.account) = j.vault

\* Resource x exists and is vault v's.
IsOwn(v, x, ts) ==
    \/ x \in User /\ VaultOf[x] = v
    \/ x \in Account \cup Card /\ Owner(x) = v
    \/ x \in Thing /\ ts[x] # None /\ Owner(ts[x].card) = v

\* Rows name the vault REAP's records name.
RowsAgree ==
    /\ \A v \in Vault : userRow[v] # None => VaultOf[userRow[v]] = v
    /\ \A a \in Account : accountRow[a] # None => accountRow[a] = Owner(a)
    /\ \A c \in Card : cardRow[c] # None => cardRow[c] = Owner(c)

\* Transaction x was named by a 3DS simulation.
PassedOn(op, x, ts) ==
    op = "simulate3DS" /\ x \in Thing /\ ts[x] # None /\ ts[x].kind = "transaction"

ReachedIsOwn ==
    \A v \in Vault, x \in Resource :
        /\ <<v, x>> \in shown => IsOwn(v, x, things)
        /\ \A op \in Op : <<v, op, x>> \in changed =>
            IsOwn(v, x, things) \/ PassedOn(op, x, things)

Typed ==
    /\ userRow \in [Vault -> User \cup {None}]
    /\ accountRow \in [Account -> Vault \cup {None}]
    /\ cardRow \in [Card -> Vault \cup {None}]
    /\ things \in [Thing -> Record \cup {None}]
    /\ job \in [Slot -> Job]
    /\ shown \subseteq Vault \X Resource
    /\ changed \subseteq Vault \X Op \X Resource

ScopedInv ==
    /\ Typed
    /\ RowsAgree
    /\ \A r \in Slot : Shape(job[r]) /\ Passed(job[r], things)
    /\ ReachedIsOwn

\* Things come and stay as they are.
ThingsGrow ==
    /\ things' \in [Thing -> Record \cup {None}]
    /\ \A t \in Thing : things[t] # None => things'[t] = things[t]

-----------------------------------------------------------------------------

\* The record of a slot at rest.
LEMMA IdleFacts ==
    /\ Idle \in Job
    /\ Idle.stage = "idle"
BY DEF Idle, Job, Stage

\* A slot at rest has nothing to show for itself.
LEMMA IdleInOrder == \A ts : Shape(Idle) /\ Passed(Idle, ts)
BY IdleFacts DEF Shape, Passed

\* Making a thing only adds one.
LEMMA MakeGrows ==
    ASSUME Typed, NEW t \in Thing, NEW kind \in Kind, NEW c \in Card, Make(t, kind, c)
    PROVE  ThingsGrow /\ things'[t] = [kind |-> kind, card |-> c]
BY RecordAssumption DEF Typed, Make, Fresh, ThingsGrow, Record

\* What is a vault's own stays so.
LEMMA OwnStays ==
    ASSUME ThingsGrow, NEW v, NEW op, NEW x
    PROVE  /\ IsOwn(v, x, things) => IsOwn(v, x, things')
           /\ PassedOn(op, x, things) => PassedOn(op, x, things')
BY DEF ThingsGrow, IsOwn, PassedOn

\* What a request's checks have established stays so.
LEMMA PassedStays ==
    ASSUME ThingsGrow, NEW j \in Job, Passed(j, things)
    PROVE  Passed(j, things')
BY DEF ThingsGrow, Passed, Job, LooksUp

-----------------------------------------------------------------------------
(* The three kinds of step. *)

\* The tables start empty.
LEMMA ScopedInit == Init => ScopedInv
<1> SUFFICES ASSUME Init PROVE ScopedInv
    OBVIOUS
<1> USE DEF Init
<1>1. Typed
    BY IdleFacts DEF Typed
<1>2. RowsAgree
    BY DEF RowsAgree
<1>3. \A r \in Slot : Shape(job[r]) /\ Passed(job[r], things)
    BY IdleInOrder
<1>4. ReachedIsOwn
    BY DEF ReachedIsOwn
<1> QED
    BY <1>1, <1>2, <1>3, <1>4 DEF ScopedInv

\* A step that moves one request along preserves the invariant, if the
\* request's new record is in order.
LEMMA JobStep ==
    ASSUME ScopedInv, NEW r \in Slot, NEW j \in Job,
           job' = [job EXCEPT ![r] = j],
           Shape(j), Passed(j, things),
           UNCHANGED <<rows, things>>,
           shown' \subseteq shown, changed' \subseteq changed
    PROVE  ScopedInv'
<1> USE DEF rows
<1>1. Typed'
    BY DEF ScopedInv, Typed
<1>2. RowsAgree'
    BY DEF ScopedInv, RowsAgree
<1>3. ASSUME NEW q \in Slot PROVE Shape(job'[q]) /\ Passed(job'[q], things')
  <2>1. CASE q = r
    BY <2>1 DEF ScopedInv, Typed
  <2>2. CASE q # r
    BY <2>2 DEF ScopedInv, Typed
  <2> QED
    BY <2>1, <2>2
<1>4. ReachedIsOwn'
    BY DEF ScopedInv, ReachedIsOwn
<1> QED
    BY <1>1, <1>2, <1>3, <1>4 DEF ScopedInv

\* What is known when a request calls REAP.
LEMMA ActFacts ==
    ASSUME ScopedInv, NEW r \in Slot, NEW op \in Op, Act(r, op)
    PROVE  /\ job[r] \in Job
           /\ job[r].op = op
           /\ job[r].vault \in Vault
           /\ op \in UserOp => job[r].user \in User /\ VaultOf[job[r].user] = job[r].vault
           /\ job[r].card # None => job[r].card \in Card /\ Owner(job[r].card) = job[r].vault
           /\ job[r].account # None =>
                job[r].account \in Account /\ Owner(job[r].account) = job[r].vault
           /\ LooksUp(job[r]) =>
                /\ job[r].thing \in Thing
                /\ things[job[r].thing] # None
                /\ things[job[r].thing] \in Record
                /\ job[r].learned = things[job[r].thing].card
                /\ Owner(things[job[r].thing].card) = job[r].vault
           /\ Shape(job[r])
<1> DEFINE j == job[r]
<1>1. j \in Job /\ Shape(j) /\ Passed(j, things) /\ j.stage = "act" /\ j.op = op
    BY DEF ScopedInv, Typed, Act
<1>2. j.vault \in Vault
    BY <1>1 DEF Shape
<1>3. op \in UserOp => j.user \in User /\ VaultOf[j.user] = j.vault
    BY <1>1 DEF Passed, Job
<1>4. j.card # None => j.card \in Card /\ Owner(j.card) = j.vault
    BY <1>1 DEF Passed, Job
<1>5. j.account # None => j.account \in Account /\ Owner(j.account) = j.vault
    BY <1>1 DEF Passed, Job
<1>6. LooksUp(j) =>
        /\ j.thing \in Thing
        /\ things[j.thing] # None
        /\ j.learned = things[j.thing].card
        /\ Owner(j.learned) = j.vault
    BY <1>1 DEF Passed, Job, LooksUp
<1>7. LooksUp(j) => things[j.thing] \in Record
    BY <1>6 DEF ScopedInv, Typed
<1> QED
    BY <1>1, <1>2, <1>3, <1>4, <1>5, <1>6, <1>7

\* A REAP call that reaches only what is the vault's own.
LEMMA CallStep ==
    ASSUME ScopedInv, NEW r \in Slot, NEW op \in Op, Act(r, op), ThingsGrow,
           NEW xs \in SUBSET Resource,
           \/ Show(r, xs) /\ \A x \in xs : IsOwn(job[r].vault, x, things')
           \/ /\ Change(r, xs)
              /\ \A x \in xs : IsOwn(job[r].vault, x, things') \/ PassedOn(op, x, things')
    PROVE  ScopedInv'
<1> DEFINE v == job[r].vault
<1>1. v \in Vault /\ job[r].op = op
    BY ActFacts
<1>2. /\ job' = [job EXCEPT ![r] = Idle]
      /\ userRow' = userRow /\ accountRow' = accountRow /\ cardRow' = cardRow
    BY DEF Act, rows
<1>3. /\ \A p \in shown' : \E x \in xs : p = <<v, x>> /\ IsOwn(v, x, things')
      /\ \A p \in changed' : \E x \in xs :
            p = <<v, op, x>> /\ (IsOwn(v, x, things') \/ PassedOn(op, x, things'))
    BY <1>1 DEF Show, Change
<1>4. Typed'
    BY <1>1, <1>2, <1>3, IdleFacts DEF ScopedInv, Typed, ThingsGrow
<1>5. RowsAgree'
    BY <1>2 DEF ScopedInv, RowsAgree
<1>6. ASSUME NEW q \in Slot PROVE Shape(job'[q]) /\ Passed(job'[q], things')
  <2>1. CASE q = r
    <3>1. job'[q] = Idle
      BY <1>2, <2>1 DEF ScopedInv, Typed
    <3> QED
      BY <3>1, IdleInOrder
  <2>2. CASE q # r
    <3>1. job'[q] = job[q] /\ job[q] \in Job
      BY <1>2, <2>2 DEF ScopedInv, Typed
    <3>2. Shape(job[q]) /\ Passed(job[q], things)
      BY DEF ScopedInv
    <3> QED
      BY <3>1, <3>2, PassedStays
  <2> QED
    BY <2>1, <2>2
<1>7. ReachedIsOwn'
    BY <1>3 DEF ReachedIsOwn
<1> QED
    BY <1>4, <1>5, <1>6, <1>7 DEF ScopedInv

\* Rows and things come into being, whatever requests are doing.
LEMMA ElsewhereStep == ScopedInv /\ Elsewhere => ScopedInv'
<1> SUFFICES ASSUME ScopedInv, Elsewhere PROVE ScopedInv'
    OBVIOUS
<1> USE ScopedAssumption
<1>1. ThingsGrow /\ UNCHANGED <<job, shown, changed>>
  <2>1. CASE \E t \in Thing, kind \in Kind, c \in Card : Happen(t, kind, c)
    BY <2>1, MakeGrows DEF ScopedInv, Happen
  <2>2. CASE ~ \E t \in Thing, kind \in Kind, c \in Card : Happen(t, kind, c)
    BY <2>2 DEF Elsewhere, BindUser, RecordAccount, RecordCard, ScopedInv, Typed, ThingsGrow
  <2> QED
    BY <2>1, <2>2
<1>2. /\ userRow' \in [Vault -> User \cup {None}]
      /\ accountRow' \in [Account -> Vault \cup {None}]
      /\ cardRow' \in [Card -> Vault \cup {None}]
      /\ RowsAgree'
  <2>1. ASSUME NEW u \in User, BindUser(u) PROVE <1>2!:
    BY <2>1 DEF BindUser, ScopedInv, Typed, RowsAgree
  <2>2. ASSUME NEW a \in Account, RecordAccount(a) PROVE <1>2!:
    BY <2>2 DEF RecordAccount, ScopedInv, Typed, RowsAgree, Owner
  <2>3. ASSUME NEW c \in Card, RecordCard(c) PROVE <1>2!:
    BY <2>3 DEF RecordCard, ScopedInv, Typed, RowsAgree, Owner
  <2>4. ASSUME NEW t \in Thing, NEW kind \in Kind, NEW c \in Card, Happen(t, kind, c)
        PROVE  <1>2!:
    BY <2>4 DEF Happen, rows, ScopedInv, Typed, RowsAgree
  <2> QED
    BY <2>1, <2>2, <2>3, <2>4 DEF Elsewhere
<1>3. Typed'
    BY <1>1, <1>2 DEF ScopedInv, Typed, ThingsGrow
<1>4. ASSUME NEW q \in Slot PROVE Shape(job'[q]) /\ Passed(job'[q], things')
  <2>1. job'[q] = job[q] /\ job[q] \in Job /\ Shape(job[q]) /\ Passed(job[q], things)
    BY <1>1 DEF ScopedInv, Typed
  <2> QED
    BY <1>1, <2>1, PassedStays
<1>5. ReachedIsOwn'
    BY <1>1, OwnStays DEF ScopedInv, ReachedIsOwn
<1> QED
    BY <1>2, <1>3, <1>4, <1>5 DEF ScopedInv

-----------------------------------------------------------------------------
(* Requests and checks. *)

\* A request starts at the stage of its first field, with nothing checked.
LEMMA AskStep ==
    ASSUME ScopedInv, NEW r \in Slot, NEW j \in Job, Ask(r, j),
           j.vault \in Vault, j.op \in Op,
           j.op \in AccountOp => j.account # None,
           j.op \in ThingOp => j.thing # None,
           j.op \in SimulateOp => j.card # None,
           j.op = "listAlerts" => j.card # None \/ j.thing # None,
           j.op = "listActivities" => j.card # None \/ j.account # None,
           j.op \in UserOp \/ j.card # None \/ j.thing # None \/ j.account # None
    PROVE  ScopedInv'
<1> DEFINE i == [j EXCEPT !.stage = FirstStage(j)]
<1> USE DEF FirstStage, AfterUser, AfterCard, AfterThing, LooksUp
<1>1. /\ i \in Job
      /\ i.op = j.op /\ i.vault = j.vault /\ i.card = j.card
      /\ i.thing = j.thing /\ i.account = j.account
      /\ i.stage = FirstStage(j)
    BY DEF Job, Stage
<1>2. Shape(i)
    BY <1>1 DEF Shape
<1>3. Passed(i, things)
    BY <1>1 DEF Passed
<1>4. /\ job' = [job EXCEPT ![r] = i]
      /\ UNCHANGED <<rows, things>>
      /\ shown' \subseteq shown /\ changed' \subseteq changed
    BY DEF Ask
<1> QED
    BY <1>1, <1>2, <1>3, <1>4, JobStep

\* Every request the router lets in is in order.
LEMMA RequestStep ==
    ASSUME ScopedInv, NEW r \in Slot, Request(r) PROVE ScopedInv'
<1> USE ScopedAssumption DEF Op, UserOp, AccountOp, ThingOp, GetOp, RespondOp,
                             SimulateOp, ListOp
<1>1. PICK v \in Vault :
        \/ \E op \in UserOp, u \in User \cup {None}, extra \in Repeated(User) :
            AskUser(r, v, op, u, extra)
        \/ \E op \in AccountOp, a \in Account : AskAccount(r, v, op, a)
        \/ \E op \in ThingOp, t \in Thing : AskThing(r, v, op, t)
        \/ \E op \in SimulateOp, c \in Card, t \in Thing \cup {None} :
            AskSimulate(r, v, op, c, t)
        \/ \E c \in Card \cup {None}, t \in Thing \cup {None}, extra \in Repeated(Card) :
            AskAlerts(r, v, c, t, extra)
        \/ \E c \in Card \cup {None}, a \in Account \cup {None},
              extra \in Repeated(Card \cup Account) :
            AskActivities(r, v, c, a, extra)
    BY Zenon DEF Request
<1>2. CASE \E op \in UserOp, u \in User \cup {None}, extra \in Repeated(User) :
            AskUser(r, v, op, u, extra)
  <2>1. PICK op \in UserOp, u \in User \cup {None}, extra \in Repeated(User) :
            AskUser(r, v, op, u, extra)
    BY <1>2
  <2> DEFINE j == [Idle EXCEPT !.op = op, !.vault = v, !.user = u, !.extra = extra]
  <2>2. extra \in SUBSET User
    BY DEF Repeated
  <2>3. j \in Job /\ j.op = op /\ j.vault = v
    BY <2>2, IdleFacts DEF Idle, Job, Stage
  <2> QED
    BY <2>1, <2>3, AskStep DEF AskUser
<1>3. CASE \E op \in AccountOp, a \in Account : AskAccount(r, v, op, a)
  <2>1. PICK op \in AccountOp, a \in Account : AskAccount(r, v, op, a)
    BY <1>3
  <2> DEFINE j == [Idle EXCEPT !.op = op, !.vault = v, !.account = a]
  <2>2. j \in Job /\ j.op = op /\ j.vault = v /\ j.account = a
    BY DEF Idle, Job, Stage
  <2> QED
    BY <2>1, <2>2, AskStep DEF AskAccount
<1>4. CASE \E op \in ThingOp, t \in Thing : AskThing(r, v, op, t)
  <2>1. PICK op \in ThingOp, t \in Thing : AskThing(r, v, op, t)
    BY <1>4
  <2> DEFINE j == [Idle EXCEPT !.op = op, !.vault = v, !.thing = t]
  <2>2. j \in Job /\ j.op = op /\ j.vault = v /\ j.thing = t
    BY DEF Idle, Job, Stage
  <2> QED
    BY <2>1, <2>2, AskStep DEF AskThing
<1>5. CASE \E op \in SimulateOp, c \in Card, t \in Thing \cup {None} :
            AskSimulate(r, v, op, c, t)
  <2>1. PICK op \in SimulateOp, c \in Card, t \in Thing \cup {None} :
            AskSimulate(r, v, op, c, t)
    BY <1>5
  <2> DEFINE j == [Idle EXCEPT !.op = op, !.vault = v, !.card = c, !.thing = t]
  <2>2. j \in Job /\ j.op = op /\ j.vault = v /\ j.card = c
    BY DEF Idle, Job, Stage
  <2> QED
    BY <2>1, <2>2, AskStep DEF AskSimulate
<1>6. CASE \E c \in Card \cup {None}, t \in Thing \cup {None}, extra \in Repeated(Card) :
            AskAlerts(r, v, c, t, extra)
  <2>1. PICK c \in Card \cup {None}, t \in Thing \cup {None}, extra \in Repeated(Card) :
            AskAlerts(r, v, c, t, extra)
    BY <1>6
  <2> DEFINE named == IF c # None THEN None ELSE t
             j == [Idle EXCEPT !.op = "listAlerts", !.vault = v, !.card = c,
                               !.thing = named, !.extra = extra]
  <2>2. extra \in SUBSET Card /\ named \in Thing \cup {None}
    BY DEF Repeated
  <2>3. j \in Job /\ j.op = "listAlerts" /\ j.vault = v /\ j.card = c /\ j.thing = named
    BY <2>2 DEF Idle, Job, Stage
  <2>4. c # None \/ named # None
    BY <2>1 DEF AskAlerts
  <2> QED
    BY <2>1, <2>3, <2>4, AskStep DEF AskAlerts
<1>7. CASE \E c \in Card \cup {None}, a \in Account \cup {None},
              extra \in Repeated(Card \cup Account) :
            AskActivities(r, v, c, a, extra)
  <2>1. PICK c \in Card \cup {None}, a \in Account \cup {None},
              extra \in Repeated(Card \cup Account) :
            AskActivities(r, v, c, a, extra)
    BY <1>7
  <2> DEFINE j == [Idle EXCEPT !.op = "listActivities", !.vault = v, !.card = c,
                               !.account = a, !.extra = extra]
  <2>2. extra \in SUBSET (Card \cup Account)
    BY DEF Repeated
  <2>3. j \in Job /\ j.op = "listActivities" /\ j.vault = v /\ j.card = c /\ j.account = a
    BY <2>2 DEF Idle, Job, Stage
  <2> QED
    BY <2>1, <2>3, AskStep DEF AskActivities
<1> QED
    BY <1>1, <1>2, <1>3, <1>4, <1>5, <1>6, <1>7

\* Each check establishes what Passed says of the next stage.
LEMMA CheckStep ==
    ASSUME ScopedInv, NEW r \in Slot, Check(r) \/ GiveUp(r) PROVE ScopedInv'
<1> USE ScopedAssumption, RecordAssumption DEF LooksUp
<1> DEFINE j == job[r]
<1>0. j \in Job /\ Shape(j) /\ Passed(j, things)
    BY DEF ScopedInv, Typed
<1>1. CASE ResolveUser(r)
  <2> DEFINE i == [j EXCEPT !.user = userRow[j.vault], !.stage = AfterUser(j)]
  <2>1. j.stage = "user" /\ j.vault \in Vault /\ j.op \in UserOp
    BY <1>0, <1>1 DEF ResolveUser, Shape
  <2>2. /\ userRow[j.vault] \in User
        /\ VaultOf[userRow[j.vault]] = j.vault
    BY <1>1, <2>1 DEF ResolveUser, ScopedInv, Typed, RowsAgree
  <2>3. AfterUser(j) \in Stage \ {"idle", "user"}
    BY DEF AfterUser, AfterCard, AfterThing, Stage
  <2>4. i \in Job
    BY <1>0, <2>2, <2>3 DEF Job
  <2>5. Shape(i)
    BY <1>0, <2>1, <2>2 DEF Shape, Job, AfterUser, AfterCard, AfterThing
  <2>6. Passed(i, things)
    BY <1>0, <2>1, <2>2 DEF Passed, Job, AfterUser, AfterCard, AfterThing
  <2>7. job' = [job EXCEPT ![r] = i] /\ UNCHANGED <<rows, things, shown, changed>>
    BY <1>1 DEF ResolveUser, ScopedInv, Typed
  <2> QED
    BY <2>4, <2>5, <2>6, <2>7, JobStep
<1>2. CASE CheckCard(r)
  <2> DEFINE i == [j EXCEPT !.stage = AfterCard(j)]
  <2>1. j.stage = "card" /\ j.vault \in Vault /\ j.card \in Card
    BY <1>0, <1>2 DEF CheckCard, Shape, Job
  <2>2. Owner(j.card) = j.vault
    BY <1>2, <2>1 DEF CheckCard, ScopedInv, Typed, RowsAgree
  <2>3. i \in Job
    BY <1>0 DEF Job, AfterCard, AfterThing, Stage
  <2>4. Shape(i)
    BY <1>0, <2>1 DEF Shape, Job, AfterCard, AfterThing
  <2>5. Passed(i, things)
    BY <1>0, <2>1, <2>2 DEF Passed, Job, AfterCard, AfterThing
  <2>6. job' = [job EXCEPT ![r] = i] /\ UNCHANGED <<rows, things, shown, changed>>
    BY <1>2 DEF CheckCard, ScopedInv, Typed
  <2> QED
    BY <2>3, <2>4, <2>5, <2>6, JobStep
<1>3. CASE LookUp(r)
  <2> DEFINE i == [j EXCEPT !.learned = things[j.thing].card, !.stage = "thingCard"]
  <2>1. j.stage = "thing" /\ j.thing \in Thing
    BY <1>0, <1>3 DEF LookUp, Shape, Job
  <2>2. things[j.thing] # None /\ things[j.thing].card \in Card
    BY <1>3, <2>1 DEF LookUp, ScopedInv, Typed, Record
  <2>3. i \in Job
    BY <1>0, <2>2 DEF Job, Stage
  <2>4. Shape(i)
    BY <1>0, <2>1 DEF Shape, Job
  <2>5. Passed(i, things)
    BY <1>0, <2>1, <2>2 DEF Passed, Job
  <2>6. job' = [job EXCEPT ![r] = i] /\ UNCHANGED <<rows, things, shown, changed>>
    BY <1>3 DEF LookUp, ScopedInv, Typed
  <2> QED
    BY <2>3, <2>4, <2>5, <2>6, JobStep
<1>4. CASE CheckThingCard(r)
  <2> DEFINE i == [j EXCEPT !.stage = AfterThing(j)]
  <2>1. /\ j.stage = "thingCard" /\ j.vault \in Vault /\ j.thing \in Thing
        /\ j.thing # None /\ j.op # "simulate3DS"
    BY <1>0, <1>4 DEF CheckThingCard, Shape, Job
  <2>2. things[j.thing] # None /\ j.learned = things[j.thing].card /\ j.learned \in Card
    BY <1>0, <2>1 DEF Passed, ScopedInv, Typed, Record
  <2>3. Owner(j.learned) = j.vault
    BY <1>4, <2>1, <2>2 DEF CheckThingCard, ScopedInv, Typed, RowsAgree
  <2>4. i \in Job
    BY <1>0 DEF Job, AfterThing, Stage
  <2>5. Shape(i)
    BY <1>0, <2>1 DEF Shape, Job, AfterThing
  <2>6. Passed(i, things)
    BY <1>0, <2>1, <2>2, <2>3 DEF Passed, Job, AfterThing
  <2>7. job' = [job EXCEPT ![r] = i] /\ UNCHANGED <<rows, things, shown, changed>>
    BY <1>4 DEF CheckThingCard, ScopedInv, Typed
  <2> QED
    BY <2>4, <2>5, <2>6, <2>7, JobStep
<1>5. CASE CheckAccount(r)
  <2> DEFINE i == [j EXCEPT !.stage = "act"]
  <2>1. j.stage = "account" /\ j.vault \in Vault /\ j.account \in Account
    BY <1>0, <1>5 DEF CheckAccount, Shape, Job
  <2>2. Owner(j.account) = j.vault
    BY <1>5, <2>1 DEF CheckAccount, ScopedInv, Typed, RowsAgree
  <2>3. i \in Job
    BY <1>0 DEF Job, Stage
  <2>4. Shape(i)
    BY <1>0, <2>1 DEF Shape, Job
  <2>5. Passed(i, things)
    BY <1>0, <2>1, <2>2 DEF Passed, Job
  <2>6. job' = [job EXCEPT ![r] = i] /\ UNCHANGED <<rows, things, shown, changed>>
    BY <1>5 DEF CheckAccount, ScopedInv, Typed
  <2> QED
    BY <2>3, <2>4, <2>5, <2>6, JobStep
<1>6. CASE GiveUp(r)
    BY <1>6, IdleFacts, IdleInOrder, JobStep DEF GiveUp
<1> QED
    BY <1>1, <1>2, <1>3, <1>4, <1>5, <1>6 DEF Check

-----------------------------------------------------------------------------
(* Calls. *)

\* A call on one resource of the vault's that makes nothing new.
LEMMA CallOnOne ==
    ASSUME ScopedInv, NEW r \in Slot, NEW op \in Op, Act(r, op), UNCHANGED things,
           NEW x \in Resource, IsOwn(job[r].vault, x, things),
           Show(r, {x}) \/ Change(r, {x})
    PROVE  ScopedInv'
<1>1. ThingsGrow
    BY DEF ScopedInv, Typed, ThingsGrow
<1> QED
    BY <1>1, CallStep, {x} \in SUBSET Resource

\* A listing of resources of the vault's.
LEMMA CallLists ==
    ASSUME ScopedInv, NEW r \in Slot, NEW op \in Op, Act(r, op), UNCHANGED things,
           NEW xs \in SUBSET Resource, \A x \in xs : IsOwn(job[r].vault, x, things),
           Show(r, xs)
    PROVE  ScopedInv'
<1>1. ThingsGrow
    BY DEF ScopedInv, Typed, ThingsGrow
<1> QED
    BY <1>1, CallStep

\* A call that makes a thing on a card of the vault's.
LEMMA CallMakes ==
    ASSUME ScopedInv, NEW r \in Slot, NEW op \in Op, Act(r, op),
           NEW n \in Thing, NEW kind \in Kind, NEW c \in Card,
           Owner(c) = job[r].vault, Make(n, kind, c),
           NEW xs \in SUBSET Resource, n \in xs,
           \A x \in xs \ {n} :
                IsOwn(job[r].vault, x, things) \/ PassedOn(op, x, things),
           Change(r, xs)
    PROVE  ScopedInv'
<1>1. ThingsGrow /\ things'[n] = [kind |-> kind, card |-> c]
    BY MakeGrows DEF ScopedInv
<1>2. things'[n] # None /\ things'[n].card = c
  <2>1. things'[n] \in Record
    BY <1>1 DEF Record
  <2> QED
    BY <1>1, <2>1, RecordAssumption
<1>3. IsOwn(job[r].vault, n, things')
    BY <1>2 DEF IsOwn
<1>4. \A x \in xs : IsOwn(job[r].vault, x, things') \/ PassedOn(op, x, things')
    BY <1>1, <1>3, OwnStays
<1> QED
    BY <1>1, <1>4, CallStep

\* Every REAP call reaches the vault's own things only.
LEMMA CallsStep ==
    ASSUME ScopedInv, NEW r \in Slot, Call(r) PROVE ScopedInv'
<1> USE ScopedAssumption DEF Op, UserOp, AccountOp, ThingOp, GetOp, RespondOp,
                             SimulateOp, ListOp, LooksUp
<1> DEFINE j == job[r]
           v == job[r].vault
<1>1. CASE GetUser(r) \/ UpdateUser(r) \/ SimulateUserApplicationStatus(r)
  <2>1. PICK op \in UserOp : Act(r, op)
    BY <1>1 DEF GetUser, UpdateUser, SimulateUserApplicationStatus
  <2>2. j.user \in User /\ VaultOf[j.user] = v
    BY <2>1, ActFacts
  <2>3. j.user \in Resource /\ IsOwn(v, j.user, things)
    BY <2>2 DEF Resource, IsOwn
  <2> QED
    BY <1>1, <2>1, <2>3, CallOnOne DEF GetUser, UpdateUser, SimulateUserApplicationStatus
<1>2. CASE GetAccount(r) \/ SimulateAccountStatus(r)
  <2>1. PICK op \in AccountOp : Act(r, op)
    BY <1>2 DEF GetAccount, SimulateAccountStatus
  <2>2. Shape(j) /\ j.op = op /\ j.stage = "act"
    BY <2>1, ActFacts DEF Act
  <2>3. j.account \in Account /\ Owner(j.account) = v
    BY <2>1, <2>2, ActFacts DEF Shape
  <2>4. j.account \in Resource /\ IsOwn(v, j.account, things)
    BY <2>3 DEF Resource, IsOwn
  <2> QED
    BY <1>2, <2>1, <2>4, CallOnOne DEF GetAccount, SimulateAccountStatus
<1>3. CASE GetThing(r) \/ Respond(r)
  <2>1. PICK op \in GetOp \cup RespondOp :
            /\ Act(r, op)
            /\ Show(r, {j.thing}) \/ Change(r, {j.thing})
            /\ UNCHANGED things
    BY <1>3 DEF GetThing, Respond
  <2>2. Shape(j) /\ j.op = op /\ j.stage = "act"
    BY <2>1, ActFacts DEF Act
  <2>3. j.thing \in Thing /\ things[j.thing] # None /\ Owner(things[j.thing].card) = v
    BY <2>1, <2>2, ActFacts DEF Shape
  <2>4. j.thing \in Resource /\ IsOwn(v, j.thing, things)
    BY <2>3 DEF Resource, IsOwn
  <2> QED
    BY <2>1, <2>4, CallOnOne
<1>4. CASE SimulateNamed(r)
  <2>1. Act(r, "simulateTransaction") /\ j.thing # None
    BY <1>4, ScopedAssumption DEF SimulateNamed, IsTransaction
  <2>2. j.thing \in Thing /\ things[j.thing] # None /\ Owner(things[j.thing].card) = v
    BY <2>1, ActFacts
  <2>3. j.thing \in Resource /\ IsOwn(v, j.thing, things)
    BY <2>2 DEF Resource, IsOwn
  <2> QED
    BY <1>4, <2>1, <2>3, CallOnOne DEF SimulateNamed
<1>5. ASSUME NEW op \in SimulateOp, Act(r, op)
      PROVE  j.card \in Card /\ Owner(j.card) = v
  <2>1. Shape(j) /\ j.op = op /\ j.stage = "act"
    BY <1>5, ActFacts DEF Act
  <2> QED
    BY <1>5, <2>1, ActFacts DEF Shape
<1>6. CASE SimulateCardStatus(r)
  <2>1. Act(r, "simulateCard")
    BY <1>6 DEF SimulateCardStatus
  <2>2. j.card \in Card /\ Owner(j.card) = v
    BY <1>5, <2>1
  <2>3. j.card \in Resource /\ IsOwn(v, j.card, things)
    BY <2>2 DEF Resource, IsOwn
  <2> QED
    BY <1>6, <2>1, <2>3, CallOnOne DEF SimulateCardStatus
<1>7. ASSUME NEW n \in Thing, SimulateThreeDSAuthorization(r, n) \/ SimulateNew(r, n)
      PROVE  ScopedInv'
  <2>1. PICK op \in SimulateOp, kind \in Kind :
            /\ Act(r, op) /\ Make(n, kind, j.card)
            /\ \/ Change(r, {n})
               \/ /\ op = "simulate3DS" /\ IsTransaction(j.thing)
                  /\ Change(r, {n, j.thing})
    BY <1>7 DEF SimulateThreeDSAuthorization, SimulateNew, Kind
  <2>2. j.card \in Card /\ Owner(j.card) = v
    BY <1>5, <2>1
  <2>3. CASE Change(r, {n})
    <3>1. {n} \in SUBSET Resource
      BY DEF Resource
    <3> QED
      BY <2>1, <2>2, <2>3, <3>1, CallMakes
  <2>4. CASE op = "simulate3DS" /\ IsTransaction(j.thing) /\ Change(r, {n, j.thing})
    <3>1. {n, j.thing} \in SUBSET Resource /\ PassedOn(op, j.thing, things)
      BY <2>4 DEF IsTransaction, PassedOn, Resource
    <3> QED
      BY <2>1, <2>2, <2>4, <3>1, CallMakes
  <2> QED
    BY <2>1, <2>3, <2>4
<1>8. ASSUME NEW n \in Thing, ReportFraud(r, n) PROVE ScopedInv'
  <2>1. /\ Act(r, "reportFraud")
        /\ Make(n, "alert", things[j.thing].card)
        /\ Change(r, {j.thing, n})
    BY <1>8 DEF ReportFraud
  <2>2. Shape(j) /\ j.op = "reportFraud" /\ j.stage = "act"
    BY <2>1, ActFacts DEF Act
  <2>3. /\ j.thing \in Thing /\ things[j.thing] # None
        /\ things[j.thing].card \in Card /\ Owner(things[j.thing].card) = v
    BY <2>1, <2>2, ActFacts DEF Shape, Record
  <2>4. IsOwn(v, j.thing, things) /\ {j.thing, n} \in SUBSET Resource
    BY <2>3 DEF Resource, IsOwn
  <2> QED
    BY <2>1, <2>3, <2>4, CallMakes DEF Kind
<1>9. CASE ListAccounts(r) \/ ListCards(r)
  <2>1. PICK op \in UserOp : Act(r, op)
    BY <1>9 DEF ListAccounts, ListCards
  <2>2. j.user \in User /\ VaultOf[j.user] = v
    BY <2>1, ActFacts
  <2> DEFINE xs == {x \in Account \cup Card : UserOf[x] = j.user}
             as == {a \in Account : UserOf[a] = j.user}
             cs == {c \in Card : UserOf[c] \in Kept(j.user, j.extra)}
  <2>3. \A x \in xs : IsOwn(v, x, things)
    BY <2>2 DEF IsOwn, Owner
  <2>4. as \subseteq xs /\ cs \subseteq xs
    BY <2>2 DEF Kept
  <2>5. as \in SUBSET Resource /\ cs \in SUBSET Resource
    BY DEF Resource
  <2>6. (Show(r, as) \/ Show(r, cs)) /\ UNCHANGED things
    BY <1>9 DEF ListAccounts, ListCards
  <2> QED
    BY <2>1, <2>3, <2>4, <2>5, <2>6, CallLists
<1>10. CASE ListFraudAlerts(r)
  <2> DEFINE checked == IF j.card # None THEN j.card ELSE j.learned
             xs == Alerts(Kept(checked, j.extra \cap Card))
  <2>1. Act(r, "listAlerts") /\ Show(r, xs) /\ UNCHANGED things
    BY <1>10 DEF ListFraudAlerts
  <2>2. Shape(j) /\ j.op = "listAlerts" /\ j.stage = "act"
    BY <2>1, ActFacts DEF Act
  <2>3. j.card # None \/ j.thing # None
    BY <2>2 DEF Shape
  <2>4. j.card # None => j.card \in Card /\ Owner(j.card) = v
    BY <2>1, ActFacts DEF Op, ListOp
  <2>5. j.card = None => LooksUp(j)
    BY <2>2, <2>3 DEF LooksUp
  <2>6. LooksUp(j) => j.learned \in Card /\ Owner(j.learned) = v
    BY <2>1, ActFacts DEF Op, ListOp, Record
  <2>7. checked \in Card /\ Owner(checked) = v
    BY <2>4, <2>5, <2>6
  <2>8. Kept(checked, j.extra \cap Card) = {checked}
    BY <2>7 DEF Kept
  <2>9. xs \in SUBSET Resource /\ \A x \in xs : IsOwn(v, x, things)
    BY <2>7, <2>8 DEF Alerts, Resource, IsOwn
  <2> QED
    BY <2>1, <2>9, CallLists
<1>11. CASE ListActivities(r)
  <2> DEFINE cards == Kept(j.card, j.extra \cap Card)
             accounts == Kept(j.account, j.extra \cap Account)
             xs == Activities(cards, accounts)
  <2>1. Act(r, "listActivities") /\ Show(r, xs) /\ UNCHANGED things
    BY <1>11 DEF ListActivities
  <2>2. Shape(j) /\ j.op = "listActivities" /\ j.stage = "act"
    BY <2>1, ActFacts DEF Act
  <2>3. ASSUME NEW x \in xs PROVE IsOwn(v, x, things)
    <3>1. x \in Thing /\ things[x] # None /\ things[x].card \in Card
      BY DEF Activities, ScopedInv, Typed, Record
    <3>2. CASE j.card # None
      <4>1. cards = {j.card} /\ Owner(j.card) = v
        BY <2>1, <3>2, ActFacts DEF Kept
      <4>2. things[x].card = j.card
        BY <4>1 DEF Activities
      <4> QED
        BY <3>1, <4>1, <4>2 DEF IsOwn
    <3>3. CASE j.account # None
      <4>1. accounts = {j.account} /\ Owner(j.account) = v
        BY <2>1, <3>3, ActFacts DEF Kept
      <4>2. AccountOf[things[x].card] = j.account
        BY <4>1 DEF Activities
      <4>3. Owner(things[x].card) = v
        BY <3>1, <4>1, <4>2 DEF Owner
      <4> QED
        BY <3>1, <4>3 DEF IsOwn
    <3> QED
      BY <2>2, <3>2, <3>3 DEF Shape
  <2>4. xs \in SUBSET Resource
    BY DEF Activities, Resource
  <2> QED
    BY <2>1, <2>3, <2>4, CallLists
<1> QED
    BY <1>1, <1>2, <1>3, <1>4, <1>6, <1>7, <1>8, <1>9, <1>10, <1>11 DEF Call

-----------------------------------------------------------------------------

\* Every step preserves the invariant.
LEMMA ScopedStep == ScopedInv /\ [Next]_vars => ScopedInv'
<1> SUFFICES ASSUME ScopedInv, [Next]_vars PROVE ScopedInv'
    OBVIOUS
<1>1. CASE Elsewhere
    BY <1>1, ElsewhereStep
<1>2. ASSUME NEW r \in Slot, Request(r) PROVE ScopedInv'
    BY <1>2, RequestStep
<1>3. ASSUME NEW r \in Slot, Check(r) \/ GiveUp(r) PROVE ScopedInv'
    BY <1>3, CheckStep
<1>4. ASSUME NEW r \in Slot, Call(r) PROVE ScopedInv'
    BY <1>4, CallsStep
<1>5. CASE UNCHANGED vars
    BY <1>5 DEF vars, rows, ScopedInv, Typed, RowsAgree, Shape, Passed, ReachedIsOwn, IsOwn,
                PassedOn
<1> QED
    BY <1>1, <1>2, <1>3, <1>4, <1>5 DEF Next

\* The invariant implies the three properties.
LEMMA ScopedImplies == ScopedInv => TypeOK /\ ShownIsOwn /\ ChangedIsOwn
<1> SUFFICES ASSUME ScopedInv PROVE TypeOK /\ ShownIsOwn /\ ChangedIsOwn
    OBVIOUS
<1>1. TypeOK
  <2> SUFFICES ASSUME NEW r \in Slot, job[r].stage = "act"
               PROVE  /\ job[r].op \in UserOp => job[r].user # None
                      /\ LooksUp(job[r]) => job[r].learned # None
    BY DEF ScopedInv, Typed, TypeOK
  <2>1. job[r] \in Job /\ Passed(job[r], things)
    BY DEF ScopedInv, Typed
  <2>2. LooksUp(job[r]) => things[job[r].thing] # None /\ job[r].thing \in Thing
    BY <2>1 DEF Passed, Job, LooksUp
  <2>3. LooksUp(job[r]) => things[job[r].thing].card \in Card
    BY <2>2 DEF ScopedInv, Typed, Record
  <2> QED
    BY <2>1, <2>3, ScopedAssumption DEF Passed
<1>2. ASSUME NEW v \in Vault, NEW x \in Resource, IsOwn(v, x, things) PROVE For(x) = v
  <2>1. CASE x \in User
    BY <1>2, <2>1, DisjointAssumption DEF IsOwn, For
  <2>2. CASE x \in Account \cup Card
    BY <1>2, <2>2, DisjointAssumption DEF IsOwn, For
  <2>3. CASE x \in Thing
    BY <1>2, <2>3, DisjointAssumption DEF IsOwn, For
  <2> QED
    BY <2>1, <2>2, <2>3 DEF Resource
<1> QED
    BY <1>1, <1>2 DEF ScopedInv, ReachedIsOwn, ShownIsOwn, ChangedIsOwn, PassedOn,
                      IsTransaction

\* Rows, things and handlers keep their types, and a request that calls REAP
\* has the user or the card its operation works on.
THEOREM TypeCorrect == Spec => []TypeOK
<1>1. ScopedInv /\ [Next]_vars => ScopedInv'
    BY ScopedStep
<1> QED
    BY <1>1, ScopedInit, ScopedImplies, PTL DEF Spec

\* Whatever path a read takes, REAP's answer shows the vault its own things.
THEOREM ShownToItsOwner == Spec => []ShownIsOwn
<1>1. ScopedInv /\ [Next]_vars => ScopedInv'
    BY ScopedStep
<1> QED
    BY <1>1, ScopedInit, ScopedImplies, PTL DEF Spec

\* Whatever path a call takes, what REAP changes and makes is the vault's own,
\* but for the transaction a 3DS simulation names, which no check looks at.
THEOREM ChangedForItsOwner == Spec => []ChangedIsOwn
<1>1. ScopedInv /\ [Next]_vars => ScopedInv'
    BY ScopedStep
<1> QED
    BY <1>1, ScopedInit, ScopedImplies, PTL DEF Spec
=============================================================================
