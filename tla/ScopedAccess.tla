---------------------------- MODULE ScopedAccess ----------------------------
(***************************************************************************)
(* The endpoints that keep nothing: the user's profile, reading accounts,  *)
(* 3DS challenges, card transactions, fraud alerts, activities and the     *)
(* sandbox's simulations.  Each turns the vault into its REAP user, or     *)
(* looks up a card or an account in the ownership tables, or first fetches *)
(* something from REAP to learn which card it belongs to; and then makes a *)
(* REAP call under a key that could reach every vault's things.            *)
(*                                                                         *)
(* A request's checks come in one order whatever the operation: the user,  *)
(* the card it names, the thing it names, that thing's card, the account.  *)
(* Each is a step of its own, and rows and things come into being between. *)
(*                                                                         *)
(* A thing is a transaction, a fraud alert or a 3DS challenge: it is on a  *)
(* card and stays there.  REAP's records of users, accounts and cards are  *)
(* constants; the rows agree with them (module Ownership, RowsAreReal) but *)
(* may come late.                                                          *)
(***************************************************************************)
CONSTANTS
    Vault, User, Account, Card, Thing, Slot, None,
    VaultOf,    \* REAP: the vault each user was made for
    UserOf,     \* REAP: the user each account and card was made for
    AccountOf   \* REAP: the account each card is on

ASSUME ScopedAssumption ==
    /\ VaultOf \in [User -> Vault]
    /\ UserOf \in [Account \cup Card -> User]
    /\ AccountOf \in [Card -> Account]
    /\ \A c \in Card : UserOf[AccountOf[c]] = UserOf[c]
    /\ None \notin Vault \cup User \cup Account \cup Card \cup Thing

ASSUME DisjointAssumption ==
    /\ User \cap (Account \cup Card \cup Thing) = {}
    /\ Account \cap (Card \cup Thing) = {}
    /\ Card \cap Thing = {}

Kind == {"transaction", "alert", "challenge"}
Record == [kind : Kind, card : Card]

ASSUME RecordAssumption == None \notin Record

VARIABLES
    userRow,     \* reap_user_id of each vault's row
    accountRow,  \* vultisig_account_ownership
    cardRow,     \* vultisig_card_ownership
    things,      \* REAP: the transactions, alerts and challenges
    job,         \* what each handler slot is doing
    shown,       \* what the last answer showed, and to whom
    changed      \* what the last REAP call changed or made, and for whom

rows == <<userRow, accountRow, cardRow>>
vars == <<rows, things, job, shown, changed>>

-----------------------------------------------------------------------------
(* The operations.  (Simulating a company's status is refused always, and  *)
(* making a signer message concerns no vault.)                             *)

UserOp == {"getUser", "updateUser", "simulateUser", "listAccounts", "listCards"}
AccountOp == {"getAccount", "simulateAccount"}
GetOp == {"getTransaction", "getAlert", "getChallenge"}
RespondOp == {"respondToAlert", "respondToChallenge"}
ThingOp == GetOp \cup RespondOp \cup {"reportFraud"}
SimulateOp == {"simulateCard", "simulate3DS", "simulateTransaction"}
ListOp == {"listAlerts", "listActivities"}
Op == UserOp \cup AccountOp \cup ThingOp \cup SimulateOp \cup ListOp

\* The kind of thing an operation looks up.
KindOf(op) ==
    CASE op \in {"getAlert", "respondToAlert"}         -> "alert"
      [] op \in {"getChallenge", "respondToChallenge"} -> "challenge"
      [] OTHER                                         -> "transaction"

Stage == {"idle", "user", "card", "thing", "thingCard", "account", "act"}

Job ==
    [stage : Stage, op : Op \cup {None}, vault : Vault \cup {None},
     user : User \cup {None}, card : Card \cup {None},
     thing : Thing \cup {None}, account : Account \cup {None},
     learned : Card \cup {None},              \* the card of the thing
     extra : SUBSET (User \cup Card \cup Account)]  \* repeated filter values

Idle == [stage |-> "idle", op |-> None, vault |-> None, user |-> None,
         card |-> None, thing |-> None, account |-> None, learned |-> None,
         extra |-> {}]

Resource == User \cup Account \cup Card \cup Thing

\* The thing a request names is looked up first, but for a 3DS simulation's.
LooksUp(j) == j.thing # None /\ j.op # "simulate3DS"

\* A request that is let through has what its operation works on.
TypeOK ==
    /\ userRow \in [Vault -> User \cup {None}]
    /\ accountRow \in [Account -> Vault \cup {None}]
    /\ cardRow \in [Card -> Vault \cup {None}]
    /\ things \in [Thing -> Record \cup {None}]
    /\ job \in [Slot -> Job]
    /\ shown \subseteq Vault \X Resource
    /\ changed \subseteq Vault \X Op \X Resource
    /\ \A r \in Slot : job[r].stage = "act" =>
        /\ job[r].op \in UserOp => job[r].user # None
        /\ LooksUp(job[r]) => job[r].learned # None

Init ==
    /\ userRow = [v \in Vault |-> None]
    /\ accountRow = [a \in Account |-> None]
    /\ cardRow = [c \in Card |-> None]
    /\ things = [t \in Thing |-> None]
    /\ job = [r \in Slot |-> Idle]
    /\ shown = {}
    /\ changed = {}

-----------------------------------------------------------------------------
(* Elsewhere: the creates record what REAP made, and REAP's cards are used. *)

Owner(x) == VaultOf[UserOf[x]]

BindUser(u) ==
    /\ userRow[VaultOf[u]] = None
    /\ userRow' = [userRow EXCEPT ![VaultOf[u]] = u]
    /\ UNCHANGED <<accountRow, cardRow, things, job, shown, changed>>

RecordAccount(a) ==
    /\ accountRow[a] = None
    /\ userRow[Owner(a)] = UserOf[a]
    /\ accountRow' = [accountRow EXCEPT ![a] = Owner(a)]
    /\ UNCHANGED <<userRow, cardRow, things, job, shown, changed>>

RecordCard(c) ==
    /\ cardRow[c] = None
    /\ accountRow[AccountOf[c]] = Owner(c)
    /\ cardRow' = [cardRow EXCEPT ![c] = Owner(c)]
    /\ UNCHANGED <<userRow, accountRow, things, job, shown, changed>>

Fresh(t) == things[t] = None

Make(t, kind, c) ==
    /\ Fresh(t)
    /\ things' = [things EXCEPT ![t] = [kind |-> kind, card |-> c]]

Happen(t, kind, c) ==
    /\ Make(t, kind, c)
    /\ UNCHANGED <<rows, job, shown, changed>>

-----------------------------------------------------------------------------
(* A request comes in.  Each field that is there has a stage to pass. *)

AfterThing(j) == IF j.account # None THEN "account" ELSE "act"

\* Mutant: a transaction named beside a card is passed on unchecked.
AfterCardAlone(j) == IF LooksUp(j) /\ j.card = None THEN "thing" ELSE AfterThing(j)

AfterCard(j) == IF LooksUp(j) THEN "thing" ELSE AfterThing(j)

AfterUser(j) == IF j.card # None THEN "card" ELSE AfterCard(j)
FirstStage(j) == IF j.op \in UserOp THEN "user" ELSE AfterUser(j)

Ask(r, j) ==
    /\ job[r].stage = "idle"
    /\ job' = [job EXCEPT ![r] = [j EXCEPT !.stage = FirstStage(j)]]
    /\ shown' = {}
    /\ changed' = {}
    /\ UNCHANGED <<rows, things>>

\* Only a simulation names the user; extra are a listing's userId values.
AskUser(r, v, op, u, extra) ==
    /\ u # None <=> op = "simulateUser"
    /\ extra # {} => op = "listCards"
    /\ Ask(r, [Idle EXCEPT !.op = op, !.vault = v, !.user = u, !.extra = extra])

AskAccount(r, v, op, a) == Ask(r, [Idle EXCEPT !.op = op, !.vault = v, !.account = a])

AskThing(r, v, op, t) == Ask(r, [Idle EXCEPT !.op = op, !.vault = v, !.thing = t])

\* A transaction may be named to go on with it.
AskSimulate(r, v, op, c, t) ==
    /\ t # None => op # "simulateCard"
    /\ Ask(r, [Idle EXCEPT !.op = op, !.vault = v, !.card = c, !.thing = t])

\* The first cardId counts; a transactionId only without one; one of the two
\* has to be there.
AskAlerts(r, v, c, t, extra) ==
    /\ c # None \/ t # None
    /\ Ask(r, [Idle EXCEPT !.op = "listAlerts", !.vault = v, !.card = c,
                           !.thing = IF c # None THEN None ELSE t, !.extra = extra])

\* The first cardId and the first accountId count; one has to be there.
AskActivities(r, v, c, a, extra) ==
    /\ c # None \/ a # None
    /\ Ask(r, [Idle EXCEPT !.op = "listActivities", !.vault = v, !.card = c,
                           !.account = a, !.extra = extra])

-----------------------------------------------------------------------------
(* The checks. *)

\* Mutant: a vault without a user goes on.
ResolveUserUnchecked(r) ==
    /\ job[r].stage = "user"
    /\ job' = [job EXCEPT ![r].user = userRow[job[r].vault], ![r].stage = AfterUser(job[r])]
    /\ UNCHANGED <<rows, things, shown, changed>>

\* resolveReapUserID; a named user has to be the vault's.
ResolveUser(r) ==
    /\ job[r].stage = "user"
    /\ userRow[job[r].vault] # None
    /\ job[r].user \in {None, userRow[job[r].vault]}
    /\ job' = [job EXCEPT ![r].user = userRow[job[r].vault], ![r].stage = AfterUser(job[r])]
    /\ UNCHANGED <<rows, things, shown, changed>>

CheckCard(r) ==
    /\ job[r].stage = "card"
    /\ cardRow[job[r].card] = job[r].vault
    /\ job' = [job EXCEPT ![r].stage = AfterCard(job[r])]
    /\ UNCHANGED <<rows, things, shown, changed>>

\* transactionCardID, alertCardID, challengeCardID: REAP says which card the
\* thing is on.
LookUp(r) ==
    /\ job[r].stage = "thing"
    /\ things[job[r].thing] # None
    /\ things[job[r].thing].kind = KindOf(job[r].op)
    /\ job' = [job EXCEPT ![r].learned = things[job[r].thing].card,
                          ![r].stage = "thingCard"]
    /\ UNCHANGED <<rows, things, shown, changed>>

CheckThingCard(r) ==
    /\ job[r].stage = "thingCard"
    /\ cardRow[job[r].learned] = job[r].vault
    /\ job' = [job EXCEPT ![r].stage = AfterThing(job[r])]
    /\ UNCHANGED <<rows, things, shown, changed>>

CheckAccount(r) ==
    /\ job[r].stage = "account"
    /\ accountRow[job[r].account] = job[r].vault
    /\ job' = [job EXCEPT ![r].stage = "act"]
    /\ UNCHANGED <<rows, things, shown, changed>>

\* No user, not owned, not found, a failed query or REAP call; or the server
\* dies.
GiveUp(r) ==
    /\ job[r].stage # "idle"
    /\ job' = [job EXCEPT ![r] = Idle]
    /\ UNCHANGED <<rows, things, shown, changed>>

-----------------------------------------------------------------------------
(* The REAP call.  Whether its answer arrives makes no difference to what  *)
(* it changed.                                                             *)

Act(r, op) ==
    /\ job[r].stage = "act"
    /\ job[r].op = op
    /\ job' = [job EXCEPT ![r] = Idle]
    /\ UNCHANGED rows

Show(r, xs) ==
    /\ shown' = {<<job[r].vault, x>> : x \in xs}
    /\ changed' = {}

Change(r, xs) ==
    /\ changed' = {<<job[r].vault, job[r].op, x>> : x \in xs}
    /\ shown' = {}

\* Mutant: the query goes to REAP as it came.
KeptAll(first, rest) == rest \cup ({first} \ {None})

\* The values of a filter that REAP sees: the one that was checked, in place
\* of all of them.  A filter whose first value is empty is left as it is.
Kept(first, rest) == IF first # None THEN {first} ELSE rest

GetUser(r) == Act(r, "getUser") /\ Show(r, {job[r].user}) /\ UNCHANGED things

\* UpdateEmail, UpdatePhoneNumber, AdvanceUserApplication.
UpdateUser(r) == Act(r, "updateUser") /\ Change(r, {job[r].user}) /\ UNCHANGED things

SimulateUserApplicationStatus(r) ==
    Act(r, "simulateUser") /\ Change(r, {job[r].user}) /\ UNCHANGED things

ListAccounts(r) ==
    /\ Act(r, "listAccounts")
    /\ Show(r, {a \in Account : UserOf[a] = job[r].user})
    /\ UNCHANGED things

\* userId is set, whatever was there.
ListCards(r) ==
    /\ Act(r, "listCards")
    /\ Show(r, {c \in Card : UserOf[c] \in Kept(job[r].user, job[r].extra)})
    /\ UNCHANGED things

\* GetAccount, GetAccountBalance, GetAccountAssets.
GetAccount(r) == Act(r, "getAccount") /\ Show(r, {job[r].account}) /\ UNCHANGED things

SimulateAccountStatus(r) ==
    Act(r, "simulateAccount") /\ Change(r, {job[r].account}) /\ UNCHANGED things

\* What was fetched to learn the card is the answer.
GetThing(r) ==
    \E op \in GetOp : Act(r, op) /\ Show(r, {job[r].thing}) /\ UNCHANGED things

Respond(r) ==
    \E op \in RespondOp : Act(r, op) /\ Change(r, {job[r].thing}) /\ UNCHANGED things

\* REAP raises alert n on the transaction's card.
ReportFraud(r, n) ==
    /\ Act(r, "reportFraud")
    /\ Make(n, "alert", things[job[r].thing].card)
    /\ Change(r, {job[r].thing, n})

SimulateCardStatus(r) ==
    Act(r, "simulateCard") /\ Change(r, {job[r].card}) /\ UNCHANGED things

IsTransaction(t) ==
    t \in Thing /\ things[t] # None /\ things[t].kind = "transaction"

\* REAP raises challenge n on the card.  A transaction that is named is passed
\* on as it came; REAP may act on it as it does in an authorization, or not.
SimulateThreeDSAuthorization(r, n) ==
    /\ Act(r, "simulate3DS")
    /\ Make(n, "challenge", job[r].card)
    /\ \/ Change(r, {n})
       \/ IsTransaction(job[r].thing) /\ Change(r, {n, job[r].thing})

\* Authorization, decline, clearing, reversal, refund: of the transaction
\* that is named, if REAP has it, and of a new one if none is named.  (A
\* reversal always names one.)
SimulateNamed(r) ==
    /\ Act(r, "simulateTransaction")
    /\ IsTransaction(job[r].thing)
    /\ Change(r, {job[r].thing})
    /\ UNCHANGED things

SimulateNew(r, n) ==
    /\ Act(r, "simulateTransaction")
    /\ job[r].thing = None
    /\ Make(n, "transaction", job[r].card)
    /\ Change(r, {n})

Alerts(cards) ==
    {t \in Thing : things[t] # None /\ things[t].kind = "alert" /\ things[t].card \in cards}

\* cardId is set to the card that was checked, and transactionId dropped.
ListFraudAlerts(r) ==
    LET checked == IF job[r].card # None THEN job[r].card ELSE job[r].learned
    IN  /\ Act(r, "listAlerts")
        /\ Show(r, Alerts(Kept(checked, job[r].extra \cap Card)))
        /\ UNCHANGED things

\* The transactions that pass both filters; a filter without values passes all.
Activities(cards, accounts) ==
    {t \in Thing :
        /\ things[t] # None
        /\ things[t].kind = "transaction"
        /\ cards = {} \/ things[t].card \in cards
        /\ accounts = {} \/ AccountOf[things[t].card] \in accounts}

ListActivities(r) ==
    /\ Act(r, "listActivities")
    /\ Show(r, Activities(Kept(job[r].card, job[r].extra \cap Card),
                          Kept(job[r].account, job[r].extra \cap Account)))
    /\ UNCHANGED things

-----------------------------------------------------------------------------

\* A filter is given once or twice: bounds the values of a query.
Repeated(values) == {{}} \cup {{x} : x \in values}

Request(r) ==
    \E v \in Vault :
        \/ \E op \in UserOp, u \in User \cup {None}, extra \in Repeated(User) :
            AskUser(r, v, op, u, extra)
        \/ \E op \in AccountOp, a \in Account : AskAccount(r, v, op, a)
        \/ \E op \in ThingOp, t \in Thing : AskThing(r, v, op, t)
        \/ \E op \in SimulateOp, c \in Card, t \in Thing \cup {None} :
            AskSimulate(r, v, op, c, t)
        \/ \E c \in Card \cup {None}, t \in Thing \cup {None}, extra \in Repeated(Card) :
            AskAlerts(r, v, c, t, extra)
        \/ \E c \in Card \cup {None}, a \in Account \cup {None},
              extra \in Repeated(Card \cup Account) :
            AskActivities(r, v, c, a, extra)

Check(r) ==
    \/ ResolveUser(r) \/ CheckCard(r) \/ LookUp(r)
    \/ CheckThingCard(r) \/ CheckAccount(r)

Call(r) ==
    \/ GetUser(r) \/ UpdateUser(r) \/ SimulateUserApplicationStatus(r)
    \/ ListAccounts(r) \/ ListCards(r)
    \/ GetAccount(r) \/ SimulateAccountStatus(r)
    \/ GetThing(r) \/ Respond(r)
    \/ SimulateCardStatus(r) \/ SimulateNamed(r)
    \/ ListFraudAlerts(r) \/ ListActivities(r)
    \/ \E n \in Thing :
        ReportFraud(r, n) \/ SimulateThreeDSAuthorization(r, n) \/ SimulateNew(r, n)

Elsewhere ==
    \/ \E u \in User : BindUser(u)
    \/ \E a \in Account : RecordAccount(a)
    \/ \E c \in Card : RecordCard(c)
    \/ \E t \in Thing, kind \in Kind, c \in Card : Happen(t, kind, c)

Next == Elsewhere \/ \E r \in Slot : Request(r) \/ Check(r) \/ Call(r) \/ GiveUp(r)

Spec == Init /\ [][Next]_vars

-----------------------------------------------------------------------------
(* What is to hold. *)

\* The vault a resource of any kind is for, by REAP's records.
For(x) ==
    CASE x \in User              -> VaultOf[x]
      [] x \in Account \cup Card -> Owner(x)
      [] OTHER                   -> Owner(things[x].card)

\* Whatever a vault is shown, by name, through a listing or as the answer to
\* a lookup, is its own: the checks look at a row, at REAP's word on a thing
\* or at one value of a filter, and the call that follows is made later and
\* under a key that reaches everything.
ShownIsOwn == \A v \in Vault, x \in Resource : <<v, x>> \in shown => For(x) = v

\* Whatever REAP changes or makes for a vault is the vault's own, also when
\* a request names a card and a transaction of another card.  The transaction
\* a 3DS simulation names is left out: nothing looks at whose it is.
ChangedIsOwn ==
    \A v \in Vault, op \in Op, x \in Resource :
        <<v, op, x>> \in changed /\ ~(op = "simulate3DS" /\ IsTransaction(x))
            => For(x) = v
=============================================================================
