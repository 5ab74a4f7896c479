------------------------------ MODULE Ownership ------------------------------
(***************************************************************************)
(* POST /account, POST /card and the operations on a card: AccountService  *)
(* and CardService over the ownership tables.                              *)
(*                                                                         *)
(* A create resolves the vault's REAP user, for a card also checks that    *)
(* the vault owns the account, calls REAP with the client's Idempotency-   *)
(* Key, and then writes who owns the result: one row for an account, two   *)
(* rows in two statements for a card.  Nothing ties the REAP call and the  *)
(* rows together but the client's retry with the same key.  An operation   *)
(* on a card checks the card's row in one step and calls REAP in the next. *)
(*                                                                         *)
(* How a vault gets its REAP user is UserCreate's business; here the       *)
(* mapping changes as its abstract specification VaultUser says.           *)
(***************************************************************************)
EXTENDS Naturals

CONSTANTS
    Vault, UserId, NoUser,
    Account, Card,   \* IDs REAP gives to accounts and cards
    Key,             \* Idempotency-Key values clients use
    Slot,            \* handler slots
    None

ASSUME OwnershipAssumption ==
    /\ NoUser \notin UserId
    /\ None \notin Vault \cup UserId \cup Account \cup Card \cup Key
    /\ Account \cap Card = {}

VARIABLES
    reapUserID,   \* column reap_user_id of each vault's row
    accountRow,   \* vultisig_account_ownership
    cardRow,      \* vultisig_card_ownership
    userCardRow,  \* vultisig_user_card_ownership
    made,         \* REAP: the request each account and card was made for
    replay,       \* REAP: the result of each Idempotency-Key
    job,          \* what each handler slot is doing
    granted,      \* creates answered 2xx: <<vault, ID>>
    used          \* card operations sent to REAP: <<vault, card>>

reapSide == <<made, replay>>
rows == <<accountRow, cardRow, userCardRow>>
vars == <<reapUserID, rows, reapSide, job, granted, used>>

\* What REAP is asked for: an account or a card, for a user, on an account.
Request ==
    [key : Key, kind : {"account"}, user : UserId, account : {None}]
        \cup [key : Key, kind : {"card"}, user : UserId, account : Account]

ASSUME RequestAssumption == None \notin Request

Stage == {"idle", "user", "owner", "reap", "record", "recordUser", "check", "act"}

Job ==
    [stage : Stage, vault : Vault \cup {None}, kind : {"account", "card", None},
     key : Key \cup {None}, account : Account \cup {None},
     user : UserId \cup {None}, id : Account \cup Card \cup {None}]

Idle == [stage |-> "idle", vault |-> None, kind |-> None, key |-> None,
         account |-> None, user |-> None, id |-> None]

TypeOK ==
    /\ reapUserID \in [Vault -> UserId \cup {NoUser}]
    /\ accountRow \in [Account -> Vault \cup {None}]
    /\ cardRow \in [Card -> Vault \cup {None}]
    /\ userCardRow \in [Card -> UserId \cup {None}]
    /\ made \in [Account \cup Card -> Request \cup {None}]
    /\ replay \in [Key -> Account \cup Card \cup {None}]
    /\ job \in [Slot -> Job]
    /\ granted \subseteq Vault \X (Account \cup Card)
    /\ used \subseteq Vault \X Card

VU == INSTANCE VaultUser WITH bound <- reapUserID

Init ==
    /\ VU!Init
    /\ accountRow = [a \in Account |-> None]
    /\ cardRow = [c \in Card |-> None]
    /\ userCardRow = [c \in Card |-> None]
    /\ made = [i \in Account \cup Card |-> None]
    /\ replay = [k \in Key |-> None]
    /\ job = [r \in Slot |-> Idle]
    /\ granted = {}
    /\ used = {}

\* POST /user records a user for some vault.
BindUser ==
    /\ VU!Next
    /\ UNCHANGED <<rows, reapSide, job, granted, used>>

-----------------------------------------------------------------------------
(* The create handlers, up to the REAP call. *)

Done(r) == job' = [job EXCEPT ![r] = Idle]

GoTo(r, stage) == job' = [job EXCEPT ![r].stage = stage]

AskAccount(r, v, k) ==
    /\ job[r].stage = "idle"
    /\ job' = [job EXCEPT ![r] = [Idle EXCEPT !.stage = "user", !.kind = "account",
                                              !.vault = v, !.key = k]]
    /\ UNCHANGED <<reapUserID, rows, reapSide, granted, used>>

AskCard(r, v, k, a) ==
    /\ job[r].stage = "idle"
    /\ job' = [job EXCEPT ![r] = [Idle EXCEPT !.stage = "user", !.kind = "card",
                                              !.vault = v, !.key = k, !.account = a]]
    /\ UNCHANGED <<reapUserID, rows, reapSide, granted, used>>

\* Mutant: a vault without a user goes on.
ResolveUserUnchecked(r) ==
    /\ job[r].stage = "user"
    /\ job' = [job EXCEPT ![r].user = reapUserID[job[r].vault],
                          ![r].stage = IF job[r].kind = "card" THEN "owner" ELSE "reap"]
    /\ UNCHANGED <<reapUserID, rows, reapSide, granted, used>>

\* resolveReapUserID; a card's account is looked at next.
ResolveUser(r) ==
    /\ job[r].stage = "user"
    /\ reapUserID[job[r].vault] # NoUser
    /\ job' = [job EXCEPT ![r].user = reapUserID[job[r].vault],
                          ![r].stage = IF job[r].kind = "card" THEN "owner" ELSE "reap"]
    /\ UNCHANGED <<reapUserID, rows, reapSide, granted, used>>

\* Mutant: any account on record will do.
CheckAccountKnown(r) ==
    /\ job[r].stage = "owner"
    /\ accountRow[job[r].account] # None
    /\ GoTo(r, "reap")
    /\ UNCHANGED <<reapUserID, rows, reapSide, granted, used>>

CheckAccount(r) ==
    /\ job[r].stage = "owner"
    /\ accountRow[job[r].account] = job[r].vault
    /\ GoTo(r, "reap")
    /\ UNCHANGED <<reapUserID, rows, reapSide, granted, used>>

\* ErrNoReapUser, ErrResourceNotOwned or a failed lookup.
GiveUp(r) ==
    /\ job[r].stage \in {"user", "owner", "check"}
    /\ Done(r)
    /\ UNCHANGED <<reapUserID, rows, reapSide, granted, used>>

-----------------------------------------------------------------------------
(* REAP.  The first request with a key makes something new; the same       *)
(* request again gets the same thing; another request with that key is     *)
(* refused.                                                                *)

Wanted(r) == [key |-> job[r].key, kind |-> job[r].kind, user |-> job[r].user,
              account |-> job[r].account]

IdsOf(kind) == IF kind = "account" THEN Account ELSE Card

\* Mutant: the server makes up a key for every call.
HeaderGenerated(r) == Key

\* The Idempotency-Key REAP sees is the client's, as it is.
Header(r) == {job[r].key}

\* REAP makes, or made before, resource i for the request of slot r.
ReapServes(r, i) ==
    /\ i \in IdsOf(job[r].kind)
    /\ \E h \in Header(r) :
        \/ /\ replay[h] = None
           /\ made[i] = None
           /\ made' = [made EXCEPT ![i] = Wanted(r)]
           /\ replay' = [replay EXCEPT ![h] = i]
        \/ /\ replay[h] = i
           /\ made[i] = Wanted(r)
           /\ UNCHANGED reapSide

\* A 2xx with the resource's ID.
ReapAnswers(r, i) ==
    /\ job[r].stage = "reap"
    /\ ReapServes(r, i)
    /\ job' = [job EXCEPT ![r].id = i, ![r].stage = "record"]
    /\ UNCHANGED <<reapUserID, rows, granted, used>>

\* A non-2xx passed back, a timeout, a broken connection or a 2xx without a
\* usable ID: the resource may exist now, and no row says whose it is.
ReapFails(r) ==
    /\ job[r].stage = "reap"
    /\ UNCHANGED reapSide \/ \E i \in Account \cup Card : ReapServes(r, i)
    /\ Done(r)
    /\ UNCHANGED <<reapUserID, rows, granted, used>>

-----------------------------------------------------------------------------
(* Recording the owner: INSERT .. ON CONFLICT DO NOTHING. *)

InsertRow(table, id, owner) ==
    IF table[id] = None THEN [table EXCEPT ![id] = owner] ELSE table

RecordAccount(r) ==
    /\ job[r].stage = "record" /\ job[r].kind = "account"
    /\ accountRow' = InsertRow(accountRow, job[r].id, job[r].vault)
    /\ granted' = granted \cup {<<job[r].vault, job[r].id>>}
    /\ Done(r)
    /\ UNCHANGED <<reapUserID, cardRow, userCardRow, reapSide, used>>

RecordCard(r) ==
    /\ job[r].stage = "record" /\ job[r].kind = "card"
    /\ cardRow' = InsertRow(cardRow, job[r].id, job[r].vault)
    /\ GoTo(r, "recordUser")
    /\ UNCHANGED <<reapUserID, accountRow, userCardRow, reapSide, granted, used>>

RecordUserCard(r) ==
    /\ job[r].stage = "recordUser"
    /\ userCardRow' = InsertRow(userCardRow, job[r].id, job[r].user)
    /\ granted' = granted \cup {<<job[r].vault, job[r].id>>}
    /\ Done(r)
    /\ UNCHANGED <<reapUserID, accountRow, cardRow, reapSide, used>>

\* Mutant: a failed insert is logged and REAP's 2xx passed back.
RecordFailsSilently(r) ==
    /\ job[r].stage \in {"record", "recordUser"}
    /\ granted' = granted \cup {<<job[r].vault, job[r].id>>}
    /\ Done(r)
    /\ UNCHANGED <<reapUserID, rows, reapSide, used>>

\* Mutant: when the second row of a card fails, the first is taken back.
RecordFailsTakesBack(r) ==
    /\ \/ job[r].stage = "record" /\ UNCHANGED rows
       \/ /\ job[r].stage = "recordUser"
          /\ cardRow' = [cardRow EXCEPT ![job[r].id] = None]
          /\ UNCHANGED <<accountRow, userCardRow>>
    /\ Done(r)
    /\ UNCHANGED <<reapUserID, reapSide, granted, used>>

\* A statement errors, with its effect or without: a 500, and what is written
\* so far stays.
RecordFails(r) ==
    /\ \/ job[r].stage \in {"record", "recordUser"} /\ UNCHANGED rows
       \/ /\ job[r].stage = "record" /\ job[r].kind = "account"
          /\ accountRow' = InsertRow(accountRow, job[r].id, job[r].vault)
          /\ UNCHANGED <<cardRow, userCardRow>>
       \/ /\ job[r].stage = "record" /\ job[r].kind = "card"
          /\ cardRow' = InsertRow(cardRow, job[r].id, job[r].vault)
          /\ UNCHANGED <<accountRow, userCardRow>>
       \/ /\ job[r].stage = "recordUser"
          /\ userCardRow' = InsertRow(userCardRow, job[r].id, job[r].user)
          /\ UNCHANGED <<accountRow, cardRow>>
    /\ Done(r)
    /\ UNCHANGED <<reapUserID, reapSide, granted, used>>

-----------------------------------------------------------------------------
(* An operation on a card: get, delete, PIN, freeze, reveal and the like.  *)

AskUse(r, v, c) ==
    /\ job[r].stage = "idle"
    /\ job' = [job EXCEPT ![r] = [Idle EXCEPT !.stage = "check", !.vault = v, !.id = c]]
    /\ UNCHANGED <<reapUserID, rows, reapSide, granted, used>>

\* Mutant: any card on record will do.
CheckCardKnown(r) ==
    /\ job[r].stage = "check"
    /\ cardRow[job[r].id] # None
    /\ GoTo(r, "act")
    /\ UNCHANGED <<reapUserID, rows, reapSide, granted, used>>

\* checkOwnership.
CheckCard(r) ==
    /\ job[r].stage = "check"
    /\ cardRow[job[r].id] = job[r].vault
    /\ GoTo(r, "act")
    /\ UNCHANGED <<reapUserID, rows, reapSide, granted, used>>

\* REAP is asked; its answer goes back as it is.
ActOnCard(r) ==
    /\ job[r].stage = "act"
    /\ used' = used \cup {<<job[r].vault, job[r].id>>}
    /\ Done(r)
    /\ UNCHANGED <<reapUserID, rows, reapSide, granted>>

\* The server dies with the request in flight, which REAP may still serve.
Crash(r) ==
    /\ job[r].stage # "idle"
    /\ \/ UNCHANGED reapSide
       \/ job[r].stage = "reap" /\ \E i \in Account \cup Card : ReapServes(r, i)
    /\ Done(r)
    /\ UNCHANGED <<reapUserID, rows, granted, used>>

-----------------------------------------------------------------------------

Step(r) ==
    \/ ResolveUser(r) \/ CheckAccount(r) \/ CheckCard(r) \/ GiveUp(r)
    \/ \E i \in Account \cup Card : ReapAnswers(r, i)
    \/ ReapFails(r)
    \/ RecordAccount(r) \/ RecordCard(r) \/ RecordUserCard(r) \/ RecordFails(r)
    \/ ActOnCard(r)

Next ==
    \/ BindUser
    \/ \E r \in Slot :
        \/ \E v \in Vault, k \in Key : AskAccount(r, v, k)
        \/ \E v \in Vault, k \in Key, a \in Account : AskCard(r, v, k, a)
        \/ \E v \in Vault, c \in Card : AskUse(r, v, c)
        \/ Step(r)
        \/ Crash(r)

Spec == Init /\ [][Next]_vars

\* Slot r serves the request that card c was made for, or a retry of it.
Serves(r, c) ==
    /\ made[c] # None
    /\ job[r].kind = "card" /\ job[r].key = made[c].key
    /\ job[r].account = made[c].account
    /\ reapUserID[job[r].vault] = made[c].user

\* The client repeats the request, key and all, until it is answered 2xx.
Retry(r, c) ==
    /\ made[c] # None
    /\ \E v \in Vault :
        /\ reapUserID[v] = made[c].user
        /\ <<v, c>> \notin granted
        /\ AskCard(r, v, made[c].key, made[c].account)

\* A look-up, a call or a statement that could have succeeded fails, or the
\* server dies.  What is refused for good is not among them.
Disturbed(r) ==
    \/ GiveUp(r) /\ ENABLED (ResolveUser(r) \/ CheckAccount(r))
    \/ ReapFails(r) /\ ENABLED (\E i \in Account \cup Card : ReapAnswers(r, i))
    \/ RecordFails(r) \/ Crash(r)

\* Handlers run, and the client of a card does not give up.  The requests for
\* a card may be disturbed any number of times, but not for ever.
Fairness ==
    /\ \A r \in Slot : WF_vars(Step(r))
    /\ \A c \in Card :
        /\ SF_vars(\E r \in Slot : Retry(r, c))
        /\ <>[][\A r \in Slot : ~(Serves(r, c) /\ Disturbed(r))]_vars

FairSpec == Spec /\ Fairness

-----------------------------------------------------------------------------
(* What is to hold. *)

\* Every ownership row tells the truth about REAP: an account is its vault's
\* user's; a card is its vault's user's, on an account of the same vault; the
\* two tables on cards agree, and the second is never ahead of the first.
RowsAreReal ==
    /\ \A a \in Account : accountRow[a] # None =>
        made[a] # None /\ made[a].user = reapUserID[accountRow[a]]
    /\ \A c \in Card : cardRow[c] # None =>
        /\ made[c] # None
        /\ made[c].user = reapUserID[cardRow[c]]
        /\ accountRow[made[c].account] = cardRow[c]
    /\ \A c \in Card : userCardRow[c] # None =>
        cardRow[c] # None /\ userCardRow[c] = reapUserID[cardRow[c]]

\* A create answered with a 2xx left the vault the owner in every table,
\* however earlier attempts with the same key ended, and it stays the owner.
GrantedIsOwned ==
    \A v \in Vault :
        /\ \A a \in Account : <<v, a>> \in granted => accountRow[a] = v
        /\ \A c \in Card : <<v, c>> \in granted =>
            cardRow[c] = v /\ userCardRow[c] = reapUserID[v]

\* An operation on a card reaches REAP only for the vault whose user REAP
\* made the card for, although the check and the call are separate steps.
OnlyOwnerActs ==
    \A v \in Vault, c \in Card :
        <<v, c>> \in used => made[c] # None /\ made[c].user = reapUserID[v]

\* Retrying with one key, from any number of requests at once and after answers
\* that were lost, never makes a second account, a second card, or one of each.
OneResourcePerKey ==
    \A i, j \in Account \cup Card :
        made[i] # None /\ made[j] # None /\ made[i].key = made[j].key => i = j

\* A card REAP has made does not stay without its rows: although the rows are
\* written after the call, in two statements, and anything may fail or die in
\* between, any number of times, a client that keeps retrying with its key
\* ends up owning the card once its requests are left in peace.
CardIsOwnedInTheEnd ==
    \A c \in Card :
        made[c] # None ~>
            \E v \in Vault : /\ made[c] # None /\ reapUserID[v] = made[c].user
                             /\ cardRow[c] = v
                             /\ userCardRow[c] = made[c].user
                             /\ <<v, c>> \in granted
=============================================================================
