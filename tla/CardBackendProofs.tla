-------------------------- MODULE CardBackendProofs --------------------------
(***************************************************************************)
(* The ownership tables tell the truth, a 2xx means ownership, only the    *)
(* owner acts on a card, and a key makes one resource (Ownership's Spec);  *)
(* the REST handlers and the webhook handler over one database implement   *)
(* Ownership and Webhook, and whoever is notified of an event is the vault *)
(* whose user REAP made the resource for (BackendSpec); for any number of  *)
(* vaults, users, resources, keys, requests, events and deliveries.        *)
(*                                                                         *)
(* What OwnInv adds to Ownership's properties is what each stage of a      *)
(* request knows (JobOK), that a REAP user is one vault's (the mapping is  *)
(* injective: VaultUser), and that REAP remembers what a key made.  An     *)
(* INSERT that finds a row already there finds its own vault's: the row's  *)
(* resource was made for the user of the vault in the row, and for the     *)
(* user of the request.                                                    *)
(*                                                                         *)
(* The composition: the vault of a request that records a resource is the  *)
(* one foretold, because REAP made the resource for that vault's user and  *)
(* no other vault has this user; so a step of the handlers leaves the      *)
(* table resolveVault reads as it is or fills one entry as RecordOwner     *)
(* does.  WebhookProofs then says who is notified, and what REAP emitted   *)
(* an event about it has made for good.                                    *)
(***************************************************************************)
EXTENDS CardBackend, TLAPS

\* No two vaults have the same REAP user.
OneVaultPerUser ==
    \A v, w \in Vault : reapUserID[v] = reapUserID[w] /\ reapUserID[v] # NoUser => v = w

\* The request of a create with record j.
WantedBy(j) ==
    [key |-> j.key, kind |-> j.kind, user |-> j.user, account |-> j.account]

Creating == {"user", "owner", "reap", "record", "recordUser"}
HasUser == {"owner", "reap", "record", "recordUser"}
PastChecks == {"reap", "record", "recordUser"}
Recording == {"record", "recordUser"}

\* What a request's record says of the tables and of REAP at its stage.
JobOK(j, mapping, accounts, cards, atReap) ==
    /\ j.stage # "idle" => j.vault \in Vault
    /\ j.stage \in Creating =>
        /\ j.key \in Key
        /\ \/ j.kind = "account" /\ j.account = None
           \/ j.kind = "card" /\ j.account \in Account
    /\ j.stage \in HasUser => j.user \in UserId /\ mapping[j.vault] = j.user
    /\ j.stage \in {"owner", "recordUser"} => j.kind = "card"
    /\ j.stage \in PastChecks /\ j.kind = "card" => accounts[j.account] = j.vault
    /\ j.stage \in Recording => j.id \in IdsOf(j.kind) /\ atReap[j.id] = WantedBy(j)
    /\ j.stage \in {"check", "act"} => j.id \in Card
    /\ j.stage \in {"recordUser", "act"} => cards[j.id] = j.vault

JobsOK == \A r \in Slot : JobOK(job[r], reapUserID, accountRow, cardRow, made)

\* REAP finds what it made again by its key.
KeyIsReplayed ==
    \A i \in Account \cup Card : made[i] # None => replay[made[i].key] = i

\* A granted card has its second row.
GrantedHasUserRow ==
    \A v \in Vault, c \in Card : <<v, c>> \in granted => userCardRow[c] \in UserId

\* A card on record was made on an account.
CardHasAccount ==
    \A c \in Card : cardRow[c] # None => made[c] # None /\ made[c].account \in Account

OwnInv ==
    /\ TypeOK
    /\ OneVaultPerUser
    /\ JobsOK
    /\ KeyIsReplayed
    /\ RowsAreReal
    /\ CardHasAccount
    /\ GrantedIsOwned
    /\ GrantedHasUserRow
    /\ OnlyOwnerActs

-----------------------------------------------------------------------------

\* The record of a slot at rest.
LEMMA IdleFacts == Idle \in Job /\ Idle.stage = "idle"
BY DEF Idle, Job, Stage

\* What JobOK says survives every change the tables and REAP undergo.
LEMMA JobGrows ==
    ASSUME NEW j, NEW m, NEW a, NEW c, NEW x, NEW mm, NEW aa, NEW cc, NEW xx,
           JobOK(j, m, a, c, x),
           \A v \in Vault : m[v] \in UserId => mm[v] = m[v],
           \A i \in Account : a[i] \in Vault => aa[i] = a[i],
           \A i \in Card : c[i] \in Vault => cc[i] = c[i],
           \A i \in Account \cup Card : x[i] # None => xx[i] = x[i]
    PROVE  JobOK(j, mm, aa, cc, xx)
<1>1. j.stage \in PastChecks /\ j.kind = "card" => j.account \in Account
    BY DEF JobOK, PastChecks, Creating
<1>2. j.stage \in Recording => j.id \in Account \cup Card
    BY DEF JobOK, IdsOf
<1>3. j.stage \in {"recordUser", "act"} => j.id \in Card
    BY DEF JobOK, IdsOf, Recording
<1>4. j.stage \in {"recordUser", "act"} \cup PastChecks \cup HasUser => j.vault \in Vault
    BY DEF JobOK, PastChecks, HasUser
<1>5. j.stage \in Recording => WantedBy(j) \in Request
    BY DEF JobOK, Recording, Creating, HasUser, WantedBy, Request
<1> QED
    BY <1>1, <1>2, <1>3, <1>4, <1>5, RequestAssumption DEF JobOK

\* The inductive invariant holds when the server starts.
LEMMA OwnInit == Init => OwnInv
<1> SUFFICES ASSUME Init PROVE OwnInv
    OBVIOUS
<1> USE OwnershipAssumption DEF Init, VU!Init
<1>1. TypeOK
    BY IdleFacts DEF TypeOK
<1>2. OneVaultPerUser
    BY DEF OneVaultPerUser
<1>3. JobsOK
    BY IdleFacts DEF JobsOK, JobOK, Creating, HasUser, PastChecks, Recording
<1>4. KeyIsReplayed /\ RowsAreReal /\ CardHasAccount
    BY DEF KeyIsReplayed, RowsAreReal, CardHasAccount
<1>5. GrantedIsOwned /\ GrantedHasUserRow /\ OnlyOwnerActs
    BY DEF GrantedIsOwned, GrantedHasUserRow, OnlyOwnerActs
<1> QED
    BY <1>1, <1>2, <1>3, <1>4, <1>5 DEF OwnInv

\* A step that only moves one request along.
LEMMA JobStep ==
    ASSUME OwnInv, NEW r \in Slot, NEW j \in Job,
           job' = [job EXCEPT ![r] = j],
           JobOK(j, reapUserID, accountRow, cardRow, made),
           UNCHANGED <<reapUserID, rows, reapSide, granted, used>>
    PROVE  OwnInv'
<1> USE DEF rows, reapSide
<1>1. TypeOK'
    BY DEF OwnInv, TypeOK
<1>2. JobsOK'
    BY DEF OwnInv, TypeOK, JobsOK
<1>3. OneVaultPerUser' /\ KeyIsReplayed' /\ RowsAreReal' /\ CardHasAccount'
    BY DEF OwnInv, OneVaultPerUser, KeyIsReplayed, RowsAreReal, CardHasAccount
<1>4. GrantedIsOwned' /\ GrantedHasUserRow' /\ OnlyOwnerActs'
    BY DEF OwnInv, GrantedIsOwned, GrantedHasUserRow, OnlyOwnerActs
<1> QED
    BY <1>1, <1>2, <1>3, <1>4 DEF OwnInv

\* A slot at rest needs nothing.
LEMMA IdleOK ==
    ASSUME NEW m, NEW a, NEW c, NEW x
    PROVE  JobOK(Idle, m, a, c, x)
BY IdleFacts DEF JobOK, Creating, HasUser, PastChecks, Recording

\* What everything made at REAP is.
LEMMA MadeType ==
    ASSUME OwnInv, NEW i \in Account \cup Card, made[i] # None
    PROVE  /\ made[i] \in Request
           /\ made[i].user \in UserId
           /\ made[i].key \in Key
           /\ made[i].account \in Account \cup {None}
<1>1. made[i] \in Request
    BY DEF OwnInv, TypeOK
<1> QED
    BY <1>1 DEF Request

\* REAP serves a create.
LEMMA ReapStep ==
    ASSUME OwnInv, NEW r \in Slot, NEW i \in Account \cup Card, NEW j \in Job,
           job[r].stage = "reap", ReapServes(r, i),
           job' = [job EXCEPT ![r] = j],
           JobOK(j, reapUserID, accountRow, cardRow, made'),
           UNCHANGED <<reapUserID, rows, granted, used>>
    PROVE  OwnInv'
<1> USE DEF rows, reapSide
<1>1. /\ job[r] \in Job
      /\ JobOK(job[r], reapUserID, accountRow, cardRow, made)
      /\ made \in [Account \cup Card -> Request \cup {None}]
      /\ replay \in [Key -> Account \cup Card \cup {None}]
    BY DEF OwnInv, TypeOK, JobsOK
<1>2. Wanted(r) \in Request /\ Wanted(r).key = job[r].key /\ job[r].key \in Key
    BY <1>1 DEF JobOK, Creating, HasUser, Wanted, Request
<1>3. /\ made' \in [Account \cup Card -> Request \cup {None}]
      /\ replay' \in [Key -> Account \cup Card \cup {None}]
      /\ \A x \in Account \cup Card : made[x] # None => made'[x] = made[x]
    BY <1>1, <1>2 DEF ReapServes, Header
<1>4. TypeOK'
    BY <1>3 DEF OwnInv, TypeOK
<1>5. JobsOK'
  <2>1. ASSUME NEW q \in Slot, q # r
        PROVE  JobOK(job[q], reapUserID, accountRow, cardRow, made')
    <3>1. JobOK(job[q], reapUserID, accountRow, cardRow, made)
      BY DEF OwnInv, JobsOK
    <3> QED
      BY <1>3, <3>1, JobGrows
  <2> QED
    BY <2>1 DEF OwnInv, TypeOK, JobsOK
<1>6. KeyIsReplayed'
  <2>1. CASE UNCHANGED reapSide
    BY <2>1 DEF OwnInv, KeyIsReplayed
  <2>2. CASE /\ replay[job[r].key] = None
             /\ made[i] = None
             /\ made' = [made EXCEPT ![i] = Wanted(r)]
             /\ replay' = [replay EXCEPT ![job[r].key] = i]
    <3>1. ASSUME NEW x \in Account \cup Card, made'[x] # None
          PROVE  replay'[made'[x].key] = x
      <4>1. CASE x = i
        BY <1>1, <1>2, <2>2, <4>1
      <4>2. CASE x # i
        <5>1. made'[x] = made[x] /\ made[x] # None
          BY <1>1, <2>2, <3>1, <4>2
        <5>2. made[x].key \in Key /\ replay[made[x].key] = x
          BY <5>1, MadeType DEF OwnInv, KeyIsReplayed
        <5>3. made[x].key # job[r].key
          BY <2>2, <5>2, OwnershipAssumption
        <5> QED
          BY <1>1, <2>2, <5>1, <5>2, <5>3
      <4> QED
        BY <4>1, <4>2
    <3> QED
      BY <3>1 DEF KeyIsReplayed
  <2> QED
    BY <2>1, <2>2 DEF ReapServes, Header
<1>7. RowsAreReal' /\ CardHasAccount'
    BY <1>3 DEF OwnInv, RowsAreReal, CardHasAccount
<1>8. OneVaultPerUser' /\ GrantedIsOwned' /\ GrantedHasUserRow'
    BY DEF OwnInv, OneVaultPerUser, GrantedIsOwned, GrantedHasUserRow
<1>9. OnlyOwnerActs'
    BY <1>3 DEF OwnInv, OnlyOwnerActs
<1> QED
    BY <1>4, <1>5, <1>6, <1>7, <1>8, <1>9 DEF OwnInv

-----------------------------------------------------------------------------
(* The three INSERTs.  Each is covered with its success and its failure.   *)

\* A row that is there before a request's own INSERT names its vault.
LEMMA ExistingRow ==
    ASSUME OwnInv, NEW r \in Slot, job[r].stage \in Recording
    PROVE  /\ job[r] \in Job /\ job[r].vault \in Vault
           /\ job[r].user \in UserId /\ reapUserID[job[r].vault] = job[r].user
           /\ job[r].id \in IdsOf(job[r].kind)
           /\ made[job[r].id] = Wanted(r) /\ made[job[r].id] # None
           /\ made[job[r].id].user = job[r].user
           /\ made[job[r].id].account = job[r].account
           /\ job[r].kind \in {"account", "card"}
           /\ job[r].kind = "account" =>
                /\ job[r].id \in Account
                /\ accountRow[job[r].id] \in {None, job[r].vault}
           /\ job[r].kind = "card" =>
                /\ job[r].id \in Card
                /\ cardRow[job[r].id] \in {None, job[r].vault}
                /\ job[r].account \in Account
                /\ accountRow[job[r].account] = job[r].vault
           /\ job[r].stage = "recordUser" =>
                /\ job[r].id \in Card
                /\ cardRow[job[r].id] = job[r].vault
                /\ userCardRow[job[r].id] \in {None, job[r].user}
<1>1. job[r] \in Job /\ JobOK(job[r], reapUserID, accountRow, cardRow, made)
    BY DEF OwnInv, TypeOK, JobsOK
<1>2. /\ job[r].vault \in Vault /\ job[r].user \in UserId
      /\ reapUserID[job[r].vault] = job[r].user
      /\ job[r].id \in IdsOf(job[r].kind) /\ made[job[r].id] = WantedBy(job[r])
      /\ WantedBy(job[r]) \in Request
      /\ job[r].kind \in {"account", "card"}
    BY <1>1 DEF JobOK, Recording, Creating, HasUser, WantedBy, Request
<1>3. made[job[r].id] = Wanted(r) /\ made[job[r].id] # None
    BY <1>2, RequestAssumption DEF Wanted, WantedBy
<1>4. made[job[r].id].user = job[r].user /\ made[job[r].id].account = job[r].account
    BY <1>3 DEF Wanted
<1>5. ASSUME job[r].kind = "account"
      PROVE  job[r].id \in Account /\ accountRow[job[r].id] \in {None, job[r].vault}
  <2>1. job[r].id \in Account
    BY <1>2, <1>5 DEF IdsOf
  <2>2. ASSUME accountRow[job[r].id] # None
        PROVE  accountRow[job[r].id] = job[r].vault
    <3>1. /\ accountRow[job[r].id] \in Vault
          /\ reapUserID[accountRow[job[r].id]] = job[r].user
      BY <1>4, <2>1, <2>2 DEF OwnInv, TypeOK, RowsAreReal
    <3> QED
      BY <1>2, <3>1, OwnershipAssumption DEF OwnInv, OneVaultPerUser
  <2> QED
    BY <2>1, <2>2
<1>6. ASSUME job[r].kind = "card"
      PROVE  job[r].id \in Card /\ cardRow[job[r].id] \in {None, job[r].vault}
  <2>1. job[r].id \in Card
    BY <1>2, <1>6 DEF IdsOf
  <2>2. ASSUME cardRow[job[r].id] # None
        PROVE  cardRow[job[r].id] = job[r].vault
    <3>1. /\ cardRow[job[r].id] \in Vault
          /\ reapUserID[cardRow[job[r].id]] = job[r].user
      BY <1>4, <2>1, <2>2 DEF OwnInv, TypeOK, RowsAreReal
    <3> QED
      BY <1>2, <3>1, OwnershipAssumption DEF OwnInv, OneVaultPerUser
  <2> QED
    BY <2>1, <2>2
<1>7. job[r].kind = "card" =>
        job[r].account \in Account /\ accountRow[job[r].account] = job[r].vault
    BY <1>1 DEF JobOK, Recording, PastChecks, Creating
<1>8. ASSUME job[r].stage = "recordUser"
      PROVE  /\ job[r].id \in Card
             /\ cardRow[job[r].id] = job[r].vault
             /\ userCardRow[job[r].id] \in {None, job[r].user}
  <2>1. job[r].kind = "card" /\ cardRow[job[r].id] = job[r].vault
    BY <1>1, <1>8 DEF JobOK
  <2>2. job[r].id \in Card
    BY <1>6, <2>1
  <2> QED
    BY <1>2, <2>1, <2>2 DEF OwnInv, RowsAreReal
<1> QED
    BY <1>1, <1>2, <1>3, <1>4, <1>5, <1>6, <1>7, <1>8

\* The account row is inserted.
LEMMA AccountRowStep ==
    ASSUME OwnInv, NEW r \in Slot,
           job[r].stage = "record", job[r].kind = "account",
           accountRow' = InsertRow(accountRow, job[r].id, job[r].vault),
           job' = [job EXCEPT ![r] = Idle],
           granted' \in {granted, granted \cup {<<job[r].vault, job[r].id>>}},
           UNCHANGED <<reapUserID, cardRow, userCardRow, reapSide, used>>
    PROVE  OwnInv'
<1> USE DEF reapSide
<1> DEFINE v == job[r].vault
           a == job[r].id
<1>1. /\ v \in Vault /\ a \in Account /\ accountRow[a] \in {None, v}
      /\ made[a] # None /\ made[a].user = reapUserID[v]
    BY ExistingRow DEF Recording
<1>2. accountRow \in [Account -> Vault \cup {None}]
    BY DEF OwnInv, TypeOK
<1>3. accountRow' = [accountRow EXCEPT ![a] = v]
    BY <1>1, <1>2, OwnershipAssumption DEF InsertRow
<1>4. TypeOK'
    BY <1>1, <1>3, IdleFacts DEF OwnInv, TypeOK
<1>5. \A x \in Account : accountRow[x] \in Vault => accountRow'[x] = accountRow[x]
    BY <1>1, <1>2, <1>3, OwnershipAssumption
<1>6. JobsOK'
  <2>1. ASSUME NEW q \in Slot, q # r
        PROVE  JobOK(job[q], reapUserID, accountRow', cardRow, made)
    <3>1. JobOK(job[q], reapUserID, accountRow, cardRow, made)
      BY DEF OwnInv, JobsOK
    <3> QED
      BY <1>5, <3>1, JobGrows
  <2> QED
    BY <2>1, IdleOK DEF OwnInv, TypeOK, JobsOK
<1>7. RowsAreReal'
  <2>1. ASSUME NEW x \in Account, accountRow'[x] # None
        PROVE  made[x] # None /\ made[x].user = reapUserID[accountRow'[x]]
    BY <1>1, <1>2, <1>3, <2>1 DEF OwnInv, RowsAreReal
  <2>2. ASSUME NEW c \in Card, cardRow[c] # None
        PROVE  /\ made[c] # None
               /\ made[c].user = reapUserID[cardRow[c]]
               /\ accountRow'[made[c].account] = cardRow[c]
    <3>1. /\ made[c] # None /\ made[c].user = reapUserID[cardRow[c]]
          /\ accountRow[made[c].account] = cardRow[c] /\ cardRow[c] \in Vault
          /\ made[c].account \in Account
      BY <2>2 DEF OwnInv, TypeOK, RowsAreReal, CardHasAccount
    <3> QED
      BY <1>5, <3>1
  <2> QED
    BY <2>1, <2>2 DEF OwnInv, RowsAreReal
<1>8. GrantedIsOwned'
    BY <1>1, <1>2, <1>3, <1>5, OwnershipAssumption DEF OwnInv, GrantedIsOwned
<1>9. GrantedHasUserRow'
    BY <1>1, OwnershipAssumption DEF OwnInv, GrantedHasUserRow
<1>10. OneVaultPerUser' /\ KeyIsReplayed' /\ CardHasAccount' /\ OnlyOwnerActs'
    BY DEF OwnInv, OneVaultPerUser, KeyIsReplayed, CardHasAccount, OnlyOwnerActs
<1> QED
    BY <1>4, <1>6, <1>7, <1>8, <1>9, <1>10 DEF OwnInv

\* The first row of a card is inserted.
LEMMA CardRowStep ==
    ASSUME OwnInv, NEW r \in Slot, NEW j \in Job,
           job[r].stage = "record", job[r].kind = "card",
           cardRow' = InsertRow(cardRow, job[r].id, job[r].vault),
           job' = [job EXCEPT ![r] = j],
           j = Idle \/ j = [job[r] EXCEPT !.stage = "recordUser"],
           UNCHANGED <<reapUserID, accountRow, userCardRow, reapSide, granted, used>>
    PROVE  OwnInv'
<1> USE DEF reapSide
<1> DEFINE v == job[r].vault
           c == job[r].id
<1>1. /\ v \in Vault /\ c \in Card /\ cardRow[c] \in {None, v}
      /\ made[c] # None /\ made[c].user = reapUserID[v]
      /\ made[c].account \in Account /\ accountRow[made[c].account] = v
    BY ExistingRow DEF Recording
<1>2. cardRow \in [Card -> Vault \cup {None}]
    BY DEF OwnInv, TypeOK
<1>3. cardRow' = [cardRow EXCEPT ![c] = v]
    BY <1>1, <1>2, OwnershipAssumption DEF InsertRow
<1>4. TypeOK'
    BY <1>1, <1>3 DEF OwnInv, TypeOK
<1>5. \A x \in Card : cardRow[x] \in Vault => cardRow'[x] = cardRow[x]
    BY <1>1, <1>2, <1>3, OwnershipAssumption
<1>6. JobsOK'
  <2>1. ASSUME NEW q \in Slot
        PROVE  JobOK(job[q], reapUserID, accountRow, cardRow', made)
    <3>1. JobOK(job[q], reapUserID, accountRow, cardRow, made)
      BY DEF OwnInv, JobsOK
    <3> QED
      BY <1>5, <3>1, JobGrows
  <2>2. JobOK(j, reapUserID, accountRow, cardRow', made)
    <3>1. CASE j = Idle
      BY <3>1, IdleOK
    <3>2. CASE j = [job[r] EXCEPT !.stage = "recordUser"]
      <4>1. job[r] \in Job
        BY DEF OwnInv, TypeOK
      <4>2. /\ j.stage = "recordUser" /\ j.vault = v /\ j.kind = "card" /\ j.id = c
            /\ j.key = job[r].key /\ j.account = job[r].account /\ j.user = job[r].user
        BY <3>2, <4>1 DEF Job
      <4>3. WantedBy(j) = WantedBy(job[r])
        BY <4>2 DEF WantedBy
      <4> QED
        BY <1>1, <1>2, <1>3, <2>1, <4>2, <4>3
           DEF JobOK, Creating, HasUser, PastChecks, Recording
    <3> QED
      BY <3>1, <3>2
  <2> QED
    BY <2>1, <2>2 DEF OwnInv, TypeOK, JobsOK
<1>7. RowsAreReal'
  <2>1. ASSUME NEW x \in Card, cardRow'[x] # None
        PROVE  /\ made[x] # None
               /\ made[x].user = reapUserID[cardRow'[x]]
               /\ accountRow[made[x].account] = cardRow'[x]
    BY <1>1, <1>2, <1>3, <2>1 DEF OwnInv, RowsAreReal
  <2>2. ASSUME NEW x \in Card, userCardRow[x] # None
        PROVE  cardRow'[x] # None /\ userCardRow[x] = reapUserID[cardRow'[x]]
    BY <1>2, <1>5, <2>2, OwnershipAssumption DEF OwnInv, RowsAreReal
  <2> QED
    BY <2>1, <2>2 DEF OwnInv, RowsAreReal
<1>8. GrantedIsOwned' /\ CardHasAccount'
    BY <1>1, <1>2, <1>3, <1>5 DEF OwnInv, GrantedIsOwned, CardHasAccount
<1>9. OneVaultPerUser' /\ KeyIsReplayed' /\ GrantedHasUserRow' /\ OnlyOwnerActs'
    BY DEF OwnInv, OneVaultPerUser, KeyIsReplayed, GrantedHasUserRow, OnlyOwnerActs
<1> QED
    BY <1>4, <1>6, <1>7, <1>8, <1>9 DEF OwnInv

\* The second row of a card is inserted.
LEMMA UserCardRowStep ==
    ASSUME OwnInv, NEW r \in Slot,
           job[r].stage = "recordUser",
           userCardRow' = InsertRow(userCardRow, job[r].id, job[r].user),
           job' = [job EXCEPT ![r] = Idle],
           granted' \in {granted, granted \cup {<<job[r].vault, job[r].id>>}},
           UNCHANGED <<reapUserID, accountRow, cardRow, reapSide, used>>
    PROVE  OwnInv'
<1> USE DEF reapSide
<1> DEFINE v == job[r].vault
           u == job[r].user
           c == job[r].id
<1>1. /\ v \in Vault /\ c \in Card /\ cardRow[c] = v /\ userCardRow[c] \in {None, u}
      /\ u \in UserId /\ reapUserID[v] = u
    BY ExistingRow DEF Recording
<1>2. userCardRow \in [Card -> UserId \cup {None}]
    BY DEF OwnInv, TypeOK
<1>3. userCardRow' = [userCardRow EXCEPT ![c] = u]
    BY <1>1, <1>2, OwnershipAssumption DEF InsertRow
<1>4. TypeOK'
    BY <1>1, <1>3, IdleFacts DEF OwnInv, TypeOK
<1>5. JobsOK'
    BY IdleOK DEF OwnInv, TypeOK, JobsOK
<1>6. RowsAreReal'
  <2>1. ASSUME NEW x \in Card, userCardRow'[x] # None
        PROVE  cardRow[x] # None /\ userCardRow'[x] = reapUserID[cardRow[x]]
    BY <1>1, <1>2, <1>3, <2>1, OwnershipAssumption DEF OwnInv, RowsAreReal
  <2> QED
    BY <2>1 DEF OwnInv, RowsAreReal
<1>7. GrantedIsOwned' /\ GrantedHasUserRow'
  <2>1. ASSUME NEW w \in Vault, NEW x \in Card, <<w, x>> \in granted'
        PROVE  /\ cardRow[x] = w /\ userCardRow'[x] = reapUserID[w]
               /\ userCardRow'[x] \in UserId
    <3>1. CASE x = c
      BY <1>1, <1>2, <1>3, <2>1, <3>1 DEF OwnInv, GrantedIsOwned
    <3>2. CASE x # c
      BY <1>1, <1>2, <1>3, <2>1, <3>2 DEF OwnInv, GrantedIsOwned, GrantedHasUserRow
    <3> QED
      BY <3>1, <3>2
  <2>2. ASSUME NEW w \in Vault, NEW x \in Account, <<w, x>> \in granted'
        PROVE  accountRow[x] = w
    BY <1>1, <2>2, OwnershipAssumption DEF OwnInv, GrantedIsOwned
  <2> QED
    BY <2>1, <2>2 DEF GrantedIsOwned, GrantedHasUserRow
<1>8. OneVaultPerUser' /\ KeyIsReplayed' /\ CardHasAccount' /\ OnlyOwnerActs'
    BY DEF OwnInv, OneVaultPerUser, KeyIsReplayed, CardHasAccount, OnlyOwnerActs
<1> QED
    BY <1>4, <1>5, <1>6, <1>7, <1>8 DEF OwnInv

-----------------------------------------------------------------------------

\* Binding a user to a vault that had none changes nothing any row or request
\* relies on.
LEMMA BindStep ==
    ASSUME OwnInv, BindUser
    PROVE  OwnInv'
<1> USE OwnershipAssumption DEF BindUser, rows, reapSide
<1> PICK v \in Vault, u \in UserId : VU!Bind(v, u)
    BY DEF VU!Next
<1> USE DEF VU!Bind
<1>1. TypeOK'
    BY DEF OwnInv, TypeOK
<1>2. \A w \in Vault : reapUserID[w] \in UserId => reapUserID'[w] = reapUserID[w]
    BY DEF OwnInv, TypeOK
<1>3. OneVaultPerUser'
    BY DEF OwnInv, TypeOK, OneVaultPerUser
<1>4. JobsOK'
  <2>1. ASSUME NEW q \in Slot
        PROVE  JobOK(job[q], reapUserID', accountRow, cardRow, made)
    <3>1. JobOK(job[q], reapUserID, accountRow, cardRow, made)
      BY DEF OwnInv, JobsOK
    <3> QED
      BY <1>2, <3>1, JobGrows
  <2> QED
    BY <2>1 DEF JobsOK
<1>5. RowsAreReal'
  <2>1. ASSUME NEW a \in Account, accountRow[a] # None
        PROVE  made[a] # None /\ made[a].user = reapUserID'[accountRow[a]]
    BY <1>2, <2>1, MadeType DEF OwnInv, TypeOK, RowsAreReal
  <2>2. ASSUME NEW c \in Card, cardRow[c] # None
        PROVE  made[c] # None /\ made[c].user = reapUserID'[cardRow[c]]
    BY <1>2, <2>2, MadeType DEF OwnInv, TypeOK, RowsAreReal
  <2>3. ASSUME NEW c \in Card, userCardRow[c] # None
        PROVE  cardRow[c] # None /\ userCardRow[c] = reapUserID'[cardRow[c]]
    BY <1>2, <2>3 DEF OwnInv, TypeOK, RowsAreReal
  <2> QED
    BY <2>1, <2>2, <2>3 DEF OwnInv, RowsAreReal
<1>6. GrantedIsOwned'
    BY <1>2 DEF OwnInv, GrantedIsOwned, GrantedHasUserRow
<1>7. OnlyOwnerActs'
    BY <1>2, MadeType DEF OwnInv, OnlyOwnerActs
<1>8. KeyIsReplayed' /\ CardHasAccount' /\ GrantedHasUserRow'
    BY DEF OwnInv, KeyIsReplayed, CardHasAccount, GrantedHasUserRow
<1> QED
    BY <1>1, <1>3, <1>4, <1>5, <1>6, <1>7, <1>8 DEF OwnInv

\* A request comes in.
LEMMA AskStep ==
    ASSUME OwnInv, NEW r \in Slot, NEW v \in Vault,
           \/ \E k \in Key : AskAccount(r, v, k)
           \/ \E k \in Key, a \in Account : AskCard(r, v, k, a)
           \/ \E c \in Card : AskUse(r, v, c)
    PROVE  OwnInv'
<1> USE DEF Idle, Job, Stage, JobOK, Creating, HasUser, PastChecks, Recording
<1>1. ASSUME NEW k \in Key, AskAccount(r, v, k)
      PROVE  OwnInv'
  <2> DEFINE j == [Idle EXCEPT !.stage = "user", !.kind = "account",
                               !.vault = v, !.key = k]
  <2>1. j \in Job /\ JobOK(j, reapUserID, accountRow, cardRow, made)
    OBVIOUS
  <2>2. job' = [job EXCEPT ![r] = j]
        /\ UNCHANGED <<reapUserID, rows, reapSide, granted, used>>
    BY <1>1 DEF AskAccount
  <2> HIDE DEF j, Job, JobOK
  <2> QED
    BY <2>1, <2>2, JobStep
<1>2. ASSUME NEW k \in Key, NEW a \in Account, AskCard(r, v, k, a)
      PROVE  OwnInv'
  <2> DEFINE j == [Idle EXCEPT !.stage = "user", !.kind = "card",
                               !.vault = v, !.key = k, !.account = a]
  <2>1. j \in Job /\ JobOK(j, reapUserID, accountRow, cardRow, made)
    OBVIOUS
  <2>2. job' = [job EXCEPT ![r] = j]
        /\ UNCHANGED <<reapUserID, rows, reapSide, granted, used>>
    BY <1>2 DEF AskCard
  <2> HIDE DEF j, Job, JobOK
  <2> QED
    BY <2>1, <2>2, JobStep
<1>3. ASSUME NEW c \in Card, AskUse(r, v, c)
      PROVE  OwnInv'
  <2> DEFINE j == [Idle EXCEPT !.stage = "check", !.vault = v, !.id = c]
  <2>1. j \in Job /\ JobOK(j, reapUserID, accountRow, cardRow, made)
    OBVIOUS
  <2>2. job' = [job EXCEPT ![r] = j]
        /\ UNCHANGED <<reapUserID, rows, reapSide, granted, used>>
    BY <1>3 DEF AskUse
  <2> HIDE DEF j, Job, JobOK
  <2> QED
    BY <2>1, <2>2, JobStep
<1> QED
    BY <1>1, <1>2, <1>3

\* The user is resolved, or a check passes.
LEMMA CheckStep ==
    ASSUME OwnInv, NEW r \in Slot,
           ResolveUser(r) \/ CheckAccount(r) \/ CheckCard(r)
    PROVE  OwnInv'
<1>1. /\ job \in [Slot -> Job] /\ job[r] \in Job
      /\ reapUserID \in [Vault -> UserId \cup {NoUser}]
      /\ JobOK(job[r], reapUserID, accountRow, cardRow, made)
    BY DEF OwnInv, TypeOK, JobsOK
<1> USE DEF JobOK, Creating, HasUser, PastChecks, Recording
<1>2. CASE ResolveUser(r)
  <2> DEFINE u == reapUserID[job[r].vault]
             stage == IF job[r].kind = "card" THEN "owner" ELSE "reap"
             j == [job[r] EXCEPT !.user = u, !.stage = stage]
  <2>1. job' = [job EXCEPT ![r] = j]
        /\ UNCHANGED <<reapUserID, rows, reapSide, granted, used>>
    BY <1>1, <1>2 DEF ResolveUser
  <2>2. u \in UserId /\ job[r].stage = "user" /\ job[r].vault \in Vault
    BY <1>1, <1>2 DEF ResolveUser
  <2>3. /\ j.vault = job[r].vault /\ j.kind = job[r].kind /\ j.key = job[r].key
        /\ j.account = job[r].account /\ j.user = u /\ j.id = job[r].id
        /\ j.stage = stage
    BY <1>1 DEF Job
  <2>4. j \in Job
    BY <1>1, <2>2 DEF Job, Stage
  <2>5. JobOK(j, reapUserID, accountRow, cardRow, made)
    BY <1>1, <2>2, <2>3
  <2> HIDE DEF j, JobOK
  <2> QED
    BY <2>1, <2>4, <2>5, JobStep
<1>3. CASE CheckAccount(r)
  <2> DEFINE j == [job[r] EXCEPT !.stage = "reap"]
  <2>1. job' = [job EXCEPT ![r] = j]
        /\ UNCHANGED <<reapUserID, rows, reapSide, granted, used>>
    BY <1>1, <1>3 DEF CheckAccount, GoTo
  <2>2. /\ j.vault = job[r].vault /\ j.kind = job[r].kind /\ j.key = job[r].key
        /\ j.account = job[r].account /\ j.user = job[r].user /\ j.id = job[r].id
        /\ j.stage = "reap" /\ j \in Job
    BY <1>1 DEF Job, Stage
  <2>3. JobOK(j, reapUserID, accountRow, cardRow, made)
    BY <1>1, <1>3, <2>2 DEF CheckAccount
  <2> HIDE DEF j, JobOK
  <2> QED
    BY <2>1, <2>2, <2>3, JobStep
<1>4. CASE CheckCard(r)
  <2> DEFINE j == [job[r] EXCEPT !.stage = "act"]
  <2>1. job' = [job EXCEPT ![r] = j]
        /\ UNCHANGED <<reapUserID, rows, reapSide, granted, used>>
    BY <1>1, <1>4 DEF CheckCard, GoTo
  <2>2. /\ j.vault = job[r].vault /\ j.id = job[r].id /\ j.stage = "act" /\ j \in Job
    BY <1>1 DEF Job, Stage
  <2>3. JobOK(j, reapUserID, accountRow, cardRow, made)
    BY <1>1, <1>4, <2>2 DEF CheckCard
  <2> HIDE DEF j, JobOK
  <2> QED
    BY <2>1, <2>2, <2>3, JobStep
<1> QED
    BY <1>2, <1>3, <1>4

\* REAP answers a create.
LEMMA AnswerStep ==
    ASSUME OwnInv, NEW r \in Slot, NEW i \in Account \cup Card, ReapAnswers(r, i)
    PROVE  OwnInv'
<1> DEFINE j == [job[r] EXCEPT !.id = i, !.stage = "record"]
<1>1. /\ job \in [Slot -> Job] /\ job[r] \in Job
      /\ made \in [Account \cup Card -> Request \cup {None}]
      /\ JobOK(job[r], reapUserID, accountRow, cardRow, made)
    BY DEF OwnInv, TypeOK, JobsOK
<1>2. job' = [job EXCEPT ![r] = j] /\ UNCHANGED <<reapUserID, rows, granted, used>>
    BY <1>1 DEF ReapAnswers
<1>3. /\ j.vault = job[r].vault /\ j.kind = job[r].kind /\ j.key = job[r].key
      /\ j.account = job[r].account /\ j.user = job[r].user /\ j.id = i
      /\ j.stage = "record" /\ j \in Job
    BY <1>1 DEF Job, Stage
<1>4. i \in IdsOf(job[r].kind) /\ made'[i] = WantedBy(j)
    BY <1>1, <1>3 DEF ReapAnswers, ReapServes, reapSide, Wanted, WantedBy
<1>5. JobOK(j, reapUserID, accountRow, cardRow, made')
    BY <1>1, <1>3, <1>4 DEF ReapAnswers, JobOK, Creating, HasUser, PastChecks, Recording
<1> HIDE DEF j
<1> QED
    BY <1>2, <1>3, <1>5, ReapStep DEF ReapAnswers

\* A request ends without a row: refused, failed or lost with the server.
LEMMA EndStep ==
    ASSUME OwnInv, NEW r \in Slot, GiveUp(r) \/ ReapFails(r) \/ Crash(r)
    PROVE  OwnInv'
<1>1. job' = [job EXCEPT ![r] = Idle] /\ UNCHANGED <<reapUserID, rows, granted, used>>
    BY DEF GiveUp, ReapFails, Crash, Done
<1>2. CASE UNCHANGED reapSide
    BY <1>1, <1>2, IdleFacts, IdleOK, JobStep
<1>3. ASSUME NEW i \in Account \cup Card, ReapServes(r, i), job[r].stage = "reap"
      PROVE  OwnInv'
    BY <1>1, <1>3, IdleFacts, IdleOK, ReapStep
<1> QED
    BY <1>2, <1>3 DEF GiveUp, ReapFails, Crash

\* A row is written, or the writing fails.
LEMMA RecordStep ==
    ASSUME OwnInv, NEW r \in Slot,
           RecordAccount(r) \/ RecordCard(r) \/ RecordUserCard(r) \/ RecordFails(r)
    PROVE  OwnInv'
<1>1. job \in [Slot -> Job] /\ job[r] \in Job
    BY DEF OwnInv, TypeOK
<1>2. CASE RecordAccount(r)
    BY <1>2, AccountRowStep DEF RecordAccount, Done
<1>3. CASE RecordCard(r)
  <2> DEFINE j == [job[r] EXCEPT !.stage = "recordUser"]
  <2>1. j \in Job
    BY <1>1 DEF Job, Stage
  <2>2. job' = [job EXCEPT ![r] = j]
    BY <1>1, <1>3 DEF RecordCard, GoTo
  <2> QED
    BY <1>3, <2>1, <2>2, CardRowStep DEF RecordCard
<1>4. CASE RecordUserCard(r)
    BY <1>4, UserCardRowStep DEF RecordUserCard, Done
<1>5. CASE RecordFails(r)
  <2> USE <1>5 DEF RecordFails, Done
  <2>1. CASE UNCHANGED rows
    BY <2>1, IdleFacts, IdleOK, JobStep
  <2>2. CASE /\ job[r].stage = "record" /\ job[r].kind = "account"
             /\ accountRow' = InsertRow(accountRow, job[r].id, job[r].vault)
             /\ UNCHANGED <<cardRow, userCardRow>>
    BY <2>2, AccountRowStep
  <2>3. CASE /\ job[r].stage = "record" /\ job[r].kind = "card"
             /\ cardRow' = InsertRow(cardRow, job[r].id, job[r].vault)
             /\ UNCHANGED <<accountRow, userCardRow>>
    BY <2>3, IdleFacts, CardRowStep
  <2>4. CASE /\ job[r].stage = "recordUser"
             /\ userCardRow' = InsertRow(userCardRow, job[r].id, job[r].user)
             /\ UNCHANGED <<accountRow, cardRow>>
    BY <2>4, UserCardRowStep
  <2> QED
    BY <2>1, <2>2, <2>3, <2>4
<1> QED
    BY <1>2, <1>3, <1>4, <1>5

\* A card operation reaches REAP: the row the check saw is still there.
LEMMA ActStep ==
    ASSUME OwnInv, NEW r \in Slot, ActOnCard(r)
    PROVE  OwnInv'
<1> USE DEF ActOnCard, Done, rows, reapSide
<1>1. job[r].vault \in Vault /\ job[r].id \in Card /\ cardRow[job[r].id] = job[r].vault
    BY DEF OwnInv, JobsOK, JobOK
<1>2. TypeOK'
    BY <1>1, IdleFacts DEF OwnInv, TypeOK
<1>3. JobsOK'
    BY IdleOK DEF OwnInv, TypeOK, JobsOK
<1>4. OnlyOwnerActs'
    BY <1>1, OwnershipAssumption DEF OwnInv, OnlyOwnerActs, RowsAreReal
<1>5. OneVaultPerUser' /\ KeyIsReplayed' /\ RowsAreReal' /\ CardHasAccount'
    BY DEF OwnInv, OneVaultPerUser, KeyIsReplayed, RowsAreReal, CardHasAccount
<1>6. GrantedIsOwned' /\ GrantedHasUserRow'
    BY DEF OwnInv, GrantedIsOwned, GrantedHasUserRow
<1> QED
    BY <1>2, <1>3, <1>4, <1>5, <1>6 DEF OwnInv

\* Every step preserves the invariant.
LEMMA OwnStep == OwnInv /\ [Next]_vars => OwnInv'
<1> SUFFICES ASSUME OwnInv, [Next]_vars PROVE OwnInv'
    OBVIOUS
<1>1. CASE BindUser
    BY <1>1, BindStep
<1>2. ASSUME NEW r \in Slot,
             \/ \E v \in Vault, k \in Key : AskAccount(r, v, k)
             \/ \E v \in Vault, k \in Key, a \in Account : AskCard(r, v, k, a)
             \/ \E v \in Vault, c \in Card : AskUse(r, v, c)
      PROVE  OwnInv'
    BY <1>2, AskStep
<1>3. ASSUME NEW r \in Slot, Step(r)
      PROVE  OwnInv'
    BY <1>3, CheckStep, AnswerStep, EndStep, RecordStep, ActStep DEF Step
<1>4. ASSUME NEW r \in Slot, Crash(r)
      PROVE  OwnInv'
    BY <1>4, EndStep
<1>5. CASE UNCHANGED vars
  <2> USE <1>5 DEF vars, rows, reapSide
  <2>1. TypeOK' /\ OneVaultPerUser' /\ JobsOK' /\ KeyIsReplayed'
    BY DEF OwnInv, TypeOK, OneVaultPerUser, JobsOK, KeyIsReplayed
  <2>2. RowsAreReal' /\ CardHasAccount' /\ GrantedIsOwned'
    BY DEF OwnInv, RowsAreReal, CardHasAccount, GrantedIsOwned
  <2>3. GrantedHasUserRow' /\ OnlyOwnerActs'
    BY DEF OwnInv, GrantedHasUserRow, OnlyOwnerActs
  <2> QED
    BY <2>1, <2>2, <2>3 DEF OwnInv
<1> QED
    BY <1>1, <1>2, <1>3, <1>4, <1>5 DEF Next

-----------------------------------------------------------------------------

\* Every reachable state is well typed.
THEOREM TypeCorrect == Spec => []TypeOK
<1>1. OwnInv => TypeOK
    BY DEF OwnInv
<1> QED
    BY <1>1, OwnInit, OwnStep, PTL DEF Spec

\* The ownership rows CreateAccount and CreateCard write agree with REAP and
\* with each other, whatever fails between the two INSERTs of a card.
THEOREM RowsTellTheTruth == Spec => []RowsAreReal
<1>1. OwnInv => RowsAreReal
    BY DEF OwnInv
<1> QED
    BY <1>1, OwnInit, OwnStep, PTL DEF Spec

\* A create that is answered with a 2xx is recorded for its vault, also when
\* it is a retry of one that failed half way.
THEOREM GrantedMeansOwned == Spec => []GrantedIsOwned
<1>1. OwnInv => GrantedIsOwned
    BY DEF OwnInv
<1> QED
    BY <1>1, OwnInit, OwnStep, PTL DEF Spec

\* CardService's check before the REAP call is enough: nothing invalidates it
\* before the call is made.
THEOREM OnlyOwnersAct == Spec => []OnlyOwnerActs
<1>1. OwnInv => OnlyOwnerActs
    BY DEF OwnInv
<1> QED
    BY <1>1, OwnInit, OwnStep, PTL DEF Spec

\* Passing the client's Idempotency-Key on as it is makes retries harmless.
THEOREM KeyMakesOne == Spec => []OneResourcePerKey
<1>1. OwnInv => OneResourcePerKey
    BY DEF OwnInv, KeyIsReplayed, OneResourcePerKey
<1> QED
    BY <1>1, OwnInit, OwnStep, PTL DEF Spec
-----------------------------------------------------------------------------
(* The composition, I: its steps are steps of Ownership.                   *)

\* What the REST handlers do in the composition they do in Ownership too.
LEMMA RestIsOwnership == [BackendNext]_backendVars => [Next]_vars
<1> SUFFICES ASSUME [BackendNext]_backendVars PROVE [Next]_vars
  OBVIOUS
<1>1. CASE RestStep
  BY <1>1, Zenon DEF RestStep, Next
<1>2. CASE UNCHANGED vars
  BY <1>2
<1> QED BY <1>1, <1>2 DEF BackendNext, EmitMade, WebhookStep, backendVars

\* Foretold is a matter of the REST handlers and REAP.
LEMMA ForetoldInit == OwnershipAssumption /\ BackendInit => Foretold
BY DEF BackendInit, Init, VU!Init, Foretold

LEMMA ForetoldStep == Foretold /\ [BackendNext]_backendVars => Foretold'
<1> SUFFICES ASSUME Foretold, [BackendNext]_backendVars PROVE Foretold'
  OBVIOUS
<1>1. CASE UNCHANGED vars
  BY <1>1 DEF vars, reapSide, Foretold
<1> QED
  BY <1>1 DEF BackendNext, RestStep, EmitMade, WebhookStep, backendVars

-----------------------------------------------------------------------------
(* The composition, II: the table resolveVault reads.                      *)

\* ownerRow, from the columns it is made of.
Table(mapping, accounts, cards) ==
    [kind \in {"card", "account", "user"} |-> [id \in Id |->
        CASE kind = "card" /\ id \in Card       -> cards[id]
          [] kind = "account" /\ id \in Account -> accounts[id]
          [] kind = "user" /\ id \in UserId /\ (\E v \in Vault : mapping[v] = id)
                -> CHOOSE v \in Vault : mapping[v] = id
          [] OTHER -> None]]

LEMMA OwnerRowIsTable ==
    /\ ownerRow = Table(reapUserID, accountRow, cardRow)
    /\ ownerRow' = Table(reapUserID', accountRow', cardRow')
BY DEF ownerRow, Table

\* The entries of the table.  GetPublicKeyByReapUserID finds the one vault.
LEMMA TableEntries ==
    ASSUME NEW m, NEW ar, NEW cr,
           \A v, w \in Vault : m[v] = m[w] /\ m[v] # NoUser => v = w
    PROVE  /\ \A c \in Card : Table(m, ar, cr)["card"][c] = cr[c]
           /\ \A a \in Account : Table(m, ar, cr)["account"][a] = ar[a]
           /\ \A v \in Vault : m[v] \in UserId => Table(m, ar, cr)["user"][m[v]] = v
           /\ \A u \in UserId : (\A v \in Vault : m[v] # u)
                => Table(m, ar, cr)["user"][u] = None
           /\ \A i \in Id : /\ i \notin Card => Table(m, ar, cr)["card"][i] = None
                            /\ i \notin Account => Table(m, ar, cr)["account"][i] = None
                            /\ i \notin UserId => Table(m, ar, cr)["user"][i] = None
<1> USE DEF Table, Id
<1>1. \A c \in Card : Table(m, ar, cr)["card"][c] = cr[c]
  OBVIOUS
<1>2. \A a \in Account : Table(m, ar, cr)["account"][a] = ar[a]
  OBVIOUS
<1>3. ASSUME NEW v \in Vault, m[v] \in UserId
      PROVE  Table(m, ar, cr)["user"][m[v]] = v
  <2>1. \A w \in Vault : m[w] = m[v] => w = v
    BY <1>3, OwnershipAssumption
  <2>2. (CHOOSE w \in Vault : m[w] = m[v]) = v
    BY <2>1
  <2>3. Table(m, ar, cr)["user"][m[v]] = CHOOSE w \in Vault : m[w] = m[v]
    BY <1>3
  <2> QED BY <2>2, <2>3
<1>4. ASSUME NEW u \in UserId, \A v \in Vault : m[v] # u
      PROVE  Table(m, ar, cr)["user"][u] = None
  BY <1>4
<1>5. ASSUME NEW i \in Id
      PROVE  /\ i \notin Card => Table(m, ar, cr)["card"][i] = None
             /\ i \notin Account => Table(m, ar, cr)["account"][i] = None
             /\ i \notin UserId => Table(m, ar, cr)["user"][i] = None
  OBVIOUS
<1> QED BY <1>1, <1>2, <1>3, <1>4, <1>5

LEMMA TableIsFunction ==
    ASSUME NEW m, NEW ar, NEW cr
    PROVE  Table(m, ar, cr) = [k \in {"card", "account", "user"} |->
                                [i \in Id |-> Table(m, ar, cr)[k][i]]]
<1> DEFINE cell(k, i) ==
        CASE k = "card" /\ i \in Card       -> cr[i]
          [] k = "account" /\ i \in Account -> ar[i]
          [] k = "user" /\ i \in UserId /\ (\E v \in Vault : m[v] = i)
                -> CHOOSE v \in Vault : m[v] = i
          [] OTHER -> None
<1>1. Table(m, ar, cr) = [k \in {"card", "account", "user"} |-> [i \in Id |-> cell(k, i)]]
  BY DEF Table
<1> HIDE DEF cell
<1> QED BY <1>1

\* A table that differs from another in one entry.
LEMMA TableChanged ==
    ASSUME NEW m, NEW ar, NEW cr, NEW mm, NEW aa, NEW cc,
           NEW kind \in {"card", "account", "user"}, NEW id \in Id, NEW o,
           \A k \in {"card", "account", "user"}, i \in Id :
              Table(mm, aa, cc)[k][i] =
                IF k = kind /\ i = id THEN o ELSE Table(m, ar, cr)[k][i]
    PROVE  Table(mm, aa, cc) = [Table(m, ar, cr) EXCEPT ![kind][id] = o]
<1> DEFINE t == Table(m, ar, cr)
           tt == Table(mm, aa, cc)
           K == {"card", "account", "user"}
<1>1. t = [k \in K |-> [i \in Id |-> t[k][i]]] /\ tt = [k \in K |-> [i \in Id |-> tt[k][i]]]
  BY TableIsFunction
<1>2. \A k \in K, i \in Id : tt[k][i] = IF k = kind /\ i = id THEN o ELSE t[k][i]
  OBVIOUS
<1> HIDE DEF t, tt
<1>3. [t EXCEPT ![kind][id] = o]
        = [k \in K |-> [i \in Id |-> IF k = kind /\ i = id THEN o ELSE t[k][i]]]
  BY <1>1
<1>4. tt = [k \in K |-> [i \in Id |-> IF k = kind /\ i = id THEN o ELSE t[k][i]]]
  BY <1>1, <1>2
<1> QED BY <1>3, <1>4 DEF t, tt

-----------------------------------------------------------------------------
(* The composition, III: its steps are steps of Webhook.                   *)

\* A resource is recorded for the vault foretold: REAP made it for that
\* vault's user, and the request that records it is of the same user's vault.
LEMMA RecordedAsForetold ==
    ASSUME OwnInv, Foretold, NEW r \in Slot,
           job[r].stage \in {"record", "recordUser"}
    PROVE  /\ job[r].kind = "account" => OwnerIn["account"][job[r].id] = job[r].vault
           /\ job[r].kind = "card" => OwnerIn["card"][job[r].id] = job[r].vault
           /\ job[r].id \in IdsOf(job[r].kind) /\ job[r].vault \in Vault
<1> DEFINE i == job[r].id
           v == job[r].vault
<1>1. /\ JobOK(job[r], reapUserID, accountRow, cardRow, made)
      /\ job[r].kind \in {"account", "card"}
  BY DEF OwnInv, JobsOK, JobOK, Creating
<1>2. /\ v \in Vault /\ reapUserID[v] \in UserId /\ reapUserID[v] = job[r].user
      /\ i \in IdsOf(job[r].kind) /\ made[i] = WantedBy(job[r])
  BY <1>1 DEF JobOK, HasUser, Recording
<1>3. made[i] # None /\ made[i].user = reapUserID[v]
  <2>1. WantedBy(job[r]) \in Request
    BY <1>1 DEF JobOK, Recording, Creating, HasUser, WantedBy, Request
  <2> QED BY <1>2, <2>1, RequestAssumption DEF WantedBy
<1>4. ASSUME NEW w \in Vault, reapUserID[w] = reapUserID[v] PROVE w = v
  BY <1>2, <1>4, OwnershipAssumption DEF OwnInv, OneVaultPerUser
<1>5. CASE job[r].kind = "account"
  <2>1. i \in Account /\ OwnerIn["account"][i] \in Vault
    BY <1>2, <1>5, BackendAssumption DEF IdsOf, Id
  <2>2. reapUserID[OwnerIn["account"][i]] = reapUserID[v]
    BY <1>3, <2>1 DEF Foretold
  <2> QED BY <1>2, <1>4, <1>5, <2>1, <2>2
<1>6. CASE job[r].kind = "card"
  <2>1. i \in Card /\ OwnerIn["card"][i] \in Vault
    BY <1>2, <1>6, BackendAssumption DEF IdsOf, Id
  <2>2. reapUserID[OwnerIn["card"][i]] = reapUserID[v]
    BY <1>3, <2>1 DEF Foretold
  <2> QED BY <1>2, <1>4, <1>6, <2>1, <2>2
<1> QED BY <1>1, <1>5, <1>6

\* What a step of the handlers does to the three tables.
LEMMA RowChanges ==
    ASSUME NEW r \in Slot,
           \/ \E v \in Vault, k \in Key : AskAccount(r, v, k)
           \/ \E v \in Vault, k \in Key, a \in Account : AskCard(r, v, k, a)
           \/ Step(r)
           \/ Crash(r)
    PROVE  /\ reapUserID' = reapUserID
           /\ \/ UNCHANGED <<accountRow, cardRow>>
              \/ /\ job[r].stage = "record" /\ job[r].kind = "account"
                 /\ accountRow' = InsertRow(accountRow, job[r].id, job[r].vault)
                 /\ cardRow' = cardRow
              \/ /\ job[r].stage = "record" /\ job[r].kind = "card"
                 /\ cardRow' = InsertRow(cardRow, job[r].id, job[r].vault)
                 /\ accountRow' = accountRow
<1> USE DEF rows
<1>1. CASE \/ \E v \in Vault, k \in Key : AskAccount(r, v, k)
           \/ \E v \in Vault, k \in Key, a \in Account : AskCard(r, v, k, a)
           \/ Crash(r)
  BY <1>1 DEF AskAccount, AskCard, Crash
<1>2. CASE ResolveUser(r) \/ CheckAccount(r) \/ CheckCard(r) \/ GiveUp(r)
  BY <1>2 DEF ResolveUser, CheckAccount, CheckCard, GiveUp
<1>3. CASE (\E i \in Account \cup Card : ReapAnswers(r, i)) \/ ReapFails(r) \/ ActOnCard(r)
  BY <1>3 DEF ReapAnswers, ReapFails, ActOnCard
<1>4. CASE RecordAccount(r) \/ RecordCard(r) \/ RecordUserCard(r)
  BY <1>4 DEF RecordAccount, RecordCard, RecordUserCard
<1>5. CASE RecordFails(r)
  BY <1>5 DEF RecordFails
<1> QED BY <1>1, <1>2, <1>3, <1>4, <1>5 DEF Step

\* The handlers' steps leave resolveVault's table as it is, or fill one entry
\* of it as foretold.
LEMMA RestFillsTable ==
    ASSUME OwnInv, Foretold, RestStep
    PROVE  \/ UNCHANGED <<accountRow, cardRow, reapUserID>>
           \/ \E kind \in {"card", "account", "user"}, id \in Id :
                /\ ownerRow[kind][id] = None
                /\ ownerRow' = [ownerRow EXCEPT ![kind][id] = OwnerIn[kind][id]]
<1> DEFINE K == {"card", "account", "user"}
           t == Table(reapUserID, accountRow, cardRow)
           tt == Table(reapUserID', accountRow', cardRow')
<1>1. \A v, w \in Vault : reapUserID[v] = reapUserID[w] /\ reapUserID[v] # NoUser => v = w
  BY DEF OwnInv, OneVaultPerUser
<1>2. /\ reapUserID \in [Vault -> UserId \cup {NoUser}]
      /\ accountRow \in [Account -> Vault \cup {None}]
      /\ cardRow \in [Card -> Vault \cup {None}]
  BY DEF OwnInv, TypeOK
<1>3. ownerRow = t /\ ownerRow' = tt
  BY OwnerRowIsTable
<1>4. CASE BindUser
  <2> PICK v \in Vault, u \in UserId : VU!Bind(v, u)
    BY <1>4 DEF BindUser, VU!Next
  <2>1. /\ reapUserID[v] = NoUser /\ \A w \in Vault : reapUserID[w] # u
        /\ reapUserID' = [reapUserID EXCEPT ![v] = u]
        /\ accountRow' = accountRow /\ cardRow' = cardRow
    BY <1>4 DEF BindUser, VU!Bind, rows
  <2>2. u \in Id /\ OwnerIn["user"][u] = v
    <3>1. reapUserID'[v] = u
      BY <1>2, <2>1
    <3> QED BY <3>1, OwnershipAssumption DEF RestStep, Foretold, Id
  <2>3. \A w, x \in Vault :
            reapUserID'[w] = reapUserID'[x] /\ reapUserID'[w] # NoUser => w = x
    BY <1>1, <1>2, <2>1
  <2>4. t["user"][u] = None
    BY <1>1, <2>1, TableEntries
  <2>5. ASSUME NEW k \in K, NEW i \in Id
        PROVE  tt[k][i] = IF k = "user" /\ i = u THEN v ELSE t[k][i]
    <3>1. CASE k = "card"
      <4>1. CASE i \in Card
        <5>1. t["card"][i] = cardRow[i]
          BY <1>1, <4>1, TableEntries
        <5>2. tt["card"][i] = cardRow'[i]
          BY <2>3, <4>1, TableEntries
        <5> QED BY <2>1, <3>1, <5>1, <5>2
      <4>2. CASE i \notin Card
        <5>1. t["card"][i] = None
          BY <1>1, <4>2, TableEntries
        <5>2. tt["card"][i] = None
          BY <2>3, <4>2, TableEntries
        <5> QED BY <3>1, <5>1, <5>2
      <4> QED BY <4>1, <4>2
    <3>2. CASE k = "account"
      <4>1. CASE i \in Account
        <5>1. t["account"][i] = accountRow[i]
          BY <1>1, <4>1, TableEntries
        <5>2. tt["account"][i] = accountRow'[i]
          BY <2>3, <4>1, TableEntries
        <5> QED BY <2>1, <3>2, <5>1, <5>2
      <4>2. CASE i \notin Account
        <5>1. t["account"][i] = None
          BY <1>1, <4>2, TableEntries
        <5>2. tt["account"][i] = None
          BY <2>3, <4>2, TableEntries
        <5> QED BY <3>2, <5>1, <5>2
      <4> QED BY <4>1, <4>2
    <3>3. CASE k = "user" /\ i = u
      <4>1. reapUserID'[v] = u
        BY <1>2, <2>1
      <4> QED BY <2>3, <3>3, <4>1, TableEntries
    <3>4. CASE k = "user" /\ i # u /\ i \notin UserId
      BY <1>1, <2>3, <3>4, TableEntries
    <3>5. CASE k = "user" /\ i # u /\ i \in UserId
      <4>1. CASE \E w \in Vault : reapUserID[w] = i
        <5> PICK w \in Vault : reapUserID[w] = i
          BY <4>1
        <5>1. reapUserID'[w] = i
          BY <1>2, <2>1, <3>5, OwnershipAssumption
        <5>2. t["user"][i] = w
          BY <1>1, <3>5, TableEntries
        <5>3. tt["user"][i] = w
          BY <2>3, <3>5, <5>1, TableEntries
        <5> QED BY <3>5, <5>2, <5>3
      <4>2. CASE \A w \in Vault : reapUserID[w] # i
        <5>1. \A w \in Vault : reapUserID'[w] # i
          BY <1>2, <2>1, <3>5, <4>2
        <5>2. t["user"][i] = None
          BY <1>1, <3>5, <4>2, TableEntries
        <5>3. tt["user"][i] = None
          BY <2>3, <3>5, <5>1, TableEntries
        <5> QED BY <3>5, <5>2, <5>3
      <4> QED BY <4>1, <4>2
    <3> QED BY <3>1, <3>2, <3>3, <3>4, <3>5
  <2> HIDE DEF t, tt
  <2>6. tt = [t EXCEPT !["user"][u] = v]
    BY <2>2, <2>5, TableChanged DEF t, tt
  <2> QED BY <1>3, <2>2, <2>4, <2>6
<1>5. ASSUME NEW r \in Slot,
             \/ \E v \in Vault, k \in Key : AskAccount(r, v, k)
             \/ \E v \in Vault, k \in Key, a \in Account : AskCard(r, v, k, a)
             \/ Step(r)
             \/ Crash(r)
      PROVE  \/ UNCHANGED <<accountRow, cardRow, reapUserID>>
             \/ \E kind \in K, id \in Id :
                  /\ ownerRow[kind][id] = None
                  /\ ownerRow' = [ownerRow EXCEPT ![kind][id] = OwnerIn[kind][id]]
  <2> DEFINE i == job[r].id
             v == job[r].vault
  <2>1. reapUserID' = reapUserID
    BY <1>5, RowChanges
  <2>2. CASE UNCHANGED <<accountRow, cardRow>>
    BY <2>1, <2>2
  <2>3. CASE /\ job[r].stage = "record" /\ job[r].kind = "account"
             /\ accountRow' = InsertRow(accountRow, i, v) /\ cardRow' = cardRow
    <3>1. i \in Account /\ i \in Id /\ OwnerIn["account"][i] = v
      BY <2>3, RecordedAsForetold DEF IdsOf, Id
    <3>2. CASE accountRow[i] # None
      BY <2>1, <2>3, <3>2 DEF InsertRow
    <3>3. CASE accountRow[i] = None
      <4>1. \A a \in Account : accountRow'[a] = IF a = i THEN v ELSE accountRow[a]
        BY <1>2, <2>3, <3>1, <3>3 DEF InsertRow
      <4>2. ASSUME NEW k \in K, NEW j \in Id
            PROVE  tt[k][j] = IF k = "account" /\ j = i THEN v ELSE t[k][j]
        <5>1. CASE k = "account"
          BY <1>1, <2>1, <3>1, <4>1, <5>1, TableEntries
        <5>2. CASE k = "card"
          BY <1>1, <2>1, <2>3, <5>2, TableEntries
        <5>3. CASE k = "user"
          <6>1. CASE j \notin UserId
            BY <1>1, <2>1, <5>3, <6>1, TableEntries
          <6>2. CASE j \in UserId /\ \E w \in Vault : reapUserID[w] = j
            BY <1>1, <2>1, <5>3, <6>2, TableEntries
          <6>3. CASE j \in UserId /\ \A w \in Vault : reapUserID[w] # j
            BY <1>1, <2>1, <5>3, <6>3, TableEntries
          <6> QED BY <6>1, <6>2, <6>3
        <5> QED BY <5>1, <5>2, <5>3
      <4>3. t["account"][i] = None
        BY <1>1, <3>1, <3>3, TableEntries
      <4> HIDE DEF i, v, t, tt
      <4>4. tt = [t EXCEPT !["account"][i] = v]
        BY <3>1, <4>2, TableChanged DEF t, tt
      <4> QED BY <1>3, <3>1, <4>3, <4>4
    <3> QED BY <3>2, <3>3
  <2>4. CASE /\ job[r].stage = "record" /\ job[r].kind = "card"
             /\ cardRow' = InsertRow(cardRow, i, v) /\ accountRow' = accountRow
    <3>1. i \in Card /\ i \in Id /\ OwnerIn["card"][i] = v
      BY <2>4, RecordedAsForetold DEF IdsOf, Id
    <3>2. CASE cardRow[i] # None
      BY <2>1, <2>4, <3>2 DEF InsertRow
    <3>3. CASE cardRow[i] = None
      <4>1. \A c \in Card : cardRow'[c] = IF c = i THEN v ELSE cardRow[c]
        BY <1>2, <2>4, <3>1, <3>3 DEF InsertRow
      <4>2. ASSUME NEW k \in K, NEW j \in Id
            PROVE  tt[k][j] = IF k = "card" /\ j = i THEN v ELSE t[k][j]
        <5>1. CASE k = "card"
          BY <1>1, <2>1, <3>1, <4>1, <5>1, TableEntries
        <5>2. CASE k = "account"
          BY <1>1, <2>1, <2>4, <5>2, TableEntries
        <5>3. CASE k = "user"
          <6>1. CASE j \notin UserId
            BY <1>1, <2>1, <5>3, <6>1, TableEntries
          <6>2. CASE j \in UserId /\ \E w \in Vault : reapUserID[w] = j
            BY <1>1, <2>1, <5>3, <6>2, TableEntries
          <6>3. CASE j \in UserId /\ \A w \in Vault : reapUserID[w] # j
            BY <1>1, <2>1, <5>3, <6>3, TableEntries
          <6> QED BY <6>1, <6>2, <6>3
        <5> QED BY <5>1, <5>2, <5>3
      <4>3. t["card"][i] = None
        BY <1>1, <3>1, <3>3, TableEntries
      <4> HIDE DEF i, v, t, tt
      <4>4. tt = [t EXCEPT !["card"][i] = v]
        BY <3>1, <4>2, TableChanged DEF t, tt
      <4> QED BY <1>3, <3>1, <4>3, <4>4
    <3> QED BY <3>2, <3>3
  <2> QED BY <1>5, <2>1, <2>2, <2>3, <2>4, RowChanges
<1> QED BY <1>4, <1>5 DEF RestStep

\* Here REAP may create every resource there is an ID for.
LEMMA AllExist == \A kind \in {"card", "account", "user"} : W!Existing(kind) = Id
BY BackendAssumption, OwnershipAssumption DEF W!Existing

LEMMA BackendStep ==
    ASSUME OwnInv, Foretold, [BackendNext]_backendVars
    PROVE  [W!Next]_W!vars
<1>1. CASE RestStep
  <2>1. UNCHANGED webhookOnly
    BY <1>1 DEF RestStep
  <2>2. CASE UNCHANGED <<accountRow, cardRow, reapUserID>>
    <3>1. ownerRow' = ownerRow
      BY <2>2, OwnerRowIsTable
    <3> QED BY <2>1, <3>1 DEF W!vars, W!tables, webhookOnly
  <2>3. CASE \E kind \in {"card", "account", "user"}, id \in Id :
                /\ ownerRow[kind][id] = None
                /\ ownerRow' = [ownerRow EXCEPT ![kind][id] = OwnerIn[kind][id]]
    BY <2>1, <2>3, AllExist DEF W!Next, W!RecordOwner, W!Kind, webhookOnly
  <2> QED BY <1>1, <2>2, <2>3, RestFillsTable
<1>2. CASE \E e \in Event, c \in W!Content : EmitMade(e, c)
  BY <1>2, Zenon DEF EmitMade, W!Next
<1>3. CASE WebhookStep
  BY <1>3, Zenon DEF WebhookStep, W!Next
<1>4. CASE UNCHANGED backendVars
  <2>1. ownerRow' = ownerRow
    BY <1>4, OwnerRowIsTable DEF backendVars, vars, rows
  <2> QED BY <1>4, <2>1 DEF backendVars, webhookOnly, W!vars, W!tables
<1> QED BY <1>1, <1>2, <1>3, <1>4 DEF BackendNext

-----------------------------------------------------------------------------
(* The composition: what follows. *)

\* The composition does nothing with the tables that Ownership does not.
THEOREM ImplementsOwnership == BackendSpec => Spec
<1>1. BackendInit => Init
  BY DEF BackendInit
<1> QED
  BY <1>1, RestIsOwnership, PTL DEF BackendSpec, Spec

LEMMA BackendInvariance == BackendSpec => [](OwnInv /\ Foretold)
<1>1. BackendInit => Init /\ Foretold
  BY ForetoldInit, OwnershipAssumption DEF BackendInit
<1> QED
  BY <1>1, OwnInit, OwnStep, RestIsOwnership, ForetoldStep, PTL DEF BackendSpec

THEOREM ImplementsWebhook == BackendSpec => W!Spec
<1>1. BackendInit => W!Init
  BY DEF BackendInit
<1>2. OwnInv /\ Foretold /\ [BackendNext]_backendVars => [W!Next]_W!vars
  BY BackendStep
<1> QED
  BY <1>1, <1>2, BackendInvariance, PTL DEF BackendSpec, W!Spec

\* The rows appear one at a time, with the right vault, and stay.
THEOREM RowsComeAsForetold == BackendSpec => RowsAsForetold
<1> DEFINE A == \/ UNCHANGED <<accountRow, cardRow, reapUserID>>
                \/ \E kind \in W!Kind, id \in Id : W!RecordOwner(kind, id)
<1>1. ASSUME OwnInv, Foretold, [BackendNext]_backendVars
      PROVE  [A]_backendVars
  <2>1. CASE RestStep
    <3>1. UNCHANGED webhookOnly
      BY <2>1 DEF RestStep
    <3> QED
      BY <1>1, <2>1, <3>1, RestFillsTable, AllExist DEF W!RecordOwner, W!Kind, webhookOnly
  <2>2. CASE UNCHANGED vars
    BY <2>2 DEF vars, rows
  <2> QED BY <1>1, <2>1, <2>2 DEF BackendNext, EmitMade, WebhookStep, backendVars
<1> QED
  BY <1>1, BackendInvariance, PTL DEF BackendSpec, RowsAsForetold

-----------------------------------------------------------------------------
(* From end to end.  What WebhookProofs shows of Webhook holds of W.       *)

WP == INSTANCE WebhookProofs WITH Slot <- Delivery

LEMMA WebhookAssumptions == WP!WebhookAssumption /\ WP!ContentAssumption
<1>1. WP!WebhookAssumption
  BY BackendAssumption, OwnershipAssumption DEF WP!WebhookAssumption, WP!Kind
<1>2. WP!ContentAssumption
  BY BackendAssumption
     DEF WP!ContentAssumption, WP!Content, WP!Readable, WP!NoData, WP!Existing,
         WP!Payload, WP!About,
         W!Content, W!Readable, W!NoData, W!Existing, W!Payload, W!About
<1> QED BY <1>1, <1>2

\* WP is W with theorems.
LEMMA SameWebhook == W!Spec => WP!Spec
<1>1. W!Init => WP!Init
  BY DEF W!Init, WP!Init, W!Kind, WP!Kind
<1>2. W!vars = WP!vars
  BY DEF W!vars, WP!vars, W!tables, WP!tables
<1>3. W!Content = WP!Content
  BY DEF W!Content, W!Readable, W!NoData, W!Existing, W!Payload, W!About,
         WP!Content, WP!Readable, WP!NoData, WP!Existing, WP!Payload, WP!About
<1>4. ASSUME NEW e, NEW c, W!Emit(e, c) PROVE WP!Emit(e, c)
  BY <1>4 DEF W!Emit, WP!Emit, W!tables, WP!tables
<1>5. ASSUME NEW k, NEW i, W!RecordOwner(k, i) PROVE WP!RecordOwner(k, i)
  BY <1>5 DEF W!RecordOwner, WP!RecordOwner, W!Existing, WP!Existing
<1>6. ASSUME NEW v, W!RecordChainCode(v) PROVE WP!RecordChainCode(v)
  BY <1>6 DEF W!RecordChainCode, WP!RecordChainCode
<1>7. ASSUME NEW d, NEW e, NEW authentic, NEW skew, W!Deliver(d, e, authentic, skew)
      PROVE  WP!Deliver(d, e, authentic, skew)
  <2>1. W!VerifyWebhookSignature(authentic, skew) => WP!VerifyWebhookSignature(authentic, skew)
    BY DEF W!VerifyWebhookSignature, WP!VerifyWebhookSignature
  <2> QED BY <1>7, <2>1 DEF W!Deliver, WP!Deliver, W!tables, WP!tables
<1>8. ASSUME NEW d, W!Step(d) PROVE WP!Step(d)
  <2> USE DEF W!tables, WP!tables, W!Done, WP!Done, W!Answer2xx, WP!Answer2xx
  <2>1. W!RecordNew(d) => WP!RecordNew(d)
    BY DEF W!RecordNew, WP!RecordNew
  <2>2. W!RecordDuplicate(d) => WP!RecordDuplicate(d)
    BY DEF W!RecordDuplicate, WP!RecordDuplicate
  <2>3. W!RecordFails(d) => WP!RecordFails(d)
    BY DEF W!RecordFails, WP!RecordFails, W!InsertFails, WP!InsertFails,
           W!AnswerError, WP!AnswerError
  <2>4. W!resolveVault(ev[d]) = WP!resolveVault(ev[d])
    BY DEF W!resolveVault, WP!resolveVault, W!eventSubjectIDs, WP!eventSubjectIDs,
           W!Found, WP!Found, W!FirstOf, WP!FirstOf, W!FirstCard, WP!FirstCard,
           W!Own, WP!Own, W!About, WP!About
  <2>5. W!Resolve(d) => WP!Resolve(d)
    BY <2>4 DEF W!Resolve, WP!Resolve
  <2>6. W!Unresolved(d) => WP!Unresolved(d)
    BY <2>4 DEF W!Unresolved, WP!Unresolved, W!Unroutable, WP!Unroutable,
                W!Silent, WP!Silent, W!NoData, WP!NoData, W!Payload, WP!Payload,
                W!NoNotification, WP!NoNotification
  <2>7. W!GetHexChainCode(d) => WP!GetHexChainCode(d)
    BY DEF W!GetHexChainCode, WP!GetHexChainCode
  <2>8. W!NoChainCode(d) => WP!NoChainCode(d)
    BY DEF W!NoChainCode, WP!NoChainCode, W!NoNotification, WP!NoNotification
  <2>9. W!LookupFails(d) => WP!LookupFails(d)
    BY DEF W!LookupFails, WP!LookupFails, W!NoNotification, WP!NoNotification
  <2>10. W!Notify(d) => WP!Notify(d)
    BY DEF W!Notify, WP!Notify
  <2> QED
    BY <1>8, <2>1, <2>2, <2>3, <2>5, <2>6, <2>7, <2>8, <2>9, <2>10 DEF W!Step, WP!Step
<1>9. ASSUME NEW d, W!Crash(d) PROVE WP!Crash(d)
  BY <1>9, Zenon DEF W!Crash, WP!Crash, W!AnswerError, WP!AnswerError,
                       W!Done, WP!Done, W!tables, WP!tables
<1>10. ASSUME W!Next PROVE WP!Next
  <2>1. ASSUME NEW e \in Event, NEW c \in W!Content, W!Emit(e, c) PROVE WP!Next
    BY <1>3, <1>4, <2>1 DEF WP!Next
  <2>2. ASSUME NEW k \in W!Kind, NEW i \in Id, W!RecordOwner(k, i) PROVE WP!Next
    BY <1>5, <2>2 DEF WP!Next, W!Kind, WP!Kind
  <2>3. ASSUME NEW v \in Vault, W!RecordChainCode(v) PROVE WP!Next
    BY <1>6, <2>3 DEF WP!Next
  <2>4. ASSUME NEW d \in Delivery, NEW e \in Event, NEW authentic \in BOOLEAN,
               NEW skew \in -MaxSkew..MaxSkew, W!Deliver(d, e, authentic, skew)
        PROVE  WP!Next
    BY <1>7, <2>4, Zenon DEF WP!Next
  <2>5. ASSUME NEW d \in Delivery, W!Step(d) \/ W!Crash(d) PROVE WP!Next
    BY <1>8, <1>9, <2>5 DEF WP!Next
  <2> QED BY <1>10, <2>1, <2>2, <2>3, <2>4, <2>5 DEF W!Next
<1>11. [W!Next]_W!vars => [WP!Next]_WP!vars
  BY <1>2, <1>10 DEF W!vars, WP!vars, W!tables, WP!tables
<1> QED
  BY <1>1, <1>11, PTL DEF W!Spec, WP!Spec

\* What REAP has made it does not change, and a vault keeps its user.
LEMMA MadeStays ==
    ASSUME OwnInv, [Next]_vars
    PROVE  /\ \A i \in Account \cup Card : made[i] # None => made'[i] = made[i]
           /\ \A v \in Vault : reapUserID[v] \in UserId => reapUserID'[v] = reapUserID[v]
<1>1. /\ made \in [Account \cup Card -> Request \cup {None}]
      /\ reapUserID \in [Vault -> UserId \cup {NoUser}]
  BY DEF OwnInv, TypeOK
<1>2. CASE BindUser
  BY <1>1, <1>2, OwnershipAssumption DEF BindUser, VU!Next, VU!Bind, reapSide
<1>3. ASSUME NEW r \in Slot, NEW i \in Account \cup Card, ReapServes(r, i)
      PROVE  \A j \in Account \cup Card : made[j] # None => made'[j] = made[j]
  BY <1>1, <1>3 DEF ReapServes, reapSide
<1>4. ASSUME NEW r \in Slot,
             \/ \E v \in Vault, k \in Key : AskAccount(r, v, k)
             \/ \E v \in Vault, k \in Key, a \in Account : AskCard(r, v, k, a)
             \/ \E v \in Vault, c \in Card : AskUse(r, v, c)
             \/ Step(r)
             \/ Crash(r)
      PROVE  /\ reapUserID' = reapUserID
             /\ \A j \in Account \cup Card : made[j] # None => made'[j] = made[j]
  <2> USE DEF reapSide
  <2>1. CASE \/ \E v \in Vault, k \in Key : AskAccount(r, v, k)
             \/ \E v \in Vault, k \in Key, a \in Account : AskCard(r, v, k, a)
             \/ \E v \in Vault, c \in Card : AskUse(r, v, c)
    BY <2>1 DEF AskAccount, AskCard, AskUse
  <2>2. CASE ResolveUser(r) \/ CheckAccount(r) \/ CheckCard(r) \/ GiveUp(r) \/ ActOnCard(r)
    BY <2>2 DEF ResolveUser, CheckAccount, CheckCard, GiveUp, ActOnCard
  <2>3. CASE \E i \in Account \cup Card : ReapAnswers(r, i)
    BY <1>3, <2>3 DEF ReapAnswers
  <2>4. CASE ReapFails(r) \/ Crash(r)
    BY <1>3, <2>4 DEF ReapFails, Crash
  <2>5. CASE RecordAccount(r) \/ RecordCard(r) \/ RecordUserCard(r) \/ RecordFails(r)
    BY <2>5 DEF RecordAccount, RecordCard, RecordUserCard, RecordFails
  <2> QED BY <1>4, <2>1, <2>2, <2>3, <2>4, <2>5 DEF Step
<1>5. CASE UNCHANGED vars
  BY <1>5 DEF vars, reapSide
<1> QED BY <1>2, <1>4, <1>5 DEF Next

\* Every event is about something REAP has.
EmittedIsMade == \A e \in Event : content[e] # None => Reported(content[e])

LEMMA EmittedStep ==
    ASSUME OwnInv, WP!TypeOK, EmittedIsMade, [BackendNext]_backendVars
    PROVE  EmittedIsMade'
<1>1. content \in [Event -> W!Content \cup {None}]
  BY DEF WP!TypeOK, WP!Content, WP!Readable, WP!NoData, WP!Existing, WP!Payload,
         WP!About,
         W!Content, W!Readable, W!NoData, W!Existing, W!Payload, W!About
<1>2. /\ \A i \in Account \cup Card : made[i] # None => made'[i] = made[i]
      /\ \A v \in Vault : reapUserID[v] \in UserId => reapUserID'[v] = reapUserID[v]
  BY MadeStays, RestIsOwnership
<1>3. ASSUME NEW c, Reported(c) PROVE Reported(c)'
  BY <1>2, <1>3 DEF Reported
<1>4. CASE \E e \in Event, c \in W!Content : EmitMade(e, c)
  <2> PICK e \in Event, c \in W!Content : EmitMade(e, c)
    BY <1>4
  <2>1. content' = [content EXCEPT ![e] = c] /\ Reported(c)
    BY DEF EmitMade, W!Emit
  <2> SUFFICES ASSUME NEW f \in Event, content'[f] # None PROVE Reported(content[f])'
    BY DEF EmittedIsMade
  <2>2. CASE f = e
    <3>1. content'[f] = c
      BY <1>1, <2>1, <2>2
    <3> QED BY <1>3, <2>1, <3>1 DEF Reported
  <2>3. CASE f # e
    <3>1. content'[f] = content[f] /\ Reported(content[f])
      BY <1>1, <2>1, <2>3 DEF EmittedIsMade
    <3> QED BY <1>2, <3>1 DEF Reported
  <2> QED BY <2>2, <2>3
<1>5. CASE UNCHANGED content
  <2> SUFFICES ASSUME NEW f \in Event, content'[f] # None PROVE Reported(content[f])'
    BY DEF EmittedIsMade
  <2> QED BY <1>2, <1>5 DEF Reported, EmittedIsMade
<1>6. ASSUME NEW d, W!Step(d) PROVE UNCHANGED content
  BY <1>6 DEF W!Step, W!RecordNew, W!RecordDuplicate, W!RecordFails, W!Resolve,
              W!Unresolved, W!GetHexChainCode, W!NoChainCode, W!LookupFails, W!Notify,
              W!NoNotification
<1>7. WebhookStep => UNCHANGED content
  BY <1>6 DEF WebhookStep, W!RecordChainCode, W!Deliver, W!Crash
<1>8. RestStep \/ UNCHANGED backendVars => UNCHANGED content
  BY DEF RestStep, backendVars, webhookOnly
<1> QED BY <1>4, <1>5, <1>7, <1>8 DEF BackendNext

LEMMA WebhookHolds ==
    BackendSpec => [](WP!TypeOK /\ WP!OwnerIsNotified /\ WP!NotifiedHasRow)
<1>1. WP!WebInv => WP!NotifiedHasRow
  BY DEF WP!WebInv
<1> QED
  BY <1>1, ImplementsWebhook, SameWebhook, WP!TypeCorrect, WP!NotifiesTheOwner,
     WP!Invariance, WebhookAssumptions, PTL

LEMMA EmittedInvariance == BackendSpec => []EmittedIsMade
<1>1. BackendInit => EmittedIsMade
  BY DEF BackendInit, W!Init, EmittedIsMade
<1>2. OwnInv /\ Foretold /\ WP!TypeOK /\ EmittedIsMade
        /\ [BackendNext]_backendVars => EmittedIsMade'
  BY EmittedStep
<1> QED
  BY <1>1, <1>2, BackendInvariance, WebhookHolds, PTL DEF BackendSpec

\* Whoever is notified of an event is the vault REAP made its resource for.
THEOREM NotifiesReapsOwner == BackendSpec => []NotifiedIsReapOwner
<1>1. ASSUME OwnInv, Foretold, EmittedIsMade,
             WP!TypeOK, WP!OwnerIsNotified, WP!NotifiedHasRow
      PROVE  NotifiedIsReapOwner
  <2> SUFFICES ASSUME NEW e \in Event, NEW k \in DOMAIN queued[e]
               PROVE  LET about == content[e].about
                          user == IF about.kind = "user" THEN about.id
                                  ELSE made[about.id].user
                      IN  about.kind # Empty /\ reapUserID[queued[e][k]] = user
    BY DEF NotifiedIsReapOwner
  <2> DEFINE kind == content[e].about.kind
             id == content[e].about.id
  <2>1. /\ content[e] # None /\ kind # Empty
        /\ queued[e][k] = OwnerIn[kind][id]
    BY <1>1 DEF WP!OwnerIsNotified
  <2>2. Reported(content[e])
    BY <1>1, <2>1 DEF EmittedIsMade
  <2>3. kind \in {"card", "account", "user"}
    <3>1. content[e] \in WP!Content
      BY <1>1, <2>1 DEF WP!TypeOK
    <3>2. kind \in WP!Kind \cup {Empty}
      BY <3>1, WebhookAssumptions, WP!AboutType
    <3> QED BY <2>1, <3>2 DEF WP!Kind
  <2>4. CASE kind = "card"
    <3>1. id \in Card /\ made[id] # None
      BY <2>2, <2>4 DEF Reported
    <3> QED BY <1>1, <2>1, <2>4, <3>1 DEF Foretold
  <2>5. CASE kind = "account"
    <3>1. id \in Account /\ made[id] # None
      BY <2>2, <2>5 DEF Reported
    <3> QED BY <1>1, <2>1, <2>5, <3>1 DEF Foretold
  <2>6. CASE kind = "user"
    <3>1. queued[e][k] \in Vault /\ queued[e][k] = ownerRow["user"][id]
      BY <1>1, <2>6 DEF WP!NotifiedHasRow, WP!SubjectRow
    <3>2. \A v, w \in Vault : reapUserID[v] = reapUserID[w] /\ reapUserID[v] # NoUser => v = w
      BY <1>1 DEF OwnInv, OneVaultPerUser
    <3>3. id \in UserId
      BY <2>2, <2>6 DEF Reported
    <3>4. PICK v \in Vault : reapUserID[v] = id
      BY <3>1, <3>2, <3>3, OwnerRowIsTable, TableEntries, OwnershipAssumption
    <3>5. queued[e][k] = v
      BY <3>1, <3>2, <3>3, <3>4, OwnerRowIsTable, TableEntries
    <3> QED BY <2>1, <2>6, <3>4, <3>5
  <2> QED BY <2>3, <2>4, <2>5, <2>6
<1> QED
  BY <1>1, BackendInvariance, WebhookHolds, EmittedInvariance, PTL
=============================================================================
