------------------------------ MODULE UserCreate ------------------------------
(***************************************************************************)
(* POST /user: UserService.CreateUser and the statements of                *)
(* internal/reapmapping it runs against the vault's mapping row.           *)
(*                                                                         *)
(* A create is excluded from running twice not by a lock but by a claim    *)
(* (reap_user_create_started_at) that is written before the REAP round     *)
(* trip, handed back when REAP refuses, cleared when the user ID is        *)
(* recorded, and taken over once it is older than reapUserCreateStale.     *)
(*                                                                         *)
(* Req is a set of handler slots; a slot runs one request after another,   *)
(* all of them for the vault VaultOf[r].  Every SQL statement is atomic    *)
(* and the steps between statements interleave freely.  A failing step     *)
(* leaves it open whether its effect took place (the reply was lost) or    *)
(* not.  A row that does not exist yet behaves like one with NULL columns, *)
(* which is how INSERT .. ON CONFLICT DO UPDATE treats it.                 *)
(*                                                                         *)
(* Time is discrete and relative: claimAge[v] is now() minus the claim's   *)
(* timestamp, left[r] the time the request may still stay in its stage.    *)
(***************************************************************************)
EXTENDS Naturals

CONSTANTS
    Vault,           \* authenticated vaults (claims.PublicKey)
    Req,             \* handler slots
    VaultOf,         \* the vault each slot serves
    UserId,          \* IDs REAP gives out; bounds the users REAP can create
    NoUser,          \* reap_user_id IS NULL
    NoVault,         \* a REAP user ID not given out yet
    NoClaim,         \* reap_user_create_started_at IS NULL
    StaleAfter,      \* reapUserCreateStale
    ReapTimeout,     \* requestTimeout of the REAP client
    ReleaseTimeout,  \* releaseClaimTimeout
    DbBound          \* longest a statement on the request's context takes;
                     \* the code sets no such bound

ASSUME ConstantsAssumption ==
    /\ VaultOf \in [Req -> Vault]
    /\ NoUser \notin UserId
    /\ NoVault \notin Vault
    /\ NoClaim \notin Nat

ASSUME DurationsAssumption ==
    /\ StaleAfter \in Nat
    /\ ReapTimeout \in Nat
    /\ ReleaseTimeout \in Nat
    /\ DbBound \in Nat

VARIABLES
    reapUserID,  \* column reap_user_id of each vault's row
    claimAge,    \* age of column reap_user_create_started_at
    pc,          \* stage of each slot's request
    left,        \* time left in the stage
    created,     \* user ID the slot's last REAP response carried
    answer,      \* what the slot's last request answered
    reapUsers,   \* REAP's side: the vault each user was created for
    acked        \* REAP users whose creation was answered with a 2xx

vars == <<reapUserID, claimAge, pc, left, created, answer, reapUsers, acked>>

Holding == {"claimed", "calling", "recording", "releasing"}
Stage == Holding \cup {"idle", "claiming", "lookup"}
Answer == {"none", "created", "exists", "inflight", "rejected", "error"}

TypeOK ==
    /\ reapUserID \in [Vault -> UserId \cup {NoUser}]
    /\ claimAge \in [Vault -> Nat \cup {NoClaim}]
    /\ pc \in [Req -> Stage]
    /\ left \in [Req -> Nat]
    /\ created \in [Req -> UserId \cup {NoUser}]
    /\ answer \in [Req -> Answer]
    /\ reapUsers \in [UserId -> Vault \cup {NoVault}]
    /\ acked \subseteq UserId

Init ==
    /\ reapUserID = [v \in Vault |-> NoUser]
    /\ claimAge = [v \in Vault |-> NoClaim]
    /\ pc = [r \in Req |-> "idle"]
    /\ left = [r \in Req |-> 0]
    /\ created = [r \in Req |-> NoUser]
    /\ answer = [r \in Req |-> "none"]
    /\ reapUsers = [u \in UserId |-> NoVault]
    /\ acked = {}

-----------------------------------------------------------------------------
(* Moving a request between stages. *)

Enter(r, stage, time) ==
    /\ pc' = [pc EXCEPT ![r] = stage]
    /\ left' = [left EXCEPT ![r] = time]

Finish(r, a) ==
    /\ Enter(r, "idle", 0)
    /\ answer' = [answer EXCEPT ![r] = a]

\* A POST /user with a valid body reaches the service.
Start(r) ==
    /\ pc[r] = "idle"
    /\ Enter(r, "claiming", 0)
    /\ created' = [created EXCEPT ![r] = NoUser]
    /\ answer' = [answer EXCEPT ![r] = "none"]
    /\ UNCHANGED <<reapUserID, claimAge, reapUsers, acked>>

-----------------------------------------------------------------------------
(* ClaimReapUserCreate and the refusal path. *)

Stale(v) == claimAge[v] # NoClaim /\ claimAge[v] > StaleAfter

\* Mutant: a claim is never taken over.
ClaimableNoTakeover(v) == reapUserID[v] = NoUser /\ claimAge[v] = NoClaim

\* Mutant: the claim goes stale while the REAP client may still be waiting.
ClaimableTooSoon(v) ==
    /\ reapUserID[v] = NoUser
    /\ claimAge[v] # NoClaim => claimAge[v] >= ReapTimeout

\* The WHERE clause of the claim: no user yet, and no claim younger than
\* StaleAfter.
Claimable(v) ==
    /\ reapUserID[v] = NoUser
    /\ claimAge[v] = NoClaim \/ Stale(v)

Claimed(v) == IF Claimable(v) THEN [claimAge EXCEPT ![v] = 0] ELSE claimAge

ClaimGranted(r) ==
    /\ pc[r] = "claiming"
    /\ Claimable(VaultOf[r])
    /\ claimAge' = Claimed(VaultOf[r])
    /\ Enter(r, "claimed", DbBound)
    /\ UNCHANGED <<reapUserID, created, answer, reapUsers, acked>>

ClaimRefused(r) ==
    /\ pc[r] = "claiming"
    /\ ~Claimable(VaultOf[r])
    /\ Enter(r, "lookup", 0)
    /\ UNCHANGED <<reapUserID, claimAge, created, answer, reapUsers, acked>>

\* The statement errors.  If only its reply was lost the claim stands, and
\* the handler returns without releasing it.
ClaimFails(r) ==
    /\ pc[r] = "claiming"
    /\ claimAge' \in {claimAge, Claimed(VaultOf[r])}
    /\ Finish(r, "error")
    /\ UNCHANGED <<reapUserID, created, reapUsers, acked>>

\* GetReapUserID tells the two refusals apart, by the row as it is now.
LookupRefusal(r) ==
    /\ pc[r] = "lookup"
    /\ \/ reapUserID[VaultOf[r]] # NoUser /\ Finish(r, "exists")
       \/ reapUserID[VaultOf[r]] = NoUser /\ Finish(r, "inflight")
       \/ Finish(r, "error")
    /\ UNCHANGED <<reapUserID, claimAge, created, reapUsers, acked>>

-----------------------------------------------------------------------------
(* The REAP round trip.  REAP gives every user it creates a fresh ID. *)

Fresh(u) == reapUsers[u] = NoVault

CreateInReap(r, u) ==
    /\ Fresh(u)
    /\ reapUsers' = [reapUsers EXCEPT ![u] = VaultOf[r]]

CallReap(r) ==
    /\ pc[r] = "claimed"
    /\ Enter(r, "calling", ReapTimeout)
    /\ UNCHANGED <<reapUserID, claimAge, created, answer, reapUsers, acked>>

\* A 2xx whose body carries the new user's ID.
ReapCreates(r, u) ==
    /\ pc[r] = "calling"
    /\ CreateInReap(r, u)
    /\ acked' = acked \cup {u}
    /\ created' = [created EXCEPT ![r] = u]
    /\ Enter(r, "recording", DbBound)
    /\ UNCHANGED <<reapUserID, claimAge, answer>>

\* A 2xx whose body has no usable ID: nothing to record, and no release.
ReapCreatesNoID(r, u) ==
    /\ pc[r] = "calling"
    /\ CreateInReap(r, u)
    /\ acked' = acked \cup {u}
    /\ Finish(r, "error")
    /\ UNCHANGED <<reapUserID, claimAge, created>>

\* Mutant: the status check is dropped, and an ID in an error body recorded.
ReapRejectsUnchecked(r) ==
    /\ pc[r] = "calling"
    /\ \E u \in UserId : created' = [created EXCEPT ![r] = u]
    /\ Enter(r, "recording", DbBound)
    /\ UNCHANGED <<reapUserID, claimAge, answer, reapUsers, acked>>

\* A non-2xx response, passed back once the claim is released.
ReapRejects(r) ==
    /\ pc[r] = "calling"
    /\ Enter(r, "releasing", ReleaseTimeout)
    /\ answer' = [answer EXCEPT ![r] = "rejected"]
    /\ UNCHANGED <<reapUserID, claimAge, created, reapUsers, acked>>

\* Timeout, transport error or cancelled request: REAP may have created the
\* user (by then or later; nobody learns its ID) or not.
ReapFails(r) ==
    /\ pc[r] = "calling"
    /\ UNCHANGED reapUsers \/ \E u \in UserId : CreateInReap(r, u)
    /\ Enter(r, "releasing", ReleaseTimeout)
    /\ answer' = [answer EXCEPT ![r] = "error"]
    /\ UNCHANGED <<reapUserID, claimAge, created, acked>>

-----------------------------------------------------------------------------
(* ReleaseReapUserCreate, on a context of its own. *)

\* Clears whatever claim the row carries, as long as it has no user.
Release(r) ==
    /\ pc[r] = "releasing"
    /\ claimAge' = IF reapUserID[VaultOf[r]] = NoUser
                   THEN [claimAge EXCEPT ![VaultOf[r]] = NoClaim]
                   ELSE claimAge
    /\ Finish(r, answer[r])
    /\ UNCHANGED <<reapUserID, created, reapUsers, acked>>

\* The error is only logged; the answer is the same.
ReleaseFails(r) ==
    /\ pc[r] = "releasing"
    /\ Finish(r, answer[r])
    /\ UNCHANGED <<reapUserID, claimAge, created, reapUsers, acked>>

-----------------------------------------------------------------------------
(* SetReapUserID, on the request's context. *)

\* Mutant: the upsert without its WHERE reap_user_id IS NULL.
BindableAlways(v, u) == \A w \in Vault : reapUserID[w] # u

\* The upsert's effect: vault v has no user yet, and no other row has u
\* (UNIQUE reap_user_id).
Bindable(v, u) ==
    /\ reapUserID[v] = NoUser
    /\ \A w \in Vault : reapUserID[w] # u

SetReapUserID(v, u) ==
    /\ Bindable(v, u)
    /\ reapUserID' = [reapUserID EXCEPT ![v] = u]
    /\ claimAge' = [claimAge EXCEPT ![v] = NoClaim]

Record(r) ==
    /\ pc[r] = "recording"
    /\ SetReapUserID(VaultOf[r], created[r])
    /\ Finish(r, "created")
    /\ UNCHANGED <<created, reapUsers, acked>>

\* Another ID was recorded meanwhile: logged, and REAP's 2xx passed back.
RecordLoses(r) ==
    /\ pc[r] = "recording"
    /\ reapUserID[VaultOf[r]] # NoUser
    /\ Finish(r, "created")
    /\ UNCHANGED <<reapUserID, claimAge, created, reapUsers, acked>>

\* The statement errors, with its effect or without.
RecordFails(r) ==
    /\ pc[r] = "recording"
    /\ \/ SetReapUserID(VaultOf[r], created[r])
       \/ UNCHANGED <<reapUserID, claimAge>>
    /\ Finish(r, "error")
    /\ UNCHANGED <<created, reapUsers, acked>>

-----------------------------------------------------------------------------
(* The server dies with the request in flight; REAP may still act on it. *)

Crash(r) ==
    /\ pc[r] # "idle"
    /\ \/ UNCHANGED reapUsers
       \/ pc[r] = "calling" /\ \E u \in UserId : CreateInReap(r, u)
    /\ Finish(r, "none")
    /\ UNCHANGED <<reapUserID, claimAge, created, acked>>

-----------------------------------------------------------------------------
(* One unit of time.  A claim older than StaleAfter stays that way, so its *)
(* age is not counted further.  No request outstays its stage.             *)

Older(a) == IF a = NoClaim \/ a > StaleAfter THEN a ELSE a + 1

\* Mutant: stages without a deadline.
TickPastDeadline ==
    /\ left' = [r \in Req |-> IF pc[r] \in Holding THEN left[r] - 1 ELSE left[r]]
    /\ claimAge' = [v \in Vault |-> Older(claimAge[v])]
    /\ UNCHANGED <<reapUserID, pc, created, answer, reapUsers, acked>>

Tick ==
    /\ \A r \in Req : pc[r] \in Holding => left[r] > 0
    /\ left' = [r \in Req |-> IF pc[r] \in Holding THEN left[r] - 1 ELSE left[r]]
    /\ claimAge' = [v \in Vault |-> Older(claimAge[v])]
    /\ UNCHANGED <<reapUserID, pc, created, answer, reapUsers, acked>>

-----------------------------------------------------------------------------

\* The steps of the request in slot r that the server itself takes.
Step(r) ==
    \/ ClaimGranted(r) \/ ClaimRefused(r) \/ ClaimFails(r)
    \/ LookupRefusal(r)
    \/ CallReap(r)
    \/ \E u \in UserId : ReapCreates(r, u) \/ ReapCreatesNoID(r, u)
    \/ ReapRejects(r) \/ ReapFails(r)
    \/ Release(r) \/ ReleaseFails(r)
    \/ Record(r) \/ RecordLoses(r) \/ RecordFails(r)

Next ==
    \/ \E r \in Req : Start(r) \/ Step(r) \/ Crash(r)
    \/ Tick

Spec == Init /\ [][Next]_vars

\* Go schedules every runnable handler and the clock runs; whether a client
\* sends a request, or a server crashes, is nobody's promise.
Fairness == WF_vars(Tick) /\ \A r \in Req : WF_vars(Step(r))

FairSpec == Spec /\ Fairness
-----------------------------------------------------------------------------
(* What is to hold. *)

\* The claim outlives the longest create: claim reply, REAP round trip, then
\* the record or the release.  With the code's 60s, 10s and 5s it holds as
\* long as no statement takes more than 25s.
Timing ==
    /\ DbBound + ReapTimeout + DbBound <= StaleAfter
    /\ DbBound + ReapTimeout + ReleaseTimeout <= StaleAfter

\* No two requests of a vault are past the claim at once: a claim is taken
\* over only from a request that is gone (reapUserCreateStale's comment), and
\* so a release never clears a claim that is not the releasing request's.
\* Needs Timing.
ClaimExclusive ==
    \A r, s \in Req :
        /\ VaultOf[r] = VaultOf[s]
        /\ pc[r] \in Holding
        /\ pc[s] \in Holding
        => r = s

\* How old the claim can be when a request leaves the stage.
Budget(stage) ==
    CASE stage = "claimed"   -> DbBound
      [] stage = "calling"   -> DbBound + ReapTimeout
      [] stage = "recording" -> DbBound + ReapTimeout + DbBound
      [] stage = "releasing" -> DbBound + ReapTimeout + ReleaseTimeout
      [] OTHER               -> 0

\* A request past the claim is covered by it to the end of its stage: the row
\* still carries a claim, no user has been recorded meanwhile, and the claim
\* is young enough.  Needs Timing.
ClaimCovers ==
    \A r \in Req :
        pc[r] \in Holding =>
            /\ reapUserID[VaultOf[r]] = NoUser
            /\ claimAge[VaultOf[r]] # NoClaim
            /\ claimAge[VaultOf[r]] + left[r] <= Budget(pc[r])

\* A create answered with REAP's 2xx left exactly that user recorded for the
\* vault, and it stays recorded: the lost race CreateUser logs, which answers
\* 2xx for a user no row names, does not occur.  Needs Timing.
SuccessIsRecorded ==
    \A r \in Req :
        answer[r] = "created" =>
            /\ created[r] \in UserId
            /\ reapUserID[VaultOf[r]] = created[r]

\* Every user the mapping table names was created by REAP for the vault whose
\* row names it, and REAP said so with a 2xx.
RecordedIsReal ==
    \A v \in Vault :
        reapUserID[v] # NoUser =>
            /\ reapUsers[reapUserID[v]] = v
            /\ reapUserID[v] \in acked

\* CreateUser keeps the claim after a 2xx "so a retry would [not] make a
\* second one": REAP never confirms two users for one vault.  The claim is
\* only kept until it is stale, so this does not hold.
OneAckedUserPerVault ==
    \A u, w \in acked : reapUsers[u] = reapUsers[w] => u = w

\* Whatever requests do, fail to do or leave behind, a vault without a user
\* can claim a create again and again: an abandoned claim is not for ever.
NeverLockedOut ==
    \A v \in Vault : []<>(Claimable(v) \/ reapUserID[v] # NoUser)

VU == INSTANCE VaultUser WITH bound <- reapUserID

\* The mapping table is write-once and injective whatever the timing: a late
\* request that lost its claim cannot replace the ID a later one recorded.
ImplementsVaultUser == VU!Spec
=============================================================================
