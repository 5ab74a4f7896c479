-------------------------------- MODULE Auth --------------------------------
(***************************************************************************)
(* POST /auth (AuthService.Authenticate) and the RequireAuth middleware.   *)
(*                                                                         *)
(* A vault proves itself with a signature over its next nonce.  The nonce  *)
(* is read and compared first, the signature verified, and only then is    *)
(* the nonce claimed by a conditional upsert; the access token follows in  *)
(* a statement of its own.  Handlers interleave between the statements, a  *)
(* failing statement may have taken effect, and the server may die.        *)
(*                                                                         *)
(* A vault is the public_key string as sent, which is what the mapping row *)
(* is keyed by and what the token carries.  The chain code comes in        *)
(* spellings (upper or lower case, with or without 0x); the row holds the  *)
(* normal form.  Of a signature only what it was made over and with is     *)
(* kept.  GET /nonce reads the row and tells the client; a client may send *)
(* any nonce, so the read itself is no action.                             *)
(***************************************************************************)
EXTENDS Naturals

CONSTANTS
    Vault,      \* public_key strings
    ChainCode,  \* chain codes in normal form
    Spelling,   \* chain_code strings
    Normal,     \* the normal form of each spelling
    Auther,     \* handler slots of POST /auth
    Caller,     \* handler slots behind RequireAuth
    Token,      \* jti values newTokenID draws from
    None,
    MaxNonce,   \* bound on the nonces clients send
    TokenLife   \* accessTokenDuration

ASSUME AuthAssumption ==
    /\ Normal \in [Spelling -> ChainCode]
    /\ MaxNonce \in Nat
    /\ TokenLife \in Nat
    /\ None \notin ChainCode
    /\ None \notin Nat
    /\ None \notin Token

Nonce == 0..MaxNonce

\* The body of POST /auth.
Submission ==
    [vault : Vault, chain : Spelling, nonce : Nonce,
     sig : [chain : ChainCode, nonce : Nonce]]

\* What a token was issued for.
Issue == [vault : Vault, chain : ChainCode, nonce : Nonce]

ASSUME IssueAssumption == None \notin Issue /\ None \notin Submission

VARIABLES
    nonce,      \* column nonce of each vault's row, None without a row
    chainCode,  \* column hex_chain_code
    pc,         \* stage of each POST /auth
    sub,        \* its request body
    jti,        \* the token it has made
    issued,     \* what each token was issued for
    recorded,   \* rows of vault_tokens
    revoked,    \* rows with revoked_at in the past
    age,        \* time since the token was made
    held,       \* tokens given to clients
    door,       \* stage of each request behind RequireAuth
    shown,      \* the token it carries
    wasLive     \* whether that token was good when the request came in

rows == <<nonce, chainCode>>
auth == <<pc, sub, jti>>
tokens == <<issued, recorded, revoked, age, held>>
calls == <<door, shown, wasLive>>
vars == <<rows, auth, tokens, calls>>

AuthStage == {"idle", "reading", "claiming", "recording"}
DoorStage == {"idle", "validated", "admitted", "refused"}

TypeOK ==
    /\ nonce \in [Vault -> Nat \cup {None}]
    /\ chainCode \in [Vault -> ChainCode \cup {None}]
    /\ pc \in [Auther -> AuthStage]
    /\ sub \in [Auther -> Submission \cup {None}]
    /\ jti \in [Auther -> Token \cup {None}]
    /\ issued \in [Token -> Issue \cup {None}]
    /\ recorded \subseteq Token
    /\ revoked \subseteq Token
    /\ age \in [Token -> 0..TokenLife + 1]
    /\ held \subseteq Token
    /\ door \in [Caller -> DoorStage]
    /\ shown \in [Caller -> Token \cup {None}]
    /\ wasLive \in [Caller -> BOOLEAN]
    /\ \A a \in Auther :
        /\ pc[a] # "idle" => sub[a] # None
        /\ pc[a] = "recording" => jti[a] # None
    /\ \A q \in Caller : door[q] # "idle" => shown[q] # None

\* A row from before hex_chain_code existed has a nonce and no chain code.
Init ==
    /\ nonce \in [Vault -> Nonce \cup {None}]
    /\ chainCode = [v \in Vault |-> None]
    /\ pc = [a \in Auther |-> "idle"]
    /\ sub = [a \in Auther |-> None]
    /\ jti = [a \in Auther |-> None]
    /\ issued = [t \in Token |-> None]
    /\ recorded = {}
    /\ revoked = {}
    /\ age = [t \in Token |-> 0]
    /\ held = {}
    /\ door = [q \in Caller |-> "idle"]
    /\ shown = [q \in Caller |-> None]
    /\ wasLive = [q \in Caller |-> FALSE]

-----------------------------------------------------------------------------
(* Authenticate. *)

\* The handler is done with the request and forgets it.
Done(a) ==
    /\ pc' = [pc EXCEPT ![a] = "idle"]
    /\ sub' = [sub EXCEPT ![a] = None]
    /\ jti' = [jti EXCEPT ![a] = None]

Submit(a, s) ==
    /\ pc[a] = "idle"
    /\ pc' = [pc EXCEPT ![a] = "reading"]
    /\ sub' = [sub EXCEPT ![a] = s]
    /\ UNCHANGED <<rows, jti, tokens, calls>>

\* A vault without a row is at nonce 0.
GetNonce(v) == IF nonce[v] = None THEN 0 ELSE nonce[v]

\* The signature is over the nonce, by the key derived with the chain code.
verifySignature(s) == s.sig = [chain |-> Normal[s.chain], nonce |-> s.nonce]

CheckPasses(a) ==
    /\ pc[a] = "reading"
    /\ sub[a].nonce = GetNonce(sub[a].vault)
    /\ verifySignature(sub[a])
    /\ pc' = [pc EXCEPT ![a] = "claiming"]
    /\ UNCHANGED <<rows, sub, jti, tokens, calls>>

\* ErrNonceUsed, ErrInvalidSignature or a failed read.
CheckRefuses(a) ==
    /\ pc[a] = "reading"
    /\ Done(a)
    /\ UNCHANGED <<rows, tokens, calls>>

\* Mutant: the upsert without WHERE nonce = $2.
ClaimMatchesNoNonce(s) ==
    \/ nonce[s.vault] = None
    \/ chainCode[s.vault] \in {None, Normal[s.chain]}

\* Mutant: the upsert without the comparison of chain codes.
ClaimMatchesNoChain(s) ==
    \/ nonce[s.vault] = None
    \/ nonce[s.vault] = s.nonce

\* The upsert inserts a new row unconditionally and updates an existing one
\* only if the nonce is still the expected one and the chain code, if there
\* is one, the same.
ClaimMatches(s) ==
    \/ nonce[s.vault] = None
    \/ /\ nonce[s.vault] = s.nonce
       /\ chainCode[s.vault] \in {None, Normal[s.chain]}

\* Mutant: the chain code is stored as it was spelled.
ClaimNonceRaw(s) ==
    /\ ClaimMatches(s)
    /\ nonce' = [nonce EXCEPT ![s.vault] = IF @ = None THEN s.nonce + 1 ELSE @ + 1]
    /\ chainCode' = [chainCode EXCEPT ![s.vault] = IF @ = None THEN s.chain ELSE @]

ClaimNonce(s) ==
    /\ ClaimMatches(s)
    /\ nonce' = [nonce EXCEPT ![s.vault] = IF @ = None THEN s.nonce + 1 ELSE @ + 1]
    /\ chainCode' = [chainCode EXCEPT ![s.vault] =
                        IF @ = None THEN Normal[s.chain] ELSE @]

\* newTokenID: an ID nobody has had.
Fresh(t) == issued[t] = None

Claim(a, t) ==
    /\ pc[a] = "claiming"
    /\ ClaimNonce(sub[a])
    /\ Fresh(t)
    /\ issued' = [issued EXCEPT ![t] =
                    [vault |-> sub[a].vault, chain |-> Normal[sub[a].chain],
                     nonce |-> sub[a].nonce]]
    /\ jti' = [jti EXCEPT ![a] = t]
    /\ pc' = [pc EXCEPT ![a] = "recording"]
    /\ UNCHANGED <<sub, recorded, revoked, age, held, calls>>

ClaimLoses(a) ==
    /\ pc[a] = "claiming"
    /\ ~ClaimMatches(sub[a])
    /\ Done(a)
    /\ UNCHANGED <<rows, tokens, calls>>

\* The statement errors, with its effect or without, or the token ID cannot
\* be drawn: a nonce can be spent and no token made.
ClaimFails(a) ==
    /\ pc[a] = "claiming"
    /\ ClaimNonce(sub[a]) \/ UNCHANGED rows
    /\ Done(a)
    /\ UNCHANGED <<tokens, calls>>

\* The row is inserted and the token returned to the client.
RecordToken(a) ==
    /\ pc[a] = "recording"
    /\ recorded' = recorded \cup {jti[a]}
    /\ held' = held \cup {jti[a]}
    /\ Done(a)
    /\ UNCHANGED <<rows, issued, revoked, age, calls>>

\* The insert errors or its reply is lost: the client gets no token.
RecordFails(a) ==
    /\ pc[a] = "recording"
    /\ recorded' \in {recorded, recorded \cup {jti[a]}}
    /\ Done(a)
    /\ UNCHANGED <<rows, issued, revoked, age, held, calls>>

\* The server dies with the request in flight.
Crash(a) ==
    /\ pc[a] # "idle"
    /\ Done(a)
    /\ UNCHANGED <<rows, tokens, calls>>

-----------------------------------------------------------------------------
(* RequireAuth.  The JWT's exp is checked first, then the token's row.     *)

\* The token is good: it has a row, is not revoked and the JWT not expired.
Live(t) == t \in recorded \ revoked /\ age[t] < TokenLife

\* ValidateToken: the JWT is good strictly before its expiry.
Arrive(q, t) ==
    /\ door[q] \in {"idle", "admitted", "refused"}
    /\ t \in held
    /\ door' = [door EXCEPT ![q] = IF age[t] < TokenLife THEN "validated" ELSE "refused"]
    /\ shown' = [shown EXCEPT ![q] = t]
    /\ wasLive' = [wasLive EXCEPT ![q] = Live(t)]
    /\ UNCHANGED <<rows, auth, tokens>>

\* Mutant: the row is looked up but revoked_at is not looked at.
AdmissibleRevoked(t) == t \in recorded /\ age[t] <= TokenLife

\* What the row Touch returns has to be: there, not revoked, not expired.
Admissible(t) == t \in recorded /\ t \notin revoked /\ age[t] <= TokenLife

Admit(q) ==
    /\ door[q] = "validated"
    /\ Admissible(shown[q])
    /\ door' = [door EXCEPT ![q] = "admitted"]
    /\ UNCHANGED <<rows, auth, tokens, shown, wasLive>>

\* A row that does not do, or a failed Touch.
Refuse(q) ==
    /\ door[q] = "validated"
    /\ door' = [door EXCEPT ![q] = "refused"]
    /\ UNCHANGED <<rows, auth, tokens, shown, wasLive>>

-----------------------------------------------------------------------------
(* Outside the server: an operator sets revoked_at, or a database restored *)
(* from a backup lacks the row; time passes.                               *)

Revoke(t) ==
    /\ t \in recorded
    /\ revoked' = revoked \cup {t}
    /\ UNCHANGED <<rows, auth, issued, recorded, age, held, calls>>

LoseRow(t) ==
    /\ t \in recorded
    /\ recorded' = recorded \ {t}
    /\ UNCHANGED <<rows, auth, issued, revoked, age, held, calls>>

Tick ==
    /\ age' = [t \in Token |-> IF issued[t] = None \/ age[t] > TokenLife
                               THEN age[t] ELSE age[t] + 1]
    /\ UNCHANGED <<rows, auth, issued, recorded, revoked, held, calls>>

-----------------------------------------------------------------------------

Next ==
    \/ \E a \in Auther :
        \/ \E s \in Submission : Submit(a, s)
        \/ CheckPasses(a) \/ CheckRefuses(a)
        \/ \E t \in Token : Claim(a, t)
        \/ ClaimLoses(a) \/ ClaimFails(a)
        \/ RecordToken(a) \/ RecordFails(a)
        \/ Crash(a)
    \/ \E q \in Caller :
        \/ \E t \in Token : Arrive(q, t)
        \/ Admit(q) \/ Refuse(q)
    \/ \E t \in Token : Revoke(t) \/ LoseRow(t)
    \/ Tick

Spec == Init /\ [][Next]_vars

-----------------------------------------------------------------------------
(* What is to hold. *)

Tokens == {t \in Token : issued[t] # None}

\* A signed nonce buys at most one token: however many copies of a request
\* run side by side and whatever fails, no two tokens are issued to a vault
\* for the same nonce (ClaimNonce's conditional upsert, not the comparison
\* Authenticate makes first).
OneTokenPerNonce ==
    \A t, s \in Tokens :
        /\ issued[t].vault = issued[s].vault
        /\ issued[t].nonce = issued[s].nonce
        => t = s

\* All tokens of a vault were issued under the chain code its row carries,
\* although two first logins with different chain codes may race: the vault
\* ID notifications go to never changes.
OneChainCodePerVault ==
    \A t \in Tokens : issued[t].chain = chainCode[issued[t].vault]

\* A request is let in only on a token that was recorded, not revoked and not
\* expired when it came in; revocation and loss of the row need no restart.
AdmittedWasLive == \A q \in Caller : door[q] = "admitted" => wasLive[q]
=============================================================================
