----------------------------- MODULE AuthProofs -----------------------------
(***************************************************************************)
(* Theorems about Auth, for any number of vaults, logins, requests and     *)
(* tokens, and any bound on nonces and lifetimes.                          *)
(***************************************************************************)
EXTENDS Auth, TLAPS

-----------------------------------------------------------------------------
(* Type correctness. *)

\* What ClaimNonce writes has the type of the columns.
LEMMA ClaimNonceType ==
    ASSUME TypeOK, NEW s \in Submission, ClaimNonce(s)
    PROVE  /\ nonce' \in [Vault -> Nat \cup {None}]
           /\ chainCode' \in [Vault -> ChainCode \cup {None}]
<1>1. s.vault \in Vault /\ s.nonce \in Nat /\ Normal[s.chain] \in ChainCode
  BY AuthAssumption DEF Submission, Nonce
<1> QED BY <1>1 DEF ClaimNonce, TypeOK

\* Every step preserves TypeOK.
LEMMA TypeOKStep == TypeOK /\ [Next]_vars => TypeOK'
<1> SUFFICES ASSUME TypeOK, [Next]_vars PROVE TypeOK'
  OBVIOUS
<1> USE AuthAssumption, IssueAssumption
<1> USE DEF TypeOK, rows, auth, tokens, calls
<1>1. ASSUME NEW a \in Auther, NEW s \in Submission, Submit(a, s) PROVE TypeOK'
  BY <1>1 DEF Submit, AuthStage
<1>2. ASSUME NEW a \in Auther, CheckPasses(a) PROVE TypeOK'
  BY <1>2 DEF CheckPasses, AuthStage
<1>3. ASSUME NEW a \in Auther, CheckRefuses(a) \/ ClaimLoses(a) \/ Crash(a)
      PROVE  TypeOK'
  BY <1>3 DEF CheckRefuses, ClaimLoses, Crash, Done, AuthStage
<1>4. ASSUME NEW a \in Auther, NEW t \in Token, Claim(a, t) PROVE TypeOK'
  <2>1. sub[a] \in Submission
    BY <1>4 DEF Claim
  <2>2. [vault |-> sub[a].vault, chain |-> Normal[sub[a].chain],
         nonce |-> sub[a].nonce] \in Issue
    BY <2>1 DEF Submission, Issue
  <2>3. /\ nonce' \in [Vault -> Nat \cup {None}]
        /\ chainCode' \in [Vault -> ChainCode \cup {None}]
    BY <1>4, <2>1, ClaimNonceType DEF Claim
  <2>4. issued' \in [Token -> Issue \cup {None}]
    BY <1>4, <2>2 DEF Claim
  <2> QED BY <1>4, <2>3, <2>4 DEF Claim, AuthStage
<1>5. ASSUME NEW a \in Auther, ClaimFails(a) PROVE TypeOK'
  <2>1. sub[a] \in Submission
    BY <1>5 DEF ClaimFails
  <2>2. /\ nonce' \in [Vault -> Nat \cup {None}]
        /\ chainCode' \in [Vault -> ChainCode \cup {None}]
    BY <1>5, <2>1, ClaimNonceType DEF ClaimFails
  <2> QED BY <1>5, <2>2 DEF ClaimFails, Done, AuthStage
<1>6. ASSUME NEW a \in Auther, RecordToken(a) \/ RecordFails(a) PROVE TypeOK'
  BY <1>6 DEF RecordToken, RecordFails, Done, AuthStage
<1>7. ASSUME NEW q \in Caller, NEW t \in Token, Arrive(q, t) PROVE TypeOK'
  <2>1. Live(t) \in BOOLEAN
    BY DEF Live
  <2> QED BY <1>7, <2>1 DEF Arrive, DoorStage
<1>8. ASSUME NEW q \in Caller, Admit(q) \/ Refuse(q) PROVE TypeOK'
  BY <1>8 DEF Admit, Refuse, DoorStage
<1>9. ASSUME NEW t \in Token, Revoke(t) \/ LoseRow(t) PROVE TypeOK'
  BY <1>9 DEF Revoke, LoseRow
<1>10. ASSUME Tick PROVE TypeOK'
  BY <1>10 DEF Tick
<1>11. CASE UNCHANGED vars
  BY <1>11 DEF vars
<1> QED
  BY <1>1, <1>2, <1>3, <1>4, <1>5, <1>6, <1>7, <1>8, <1>9, <1>10, <1>11 DEF Next

\* Nothing has happened yet.
LEMMA TypeOKInit == Init => TypeOK
BY AuthAssumption DEF Init, TypeOK, AuthStage, DoorStage, Nonce

\* The mapping row, the token table and the handlers' locals keep their types.
THEOREM TypeCorrect == Spec => []TypeOK
BY TypeOKInit, TypeOKStep, PTL DEF Spec

-----------------------------------------------------------------------------
(* One token per nonce, and one chain code per vault.  What makes both     *)
(* inductive is that the nonce of a token has been left behind by the row. *)

Behind ==
    \A t \in Tokens :
        /\ nonce[issued[t].vault] # None
        /\ issued[t].nonce < nonce[issued[t].vault]

\* A vault without a row has no chain code either.
NoRowNoChainCode == \A v \in Vault : nonce[v] = None => chainCode[v] = None

IssueInv ==
    /\ TypeOK
    /\ Behind
    /\ NoRowNoChainCode
    /\ OneTokenPerNonce
    /\ OneChainCodePerVault

\* A claimed nonce only moves the row forward, and leaves the chain code of a
\* vault that has tokens alone.
LEMMA ClaimNonceAdvances ==
    ASSUME IssueInv, NEW s \in Submission, ClaimNonce(s)
    PROVE  /\ \A t \in Tokens :
                /\ nonce'[issued[t].vault] # None
                /\ issued[t].nonce < nonce'[issued[t].vault]
                /\ issued[t].chain = chainCode'[issued[t].vault]
           /\ \A t \in Tokens : issued[t].vault = s.vault => issued[t].nonce < s.nonce
           /\ nonce'[s.vault] = s.nonce + 1
           /\ chainCode'[s.vault] = Normal[s.chain]
           /\ NoRowNoChainCode'
<1> USE AuthAssumption DEF IssueInv, TypeOK
<1>1. s.vault \in Vault /\ s.nonce \in Nat /\ Normal[s.chain] \in ChainCode
  BY DEF Submission, Nonce
<1>2. \A t \in Tokens : /\ issued[t].vault \in Vault
                        /\ issued[t].nonce \in Nat
                        /\ issued[t].chain \in ChainCode
  BY DEF Tokens, Issue, Nonce
<1>3. nonce'[s.vault] = s.nonce + 1
  BY <1>1 DEF ClaimNonce, ClaimMatches
<1>4. chainCode'[s.vault] = Normal[s.chain]
  BY <1>1 DEF ClaimNonce, ClaimMatches, NoRowNoChainCode
<1>5. \A t \in Tokens : issued[t].vault = s.vault => issued[t].nonce < s.nonce
  BY <1>1, <1>2 DEF Behind, ClaimNonce, ClaimMatches
<1>6. \A t \in Tokens : issued[t].vault # s.vault =>
        /\ nonce'[issued[t].vault] = nonce[issued[t].vault]
        /\ chainCode'[issued[t].vault] = chainCode[issued[t].vault]
  BY <1>1, <1>2 DEF ClaimNonce
<1>7. \A t \in Tokens : issued[t].vault = s.vault =>
        chainCode'[s.vault] = chainCode[s.vault]
  BY <1>1, <1>2 DEF ClaimNonce, OneChainCodePerVault
<1>8. ASSUME NEW t \in Tokens
      PROVE  /\ nonce'[issued[t].vault] # None
             /\ issued[t].nonce < nonce'[issued[t].vault]
             /\ issued[t].chain = chainCode'[issued[t].vault]
  <2>1. CASE issued[t].vault = s.vault
    <3>1. issued[t].nonce < s.nonce + 1
      BY <1>1, <1>2, <1>5, <2>1
    <3> QED BY <1>1, <1>3, <1>7, <2>1, <3>1 DEF OneChainCodePerVault
  <2>2. CASE issued[t].vault # s.vault
    BY <1>6, <2>2 DEF Behind, OneChainCodePerVault
  <2> QED BY <2>1, <2>2
<1>9. NoRowNoChainCode'
  BY <1>1, <1>3 DEF ClaimNonce, NoRowNoChainCode
<1> QED BY <1>3, <1>4, <1>5, <1>8, <1>9

\* A step either claims a nonce or leaves the rows and the issued tokens be.
LEMMA IssueStep == IssueInv /\ [Next]_vars => IssueInv'
<1> SUFFICES ASSUME IssueInv, [Next]_vars PROVE IssueInv'
  OBVIOUS
<1>0. TypeOK'
  BY TypeOKStep DEF IssueInv
<1> USE AuthAssumption, IssueAssumption
<1>1. CASE UNCHANGED <<nonce, chainCode, issued>>
  BY <1>0, <1>1 DEF IssueInv, Behind, NoRowNoChainCode, OneTokenPerNonce,
                    OneChainCodePerVault, Tokens
<1>2. ASSUME NEW a \in Auther, ClaimFails(a) PROVE IssueInv'
  <2>1. sub[a] \in Submission
    BY <1>2 DEF ClaimFails, IssueInv, TypeOK
  <2>2. UNCHANGED issued
    BY <1>2 DEF ClaimFails, tokens
  <2>3. CASE ClaimNonce(sub[a])
    <3>1. Behind' /\ OneChainCodePerVault' /\ NoRowNoChainCode'
      BY <2>1, <2>2, <2>3, ClaimNonceAdvances
         DEF Behind, OneChainCodePerVault, Tokens
    <3>2. OneTokenPerNonce'
      BY <2>2 DEF OneTokenPerNonce, IssueInv, Tokens
    <3> QED BY <1>0, <3>1, <3>2 DEF IssueInv
  <2>4. CASE UNCHANGED rows
    BY <1>1, <2>2, <2>4 DEF rows
  <2> QED BY <1>2, <2>3, <2>4 DEF ClaimFails
<1>3. ASSUME NEW a \in Auther, NEW t \in Token, Claim(a, t) PROVE IssueInv'
  <2> DEFINE i == [vault |-> sub[a].vault, chain |-> Normal[sub[a].chain],
                   nonce |-> sub[a].nonce]
  <2>1. sub[a] \in Submission /\ ClaimNonce(sub[a])
    BY <1>3 DEF Claim, IssueInv, TypeOK
  <2>2. t \notin Tokens /\ i # None /\ issued' = [issued EXCEPT ![t] = i]
    <3>1. i \in Issue
      BY <2>1 DEF Submission, Issue
    <3> QED BY <1>3, <3>1 DEF Claim, Fresh, Tokens
  <2>3. Tokens' = Tokens \cup {t} /\ issued'[t] = i
        /\ \A s \in Tokens : issued'[s] = issued[s]
    BY <2>2 DEF Tokens, IssueInv, TypeOK
  <2>4. \A s \in Tokens : s # t
    BY <2>2
  <2>5. /\ nonce'[sub[a].vault] = sub[a].nonce + 1
        /\ sub[a].nonce \in Nat
        /\ sub[a].vault \in Vault
    BY <2>1, ClaimNonceAdvances DEF Submission, Nonce
  <2>6. Behind'
    BY <2>1, <2>3, <2>5, ClaimNonceAdvances DEF Behind
  <2>7. chainCode'[sub[a].vault] = Normal[sub[a].chain]
    BY <2>1, ClaimNonceAdvances
  <2>8. OneChainCodePerVault'
    BY <2>1, <2>3, <2>7, ClaimNonceAdvances DEF OneChainCodePerVault
  <2>9. \A s \in Tokens : issued[s].vault = sub[a].vault => issued[s].nonce # sub[a].nonce
    <3>1. \A s \in Tokens : issued[s].nonce \in Nat
      BY DEF Tokens, IssueInv, TypeOK, Issue, Nonce
    <3> QED BY <2>1, <2>5, <3>1, ClaimNonceAdvances
  <2>10. OneTokenPerNonce'
    BY <2>3, <2>9 DEF OneTokenPerNonce, IssueInv
  <2>11. NoRowNoChainCode'
    BY <2>1, ClaimNonceAdvances
  <2> QED BY <1>0, <2>6, <2>8, <2>10, <2>11 DEF IssueInv
<1>4. ASSUME NEW a \in Auther,
             \/ \E s \in Submission : Submit(a, s)
             \/ CheckPasses(a) \/ CheckRefuses(a) \/ ClaimLoses(a)
             \/ RecordToken(a) \/ RecordFails(a) \/ Crash(a)
      PROVE  UNCHANGED <<nonce, chainCode, issued>>
  BY <1>4 DEF Submit, CheckPasses, CheckRefuses, ClaimLoses, RecordToken,
              RecordFails, Crash, rows, tokens
<1>5. ASSUME NEW q \in Caller, (\E t \in Token : Arrive(q, t)) \/ Admit(q) \/ Refuse(q)
      PROVE  UNCHANGED <<nonce, chainCode, issued>>
  BY <1>5 DEF Arrive, Admit, Refuse, rows, tokens
<1>6. ASSUME (\E t \in Token : Revoke(t) \/ LoseRow(t)) \/ Tick \/ UNCHANGED vars
      PROVE  UNCHANGED <<nonce, chainCode, issued>>
  BY <1>6 DEF Revoke, LoseRow, Tick, rows, tokens, vars
<1> QED BY <1>1, <1>2, <1>3, <1>4, <1>5, <1>6 DEF Next

\* No token has been issued.
LEMMA IssueInit == Init => IssueInv
BY TypeOKInit DEF Init, IssueInv, Behind, NoRowNoChainCode, OneTokenPerNonce,
                  OneChainCodePerVault, Tokens

\* However many logins race with the same signed nonce, one gets a token.
THEOREM NonceBuysOneToken == Spec => []OneTokenPerNonce
<1>1. IssueInv => OneTokenPerNonce
  BY DEF IssueInv
<1> QED BY <1>1, IssueInit, IssueStep, PTL DEF Spec

\* Every token of a vault was issued under the chain code the row carries.
THEOREM ChainCodeIsFixed == Spec => []OneChainCodePerVault
<1>1. IssueInv => OneChainCodePerVault
  BY DEF IssueInv
<1> QED BY <1>1, IssueInit, IssueStep, PTL DEF Spec

-----------------------------------------------------------------------------
(* RequireAuth.  A token that had lost its row, or was revoked, when a      *)
(* request came in cannot regain it: only the login that made a token       *)
(* records it, and that is before any client holds the token.               *)

\* A token on its way into the table is in nobody's hands, and in the hands
\* of one login only.
Unheld ==
    \A a \in Auther :
        pc[a] = "recording" =>
            /\ jti[a] \in Tokens \ held
            /\ \A b \in Auther : pc[b] = "recording" /\ jti[b] = jti[a] => a = b

HeldIsIssued == held \subseteq Tokens

ShownIsHeld == \A q \in Caller : door[q] = "validated" => shown[q] \in held

DeadStaysDead ==
    \A q \in Caller :
        door[q] = "validated" /\ ~wasLive[q] => shown[q] \notin recorded \ revoked

DoorInv ==
    /\ TypeOK
    /\ Unheld
    /\ HeldIsIssued
    /\ ShownIsHeld
    /\ DeadStaysDead
    /\ AdmittedWasLive

\* No step brings a dead token back or lets a request in on one.
LEMMA DoorStep == DoorInv /\ [Next]_vars => DoorInv'
<1> SUFFICES ASSUME DoorInv, [Next]_vars PROVE DoorInv'
  OBVIOUS
<1>0. TypeOK'
  BY TypeOKStep DEF DoorInv
<1> USE AuthAssumption, IssueAssumption, <1>0
<1> USE DEF DoorInv, TypeOK, Unheld, HeldIsIssued, ShownIsHeld, DeadStaysDead,
            AdmittedWasLive, Tokens, rows, auth, tokens, calls
<1>1. ASSUME NEW a \in Auther, NEW s \in Submission, Submit(a, s) PROVE DoorInv'
  BY <1>1 DEF Submit
<1>2. ASSUME NEW a \in Auther, CheckPasses(a) PROVE DoorInv'
  BY <1>2 DEF CheckPasses
<1>3. ASSUME NEW a \in Auther,
             CheckRefuses(a) \/ ClaimLoses(a) \/ ClaimFails(a) \/ Crash(a)
      PROVE  DoorInv'
  BY <1>3 DEF CheckRefuses, ClaimLoses, ClaimFails, Crash, Done
<1>4. ASSUME NEW a \in Auther, NEW t \in Token, Claim(a, t) PROVE DoorInv'
  <2> DEFINE i == [vault |-> sub[a].vault, chain |-> Normal[sub[a].chain],
                   nonce |-> sub[a].nonce]
  <2>1. i # None
    <3>1. sub[a] \in Submission
      BY <1>4 DEF Claim
    <3>2. i \in Issue
      BY <3>1 DEF Submission, Issue
    <3> QED BY <3>2
  <2>2. t \notin Tokens /\ Tokens' = Tokens \cup {t}
    BY <1>4, <2>1 DEF Claim, Fresh
  <2>3. Unheld' /\ HeldIsIssued'
    BY <1>4, <2>2 DEF Claim
  <2> QED BY <1>4, <2>3 DEF Claim
<1>5. ASSUME NEW a \in Auther, RecordToken(a) \/ RecordFails(a) PROVE DoorInv'
  <2>1. jti[a] \in Tokens \ held
    BY <1>5 DEF RecordToken, RecordFails
  <2>2. \A q \in Caller : door[q] = "validated" => shown[q] # jti[a]
    BY <2>1
  <2>3. DeadStaysDead'
    BY <1>5, <2>2 DEF RecordToken, RecordFails
  <2>4. Unheld'
    BY <1>5 DEF RecordToken, RecordFails, Done
  <2>5. HeldIsIssued' /\ ShownIsHeld' /\ AdmittedWasLive'
    BY <1>5, <2>1 DEF RecordToken, RecordFails
  <2> QED BY <2>3, <2>4, <2>5
<1>6. ASSUME NEW q \in Caller, NEW t \in Token, Arrive(q, t) PROVE DoorInv'
  BY <1>6 DEF Arrive, Live
<1>7. ASSUME NEW q \in Caller, Admit(q) PROVE DoorInv'
  BY <1>7 DEF Admit, Admissible
<1>8. ASSUME NEW q \in Caller, Refuse(q) PROVE DoorInv'
  BY <1>8 DEF Refuse
<1>9. ASSUME NEW t \in Token, Revoke(t) \/ LoseRow(t) PROVE DoorInv'
  BY <1>9 DEF Revoke, LoseRow
<1>10. ASSUME Tick PROVE DoorInv'
  BY <1>10 DEF Tick
<1>11. CASE UNCHANGED vars
  BY <1>11 DEF vars
<1> QED
  BY <1>1, <1>2, <1>3, <1>4, <1>5, <1>6, <1>7, <1>8, <1>9, <1>10, <1>11 DEF Next

\* A request RequireAuth lets through came in with a token that was recorded,
\* unrevoked and unexpired.
THEOREM OnlyLiveTokensAdmit == Spec => []AdmittedWasLive
<1>1. Init => DoorInv
  BY TypeOKInit DEF Init, DoorInv, Unheld, HeldIsIssued, ShownIsHeld,
                    DeadStaysDead, AdmittedWasLive
<1>2. DoorInv => AdmittedWasLive
  BY DEF DoorInv
<1> QED BY <1>1, <1>2, DoorStep, PTL DEF Spec
=============================================================================
