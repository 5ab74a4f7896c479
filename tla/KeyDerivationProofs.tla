------------------------- MODULE KeyDerivationProofs -------------------------
(***************************************************************************)
(* The two walks of KeyDerivation stay the two halves of one walk, for     *)
(* every group, MAC and path.                                              *)
(*                                                                         *)
(* The invariants speak of the keys at the same depth, but a side reaches  *)
(* a depth when the other may be far ahead.  So the strengthening Trace    *)
(* says how every key on either list came from the one before it, and that *)
(* an error was justified.                                                 *)
(***************************************************************************)
EXTENDS KeyDerivation, TLAPS

\* How each list was made.
Trace ==
    /\ \A d \in 1..Len(wallet) : wallet[d].key # Zero
    /\ \A d \in 1..Len(wallet) - 1 :
        /\ ~PrivateRefuses(wallet[d], path[d])
        /\ wallet[d + 1] = PrivateChild(wallet[d], path[d])
    /\ \A d \in 1..Len(server) - 1 :
        /\ ~PublicRefuses(server[d], path[d])
        /\ server[d + 1] = PublicChild(server[d], path[d])
    /\ walletErr => Len(wallet) <= Len(path) /\ PrivateRefuses(WalletNow, path[Len(wallet)])
    /\ serverErr => Len(server) <= Len(path) /\ PublicRefuses(ServerNow, path[Len(server)])

\* What a verdict was based on.
Judged ==
    verdict # None =>
        /\ sig # None
        /\ \/ serverErr /\ verdict = FALSE
           \/ ServerDone /\ verdict \in Valid

Inv == TypeOK /\ Trace /\ DerivationsMatch /\ Judged

-----------------------------------------------------------------------------

\* The digest of a key is a digest.
LEMMA DigestType ==
    ASSUME mac \in Macs, NEW i \in Index
    PROVE  /\ \A k \in PrivateKey : PrivateDigest(k, i) \in Digest
           /\ \A k \in PublicKey : PublicDigest(k, i) \in Digest
<1>1. mac \in [Chain \X Point \X Index -> Digest]
  BY DerivationAssumption
<1>2. ASSUME NEW k \in PrivateKey PROVE PrivateDigest(k, i) \in Digest
  BY <1>1, CurveAssumption DEF PrivateDigest, PrivateKey
<1>3. ASSUME NEW k \in PublicKey PROVE PublicDigest(k, i) \in Digest
  BY <1>1 DEF PublicDigest, PublicKey
<1> QED BY <1>2, <1>3

\* The children are keys.
LEMMA ChildType ==
    ASSUME mac \in Macs, NEW i \in Index
    PROVE  /\ \A k \in PrivateKey : PrivateChild(k, i) \in PrivateKey
           /\ \A k \in PublicKey : PublicChild(k, i) \in PublicKey
<1>1. ASSUME NEW k \in PrivateKey PROVE PrivateChild(k, i) \in PrivateKey
  BY DigestType, CurveAssumption DEF PrivateChild, PrivateKey, Digest
<1>2. ASSUME NEW k \in PublicKey PROVE PublicChild(k, i) \in PublicKey
  BY DigestType, CurveAssumption DEF PublicChild, PublicKey, Digest
<1> QED BY <1>1, <1>2

\* One step: children of the two halves of a key are the two halves of a key,
\* the public Child refuses no more than the private one, and what only the
\* private one refuses is a child at infinity.
LEMMA ChildrenAgree ==
    ASSUME mac \in Macs, NEW i \in Index, NEW k \in PrivateKey, NEW p \in PublicKey,
           p.pub = Times(k.key), p.chain = k.chain
    PROVE  /\ PublicChild(p, i).pub = Times(PrivateChild(k, i).key)
           /\ PublicChild(p, i).chain = PrivateChild(k, i).chain
           /\ PublicRefuses(p, i) => PrivateRefuses(k, i)
           /\ PrivateRefuses(k, i) /\ ~PublicRefuses(p, i)
                => PublicChild(p, i).pub = Infinity
           /\ ~PrivateRefuses(k, i) => PrivateChild(k, i).key # Zero
<1>1. PublicDigest(p, i) = PrivateDigest(k, i)
  BY DEF PublicDigest, PrivateDigest
<1>2. PrivateDigest(k, i).il \in Scalar /\ k.key \in Scalar
  BY DigestType DEF Digest, PrivateKey
<1>3. Times(Plus(PrivateDigest(k, i).il, k.key))
        = PointPlus(Times(PrivateDigest(k, i).il), Times(k.key))
  BY <1>2, CurveAssumption
<1>4. Times(Zero) = Infinity
  BY CurveAssumption
<1>5. /\ PublicChild(p, i).pub = Times(PrivateChild(k, i).key)
      /\ PublicChild(p, i).chain = PrivateChild(k, i).chain
  BY <1>1, <1>3 DEF PublicChild, PrivateChild
<1>6. PublicRefuses(p, i) => PrivateRefuses(k, i)
  BY <1>1 DEF PublicRefuses, PrivateRefuses
<1>7. PrivateRefuses(k, i) /\ ~PublicRefuses(p, i)
        => PrivateChild(k, i).key = Zero
  BY <1>1 DEF PublicRefuses, PrivateRefuses, PrivateChild
<1>8. ~PrivateRefuses(k, i) => PrivateChild(k, i).key # Zero
  BY DEF PrivateRefuses, PrivateChild
<1> QED BY <1>4, <1>5, <1>6, <1>7, <1>8

\* The index a walk is at is an index.
LEMMA PathIndex ==
    ASSUME path \in Paths, NEW d \in 1..Len(path)
    PROVE  Len(path) \in Nat /\ path[d] \in Index
BY DerivationAssumption

-----------------------------------------------------------------------------

LEMMA InitInv == Init => Inv
<1> SUFFICES ASSUME Init PROVE Inv
  OBVIOUS
<1>1. PICK k \in Scalar \ {Zero}, c \in Chain :
        /\ wallet = <<[key |-> k, chain |-> c]>>
        /\ server = <<[pub |-> Times(k), chain |-> c]>>
  BY DEF Init
<1>2. /\ wallet \in Seq(PrivateKey) /\ Len(wallet) = 1 /\ wallet[1].key = k
      /\ wallet[1].chain = c
  BY <1>1 DEF PrivateKey
<1>3. /\ server \in Seq(PublicKey) /\ Len(server) = 1 /\ server[1].pub = Times(k)
      /\ server[1].chain = c
  BY <1>1, CurveAssumption DEF PublicKey
<1>4. path \in Seq(Index) /\ Len(path) \in Nat
  BY DerivationAssumption DEF Init
<1>5a. /\ Len(wallet) \in 1..Len(path) + 1
      /\ Len(server) \in 1..Len(path) + 1
  BY <1>2, <1>3, <1>4
<1>5. TypeOK
  BY <1>2, <1>3, <1>5a, Zenon DEF Init, TypeOK
<1>6. Trace
  BY <1>2, <1>3 DEF Init, Trace
<1>7. DerivationsMatch
  BY <1>2, <1>3 DEF Init, DerivationsMatch, WalksAgree, ServerErrIsWalletErr, WalletErrIsServerErr
<1>8. Judged
  BY DEF Init, Judged
<1> QED BY <1>5, <1>6, <1>7, <1>8 DEF Inv

-----------------------------------------------------------------------------

\* Appending to a walk keeps what was on it.
LEMMA AppendFacts ==
    ASSUME NEW S, NEW s \in Seq(S), NEW e \in S
    PROVE  /\ Append(s, e) \in Seq(S)
           /\ Len(Append(s, e)) = Len(s) + 1
           /\ \A d \in 1..Len(s) : Append(s, e)[d] = s[d]
           /\ Append(s, e)[Len(s) + 1] = e
OBVIOUS

LEMMA WalletStepInv == Inv /\ WalletStep => Inv'
<1> SUFFICES ASSUME Inv, WalletStep PROVE Inv'
  OBVIOUS
<1> DEFINE n == Len(wallet)
           i == path[n]
           k == wallet[n]
<1>1. /\ path \in Paths /\ mac \in Macs
      /\ wallet \in Seq(PrivateKey) /\ n \in 1..Len(path) + 1
      /\ server \in Seq(PublicKey) /\ Len(server) \in 1..Len(path) + 1
      /\ Len(path) \in Nat /\ n \in Nat /\ Len(server) \in Nat
  BY DerivationAssumption DEF Inv, TypeOK
<1>2. ~walletErr /\ n <= Len(path)
  BY DEF WalletStep
<1>3. i \in Index /\ k \in PrivateKey
  BY <1>1, <1>2, PathIndex
<1>4. /\ path' = path /\ mac' = mac /\ nonce' = nonce /\ server' = server
      /\ serverErr' = serverErr /\ sig' = sig /\ verdict' = verdict
  BY DEF WalletStep, setting
<1>5. \A d \in 1..n : d <= Len(server) =>
        /\ server[d] \in PublicKey
        /\ server[d].pub = Times(wallet[d].key)
        /\ server[d].chain = wallet[d].chain
  BY <1>1 DEF Inv, DerivationsMatch, WalksAgree
<1>6. Judged'
  BY <1>4, Zenon DEF Inv, Judged, Valid, ServerDone, ServerNow
<1>7. CASE PrivateRefuses(k, i)
  <2>1. walletErr' = TRUE /\ wallet' = wallet
    BY <1>7 DEF WalletStep, WalletNow
  <2>2. TypeOK'
    BY <1>4, <2>1, Zenon DEF Inv, TypeOK
  <2>3. Trace'
    BY <1>1, <1>2, <1>4, <1>7, <2>1
    DEF Inv, Trace, WalletNow, ServerNow, PrivateRefuses, PublicRefuses,
        PrivateChild, PublicChild, PrivateDigest, PublicDigest
  <2>4. WalksAgree' /\ ServerErrIsWalletErr'
    BY <1>4, <2>1 DEF Inv, DerivationsMatch, WalksAgree, ServerErrIsWalletErr
  <2>5. ASSUME Len(server) > n PROVE server[n + 1].pub = Infinity
    <3>1. ~PublicRefuses(server[n], i) /\ server[n + 1] = PublicChild(server[n], i)
      BY <1>1, <2>5 DEF Inv, Trace
    <3> QED BY <1>1, <1>3, <1>5, <1>7, <2>5, <3>1, ChildrenAgree
  <2>6. WalletErrIsServerErr'
    BY <1>1, <1>4, <2>1, <2>5 DEF WalletErrIsServerErr
  <2> QED BY <1>6, <2>2, <2>3, <2>4, <2>6 DEF Inv, DerivationsMatch
<1>8. CASE ~PrivateRefuses(k, i)
  <2> DEFINE c == PrivateChild(k, i)
  <2>1. walletErr' = walletErr /\ wallet' = Append(wallet, c)
    BY <1>8 DEF WalletStep, WalletNow
  <2>2. c \in PrivateKey
    BY <1>1, <1>3, ChildType
  <2> HIDE DEF c
  <2>3. /\ wallet' \in Seq(PrivateKey)
        /\ Len(wallet') = n + 1
        /\ \A d \in 1..n : wallet'[d] = wallet[d]
        /\ wallet'[n + 1] = c
    BY <1>1, <2>1, <2>2, AppendFacts
  <2>4. Len(wallet)' \in 1..Len(path)' + 1
    BY <1>1, <1>2, <1>4, <2>3
  <2>5. TypeOK'
    BY <1>4, <2>1, <2>3, <2>4, Zenon DEF Inv, TypeOK
  <2>6. c.key # Zero
    BY <1>8 DEF c, PrivateChild, PrivateRefuses
  <2>7. Trace'
    <3>1. \A d \in 1..n + 1 : wallet'[d].key # Zero
      BY <1>1, <2>3, <2>6 DEF Inv, Trace
    <3>2. \A d \in 1..n :
            /\ ~PrivateRefuses(wallet'[d], path[d])
            /\ wallet'[d + 1] = PrivateChild(wallet'[d], path[d])
      BY <1>1, <1>8, <2>3 DEF Inv, Trace, c
    <3> QED
      BY <1>1, <1>2, <1>4, <2>1, <2>3, <3>1, <3>2
      DEF Inv, Trace, WalletNow, ServerNow, PrivateRefuses, PublicRefuses,
          PrivateChild, PublicChild, PrivateDigest, PublicDigest
  <2>8. ServerErrIsWalletErr'
    <3>1. ASSUME serverErr, Len(server) = n PROVE FALSE
      <4>1. PublicRefuses(server[n], i)
        BY <3>1 DEF Inv, Trace, ServerNow
      <4> QED BY <1>1, <1>3, <1>5, <1>8, <3>1, <4>1, ChildrenAgree
    <3> QED
      BY <1>1, <1>4, <2>3, <3>1 DEF Inv, DerivationsMatch, ServerErrIsWalletErr
  <2>9. WalksAgree'
    <3>1. ASSUME n + 1 <= Len(server)
          PROVE  server[n + 1].pub = Times(c.key) /\ server[n + 1].chain = c.chain
      <4>1. server[n + 1] = PublicChild(server[n], i)
        BY <1>1, <3>1 DEF Inv, Trace
      <4> QED BY <1>1, <1>3, <1>5, <3>1, <4>1, ChildrenAgree DEF c
    <3> QED
      BY <1>1, <1>4, <1>5, <2>3, <3>1 DEF WalksAgree
  <2>10. WalletErrIsServerErr'
    BY <1>2, <2>1 DEF WalletErrIsServerErr
  <2> QED BY <1>6, <2>5, <2>7, <2>8, <2>9, <2>10 DEF Inv, DerivationsMatch
<1> QED BY <1>7, <1>8

LEMMA ServerStepInv == Inv /\ ServerStep => Inv'
<1> SUFFICES ASSUME Inv, ServerStep PROVE Inv'
  OBVIOUS
<1> DEFINE n == Len(server)
           i == path[n]
           p == server[n]
<1>1. /\ path \in Paths /\ mac \in Macs
      /\ wallet \in Seq(PrivateKey) /\ Len(wallet) \in 1..Len(path) + 1
      /\ server \in Seq(PublicKey) /\ n \in 1..Len(path) + 1
      /\ Len(path) \in Nat /\ n \in Nat /\ Len(wallet) \in Nat
  BY DerivationAssumption DEF Inv, TypeOK
<1>2. ~serverErr /\ n <= Len(path)
  BY DEF ServerStep
<1>3. i \in Index /\ p \in PublicKey
  BY <1>1, <1>2, PathIndex
<1>4. /\ path' = path /\ mac' = mac /\ nonce' = nonce /\ wallet' = wallet
      /\ walletErr' = walletErr /\ sig' = sig /\ verdict' = verdict
  BY DEF ServerStep, setting
<1>5. \A d \in 1..n : d <= Len(wallet) =>
        /\ wallet[d] \in PrivateKey
        /\ server[d].pub = Times(wallet[d].key)
        /\ server[d].chain = wallet[d].chain
  BY <1>1 DEF Inv, DerivationsMatch, WalksAgree
<1>6. verdict = None
  <2>1. ~ServerDone
    BY <1>1, <1>2 DEF ServerDone
  <2> QED BY <1>2, <2>1, Zenon DEF Inv, Judged
<1>7. Judged'
  BY <1>4, <1>6, Zenon DEF Judged
<1>8. CASE PublicRefuses(p, i)
  <2>1. serverErr' = TRUE /\ server' = server
    BY <1>8 DEF ServerStep, ServerNow
  <2>2. TypeOK'
    BY <1>4, <2>1, Zenon DEF Inv, TypeOK
  <2>3. Trace'
    BY <1>1, <1>2, <1>4, <1>8, <2>1
    DEF Inv, Trace, WalletNow, ServerNow, PrivateRefuses, PublicRefuses,
        PrivateChild, PublicChild, PrivateDigest, PublicDigest
  <2>4. WalksAgree' /\ WalletErrIsServerErr'
    BY <1>4, <2>1 DEF Inv, DerivationsMatch, WalksAgree, WalletErrIsServerErr
  <2>5. ASSUME Len(wallet) > n PROVE FALSE
    <3>1. ~PrivateRefuses(wallet[n], i)
      BY <1>1, <2>5 DEF Inv, Trace
    <3> QED BY <1>1, <1>3, <1>5, <1>8, <2>5, <3>1, ChildrenAgree
  <2>6. ServerErrIsWalletErr'
    BY <1>1, <1>4, <2>1, <2>5 DEF ServerErrIsWalletErr
  <2> QED BY <1>7, <2>2, <2>3, <2>4, <2>6 DEF Inv, DerivationsMatch
<1>9. CASE ~PublicRefuses(p, i)
  <2> DEFINE c == PublicChild(p, i)
  <2>1. serverErr' = serverErr /\ server' = Append(server, c)
    BY <1>9 DEF ServerStep, ServerNow
  <2>2. c \in PublicKey
    BY <1>1, <1>3, ChildType
  <2> HIDE DEF c
  <2>3. /\ server' \in Seq(PublicKey)
        /\ Len(server') = n + 1
        /\ \A d \in 1..n : server'[d] = server[d]
        /\ server'[n + 1] = c
    BY <1>1, <2>1, <2>2, AppendFacts
  <2>4. Len(server)' \in 1..Len(path)' + 1
    BY <1>1, <1>2, <1>4, <2>3
  <2>5. TypeOK'
    BY <1>4, <2>1, <2>3, <2>4, Zenon DEF Inv, TypeOK
  <2>6. Trace'
    <3>1. \A d \in 1..n :
            /\ ~PublicRefuses(server'[d], path[d])
            /\ server'[d + 1] = PublicChild(server'[d], path[d])
      BY <1>1, <1>9, <2>3 DEF Inv, Trace, c
    <3> QED
      BY <1>1, <1>2, <1>4, <2>1, <2>3, <3>1
      DEF Inv, Trace, WalletNow, ServerNow, PrivateRefuses, PublicRefuses,
          PrivateChild, PublicChild, PrivateDigest, PublicDigest
  <2>7. WalletErrIsServerErr'
    <3>1. ASSUME walletErr, Len(wallet) = n PROVE c.pub = Infinity
      <4>1. PrivateRefuses(wallet[n], i)
        BY <3>1 DEF Inv, Trace, WalletNow
      <4> QED BY <1>1, <1>3, <1>5, <1>9, <3>1, <4>1, ChildrenAgree DEF c
    <3>2. ASSUME walletErr, Len(wallet) < n PROVE server[Len(wallet) + 1].pub = Infinity
      BY <1>1, <3>2 DEF Inv, DerivationsMatch, WalletErrIsServerErr
    <3> QED
      BY <1>1, <1>4, <2>3, <3>1, <3>2 DEF WalletErrIsServerErr
  <2>8. WalksAgree'
    <3>1. ASSUME n + 1 <= Len(wallet)
          PROVE  c.pub = Times(wallet[n + 1].key) /\ c.chain = wallet[n + 1].chain
      <4>1. wallet[n + 1] = PrivateChild(wallet[n], i)
        BY <1>1, <3>1 DEF Inv, Trace
      <4> QED BY <1>1, <1>3, <1>5, <3>1, <4>1, ChildrenAgree DEF c
    <3> QED
      BY <1>1, <1>4, <1>5, <2>3, <3>1 DEF WalksAgree
  <2>9. ServerErrIsWalletErr'
    BY <1>2, <2>1 DEF ServerErrIsWalletErr
  <2> QED BY <1>7, <2>5, <2>6, <2>7, <2>8, <2>9 DEF Inv, DerivationsMatch
<1> QED BY <1>8, <1>9

\* A step that leaves the walks alone keeps everything said about them.
LEMMA WalksUnchanged ==
    ASSUME Inv, UNCHANGED <<setting, wallet, server, walletErr, serverErr>>
    PROVE  Trace' /\ DerivationsMatch'
<1>1. /\ path' = path /\ mac' = mac /\ wallet' = wallet /\ server' = server
      /\ walletErr' = walletErr /\ serverErr' = serverErr
  BY DEF setting
<1>2. Trace'
  BY <1>1
  DEF Inv, Trace, WalletNow, ServerNow, PrivateRefuses, PublicRefuses,
      PrivateChild, PublicChild, PrivateDigest, PublicDigest
<1>3. DerivationsMatch'
  BY <1>1 DEF Inv, DerivationsMatch, WalksAgree, ServerErrIsWalletErr, WalletErrIsServerErr
<1> QED BY <1>2, <1>3

\* Signing happens before there is a verdict.
LEMMA SignInv ==
    ASSUME Inv, sig = None, sig' \in Signature,
           UNCHANGED <<setting, wallet, server, walletErr, serverErr, verdict>>
    PROVE  Inv'
<1>1. TypeOK'
  BY Zenon DEF Inv, TypeOK, setting
<1>2. verdict = None
  BY Zenon DEF Inv, Judged
<1>3. Judged'
  BY <1>2, Zenon DEF Judged
<1> QED BY <1>1, <1>3, WalksUnchanged DEF Inv

LEMMA VerifyInv == Inv /\ verifySignature => Inv'
<1> SUFFICES ASSUME Inv, verifySignature PROVE Inv'
  OBVIOUS
<1>1. UNCHANGED <<setting, wallet, server, walletErr, serverErr, sig>>
  BY DEF verifySignature
<1>2. Valid \subseteq BOOLEAN
  BY DEF Valid
<1>3. verdict' \in BOOLEAN
  BY <1>2, Zenon DEF verifySignature
<1>4. TypeOK'
  BY <1>1, <1>3, Zenon DEF Inv, TypeOK, setting
<1>5. Valid' = Valid /\ ServerDone' = ServerDone
  BY <1>1 DEF Valid, ServerDone, ServerNow, setting
<1>6. Judged'
  <2>1. CASE serverErr /\ verdict' = FALSE
    BY <1>1, <2>1, Zenon DEF verifySignature, Judged
  <2>2. CASE ServerDone /\ verdict' \in Valid
    <3>1. ServerDone' /\ verdict' \in Valid'
      BY <1>5, <2>2, Zenon
    <3> QED BY <1>1, <3>1, Zenon DEF verifySignature, Judged
  <2> QED BY <2>1, <2>2, Zenon DEF verifySignature
<1> QED BY <1>1, <1>4, <1>6, WalksUnchanged DEF Inv

LEMMA NextInv == Inv /\ [Next]_vars => Inv'
<1> SUFFICES ASSUME Inv, [Next]_vars PROVE Inv'
  OBVIOUS
<1>1. CASE WalletSigns
  <2>1. sig' \in Signature
    <3>1. WalletNow \in PrivateKey /\ nonce \in Nonce
      <4>1. wallet \in Seq(PrivateKey) /\ Len(wallet) \in 1..Len(wallet)
        BY DerivationAssumption DEF Inv, TypeOK
      <4> QED BY <4>1 DEF WalletNow, Inv, TypeOK
    <3> QED BY <1>1, <3>1 DEF WalletSigns, Signature, PrivateKey
  <2> QED BY <1>1, <2>1, SignInv DEF WalletSigns
<1>2. ASSUME NEW k \in Scalar \ {Zero}, NEW m \in Nonce, SomeoneSigns(k, m)
      PROVE  Inv'
  <2>1. sig' \in Signature
    BY <1>2 DEF SomeoneSigns, Signature
  <2> QED BY <1>2, <2>1, SignInv DEF SomeoneSigns
<1>3. CASE UNCHANGED vars
  <2>1. TypeOK'
    BY <1>3, Zenon DEF Inv, TypeOK, vars, setting
  <2>2. Judged'
    BY <1>3, Zenon DEF Inv, Judged, Valid, ServerDone, ServerNow, vars, setting
  <2> QED BY <1>3, <2>1, <2>2, WalksUnchanged DEF Inv, vars
<1> QED
  BY <1>1, <1>2, <1>3, WalletStepInv, ServerStepInv, VerifyInv DEF Next

\* Everything the proofs rest on holds always.
THEOREM Invariance == Spec => []Inv
BY InitInv, NextInv, PTL DEF Spec

\* The variables keep their types, and no walk leaves the path.
THEOREM TypeCorrect == Spec => []TypeOK
<1>1. Inv => TypeOK
  BY DEF Inv
<1> QED BY <1>1, Invariance, PTL

\* CKDpriv and CKDpub as written in bip32.go commute with taking the public
\* key, along every path, and a public derivation fails only with the private.
THEOREM DerivationsAgree == Spec => []DerivationsMatch
<1>1. Inv => DerivationsMatch
  BY DEF Inv, DerivationsMatch
<1> QED BY <1>1, Invariance, PTL

\* verifySignature accepts exactly what the derived private key has signed.
THEOREM AcceptsOnlyTheKey == Spec => []AcceptsTheKey
<1>1. Inv => AcceptsTheKey
  <2> SUFFICES ASSUME Inv, verdict # None, WalletDone
               PROVE  verdict <=> sig = [key |-> WalletNow.key, nonce |-> nonce]
    BY DEF AcceptsTheKey
  <2>1. /\ path \in Paths /\ wallet \in Seq(PrivateKey) /\ server \in Seq(PublicKey)
        /\ Len(path) \in Nat /\ Len(wallet) = Len(path) + 1
    BY DerivationAssumption DEF Inv, TypeOK, WalletDone
  <2>2. ~serverErr
    BY <2>1 DEF Inv, DerivationsMatch, ServerErrIsWalletErr, Trace
  <2>3. sig # None /\ ServerDone /\ verdict \in Valid
    BY <2>2, Zenon DEF Inv, Judged
  <2>4. ServerNow.pub = Times(WalletNow.key)
    BY <2>1, <2>3 DEF Inv, DerivationsMatch, WalksAgree, ServerDone, ServerNow, WalletNow
  <2>5. WalletNow.key \in Scalar \ {Zero}
    <3>1. WalletNow \in PrivateKey
      BY <2>1 DEF WalletNow
    <3>2. WalletNow.key # Zero
      BY <2>1 DEF WalletNow, Inv, Trace
    <3> QED BY <3>1, <3>2 DEF PrivateKey
  <2>6. ServerNow.pub # Infinity
    BY <2>4, <2>5, CurveAssumption
  <2>7. verdict = (sig.nonce = nonce /\ Times(sig.key) = ServerNow.pub)
    BY <2>3, <2>6, Zenon DEF Valid
  <2>8. sig \in Signature
    BY <2>3, Zenon DEF Inv, TypeOK
  <2>9. sig.key \in Scalar /\ (Times(sig.key) = ServerNow.pub <=> sig.key = WalletNow.key)
    BY <2>4, <2>5, <2>8, CurveAssumption DEF Signature
  <2>10. sig = [key |-> WalletNow.key, nonce |-> nonce]
            <=> sig.key = WalletNow.key /\ sig.nonce = nonce
    BY <2>8 DEF Signature
  <2> QED BY <2>7, <2>9, <2>10
<1> QED BY <1>1, Invariance, PTL
=============================================================================
