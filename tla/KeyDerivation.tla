---------------------------- MODULE KeyDerivation ----------------------------
(***************************************************************************)
(* The key a login is signed with: package bip32, derived twice.           *)
(*                                                                         *)
(* The wallet walks the path from its root private key and signs the nonce *)
(* with the key at its end (the vaultkey tool does that).  The server has  *)
(* only the root public key and the chain code, walks the same path over   *)
(* public keys and verifies against the point at its end.  The two Child   *)
(* functions are written separately, and do not refuse in the same cases:  *)
(* a private child that is zero is an error, a public child at infinity is *)
(* not noticed.                                                            *)
(*                                                                         *)
(* The curve is any group with a base multiplication that is a one-to-one  *)
(* homomorphism.  HMAC-SHA512 is any function of the chain code, the       *)
(* public key and the index, one of Macs; its left half may be at or above *)
(* the group order (overflow, and il is what is left of it mod the order). *)
(* Bytes, hex and DER are left out.                                        *)
(***************************************************************************)
EXTENDS Naturals, Sequences

CONSTANTS
    Scalar, Zero, Plus(_, _),            \* ModNScalar
    Point, Infinity, PointPlus(_, _),    \* JacobianPoint
    Times(_),                            \* ScalarBaseMult
    Chain,                               \* chain codes
    Index, Hardened,                     \* child indexes, and those >= HardenedOffset
    Paths,                               \* derivation paths
    Macs,                                \* candidates for the MAC
    Nonce,
    None

Digest == [il : Scalar, overflow : BOOLEAN, chain : Chain]

ASSUME CurveAssumption ==
    /\ Zero \in Scalar
    /\ Infinity \in Point
    /\ Times(Zero) = Infinity
    /\ \A a \in Scalar : Times(a) \in Point
    /\ \A a, b \in Scalar : Times(a) = Times(b) => a = b
    /\ \A a, b \in Scalar : Plus(a, b) \in Scalar
    /\ \A p, q \in Point : PointPlus(p, q) \in Point
    /\ \A a, b \in Scalar : Times(Plus(a, b)) = PointPlus(Times(a), Times(b))

ASSUME DerivationAssumption ==
    /\ Hardened \subseteq Index
    /\ Paths \subseteq Seq(Index)
    /\ Macs \subseteq [Chain \X Point \X Index -> Digest]
    /\ None \notin BOOLEAN

PrivateKey == [key : Scalar, chain : Chain]
PublicKey == [pub : Point, chain : Chain]
Signature == [key : Scalar, nonce : Nonce]

ASSUME SignatureAssumption == None \notin Signature

VARIABLES
    path, mac, nonce,       \* fixed for a login
    wallet,                 \* the keys the wallet has derived, the root first
    server,                 \* the keys the server has derived
    walletErr, serverErr,   \* Child has returned an error
    sig,                    \* the signature that was sent
    verdict                 \* what verifySignature returned

setting == <<path, mac, nonce>>
vars == <<setting, wallet, server, walletErr, serverErr, sig, verdict>>

TypeOK ==
    /\ path \in Paths /\ mac \in Macs /\ nonce \in Nonce
    /\ wallet \in Seq(PrivateKey) /\ Len(wallet) \in 1..Len(path) + 1
    /\ server \in Seq(PublicKey) /\ Len(server) \in 1..Len(path) + 1
    /\ walletErr \in BOOLEAN /\ serverErr \in BOOLEAN
    /\ sig \in Signature \cup {None}
    /\ verdict \in BOOLEAN \cup {None}

\* A root public key that parses is not the point at infinity.  The chain code
\* is the one the login presents, whatever it is.
Init ==
    /\ path \in Paths /\ mac \in Macs /\ nonce \in Nonce
    /\ \E k \in Scalar \ {Zero}, c \in Chain :
        /\ wallet = <<[key |-> k, chain |-> c]>>
        /\ server = <<[pub |-> Times(k), chain |-> c]>>
    /\ walletErr = FALSE /\ serverErr = FALSE
    /\ sig = None
    /\ verdict = None

-----------------------------------------------------------------------------
(* DerivePath, one Child a step. *)

WalletDone == ~walletErr /\ Len(wallet) = Len(path) + 1
ServerDone == ~serverErr /\ Len(server) = Len(path) + 1

WalletNow == wallet[Len(wallet)]
ServerNow == server[Len(server)]

\* The digest Child computes at index i, under either kind of key.
PrivateDigest(k, i) == mac[<<k.chain, Times(k.key), i>>]
PublicDigest(k, i) == mac[<<k.chain, k.pub, i>>]

PrivateRefuses(k, i) ==
    LET d == PrivateDigest(k, i)
    IN  \/ i \in Hardened
        \/ d.overflow \/ d.il = Zero
        \/ Plus(d.il, k.key) = Zero

PrivateChild(k, i) ==
    [key |-> Plus(PrivateDigest(k, i).il, k.key), chain |-> PrivateDigest(k, i).chain]

\* Mutant: the server does not look at the overflow flag.
PublicRefusesNoOverflow(k, i) ==
    i \in Hardened \/ PublicDigest(k, i).il = Zero

\* No test for a child at infinity.
PublicRefuses(k, i) ==
    LET d == PublicDigest(k, i)
    IN  i \in Hardened \/ d.overflow \/ d.il = Zero

PublicChild(k, i) ==
    [pub |-> PointPlus(Times(PublicDigest(k, i).il), k.pub),
     chain |-> PublicDigest(k, i).chain]

WalletStep ==
    /\ ~walletErr /\ Len(wallet) <= Len(path)
    /\ LET i == path[Len(wallet)]
       IN  IF PrivateRefuses(WalletNow, i)
           THEN walletErr' = TRUE /\ UNCHANGED wallet
           ELSE wallet' = Append(wallet, PrivateChild(WalletNow, i)) /\ UNCHANGED walletErr
    /\ UNCHANGED <<setting, server, serverErr, sig, verdict>>

ServerStep ==
    /\ sig # None
    /\ ~serverErr /\ Len(server) <= Len(path)
    /\ LET i == path[Len(server)]
       IN  IF PublicRefuses(ServerNow, i)
           THEN serverErr' = TRUE /\ UNCHANGED server
           ELSE server' = Append(server, PublicChild(ServerNow, i)) /\ UNCHANGED serverErr
    /\ UNCHANGED <<setting, wallet, walletErr, sig, verdict>>

-----------------------------------------------------------------------------
(* Signing and verifying. *)

\* The wallet signs with its derived key.
WalletSigns ==
    /\ WalletDone
    /\ sig = None
    /\ sig' = [key |-> WalletNow.key, nonce |-> nonce]
    /\ UNCHANGED <<setting, wallet, server, walletErr, serverErr, verdict>>

\* Somebody signs something with some key.
SomeoneSigns(k, n) ==
    /\ sig = None
    /\ sig' = [key |-> k, nonce |-> n]
    /\ UNCHANGED <<setting, wallet, server, walletErr, serverErr, verdict>>

\* Mutant: the root key is asked for instead of the derived one.
ValidUnderRoot == {sig.nonce = nonce /\ Times(sig.key) = server[1].pub}

\* sig.Verify.  What it says of the point at infinity is left open.
Valid ==
    IF ServerNow.pub = Infinity THEN BOOLEAN
    ELSE {sig.nonce = nonce /\ Times(sig.key) = ServerNow.pub}

verifySignature ==
    /\ sig # None /\ verdict = None
    /\ \/ serverErr /\ verdict' = FALSE
       \/ ServerDone /\ verdict' \in Valid
    /\ UNCHANGED <<setting, wallet, server, walletErr, serverErr, sig>>

-----------------------------------------------------------------------------

Next ==
    \/ WalletStep \/ ServerStep
    \/ WalletSigns
    \/ \E k \in Scalar \ {Zero}, n \in Nonce : SomeoneSigns(k, n)
    \/ verifySignature

Spec == Init /\ [][Next]_vars

-----------------------------------------------------------------------------
(* What is to hold. *)

\* At every depth both sides have reached, they have the two halves of one
\* key, and the same chain code to go on with.
WalksAgree ==
    \A d \in 1..Len(wallet) : d <= Len(server) =>
        /\ server[d].pub = Times(wallet[d].key)
        /\ server[d].chain = wallet[d].chain

\* The server's Child fails only where the wallet's fails too: a wallet that
\* has its key cannot be locked out by the derivation.
ServerErrIsWalletErr == serverErr => Len(wallet) <= Len(server)

\* Where only the wallet's Child fails, the server's went through infinity.
WalletErrIsServerErr ==
    walletErr /\ Len(server) > Len(wallet)
        => server[Len(wallet) + 1].pub = Infinity

\* The derivation written twice is one derivation: at every depth both sides
\* have the halves of one key under one chain code, and they refuse the same
\* indices, but for the sum of zero that only the private Child notices.
DerivationsMatch ==
    /\ WalksAgree
    /\ ServerErrIsWalletErr
    /\ WalletErrIsServerErr

\* For a root key and a chain code that give the wallet a key, a login is
\* accepted if and only if the nonce it names was signed with that key.
AcceptsTheKey ==
    verdict # None /\ WalletDone
        => (verdict <=> sig = [key |-> WalletNow.key, nonce |-> nonce])
=============================================================================
