----------------------------- MODULE CardBackend -----------------------------
(***************************************************************************)
(* The REST handlers that create things and the webhook handler, over one  *)
(* database and one REAP: Ownership, extended with Webhook.                *)
(*                                                                         *)
(* Ownership's tables are the ones resolveVault reads, and REAP sends      *)
(* events about what it has made, possibly long before (or without) the    *)
(* handler that asked for it writing the row.  Each step is a step of one  *)
(* of the two components.                                                  *)
(*                                                                         *)
(* Webhook takes the vault each resource belongs to, OwnerIn, as given and *)
(* the rows as written by somebody who knows.  Here REAP's IDs are chosen  *)
(* so that they come out as OwnerIn foretells, which excludes no behaviour *)
(* for all choices of OwnerIn together, and that the rows come out right   *)
(* is what has to be shown.                                                *)
(***************************************************************************)
EXTENDS Ownership, Integers, Sequences

CONSTANTS
    Empty, OwnerIn, Event, Tolerance, MaxSkew,   \* as in Webhook
    Delivery                                     \* webhook handler slots

VARIABLES
    content, client, hasChain, recorded, queued, excused, acked, pc, ev, vault

Id == UserId \cup Account \cup Card

\* The tables resolveVault reads, by kind; a user's row is the mapping's.
ownerRow ==
    [kind \in {"card", "account", "user"} |-> [id \in Id |->
        CASE kind = "card" /\ id \in Card       -> cardRow[id]
          [] kind = "account" /\ id \in Account -> accountRow[id]
          [] kind = "user" /\ id \in UserId /\ (\E v \in Vault : reapUserID[v] = id)
                -> CHOOSE v \in Vault : reapUserID[v] = id
          [] OTHER -> None]]

W == INSTANCE Webhook WITH Slot <- Delivery

\* What Webhook takes for granted.
ASSUME BackendAssumption ==
    /\ OwnerIn \in [{"card", "account", "user"} -> [Id -> Vault]]
    /\ Empty \notin Id \cup {"card", "account", "user"}
    /\ None \notin Event \cup W!Content
    /\ Tolerance \in Nat /\ MaxSkew \in Nat

webhookOnly == <<content, client, hasChain, recorded, queued, excused, acked, pc, ev, vault>>
backendVars == <<vars, webhookOnly>>

BackendInit ==
    /\ Init
    /\ W!Init

-----------------------------------------------------------------------------

\* What REAP has made, it has made for the user of the vault foretold.
Foretold ==
    /\ \A v \in Vault : reapUserID[v] # NoUser => OwnerIn["user"][reapUserID[v]] = v
    /\ \A a \in Account : made[a] # None =>
        made[a].user = reapUserID[OwnerIn["account"][a]]
    /\ \A c \in Card : made[c] # None =>
        made[c].user = reapUserID[OwnerIn["card"][c]]

\* The handlers that write rows.  An operation on a card, which only reads
\* them, is Ownership's alone.
RestStep ==
    /\ \/ BindUser
       \/ \E r \in Slot :
            \/ \E v \in Vault, k \in Key : AskAccount(r, v, k)
            \/ \E v \in Vault, k \in Key, a \in Account : AskCard(r, v, k, a)
            \/ Step(r)
            \/ Crash(r)
    /\ Foretold'
    /\ UNCHANGED webhookOnly

\* An event about a resource REAP has: a card with its own account, if any.
\* A user it may just have made, which no row names yet, or ever will.
Reported(c) ==
    LET id == c.about.id
    IN  CASE c.about.kind = "card" ->
                /\ id \in Card /\ made[id] # None
                /\ c.data.AccountID \in {Empty, made[id].account}
          [] c.about.kind = "account" -> id \in Account /\ made[id] # None
          [] c.about.kind = "user"    -> id \in UserId
          [] OTHER -> TRUE

EmitMade(e, c) ==
    /\ content[e] = None
    /\ Reported(c)
    /\ UNCHANGED vars
    /\ W!Emit(e, c)

WebhookStep ==
    /\ UNCHANGED vars
    /\ \/ \E v \in Vault : W!RecordChainCode(v)
       \/ \E d \in Delivery :
            \/ \E e \in Event, authentic \in BOOLEAN, skew \in -MaxSkew..MaxSkew :
                W!Deliver(d, e, authentic, skew)
            \/ W!Step(d)
            \/ W!Crash(d)

BackendNext ==
    \/ RestStep
    \/ \E e \in Event, c \in W!Content : EmitMade(e, c)
    \/ WebhookStep

BackendSpec == BackendInit /\ [][BackendNext]_backendVars

-----------------------------------------------------------------------------
(* What is to hold. *)

\* The rows the creates and POST /user write are the ones the webhook handler
\* relies on: they appear one at a time, with the right vault, and stay.  With
\* this every step of the whole is one that Webhook allows.
RowsAsForetold ==
    [][\/ UNCHANGED <<accountRow, cardRow, reapUserID>>
       \/ \E kind \in W!Kind, id \in Id : W!RecordOwner(kind, id)]_backendVars

\* From end to end: who is notified of an event is the vault whose REAP user
\* the resource was made for, as REAP sees it, whatever the order of the
\* create's answer, its rows and the event, and whatever failed.
NotifiedIsReapOwner ==
    \A e \in Event : \A k \in DOMAIN queued[e] :
        LET about == content[e].about
            user == IF about.kind = "user" THEN about.id ELSE made[about.id].user
        IN  about.kind # Empty /\ reapUserID[queued[e][k]] = user
=============================================================================
