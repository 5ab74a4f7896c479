------------------------------ MODULE Lifecycle ------------------------------
(***************************************************************************)
(* The server process: main, the connection pool, and the requests that    *)
(* are under way when the process is told to stop.                         *)
(*                                                                         *)
(* A request is what it still has to do: statements, each on a connection  *)
(* of the pool, calls to REAP, and metric sends.  A SIGTERM stops new      *)
(* connections and gives the requests shutdownTimeout; then main returns,  *)
(* and its deferred pool.Close refuses new statements and waits for the    *)
(* ones that run, while handlers that are not in a statement just go on    *)
(* until the process is gone.                                              *)
(*                                                                         *)
(* Time passes in Tick.  A REAP call has the client's timeout and a metric *)
(* send a write deadline; how long a statement runs is the assumption      *)
(* StoreBound.  The client may hang up at any time.                        *)
(***************************************************************************)
EXTENDS Naturals, Sequences, FiniteSets

CONSTANTS
    Slot,          \* requests served at the same time
    Conns,         \* connections of the pool
    Window,        \* shutdownTimeout
    Grace,         \* how long Shutdown leaves a connection open that has not
                   \* sent a request yet
    ReapTimeout,   \* timeout of the REAP client
    SendTimeout,   \* writeTimeout of the two sends of a metric
    StoreBound     \* assumed bound on one statement, or one enqueue

ASSUME LifecycleAssumption ==
    /\ IsFiniteSet(Slot)
    /\ Conns \in Nat \ {0}
    /\ {Window, Grace, ReapTimeout, SendTimeout, StoreBound} \subseteq Nat

-----------------------------------------------------------------------------
(* What a request does, by step: db is a statement, row one that records   *)
(* what a create made, enqueue the notification queue's.                   *)

Statement == {"db", "row"}
Call == {"reap", "create", "createUser"}
Step == Statement \cup Call \cup {"metric", "enqueue"}

\* do: the call, and the metrics it sends before it returns.
Do(call) == <<call, "metric">>

\* The request logger, the outermost middleware, sends metrics at the end.
Logged(steps) == Append(steps, "metric")

\* RequireAuth touches the token's row before the handler runs.
Authed(steps) == Logged(<<"db">> \o steps)

\* The handlers, each by the longest way through it: a lookup that decides
\* against it ends it as a failing one does.

\* No route, an invalid request, or one that is not let in.
Refused == {Logged(<<>>), Authed(<<>>)}

\* Health check, nonce; auth; and the webhook, which may notify.
OutsideAuth ==
    {Logged(<<"db">>), Logged(<<"db", "db", "db">>),
     Logged(<<"db", "db", "db", "enqueue">>)}

\* Card designs and the signer message.
PassedOn == {Authed(Do("reap"))}

\* What the request names, a user, an account or a card, is checked first; for
\* activities that is a card and an account.
CheckedFirst == {Authed(<<"db">> \o Do("reap")), Authed(<<"db", "db">> \o Do("reap"))}

\* A transaction, an alert, a challenge or a shipment (of one card) is fetched
\* to learn its card, which is checked, before it is shown or changed; a card
\* that is added to a shipment is checked as well, and a card that a simulation
\* names beside a transaction.
FetchedFirst ==
    {Authed(Do("reap") \o <<"db">>),
     Authed(Do("reap") \o <<"db">> \o Do("reap")),
     Authed(<<"db">> \o Do("reap") \o <<"db">> \o Do("reap")),
     Authed(Do("reap") \o <<"db", "db">> \o Do("reap"))}

\* A user behind its claim, and one whose claim is refused, which asks why; an
\* account; a card, which leaves two rows.
Creating ==
    {Authed(<<"db">> \o Do("createUser") \o <<"row">>),
     Authed(<<"db", "db">>),
     Authed(<<"db">> \o Do("create") \o <<"row">>),
     Authed(<<"db", "db">> \o Do("create") \o <<"row", "row">>)}

Handler ==
    Refused \cup OutsideAuth \cup PassedOn \cup CheckedFirst \cup FetchedFirst
        \cup Creating

\* What is left after a step has failed: a REAP call sends its metrics, and
\* a user's claim is released on a context of its own.
AfterFailing(step) ==
    CASE step = "createUser"         -> <<"metric", "db", "metric">>
      [] step \in {"reap", "create"} -> <<"metric", "metric">>
      [] OTHER                       -> <<"metric">>

\* How long a step may run, not counting the wait for a connection.
Allowed(step) ==
    CASE step \in Call   -> ReapTimeout
      [] step = "metric" -> SendTimeout
      [] OTHER           -> StoreBound

-----------------------------------------------------------------------------

VARIABLES
    phase,     \* where main is
    schema,    \* the tables in the database
    window,    \* what is left of shutdownTimeout
    todo,      \* the steps left of each request; <<>> if there is none
    left,      \* how long the current step may still run
    queue,     \* requests waiting for a connection, in the order they asked
    holders,   \* requests that hold one
    calls,     \* REAP calls under way when the signal came, and still
    fresh      \* connections the signal found without a request, and still

vars == <<phase, schema, window, todo, left, queue, holders, calls, fresh>>
requests == <<todo, left, queue, holders, calls, fresh>>

Phase == {"connecting", "migrating", "starting", "serving", "draining",
          "closing", "stopped"}

Waiting(r) == \E k \in DOMAIN queue : queue[k] = r
Running(r) == todo[r] # <<>> /\ ~Waiting(r)

\* The types; and the tables are there before a statement runs on them.
TypeOK ==
    /\ phase \in Phase
    /\ schema \in {"none", "older", "current"}
    /\ window \in 0..Window
    /\ todo \in [Slot -> Seq(Step)]
    /\ left \in [Slot -> Nat]
    /\ queue \in Seq(Slot)
    /\ holders \subseteq Slot
    /\ calls \subseteq Slot /\ fresh \subseteq Slot
    /\ holders # {} => schema = "current"

NoRequests ==
    /\ todo' = [r \in Slot |-> <<>>]
    /\ left' = [r \in Slot |-> 0]
    /\ queue' = <<>>
    /\ holders' = {}
    /\ calls' = {} /\ fresh' = {}

Init ==
    /\ phase = "connecting"
    /\ schema \in {"none", "older", "current"}
    /\ window = 0
    /\ todo = [r \in Slot |-> <<>>]
    /\ left = [r \in Slot |-> 0]
    /\ queue = <<>>
    /\ holders = {}
    /\ calls = {} /\ fresh = {}

-----------------------------------------------------------------------------
(* main. *)

Connect ==
    /\ phase = "connecting"
    /\ phase' = "migrating"
    /\ UNCHANGED <<schema, window, requests>>

\* Mutant: a failed migration is logged and the server starts.
MigrateOrNot ==
    /\ phase = "migrating"
    /\ phase' = "starting"
    /\ schema' \in {schema, "current"}
    /\ UNCHANGED <<window, requests>>

\* One Exec of all the DDL is one transaction, and every statement of it
\* does nothing to tables that are there already.
Migrate ==
    /\ phase = "migrating"
    /\ phase' = "starting"
    /\ schema' = "current"
    /\ UNCHANGED <<window, requests>>

Start ==
    /\ phase = "starting"
    /\ phase' = "serving"
    /\ UNCHANGED <<schema, window, requests>>

\* log.Fatal, a signal before the server has started (it cancels Connect or
\* Migrate, and that is fatal), a second signal while draining (stop has
\* restored the default handler), kill -9: no deferred call runs.
Die ==
    /\ phase # "stopped"
    /\ phase' = "stopped"
    /\ schema' \in IF phase = "migrating" THEN {schema, "current"} ELSE {schema}
    /\ window' = 0
    /\ NoRequests

\* Mutant: shutdownTimeout is the REAP client's timeout.
SignalShort ==
    /\ phase \in {"starting", "serving"}
    /\ phase' = "draining"
    /\ window' = ReapTimeout
    /\ calls' = {r \in Slot : todo[r] # <<>> /\ Head(todo[r]) \in Call}
    /\ fresh' \in SUBSET {r \in Slot : todo[r] = <<>>}
    /\ UNCHANGED <<schema, todo, left, queue, holders>>

\* The first signal, once the server runs or is about to: Shutdown.
Signal ==
    /\ phase \in {"starting", "serving"}
    /\ phase' = "draining"
    /\ window' = Window
    /\ calls' = {r \in Slot : todo[r] # <<>> /\ Head(todo[r]) \in Call}
    /\ fresh' \in SUBSET {r \in Slot : todo[r] = <<>>}
    /\ UNCHANGED <<schema, todo, left, queue, holders>>

\* Mutant: main returns on the signal, without Shutdown.
DrainNotWaitedFor ==
    /\ phase = "draining"
    /\ phase' = "closing"
    /\ UNCHANGED <<schema, window, requests>>

\* Shutdown returns: every request is done, or its context is.  A connection
\* without a request holds it up no longer than its client pleases.
DrainEnds ==
    /\ phase = "draining"
    /\ window = 0 \/ \A r \in Slot : todo[r] = <<>>
    /\ phase' = "closing"
    /\ UNCHANGED <<schema, window, requests>>

\* pool.Close has its connections back, and main returns.
Exit ==
    /\ phase = "closing"
    /\ holders = {}
    /\ phase' = "stopped"
    /\ window' = 0
    /\ NoRequests
    /\ UNCHANGED schema

Restart ==
    /\ phase = "stopped"
    /\ phase' = "connecting"
    /\ UNCHANGED <<schema, window, requests>>

-----------------------------------------------------------------------------
(* Requests, and the pool. *)

\* The line, if r is in it without r.
Without(line, r) ==
    LET k == CHOOSE j \in DOMAIN line : line[j] = r
    IN  IF \E j \in DOMAIN line : line[j] = r
        THEN SubSeq(line, 1, k - 1) \o SubSeq(line, k + 1, Len(line))
        ELSE line

\* The request goes on with steps: a statement asks for a connection first.
GoOn(r, steps) ==
    LET others == Without(queue, r)
        asks == steps # <<>> /\ Head(steps) \in Statement
    IN  /\ todo' = [todo EXCEPT ![r] = steps]
        /\ queue' = IF asks THEN Append(others, r) ELSE others
        /\ left' = [left EXCEPT ![r] = IF asks \/ steps = <<>> THEN 0
                                       ELSE Allowed(Head(steps))]

Arrive(r, steps) ==
    /\ phase = "serving"
    /\ todo[r] = <<>>
    /\ GoOn(r, steps)
    /\ UNCHANGED <<phase, schema, window, holders, calls, fresh>>

\* Shutdown has closed the listener and the idle connections; the first
\* request of a connection that was there is still served.
ArriveLate(r, steps) ==
    /\ phase = "draining" /\ window + Grace >= Window
    /\ r \in fresh /\ todo[r] = <<>>
    /\ GoOn(r, steps)
    /\ fresh' = fresh \ {r}
    /\ UNCHANGED <<phase, schema, window, holders, calls>>

\* The pool hands a connection to the request that has waited longest.
CanGrant ==
    queue # <<>> /\ Cardinality(holders) < Conns /\ phase # "closing"

Grant(r) ==
    /\ CanGrant
    /\ r = Head(queue)
    /\ holders' = holders \cup {r}
    /\ queue' = Tail(queue)
    /\ left' = [left EXCEPT ![r] = StoreBound]
    /\ UNCHANGED <<phase, schema, window, todo, calls, fresh>>

\* Mutant: the connection stays with the request until it is done.
StepEndsKeeping(r) ==
    /\ Running(r)
    /\ GoOn(r, Tail(todo[r]))
    /\ holders' = IF Tail(todo[r]) = <<>> THEN holders \ {r} ELSE holders
    /\ calls' = calls \ {r}
    /\ UNCHANGED <<phase, schema, window, fresh>>

\* The step succeeds, or its failure makes no difference; the connection of
\* a statement goes back to the pool.
StepEnds(r) ==
    /\ Running(r)
    /\ GoOn(r, Tail(todo[r]))
    /\ holders' = holders \ {r}
    /\ calls' = calls \ {r}
    /\ UNCHANGED <<phase, schema, window, fresh>>

\* The step fails: an error, a timeout, a client gone (also while waiting for
\* a connection), a closed pool.  A metric that cannot be sent is dropped.
StepFails(r) ==
    /\ todo[r] # <<>>
    /\ Head(todo[r]) # "metric"
    /\ GoOn(r, AfterFailing(Head(todo[r])))
    /\ holders' = holders \ {r}
    /\ calls' = calls \ {r}
    /\ UNCHANGED <<phase, schema, window, fresh>>

\* A step runs no longer than it is allowed to, a connection that is free is
\* taken at once, and Shutdown returns when its context is done.
Tick ==
    /\ phase \in {"serving", "draining", "closing"}
    /\ \A r \in Slot : Running(r) => left[r] > 0
    /\ ~CanGrant
    /\ phase = "draining" => window > 0
    /\ left' = [r \in Slot |-> IF Running(r) THEN left[r] - 1 ELSE 0]
    /\ window' = IF phase = "draining" THEN window - 1 ELSE window
    /\ UNCHANGED <<phase, schema, todo, queue, holders, calls, fresh>>

-----------------------------------------------------------------------------

Progress(r) == Grant(r) \/ StepEnds(r) \/ StepFails(r)

Next ==
    \/ Connect \/ Migrate \/ Start \/ Die \/ Signal \/ DrainEnds \/ Exit \/ Restart
    \/ \E r \in Slot :
          \/ Progress(r)
          \/ \E steps \in Handler : Arrive(r, steps) \/ ArriveLate(r, steps)
    \/ Tick

Spec == Init /\ [][Next]_vars

\* Go runs every goroutine that can run, and every step is bounded.  A request
\* that waits for a connection need not be cut short: its client may wait too.
Serve(r) == Grant(r) \/ (Running(r) /\ (StepEnds(r) \/ StepFails(r)))

Fairness ==
    /\ WF_vars(Tick)
    /\ \A r \in Slot : WF_vars(Serve(r))
    /\ WF_vars(DrainEnds) /\ WF_vars(Exit)

FairSpec == Spec /\ Fairness

-----------------------------------------------------------------------------
(* What is to hold. *)

\* A connection is held for exactly as long as a statement runs on it, never
\* across a REAP call and never while waiting for another connection, and
\* the pool does not outgrow its limit.
PoolDiscipline ==
    /\ Cardinality(holders) <= Conns
    /\ holders = {r \in Slot : Running(r) /\ Head(todo[r]) \in Statement}

\* REAP has been asked to make something whose row is not written yet.
Owing(r) ==
    /\ \E k \in DOMAIN todo[r] : todo[r][k] = "row"
    /\ Head(todo[r]) \in Call \/ \A k \in DOMAIN todo[r] : todo[r][k] \notin Call

\* Time for a whole create: five statements, each after a turn in the queue,
\* the call and its metrics; and a moment more.  It may begin in the grace.
EnoughWindow ==
    LET turns == 1 + (Cardinality(Slot) - 1) \div Conns
    IN  Window > Grace + 5 * turns * StoreBound + ReapTimeout + SendTimeout

\* main.go: "killing one mid-flight can leave a card or account created in
\* REAP with no local ownership row".  A shutdown on one signal does not: when
\* the pool closes, no request has a create under way or a row left to write.
NoRowLostToShutdown ==
    EnoughWindow => (phase = "closing" => \A r \in Slot : ~Owing(r))

\* main.go: shutdownTimeout is "above the REAP client's request timeout, so
\* an in-flight proxy call can finish".
InFlightCallsFinish == Window > ReapTimeout /\ phase = "closing" => calls = {}

\* No request waits for ever, for a connection or for anything else.
RequestsEnd == \A r \in Slot : todo[r] # <<>> ~> todo[r] = <<>>

\* A server that is told to stop stops.
StopsWhenTold == phase = "draining" ~> phase = "stopped"
=============================================================================
