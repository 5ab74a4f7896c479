--------------------------- MODULE LifecycleProofs ---------------------------
(***************************************************************************)
(* The pool, and a shutdown on one signal, for any number of requests and  *)
(* connections and any times.                                              *)
(*                                                                         *)
(* All theorems come from one invariant, LifeInv.  A request is in the     *)
(* line at most once, and not while it holds a connection (QueueOK,        *)
(* PoolDiscipline).  A call under way at the signal has used up what has   *)
(* passed of the window (CallsOK).  That rows are written in time takes a  *)
(* bound on the wait for a connection, which depends on the others:        *)
(* whoever is at place p of the line is served within d + q * StoreBound   *)
(* if p, and the connections still held after d, are no more than q + 1    *)
(* rounds of the pool (Served).  Of that bound nothing is lost when time   *)
(* passes, when the line moves up, or when somebody joins or leaves it.    *)
(* With it the current step of a request is over within some b (DueBy),    *)
(* and what the request has planned after it, up to its last row, fits     *)
(* into the rest of the window (RowsDue).                                  *)
(***************************************************************************)
EXTENDS Lifecycle, FiniteSetTheorems, SequenceTheorems, TLAPS

\* Turns of the pool that a line of all requests takes.
Turns == 1 + (Cardinality(Slot) - 1) \div Conns

\* The longest a statement takes, the wait for a connection included.
Turn == Turns * StoreBound

Up == {"serving", "draining", "closing"}

QueueOK ==
    /\ \A j, k \in DOMAIN queue : queue[j] = queue[k] => j = k
    /\ \A k \in DOMAIN queue : todo[queue[k]] # <<>> /\ Head(todo[queue[k]]) \in Statement

LeftOK == \A r \in Slot : Running(r) => left[r] <= Allowed(Head(todo[r]))

\* Requests are there only while the server is up, on tables that are.
UpOK ==
    /\ phase \in Up \cup {"starting"} => schema = "current"
    /\ phase \notin Up => /\ \A r \in Slot : todo[r] = <<>>
                          /\ queue = <<>> /\ holders = {} /\ calls = {}

\* A call that was under way at the signal has had the window's time so far.
CallsOK ==
    \A r \in calls :
        /\ phase \in {"draining", "closing"}
        /\ todo[r] # <<>> /\ Head(todo[r]) \in Call
        /\ phase = "draining" => left[r] + Window <= ReapTimeout + window

\* Connections held for longer than d.
Late(hs, l, d) == {h \in hs : l[h] > d}

\* Who is at place p of the line has a connection within time t: d for the
\* connections that come back by then, then StoreBound for each round of all.
Served(hs, l, p, t) ==
    \E q \in 0..Cardinality(Slot), d \in 0..StoreBound :
        /\ d + q * StoreBound <= t
        /\ p + Cardinality(Late(hs, l, d)) <= q * Conns + Conns

\* Time for the longest create.
Budget == 5 * Turn + ReapTimeout + SendTimeout

\* What a request with a row to write can be at, and the time for what comes
\* after the current step and not after the last row.
Planned(s, rest) ==
    \/ /\ s = <<"db", "db", "db", "create", "metric", "row", "row", "metric">>
       /\ rest = 4 * Turn + ReapTimeout + SendTimeout
    \/ /\ s = <<"db", "db", "create", "metric", "row", "row", "metric">>
       /\ rest = 3 * Turn + ReapTimeout + SendTimeout
    \/ /\ s = <<"db", "create", "metric", "row", "row", "metric">>
       /\ rest = 2 * Turn + ReapTimeout + SendTimeout
    \/ /\ s = <<"create", "metric", "row", "row", "metric">>
       /\ rest = 2 * Turn + SendTimeout
    \/ s = <<"metric", "row", "row", "metric">> /\ rest = 2 * Turn
    \/ s = <<"row", "row", "metric">> /\ rest = Turn
    \/ s = <<"row", "metric">> /\ rest = 0
    \/ s = <<"metric", "row", "metric">> /\ rest = Turn
    \/ \E call \in {"create", "createUser"} :
        \/ s = <<call, "metric", "row", "metric">> /\ rest = Turn + SendTimeout
        \/ /\ s = <<"db", call, "metric", "row", "metric">>
           /\ rest = Turn + ReapTimeout + SendTimeout
        \/ /\ s = <<"db", "db", call, "metric", "row", "metric">>
           /\ rest = 2 * Turn + ReapTimeout + SendTimeout

HasRow(steps) == \E k \in DOMAIN steps : steps[k] = "row"

PlanOK == \A r \in Slot : HasRow(todo[r]) => \E rest \in 0..Budget : Planned(todo[r], rest)

\* The current step of r is over within time b.
DueBy(r, b) ==
    \/ Running(r) /\ left[r] <= b
    \/ \E k \in DOMAIN queue :
        queue[k] = r /\ b >= StoreBound /\ Served(holders, left, k, b - StoreBound)

\* Rows are written before the window closes.
RowsDue ==
    Window > Grace + Budget /\ phase = "draining" =>
        \A r \in Slot : HasRow(todo[r]) =>
            \E rest \in 0..Budget, b \in 0..Window :
                Planned(todo[r], rest) /\ b + rest < window /\ DueBy(r, b)

NoRowsLeft ==
    Window > Grace + Budget /\ phase = "closing" => \A r \in Slot : ~HasRow(todo[r])

LifeInv ==
    /\ TypeOK
    /\ QueueOK
    /\ PoolDiscipline
    /\ LeftOK
    /\ UpOK
    /\ CallsOK
    /\ InFlightCallsFinish
    /\ PlanOK
    /\ RowsDue
    /\ NoRowsLeft

-----------------------------------------------------------------------------
(* The line. *)

\* A request in the line once is not in the line without it, the others are,
\* and nobody falls behind.
LEMMA Leaving ==
    ASSUME NEW q \in Seq(Slot), NEW r,
           \A j, k \in DOMAIN q : q[j] = q[k] => j = k
    PROVE  /\ Without(q, r) \in Seq(Slot)
           /\ \A j, k \in DOMAIN Without(q, r) :
                Without(q, r)[j] = Without(q, r)[k] => j = k
           /\ \A k \in DOMAIN Without(q, r) :
                /\ Without(q, r)[k] # r
                /\ \E j \in DOMAIN q : k <= j /\ q[j] = Without(q, r)[k]
           /\ \A j \in DOMAIN q : q[j] # r =>
                \E k \in DOMAIN Without(q, r) : Without(q, r)[k] = q[j]
<1>1. CASE ~ \E j \in DOMAIN q : q[j] = r
  <2>1. Without(q, r) = q
    BY <1>1 DEF Without
  <2> QED BY <1>1, <2>1
<1>2. CASE \E j \in DOMAIN q : q[j] = r
  <2> DEFINE p == CHOOSE j \in DOMAIN q : q[j] = r
             w == Without(q, r)
             a == SubSeq(q, 1, p - 1)
             b == SubSeq(q, p + 1, Len(q))
  <2>1. p \in 1..Len(q) /\ q[p] = r /\ Len(q) \in Nat
    BY <1>2
  <2> HIDE DEF p
  <2>2. w = a \o b
    BY <1>2 DEF Without, p
  <2>3. /\ a \in Seq(Slot) /\ Len(a) = p - 1
        /\ \A i \in 1..(p - 1) : a[i] = q[i]
    BY <2>1, SubSeqProperties, ElementOfSeq
  <2>4. /\ b \in Seq(Slot) /\ Len(b) = Len(q) - p
        /\ \A i \in 1..(Len(q) - p) : b[i] = q[p + i]
    BY <2>1, SubSeqProperties, ElementOfSeq
  <2> HIDE DEF a, b
  <2>5. /\ w \in Seq(Slot) /\ Len(w) = Len(q) - 1
        /\ \A i \in 1..(Len(q) - 1) : w[i] = IF i < p THEN q[i] ELSE q[i + 1]
    <3>1. /\ a \o b \in Seq(Slot) /\ Len(a \o b) = Len(a) + Len(b)
          /\ \A i \in 1..(Len(a) + Len(b)) :
                (a \o b)[i] = IF i <= Len(a) THEN a[i] ELSE b[i - Len(a)]
      BY <2>3, <2>4, ConcatProperties
    <3> HIDE DEF w
    <3>2. /\ w \in Seq(Slot) /\ Len(w) = Len(q) - 1
          /\ \A i \in 1..(Len(q) - 1) :
                w[i] = IF i <= p - 1 THEN a[i] ELSE b[i - (p - 1)]
      <4>1. Len(a) + Len(b) = Len(q) - 1
        BY <2>1, <2>3, <2>4
      <4>2. Len(a) = p - 1
        BY <2>3
      <4> QED BY <2>2, <3>1, <4>1, <4>2
    <3> SUFFICES ASSUME NEW i \in 1..(Len(q) - 1)
                 PROVE  w[i] = IF i < p THEN q[i] ELSE q[i + 1]
      BY <3>2
    <3>3. CASE i < p
      <4>1. i \in 1..(p - 1)
        BY <2>1, <3>3
      <4>2. w[i] = a[i]
        BY <2>1, <3>2, <4>1
      <4> QED BY <2>3, <3>3, <4>1, <4>2
    <3>4. CASE ~(i < p)
      <4>1. i - (p - 1) \in 1..(Len(q) - p) /\ p + (i - (p - 1)) = i + 1 /\ ~(i <= p - 1)
        BY <2>1, <3>4
      <4>2. w[i] = b[i - (p - 1)]
        BY <3>2, <4>1
      <4>3. b[i - (p - 1)] = q[p + (i - (p - 1))]
        BY <2>4, <4>1
      <4> QED BY <3>4, <4>1, <4>2, <4>3
    <3> QED BY <3>3, <3>4
  <2> HIDE DEF w
  <2>6. DOMAIN w = 1..(Len(q) - 1) /\ DOMAIN q = 1..Len(q)
    BY <2>1, <2>5
  <2>7. ASSUME NEW k \in DOMAIN w
        PROVE  w[k] # r /\ \E j \in DOMAIN q : k <= j /\ q[j] = w[k]
    BY <2>1, <2>5, <2>6
  <2>8. ASSUME NEW j \in DOMAIN q, q[j] # r
        PROVE  \E k \in DOMAIN w : w[k] = q[j]
    <3>1. CASE j < p
      BY <2>1, <2>5, <2>6, <3>1
    <3>2. CASE j > p
      <4>1. j - 1 \in 1..(Len(q) - 1) /\ w[j - 1] = q[j]
        BY <2>1, <2>5, <2>6, <3>2
      <4> QED BY <2>6, <4>1
    <3> QED BY <2>1, <2>6, <2>8, <3>1, <3>2
  <2>9. ASSUME NEW j \in DOMAIN w, NEW k \in DOMAIN w, w[j] = w[k]
        PROVE  j = k
    <3> DEFINE at(i) == IF i < p THEN i ELSE i + 1
    <3>1. at(j) \in DOMAIN q /\ at(k) \in DOMAIN q /\ w[j] = q[at(j)] /\ w[k] = q[at(k)]
      BY <2>1, <2>5, <2>6
    <3>2. at(j) = at(k)
      BY <2>9, <3>1
    <3> QED BY <2>1, <2>6, <3>2
  <2> QED BY <2>5, <2>7, <2>8, <2>9 DEF w
<1> QED BY <1>1, <1>2

\* Requests in the line and requests with a connection are different ones.
LEMMA LineFits ==
    ASSUME NEW q \in Seq(Slot), NEW hs \in SUBSET Slot,
           \A j, k \in DOMAIN q : q[j] = q[k] => j = k,
           \A k \in DOMAIN q : q[k] \notin hs
    PROVE  /\ Len(q) \in Nat /\ Cardinality(hs) \in Nat /\ Cardinality(Slot) \in Nat
           /\ Len(q) + Cardinality(hs) <= Cardinality(Slot)
<1> DEFINE others == Slot \ hs
           places == 1..Len(q)
<1>1. IsFiniteSet(hs) /\ IsFiniteSet(others) /\ IsFiniteSet(Slot)
  BY LifecycleAssumption, FS_Subset
<1>2. Cardinality(hs \cup others) = Cardinality(hs) + Cardinality(others)
                                      - Cardinality(hs \cap others)
  BY <1>1, FS_Union
<1>3. hs \cup others = Slot /\ hs \cap others = {}
  OBVIOUS
<1>4. Len(q) \in Nat /\ DOMAIN q = places
  BY LenProperties
<1>5. q \in Injection(places, others)
  BY <1>4 DEF Injection, IsInjective
<1>6. Cardinality(places) <= Cardinality(others)
  BY <1>1, <1>5, FS_Injection
<1>7. Cardinality(places) = Len(q)
  <2>1. Cardinality(1..Len(q)) = IF 1 > Len(q) THEN 0 ELSE Len(q) - 1 + 1
    BY <1>4, FS_Interval
  <2> QED BY <1>4, <2>1
<1>8. /\ Cardinality(hs) \in Nat /\ Cardinality(others) \in Nat
      /\ Cardinality(Slot) \in Nat /\ Cardinality({}) = 0
  BY <1>1, FS_CardinalityType, FS_EmptySet
<1> HIDE DEF others, places
<1>9. Cardinality(Slot) = Cardinality(hs) + Cardinality(others)
  <2>1. Cardinality(Slot) = Cardinality(hs) + Cardinality(others) - Cardinality({})
    BY <1>2, <1>3
  <2> QED BY <1>8, <2>1
<1> QED BY <1>4, <1>6, <1>7, <1>8, <1>9

-----------------------------------------------------------------------------
(* How long a place in the line lasts. *)

LEMMA TurnsCover ==
    ASSUME Slot # {}
    PROVE  /\ Cardinality(Slot) \in Nat /\ Turns \in 1..Cardinality(Slot) /\ Turn \in Nat
           /\ Turn - StoreBound = (Turns - 1) * StoreBound
           /\ Cardinality(Slot) <= Turns * Conns
<1> DEFINE n == Cardinality(Slot)
           m == (n - 1) \div Conns
<1>1. n \in Nat /\ n # 0
  BY LifecycleAssumption, FS_CardinalityType, FS_EmptySet
<1>2. Conns \in Nat /\ Conns > 0 /\ StoreBound \in Nat
  BY LifecycleAssumption
<1> HIDE DEF n
<1>3. m \in Nat /\ m <= n - 1 /\ n - 1 < m * Conns + Conns
  BY <1>1, <1>2
<1> HIDE DEF m
<1>4. Turns = 1 + m
  BY DEF Turns, n, m
<1>5. Turns * Conns = m * Conns + Conns /\ Turns * StoreBound = m * StoreBound + StoreBound
  BY <1>2, <1>3, <1>4
<1>6. m * Conns \in Nat /\ m * StoreBound \in Nat
  BY <1>2, <1>3
<1> QED BY <1>1, <1>2, <1>3, <1>4, <1>5, <1>6 DEF Turn, n

LEMMA Sizes ==
    /\ IsFiniteSet(Slot) /\ Cardinality(Slot) \in Nat
    /\ \A T \in SUBSET Slot : IsFiniteSet(T) /\ Cardinality(T) \in Nat
    /\ \A U \in SUBSET Slot : \A T \in SUBSET U : Cardinality(T) <= Cardinality(U)
    /\ Conns \in Nat /\ Conns > 0 /\ StoreBound \in Nat
<1>1. IsFiniteSet(Slot) /\ Conns \in Nat /\ Conns > 0 /\ StoreBound \in Nat
  BY LifecycleAssumption
<1>2. \A T \in SUBSET Slot : IsFiniteSet(T) /\ Cardinality(T) \in Nat
  BY <1>1, FS_Subset, FS_CardinalityType
<1>3. \A U \in SUBSET Slot : \A T \in SUBSET U : Cardinality(T) <= Cardinality(U)
  BY <1>2, FS_Subset
<1>4. Cardinality(Slot) \in Nat
  BY <1>1, FS_CardinalityType
<1> QED BY <1>1, <1>2, <1>3, <1>4

\* Moving up, connections that come back and more time do no harm.
LEMMA ServedStill ==
    ASSUME NEW hs \in SUBSET Slot, NEW l, NEW i \in Nat, NEW t \in Int,
           NEW hh \in SUBSET hs, NEW ll, NEW j \in Nat, NEW u \in Int,
           \A h \in hh : ll[h] = l[h], j <= i, t <= u,
           Served(hs, l, i, t)
    PROVE  Served(hh, ll, j, u)
<1> PICK q \in 0..Cardinality(Slot), d \in 0..StoreBound :
            /\ d + q * StoreBound <= t
            /\ i + Cardinality(Late(hs, l, d)) <= q * Conns + Conns
  BY DEF Served
<1>1. Late(hh, ll, d) \in SUBSET Late(hs, l, d) /\ Late(hs, l, d) \in SUBSET Slot
  BY DEF Late
<1>2. /\ Cardinality(Late(hh, ll, d)) <= Cardinality(Late(hs, l, d))
      /\ Cardinality(Late(hh, ll, d)) \in Nat /\ Cardinality(Late(hs, l, d)) \in Nat
  BY <1>1, Sizes
<1>3. q * Conns \in Nat /\ q * StoreBound \in Nat
  BY Sizes
<1>4. j + Cardinality(Late(hh, ll, d)) <= q * Conns + Conns /\ d + q * StoreBound <= u
  BY <1>2, <1>3, Sizes
<1> QED BY <1>4 DEF Served

\* A connection taken by the first in line: the others move up.
LEMMA ServedOnGrant ==
    ASSUME NEW hs \in SUBSET Slot, NEW l, NEW i \in Nat, NEW t \in Int,
           NEW r \in Slot, NEW ll, \A h \in hs \ {r} : ll[h] = l[h], 
           Served(hs, l, i + 1, t)
    PROVE  Served(hs \cup {r}, ll, i, t)
<1> DEFINE hh == hs \cup {r}
<1> PICK q \in 0..Cardinality(Slot), d \in 0..StoreBound :
            /\ d + q * StoreBound <= t
            /\ (i + 1) + Cardinality(Late(hs, l, d)) <= q * Conns + Conns
  BY DEF Served
<1> DEFINE late == Late(hs, l, d)
<1>1. /\ Late(hh, ll, d) \in SUBSET (late \cup {r})
      /\ late \in SUBSET Slot /\ late \cup {r} \in SUBSET Slot
  BY DEF Late
<1> HIDE DEF late, hh
<1>2. Cardinality(late \cup {r}) <= Cardinality(late) + 1
  BY <1>1, Sizes, FS_AddElement
<1>3. /\ Cardinality(Late(hh, ll, d)) <= Cardinality(late \cup {r})
      /\ Cardinality(Late(hh, ll, d)) \in Nat /\ Cardinality(late) \in Nat
      /\ Cardinality(late \cup {r}) \in Nat
  BY <1>1, Sizes
<1>4. q * Conns \in Nat
  BY Sizes
<1>5. i + Cardinality(Late(hh, ll, d)) <= q * Conns + Conns
  BY <1>2, <1>3, <1>4, Sizes DEF late
<1> QED BY <1>5 DEF Served, hh

\* Time passes with all connections taken: the wait gets shorter.
LEMMA ServedOnTick ==
    ASSUME NEW hs \in SUBSET Slot, NEW l, NEW i \in Nat \ {0}, NEW t \in Int, NEW ll,
           \A h \in hs : l[h] \in 1..StoreBound /\ ll[h] = l[h] - 1,
           Cardinality(hs) >= Conns,
           Served(hs, l, i, t)
    PROVE  t >= 1 /\ Served(hs, ll, i, t - 1)
<1> PICK q \in 0..Cardinality(Slot), d \in 0..StoreBound :
            /\ d + q * StoreBound <= t
            /\ i + Cardinality(Late(hs, l, d)) <= q * Conns + Conns
  BY DEF Served
<1>1. q * Conns \in Nat /\ q * StoreBound \in Nat /\ Cardinality(hs) \in Nat
  BY Sizes
<1>2. CASE d > 0
  <2>1. Late(hs, ll, d - 1) = Late(hs, l, d)
    BY <1>2, Sizes DEF Late
  <2>2. t >= 1 /\ (d - 1) + q * StoreBound <= t - 1 /\ d - 1 \in 0..StoreBound
    BY <1>1, <1>2, Sizes
  <2> QED BY <2>1, <2>2 DEF Served
<1>3. CASE d = 0
  <2>1. Late(hs, l, 0) = hs
    BY Sizes DEF Late
  <2>2. q # 0
    <3>1. i + Cardinality(hs) <= q * Conns + Conns
      BY <1>3, <2>1
    <3>2. q * Conns > 0
      BY <1>1, <3>1, Sizes
    <3> QED BY <3>2, Sizes
  <2>3. hs # {}
    BY FS_EmptySet, Sizes
  <2>4. StoreBound >= 1
    BY <2>3, Sizes
  <2>5. Late(hs, ll, StoreBound - 1) = {}
    BY <2>4, Sizes DEF Late
  <2>6. Cardinality(Late(hs, ll, StoreBound - 1)) = 0
    BY <2>5, FS_EmptySet
  <2>7. /\ (q - 1) * Conns + Conns = q * Conns
        /\ (q - 1) * StoreBound + StoreBound = q * StoreBound
        /\ (q - 1) * StoreBound \in Nat
    BY <2>2, Sizes
  <2>8. i + 0 <= (q - 1) * Conns + Conns
    <3>1. i + Cardinality(hs) <= q * Conns + Conns
      BY <1>3, <2>1
    <3> QED BY <1>1, <2>7, <3>1, Sizes
  <2>9. t >= 1 /\ (StoreBound - 1) + (q - 1) * StoreBound <= t - 1
    BY <1>1, <1>3, <2>4, <2>7, Sizes
  <2>10. q - 1 \in 0..Cardinality(Slot) /\ StoreBound - 1 \in 0..StoreBound
    BY <2>2, <2>4, Sizes
  <2> QED BY <2>6, <2>8, <2>9, <2>10 DEF Served
<1> QED BY <1>2, <1>3, Sizes

\* Whoever joins the line has a connection in all turns but the last.
LEMMA ServedOnJoining ==
    ASSUME NEW hs \in SUBSET Slot, NEW l, NEW i \in Nat, Slot # {},
           i + Cardinality(hs) <= Cardinality(Slot)
    PROVE  Served(hs, l, i, Turn - StoreBound)
<1>1. /\ Turns \in 1..Cardinality(Slot) /\ Turn - StoreBound = (Turns - 1) * StoreBound
      /\ Cardinality(Slot) <= Turns * Conns
  BY TurnsCover
<1>2. Late(hs, l, 0) \in SUBSET hs
  BY DEF Late
<1>3. /\ Cardinality(Late(hs, l, 0)) <= Cardinality(hs)
      /\ Cardinality(Late(hs, l, 0)) \in Nat /\ Cardinality(hs) \in Nat
  BY <1>2, Sizes
<1>4. (Turns - 1) * Conns + Conns = Turns * Conns /\ Turns * Conns \in Nat
  BY <1>1, Sizes
<1>5. i + Cardinality(Late(hs, l, 0)) <= (Turns - 1) * Conns + Conns
  BY <1>1, <1>3, <1>4, Sizes
<1>6. 0 + (Turns - 1) * StoreBound <= Turn - StoreBound
  <2>1. (Turns - 1) * StoreBound \in Nat
    BY <1>1, Sizes
  <2> QED BY <1>1, <2>1
<1>7. Turns - 1 \in 0..Cardinality(Slot) /\ 0 \in 0..StoreBound
  BY <1>1, Sizes
<1> QED BY <1>5, <1>6, <1>7 DEF Served

-----------------------------------------------------------------------------
(* What requests do. *)

\* The longest a step takes, from the end of the one before.
Cost(step) == IF step \in Statement THEN Turn ELSE Allowed(step)

LEMMA Times ==
    /\ ReapTimeout \in Nat /\ SendTimeout \in Nat /\ Window \in Nat /\ StoreBound \in Nat
    /\ Grace \in Nat
    /\ Slot # {} => Turn \in Nat
BY LifecycleAssumption, TurnsCover

LEMMA NoRowIn ==
    ASSUME NEW s \in Seq(Step \ {"row"})
    PROVE  s \in Seq(Step) /\ ~HasRow(s)
<1>1. s \in Seq(Step)
  BY SeqMonotonic
<1>2. \A k \in DOMAIN s : s[k] \in Step \ {"row"}
  BY LenProperties, ElementOfSeq
<1> QED BY <1>1, <1>2 DEF HasRow

LEMMA OtherSteps ==
    ASSUME NEW s \in Refused \cup OutsideAuth \cup PassedOn \cup CheckedFirst
                        \cup FetchedFirst \cup {Authed(<<"db", "db">>)}
    PROVE  s \in Seq(Step \ {"row"}) /\ s # <<>>
<1> USE DEF Logged, Authed, Do, Step, Statement, Call
<1>1. CASE s = Logged(<<>>)
  BY <1>1
<1>2. CASE s = Authed(<<>>)
  BY <1>2
<1>3. CASE s = Logged(<<"db">>)
  BY <1>3
<1>4. CASE s = Logged(<<"db", "db", "db">>)
  BY <1>4
<1>5. CASE s = Logged(<<"db", "db", "db", "enqueue">>)
  BY <1>5
<1>6. CASE s = Authed(Do("reap"))
  BY <1>6
<1>7. CASE s = Authed(<<"db">> \o Do("reap"))
  BY <1>7
<1>8. CASE s = Authed(<<"db", "db">> \o Do("reap"))
  BY <1>8
<1>9. CASE s = Authed(Do("reap") \o <<"db">>)
  BY <1>9
<1>10. CASE s = Authed(Do("reap") \o <<"db">> \o Do("reap"))
  BY <1>10
<1>11. CASE s = Authed(<<"db">> \o Do("reap") \o <<"db">> \o Do("reap"))
  BY <1>11
<1>12. CASE s = Authed(Do("reap") \o <<"db", "db">> \o Do("reap"))
  BY <1>12
<1>13. CASE s = Authed(<<"db", "db">>)
  BY <1>13
<1> QED
  BY <1>1, <1>2, <1>3, <1>4, <1>5, <1>6, <1>7,
     <1>8, <1>9, <1>10, <1>11, <1>12, <1>13, Zenon
     DEF Refused, OutsideAuth, PassedOn, CheckedFirst, FetchedFirst

LEMMA CreateSteps ==
    /\ Authed(<<"db">> \o Do("createUser") \o <<"row">>)
        = <<"db", "db", "createUser", "metric", "row", "metric">>
    /\ Authed(<<"db">> \o Do("create") \o <<"row">>)
        = <<"db", "db", "create", "metric", "row", "metric">>
    /\ Authed(<<"db", "db">> \o Do("create") \o <<"row", "row">>)
        = <<"db", "db", "db", "create", "metric", "row", "row", "metric">>
<1> USE DEF Authed, Logged, Do, Step, Statement, Call
<1>1. ASSUME NEW s, s = Authed(<<"db">> \o Do("createUser") \o <<"row">>)
      PROVE  s = <<"db", "db", "createUser", "metric", "row", "metric">>
  <2>1. /\ s \in Seq(Step) /\ Len(s) = 6
        /\ s[1] = "db" /\ s[2] = "db" /\ s[3] = "createUser"
        /\ s[4] = "metric" /\ s[5] = "row" /\ s[6] = "metric"
    BY <1>1
  <2> QED BY ONLY <2>1
<1>2. ASSUME NEW s, s = Authed(<<"db">> \o Do("create") \o <<"row">>)
      PROVE  s = <<"db", "db", "create", "metric", "row", "metric">>
  <2>1. /\ s \in Seq(Step) /\ Len(s) = 6
        /\ s[1] = "db" /\ s[2] = "db" /\ s[3] = "create"
        /\ s[4] = "metric" /\ s[5] = "row" /\ s[6] = "metric"
    BY <1>2
  <2> QED BY ONLY <2>1
<1>3. ASSUME NEW s, s = Authed(<<"db", "db">> \o Do("create") \o <<"row", "row">>)
      PROVE  s = <<"db", "db", "db", "create", "metric", "row", "row", "metric">>
  <2>1. /\ s \in Seq(Step) /\ Len(s) = 8
        /\ s[1] = "db" /\ s[2] = "db" /\ s[3] = "db" /\ s[4] = "create"
        /\ s[5] = "metric" /\ s[6] = "row" /\ s[7] = "row" /\ s[8] = "metric"
    BY <1>3
  <2> QED BY ONLY <2>1
<1> QED BY <1>1, <1>2, <1>3, Zenon

LEMMA HandlerSteps ==
    ASSUME NEW s \in Handler, Slot # {}
    PROVE  /\ s \in Seq(Step) /\ s # <<>>
           /\ HasRow(s) => \E rest \in 0..Budget : Planned(s, rest)
<1>1. CASE s \in Refused \cup OutsideAuth \cup PassedOn \cup CheckedFirst
                     \cup FetchedFirst \cup {Authed(<<"db", "db">>)}
  BY <1>1, OtherSteps, NoRowIn
<1>2. ASSUME NEW call \in {"create", "createUser"},
             s = <<"db", "db", call, "metric", "row", "metric">>
      PROVE  s \in Seq(Step) /\ s # <<>> /\ \E rest \in 0..Budget : Planned(s, rest)
  <2>1. s \in Seq(Step) /\ s # <<>>
    BY <1>2 DEF Step, Statement, Call
  <2>2. Planned(s, 2 * Turn + ReapTimeout + SendTimeout)
    BY <1>2 DEF Planned
  <2>3. 2 * Turn + ReapTimeout + SendTimeout \in 0..Budget
    BY Times DEF Budget
  <2> QED BY <2>1, <2>2, <2>3
<1>3. CASE s = <<"db", "db", "db", "create", "metric", "row", "row", "metric">>
  <2>1. s \in Seq(Step) /\ s # <<>>
    BY <1>3 DEF Step, Statement, Call
  <2>2. Planned(s, 4 * Turn + ReapTimeout + SendTimeout)
    BY <1>3 DEF Planned
  <2>3. 4 * Turn + ReapTimeout + SendTimeout \in 0..Budget
    BY Times DEF Budget
  <2> QED BY <2>1, <2>2, <2>3
<1>4. \/ s \in Refused \cup OutsideAuth \cup PassedOn \cup CheckedFirst
                   \cup FetchedFirst \cup {Authed(<<"db", "db">>)}
      \/ s = <<"db", "db", "createUser", "metric", "row", "metric">>
      \/ s = <<"db", "db", "create", "metric", "row", "metric">>
      \/ s = <<"db", "db", "db", "create", "metric", "row", "row", "metric">>
  BY CreateSteps, Zenon DEF Handler, Creating
<1> QED BY <1>1, <1>2, <1>3, <1>4

LEMMA FailingSteps ==
    ASSUME NEW step
    PROVE  AfterFailing(step) \in Seq(Step) /\ ~HasRow(AfterFailing(step))
<1>1. AfterFailing(step) \in Seq(Step \ {"row"})
  <2> USE DEF Step, Statement, Call
  <2>1. CASE step = "createUser"
    BY <2>1 DEF AfterFailing
  <2>2. CASE step \in {"reap", "create"}
    BY <2>2 DEF AfterFailing
  <2>3. CASE step \notin {"createUser", "reap", "create"}
    BY <2>3 DEF AfterFailing
  <2> QED BY <2>1, <2>2, <2>3
<1> QED BY <1>1, NoRowIn

\* A row that is left to write was left before.
LEMMA RowsLeft ==
    ASSUME NEW s \in Seq(Step), s # <<>>, HasRow(Tail(s))
    PROVE  HasRow(s)
<1> PICK k \in DOMAIN Tail(s) : Tail(s)[k] = "row"
  BY DEF HasRow
<1>1. k + 1 \in DOMAIN s /\ s[k + 1] = "row"
  BY HeadTailProperties, LenProperties
<1> QED BY <1>1 DEF HasRow

\* Every plan has an end that is in the budget, and the time it has for the
\* rest pays for its next step.
LEMMA PlanStep ==
    ASSUME NEW s, NEW rest, Planned(s, rest), Slot # {}
    PROVE  /\ s \in Seq(Step) /\ s # <<>> /\ rest \in Nat
           /\ Cost(Head(s)) + rest <= Budget
           /\ HasRow(Tail(s)) => \E n \in 0..Budget :
                Planned(Tail(s), n) /\ rest = Cost(Head(Tail(s))) + n
<1> DEFINE OK == /\ s \in Seq(Step) /\ s # <<>> /\ rest \in Nat
                 /\ Cost(Head(s)) + rest <= Budget
           Goes(n) == Planned(Tail(s), n) /\ n \in 0..Budget
                        /\ rest = Cost(Head(Tail(s))) + n
<1> USE Times
<1>1. ASSUME s = <<"db", "db", "db", "create", "metric", "row", "row", "metric">>,
             rest = 4 * Turn + ReapTimeout + SendTimeout
      PROVE  OK /\ Goes(3 * Turn + ReapTimeout + SendTimeout)
  <2>1. /\ Head(s) = "db" /\ s # <<>>
        /\ Tail(s) = <<"db", "db", "create", "metric", "row", "row", "metric">>
    BY <1>1
  <2>2. s \in Seq(Step)
    BY <1>1 DEF Step, Statement, Call
  <2>3. rest \in Nat /\ Cost(Head(s)) + rest <= Budget
    BY <1>1, <2>1 DEF Cost, Allowed, Budget, Statement, Call
  <2>4. Planned(Tail(s), 3 * Turn + ReapTimeout + SendTimeout)
    BY <2>1 DEF Planned
  <2>5. /\ 3 * Turn + ReapTimeout + SendTimeout \in 0..Budget
        /\ rest = Cost(Head(Tail(s))) + (3 * Turn + ReapTimeout + SendTimeout)
    BY <1>1, <2>1 DEF Cost, Allowed, Budget, Statement, Call
  <2> QED BY <2>1, <2>2, <2>3, <2>4, <2>5
<1>2. ASSUME s = <<"db", "db", "create", "metric", "row", "row", "metric">>,
             rest = 3 * Turn + ReapTimeout + SendTimeout
      PROVE  OK /\ Goes(2 * Turn + ReapTimeout + SendTimeout)
  <2>1. /\ Head(s) = "db" /\ s # <<>>
        /\ Tail(s) = <<"db", "create", "metric", "row", "row", "metric">>
    BY <1>2
  <2>2. s \in Seq(Step)
    BY <1>2 DEF Step, Statement, Call
  <2>3. rest \in Nat /\ Cost(Head(s)) + rest <= Budget
    BY <1>2, <2>1 DEF Cost, Allowed, Budget, Statement, Call
  <2>4. Planned(Tail(s), 2 * Turn + ReapTimeout + SendTimeout)
    BY <2>1 DEF Planned
  <2>5. /\ 2 * Turn + ReapTimeout + SendTimeout \in 0..Budget
        /\ rest = Cost(Head(Tail(s))) + (2 * Turn + ReapTimeout + SendTimeout)
    BY <1>2, <2>1 DEF Cost, Allowed, Budget, Statement, Call
  <2> QED BY <2>1, <2>2, <2>3, <2>4, <2>5
<1>3. ASSUME s = <<"db", "create", "metric", "row", "row", "metric">>,
             rest = 2 * Turn + ReapTimeout + SendTimeout
      PROVE  OK /\ Goes(2 * Turn + SendTimeout)
  <2>1. /\ Head(s) = "db" /\ s # <<>>
        /\ Tail(s) = <<"create", "metric", "row", "row", "metric">>
    BY <1>3
  <2>2. s \in Seq(Step)
    BY <1>3 DEF Step, Statement, Call
  <2>3. rest \in Nat /\ Cost(Head(s)) + rest <= Budget
    BY <1>3, <2>1 DEF Cost, Allowed, Budget, Statement, Call
  <2>4. Planned(Tail(s), 2 * Turn + SendTimeout)
    BY <2>1 DEF Planned
  <2>5. /\ 2 * Turn + SendTimeout \in 0..Budget
        /\ rest = Cost(Head(Tail(s))) + (2 * Turn + SendTimeout)
    BY <1>3, <2>1 DEF Cost, Allowed, Budget, Statement, Call
  <2> QED BY <2>1, <2>2, <2>3, <2>4, <2>5
<1>4. ASSUME s = <<"create", "metric", "row", "row", "metric">>,
             rest = 2 * Turn + SendTimeout
      PROVE  OK /\ Goes(2 * Turn)
  <2>1. /\ Head(s) = "create" /\ s # <<>>
        /\ Tail(s) = <<"metric", "row", "row", "metric">>
    BY <1>4
  <2>2. s \in Seq(Step)
    BY <1>4 DEF Step, Statement, Call
  <2>3. rest \in Nat /\ Cost(Head(s)) + rest <= Budget
    BY <1>4, <2>1 DEF Cost, Allowed, Budget, Statement, Call
  <2>4. Planned(Tail(s), 2 * Turn)
    BY <2>1 DEF Planned
  <2>5. 2 * Turn \in 0..Budget /\ rest = Cost(Head(Tail(s))) + 2 * Turn
    BY <1>4, <2>1 DEF Cost, Allowed, Budget, Statement, Call
  <2> QED BY <2>1, <2>2, <2>3, <2>4, <2>5
<1>5. ASSUME s = <<"metric", "row", "row", "metric">>,
             rest = 2 * Turn
      PROVE  OK /\ Goes(Turn)
  <2>1. Head(s) = "metric" /\ s # <<>> /\ Tail(s) = <<"row", "row", "metric">>
    BY <1>5
  <2>2. s \in Seq(Step)
    BY <1>5 DEF Step, Statement, Call
  <2>3. rest \in Nat /\ Cost(Head(s)) + rest <= Budget
    BY <1>5, <2>1 DEF Cost, Allowed, Budget, Statement, Call
  <2>4. Planned(Tail(s), Turn)
    BY <2>1 DEF Planned
  <2>5. Turn \in 0..Budget /\ rest = Cost(Head(Tail(s))) + Turn
    BY <1>5, <2>1 DEF Cost, Allowed, Budget, Statement, Call
  <2> QED BY <2>1, <2>2, <2>3, <2>4, <2>5
<1>6. ASSUME s = <<"row", "row", "metric">>,
             rest = Turn
      PROVE  OK /\ Goes(0)
  <2>1. Head(s) = "row" /\ s # <<>> /\ Tail(s) = <<"row", "metric">>
    BY <1>6
  <2>2. s \in Seq(Step)
    BY <1>6 DEF Step, Statement, Call
  <2>3. rest \in Nat /\ Cost(Head(s)) + rest <= Budget
    BY <1>6, <2>1 DEF Cost, Allowed, Budget, Statement, Call
  <2>4. Planned(Tail(s), 0)
    BY <2>1 DEF Planned
  <2>5. 0 \in 0..Budget /\ rest = Cost(Head(Tail(s))) + 0
    BY <1>6, <2>1 DEF Cost, Allowed, Budget, Statement, Call
  <2> QED BY <2>1, <2>2, <2>3, <2>4, <2>5
<1>7. ASSUME s = <<"row", "metric">>,
             rest = 0
      PROVE  OK /\ ~HasRow(Tail(s))
  <2>1. Head(s) = "row" /\ s # <<>> /\ Tail(s) = <<"metric">>
    BY <1>7
  <2>2. s \in Seq(Step)
    BY <1>7 DEF Step, Statement, Call
  <2>3. rest \in Nat /\ Cost(Head(s)) + rest <= Budget
    BY <1>7, <2>1 DEF Cost, Allowed, Budget, Statement, Call
  <2>4. ~HasRow(Tail(s))
    <3>1. <<"metric">> \in Seq(Step \ {"row"})
      BY DEF Step
    <3>2. ~HasRow(<<"metric">>)
      BY <3>1, NoRowIn, Zenon
    <3> QED BY <2>1, <3>2, Zenon
  <2> QED BY <2>1, <2>2, <2>3, <2>4
<1>8. ASSUME s = <<"metric", "row", "metric">>,
             rest = Turn
      PROVE  OK /\ Goes(0)
  <2>1. Head(s) = "metric" /\ s # <<>> /\ Tail(s) = <<"row", "metric">>
    BY <1>8
  <2>2. s \in Seq(Step)
    BY <1>8 DEF Step, Statement, Call
  <2>3. rest \in Nat /\ Cost(Head(s)) + rest <= Budget
    BY <1>8, <2>1 DEF Cost, Allowed, Budget, Statement, Call
  <2>4. Planned(Tail(s), 0)
    BY <2>1 DEF Planned
  <2>5. 0 \in 0..Budget /\ rest = Cost(Head(Tail(s))) + 0
    BY <1>8, <2>1 DEF Cost, Allowed, Budget, Statement, Call
  <2> QED BY <2>1, <2>2, <2>3, <2>4, <2>5
<1>9. ASSUME NEW call \in {"create", "createUser"},
             s = <<call, "metric", "row", "metric">>,
             rest = Turn + SendTimeout
      PROVE  OK /\ Goes(Turn)
  <2>1. Head(s) = call /\ s # <<>> /\ Tail(s) = <<"metric", "row", "metric">>
    BY <1>9
  <2>2. s \in Seq(Step)
    BY <1>9 DEF Step, Statement, Call
  <2>3. rest \in Nat /\ Cost(Head(s)) + rest <= Budget
    BY <1>9, <2>1 DEF Cost, Allowed, Budget, Statement, Call
  <2>4. Planned(Tail(s), Turn)
    BY <2>1 DEF Planned
  <2>5. Turn \in 0..Budget /\ rest = Cost(Head(Tail(s))) + Turn
    BY <1>9, <2>1 DEF Cost, Allowed, Budget, Statement, Call
  <2> QED BY <2>1, <2>2, <2>3, <2>4, <2>5
<1>10. ASSUME NEW call \in {"create", "createUser"},
             s = <<"db", call, "metric", "row", "metric">>,
             rest = Turn + ReapTimeout + SendTimeout
      PROVE  OK /\ Goes(Turn + SendTimeout)
  <2>1. /\ Head(s) = "db" /\ s # <<>>
        /\ Tail(s) = <<call, "metric", "row", "metric">>
    BY <1>10
  <2>2. s \in Seq(Step)
    BY <1>10 DEF Step, Statement, Call
  <2>3. rest \in Nat /\ Cost(Head(s)) + rest <= Budget
    BY <1>10, <2>1 DEF Cost, Allowed, Budget, Statement, Call
  <2>4. Planned(Tail(s), Turn + SendTimeout)
    BY <2>1 DEF Planned
  <2>5. /\ Turn + SendTimeout \in 0..Budget
        /\ rest = Cost(Head(Tail(s))) + (Turn + SendTimeout)
    BY <1>10, <2>1 DEF Cost, Allowed, Budget, Statement, Call
  <2> QED BY <2>1, <2>2, <2>3, <2>4, <2>5
<1>11. ASSUME NEW call \in {"create", "createUser"},
             s = <<"db", "db", call, "metric", "row", "metric">>,
             rest = 2 * Turn + ReapTimeout + SendTimeout
      PROVE  OK /\ Goes(Turn + ReapTimeout + SendTimeout)
  <2>1. /\ Head(s) = "db" /\ s # <<>>
        /\ Tail(s) = <<"db", call, "metric", "row", "metric">>
    BY <1>11
  <2>2. s \in Seq(Step)
    BY <1>11 DEF Step, Statement, Call
  <2>3. rest \in Nat /\ Cost(Head(s)) + rest <= Budget
    BY <1>11, <2>1 DEF Cost, Allowed, Budget, Statement, Call
  <2>4. Planned(Tail(s), Turn + ReapTimeout + SendTimeout)
    BY <2>1 DEF Planned
  <2>5. /\ Turn + ReapTimeout + SendTimeout \in 0..Budget
        /\ rest = Cost(Head(Tail(s))) + (Turn + ReapTimeout + SendTimeout)
    BY <1>11, <2>1 DEF Cost, Allowed, Budget, Statement, Call
  <2> QED BY <2>1, <2>2, <2>3, <2>4, <2>5
<1>12. OK /\ (HasRow(Tail(s)) => \E n \in 0..Budget :
                Planned(Tail(s), n) /\ rest = Cost(Head(Tail(s))) + n)
  <2> HIDE DEF OK
  <2>1. ASSUME NEW n, OK /\ Goes(n)
        PROVE  OK /\ (HasRow(Tail(s)) => \E m \in 0..Budget :
                Planned(Tail(s), m) /\ rest = Cost(Head(Tail(s))) + m)
    BY <2>1
  <2> QED
    BY <1>1, <1>2, <1>3, <1>4, <1>5, <1>6, <1>7, <1>8, <1>9, <1>10, <1>11, <2>1, Zenon
       DEF Planned
<1> QED BY <1>12

-----------------------------------------------------------------------------
(* A request goes on. *)

LEMMA AllowedType ==
    ASSUME NEW step
    PROVE  /\ Allowed(step) \in Nat
           /\ step \in Statement => Allowed(step) = StoreBound
           /\ step \in Call => Allowed(step) = ReapTimeout
BY Times DEF Allowed, Statement, Call

\* Who is in the line, and where.
LEMMA GoOnLine ==
    ASSUME TypeOK, QueueOK, NEW r \in Slot, NEW steps \in Seq(Step), GoOn(r, steps)
    PROVE  /\ todo' = [todo EXCEPT ![r] = steps] /\ todo' \in [Slot -> Seq(Step)]
           /\ left' \in [Slot -> Nat]
           /\ \A x \in Slot \ {r} : left'[x] = left[x]
           /\ queue' \in Seq(Slot)
           /\ \A j, k \in DOMAIN queue' : queue'[j] = queue'[k] => j = k
           /\ \A k \in DOMAIN queue' : queue'[k] # r =>
                \E j \in DOMAIN queue : k <= j /\ queue[j] = queue'[k]
           /\ \A x \in Slot \ {r} : Waiting(x)' <=> Waiting(x)
           /\ Waiting(r)' <=> steps # <<>> /\ Head(steps) \in Statement
           /\ steps # <<>> /\ Head(steps) \notin Statement => left'[r] = Allowed(Head(steps))
<1> DEFINE w == Without(queue, r)
           asks == steps # <<>> /\ Head(steps) \in Statement
<1>1. /\ queue \in Seq(Slot) /\ todo \in [Slot -> Seq(Step)] /\ left \in [Slot -> Nat]
      /\ \A j, k \in DOMAIN queue : queue[j] = queue[k] => j = k
  BY DEF TypeOK, QueueOK
<1>2. /\ w \in Seq(Slot)
      /\ \A j, k \in DOMAIN w : w[j] = w[k] => j = k
      /\ \A k \in DOMAIN w : w[k] # r /\ \E j \in DOMAIN queue : k <= j /\ queue[j] = w[k]
      /\ \A j \in DOMAIN queue : queue[j] # r => \E k \in DOMAIN w : w[k] = queue[j]
  BY <1>1, Leaving
<1> HIDE DEF w
<1>3. /\ todo' = [todo EXCEPT ![r] = steps]
      /\ queue' = IF asks THEN Append(w, r) ELSE w
      /\ left' = [left EXCEPT ![r] = IF asks \/ steps = <<>> THEN 0 ELSE Allowed(Head(steps))]
  BY DEF GoOn, w
<1>4. /\ todo' \in [Slot -> Seq(Step)]
      /\ left' \in [Slot -> Nat]
      /\ \A x \in Slot \ {r} : left'[x] = left[x]
      /\ steps # <<>> /\ Head(steps) \notin Statement => left'[r] = Allowed(Head(steps))
  BY <1>1, <1>3, AllowedType
<1>5. \A x \in Slot \ {r} : Waiting(x) <=> \E k \in DOMAIN w : w[k] = x
  BY <1>2 DEF Waiting
<1>6. CASE ~asks
  <2>1. queue' = w
    BY <1>3, <1>6
  <2>2. \A x : Waiting(x)' <=> \E k \in DOMAIN w : w[k] = x
    BY <2>1 DEF Waiting
  <2> QED BY <1>2, <1>3, <1>4, <1>5, <1>6, <2>1, <2>2
<1>7. CASE asks
  <2>1. queue' = Append(w, r)
    BY <1>3, <1>7
  <2>2. /\ Append(w, r) \in Seq(Slot) /\ Len(w) \in Nat /\ DOMAIN w = 1..Len(w)
        /\ DOMAIN Append(w, r) = 1..(Len(w) + 1)
        /\ Append(w, r)[Len(w) + 1] = r
        /\ \A k \in 1..Len(w) : Append(w, r)[k] = w[k]
    BY <1>2
  <2>3. \A x \in Slot : Waiting(x)' <=> x = r \/ \E k \in DOMAIN w : w[k] = x
    BY <2>1, <2>2 DEF Waiting
  <2>4. \A k \in DOMAIN queue' : queue'[k] # r =>
            \E j \in DOMAIN queue : k <= j /\ queue[j] = queue'[k]
    BY <1>2, <2>1, <2>2
  <2>5. \A j, k \in DOMAIN queue' : queue'[j] = queue'[k] => j = k
    <3> SUFFICES ASSUME NEW j \in DOMAIN queue', NEW k \in DOMAIN queue', queue'[j] = queue'[k]
                 PROVE  j = k
      OBVIOUS
    <3>1. j \in 1..(Len(w) + 1) /\ k \in 1..(Len(w) + 1)
      BY <2>1, <2>2
    <3>2. CASE j = Len(w) + 1
      BY <1>2, <2>1, <2>2, <3>1, <3>2
    <3>3. CASE k = Len(w) + 1
      BY <1>2, <2>1, <2>2, <3>1, <3>3
    <3>4. CASE j \in 1..Len(w) /\ k \in 1..Len(w)
      BY <1>2, <2>1, <2>2, <3>4
    <3> QED BY <2>2, <3>1, <3>2, <3>3, <3>4
  <2>6. /\ \A x \in Slot \ {r} : Waiting(x)' <=> Waiting(x)
        /\ Waiting(r)'
    BY <1>5, <2>3
  <2> HIDE DEF asks
  <2> QED BY <1>3, <1>4, <1>7, <2>1, <2>2, <2>4, <2>5, <2>6 DEF asks
<1> QED BY <1>6, <1>7

\* The invariants on the line and the pool.
LEMMA GoOnPool ==
    ASSUME TypeOK, QueueOK, PoolDiscipline, LeftOK, NEW r \in Slot, NEW steps \in Seq(Step),
           GoOn(r, steps), holders' = holders \ {r}
    PROVE  QueueOK' /\ PoolDiscipline' /\ LeftOK'
<1>1. /\ todo' = [todo EXCEPT ![r] = steps]
      /\ \A x \in Slot \ {r} : left'[x] = left[x] /\ (Waiting(x)' <=> Waiting(x))
      /\ queue' \in Seq(Slot)
      /\ \A j, k \in DOMAIN queue' : queue'[j] = queue'[k] => j = k
      /\ \A k \in DOMAIN queue' : queue'[k] # r =>
            \E j \in DOMAIN queue : k <= j /\ queue[j] = queue'[k]
      /\ Waiting(r)' <=> steps # <<>> /\ Head(steps) \in Statement
      /\ steps # <<>> /\ Head(steps) \notin Statement => left'[r] = Allowed(Head(steps))
  BY GoOnLine
<1>2. todo'[r] = steps /\ \A x \in Slot \ {r} : todo'[x] = todo[x]
  BY <1>1 DEF TypeOK
<1>3. Running(r)' => Head(steps) \notin Statement /\ left'[r] = Allowed(Head(steps))
  BY <1>1, <1>2 DEF Running
<1>4. \A x \in Slot \ {r} : Running(x)' <=> Running(x)
  BY <1>1, <1>2 DEF Running
<1>5. QueueOK'
  <2> SUFFICES ASSUME NEW k \in DOMAIN queue'
               PROVE  todo'[queue'[k]] # <<>> /\ Head(todo'[queue'[k]]) \in Statement
    BY <1>1 DEF QueueOK
  <2>1. CASE queue'[k] = r
    <3>1. Waiting(r)'
      BY <2>1 DEF Waiting
    <3> QED BY <1>1, <1>2, <2>1, <3>1
  <2>2. CASE queue'[k] # r
    <3>1. PICK j \in DOMAIN queue : queue[j] = queue'[k]
      BY <1>1, <2>2
    <3>2. queue[j] \in Slot \ {r}
      BY <2>2, <3>1 DEF TypeOK
    <3> QED BY <1>2, <3>1, <3>2 DEF QueueOK
  <2> QED BY <2>1, <2>2
<1>6. PoolDiscipline'
  <2>1. Cardinality(holders') <= Conns
    <3>1. holders' \in SUBSET holders /\ holders \in SUBSET Slot
      BY DEF TypeOK
    <3>2. Cardinality(holders') <= Cardinality(holders)
      BY <3>1, Sizes
    <3>3. Cardinality(holders') \in Nat /\ Cardinality(holders) \in Nat
      BY <3>1, Sizes
    <3> QED BY <3>2, <3>3, Sizes DEF PoolDiscipline
  <2>2. \A x \in Slot : x \in holders <=> Running(x) /\ Head(todo[x]) \in Statement
    BY DEF PoolDiscipline
  <2>3. \A x \in Slot : x \in holders' <=> (Running(x)' /\ Head(todo'[x]) \in Statement)
    BY <1>2, <1>3, <1>4, <2>2
  <2>4. holders' = {x \in Slot : Running(x)' /\ Head(todo'[x]) \in Statement}
    BY <2>3 DEF TypeOK
  <2> QED BY <2>1, <2>4 DEF PoolDiscipline
<1>7. LeftOK'
  <2> SUFFICES ASSUME NEW x \in Slot, Running(x)'
               PROVE  left'[x] <= Allowed(Head(todo'[x]))
    BY DEF LeftOK
  <2>1. CASE x = r
    <3>1. Allowed(Head(steps)) \in Nat
      BY AllowedType
    <3> QED BY <1>2, <1>3, <2>1, <3>1
  <2>2. CASE x # r
    BY <1>1, <1>2, <1>4, <2>2 DEF LeftOK
  <2> QED BY <2>1, <2>2
<1> QED BY <1>5, <1>6, <1>7

-----------------------------------------------------------------------------
(* When steps are over. *)

\* Every place in a line that fits is served in time.
LEMMA LineServed ==
    ASSUME NEW q \in Seq(Slot), NEW hs \in SUBSET Slot, NEW l,
           \A i, j \in DOMAIN q : q[i] = q[j] => i = j,
           \A j \in DOMAIN q : q[j] \notin hs,
           NEW k \in DOMAIN q
    PROVE  Served(hs, l, k, Turn - StoreBound)
<1>1. /\ Len(q) \in Nat /\ Cardinality(hs) \in Nat /\ Cardinality(Slot) \in Nat
      /\ Len(q) + Cardinality(hs) <= Cardinality(Slot)
  BY LineFits
<1>2. k \in 1..Len(q) /\ Slot # {}
  BY LenProperties
<1>3. k \in Nat /\ k + Cardinality(hs) <= Cardinality(Slot)
  BY <1>1, <1>2
<1> QED BY <1>2, <1>3, ServedOnJoining

\* A step that has just begun, or waits, is over in the time for one.
LEMMA DueInTime ==
    ASSUME TypeOK, QueueOK, PoolDiscipline, LeftOK, NEW r \in Slot, todo[r] # <<>>
    PROVE  DueBy(r, Cost(Head(todo[r])))
<1>1. /\ Turn \in Nat /\ Turn - StoreBound = (Turns - 1) * StoreBound
      /\ Turns \in Nat /\ Turns >= 1 /\ StoreBound \in Nat
  BY TurnsCover, Sizes
<1>2. Turn >= StoreBound
  <2>1. (Turns - 1) * StoreBound \in Nat
    BY <1>1
  <2> QED BY <1>1, <2>1
<1>3. CASE Running(r)
  <2>1. left[r] \in Nat /\ left[r] <= Allowed(Head(todo[r]))
    BY <1>3 DEF LeftOK, TypeOK
  <2>2. Allowed(Head(todo[r])) <= Cost(Head(todo[r]))
    BY <1>1, <1>2, AllowedType DEF Cost
  <2>3. Allowed(Head(todo[r])) \in Nat /\ Cost(Head(todo[r])) \in Nat
    BY <1>1, AllowedType DEF Cost
  <2>4. left[r] <= Cost(Head(todo[r]))
    BY <2>1, <2>2, <2>3
  <2> QED BY <1>3, <2>4 DEF DueBy
<1>4. CASE ~Running(r)
  <2> PICK k \in DOMAIN queue : queue[k] = r
    BY <1>4 DEF Running, Waiting
  <2>1. /\ queue \in Seq(Slot) /\ holders \in SUBSET Slot
        /\ \A i, j \in DOMAIN queue : queue[i] = queue[j] => i = j
        /\ \A j \in DOMAIN queue : queue[j] \notin holders
    BY DEF TypeOK, QueueOK, PoolDiscipline, Running, Waiting
  <2>2. Served(holders, left, k, Turn - StoreBound)
    BY <2>1, LineServed
  <2>3. Cost(Head(todo[r])) = Turn
    BY DEF Cost, QueueOK
  <2> QED BY <1>2, <2>2, <2>3 DEF DueBy
<1> QED BY <1>3, <1>4

\* When a request goes on, the others are not held up.
LEMMA DueStill ==
    ASSUME TypeOK, QueueOK, NEW r \in Slot, NEW steps \in Seq(Step),
           GoOn(r, steps), holders' = holders \ {r},
           NEW x \in Slot \ {r}, NEW b \in Nat, DueBy(x, b)
    PROVE  DueBy(x, b)'
<1>1. /\ todo' = [todo EXCEPT ![r] = steps]
      /\ \A y \in Slot \ {r} : left'[y] = left[y] /\ (Waiting(y)' <=> Waiting(y))
      /\ queue' \in Seq(Slot)
      /\ \A k \in DOMAIN queue' : queue'[k] # r =>
            \E j \in DOMAIN queue : k <= j /\ queue[j] = queue'[k]
  BY GoOnLine
<1>2. todo'[x] = todo[x]
  BY <1>1 DEF TypeOK
<1>3. CASE Running(x) /\ left[x] <= b
  BY <1>1, <1>2, <1>3 DEF Running, DueBy
<1>4. CASE \E k \in DOMAIN queue :
            queue[k] = x /\ b >= StoreBound /\ Served(holders, left, k, b - StoreBound)
  <2> PICK k \in DOMAIN queue :
            queue[k] = x /\ b >= StoreBound /\ Served(holders, left, k, b - StoreBound)
    BY <1>4
  <2>1. Waiting(x)'
    BY <1>1 DEF Waiting
  <2>2. PICK i \in DOMAIN queue' : queue'[i] = x
    BY <2>1 DEF Waiting
  <2>3. PICK j \in DOMAIN queue : i <= j /\ queue[j] = x
    BY <1>1, <2>2
  <2>4. j = k
    BY <2>3 DEF QueueOK
  <2>5. i \in Nat /\ k \in Nat /\ i <= k
    <3>1. queue \in Seq(Slot)
      BY DEF TypeOK
    <3>2. k \in 1..Len(queue) /\ i \in 1..Len(queue')
      BY <1>1, <3>1, LenProperties
    <3> QED BY <2>3, <2>4, <3>2
  <2>6. /\ holders \in SUBSET Slot /\ holders' \in SUBSET holders
        /\ \A h \in holders' : left'[h] = left[h]
    BY <1>1 DEF TypeOK
  <2>7. b - StoreBound \in Int
    BY Sizes
  <2>8. Served(holders', left', i, b - StoreBound)
    BY <2>5, <2>6, <2>7, ServedStill
  <2> QED BY <2>2, <2>8 DEF DueBy
<1> QED BY <1>3, <1>4 DEF DueBy

\* A connection taken holds up nobody.
LEMMA DueOnGrant ==
    ASSUME TypeOK, QueueOK, PoolDiscipline, NEW r \in Slot, Grant(r),
           NEW x \in Slot, NEW b \in Nat, DueBy(x, b)
    PROVE  DueBy(x, b)'
<1>1. /\ queue \in Seq(Slot) /\ queue # <<>> /\ r = Head(queue)
      /\ holders' = holders \cup {r} /\ queue' = Tail(queue)
      /\ left' = [left EXCEPT ![r] = StoreBound] /\ todo' = todo
      /\ left \in [Slot -> Nat] /\ holders \in SUBSET Slot
  BY DEF Grant, CanGrant, TypeOK
<1>2. /\ Len(queue) \in Nat /\ Len(queue) >= 1 /\ DOMAIN queue = 1..Len(queue)
      /\ DOMAIN queue' = 1..(Len(queue) - 1) /\ queue[1] = r
      /\ \A i \in 1..(Len(queue) - 1) : queue'[i] = queue[i + 1]
  BY <1>1, HeadTailProperties, LenProperties
<1>3. \A j \in DOMAIN queue : queue[j] = r => j = 1
  BY <1>2 DEF QueueOK
<1>4. ~Waiting(r)'
  BY <1>2, <1>3 DEF Waiting
<1>5. todo[r] # <<>>
  BY <1>2 DEF QueueOK
<1>6. Running(r)' /\ left'[r] = StoreBound
  BY <1>1, <1>4, <1>5 DEF Running
<1>7. CASE Running(x) /\ left[x] <= b
  <2>1. x # r
    BY <1>2, <1>7 DEF Running, Waiting
  <2>2. ~Waiting(x)'
    BY <1>2, <1>7 DEF Running, Waiting
  <2> QED BY <1>1, <1>7, <2>1, <2>2 DEF Running, DueBy
<1>8. CASE \E k \in DOMAIN queue :
            queue[k] = x /\ b >= StoreBound /\ Served(holders, left, k, b - StoreBound)
  <2> PICK k \in DOMAIN queue :
            queue[k] = x /\ b >= StoreBound /\ Served(holders, left, k, b - StoreBound)
    BY <1>8
  <2>1. CASE x = r
    BY <1>6, <2>1, Sizes DEF DueBy
  <2>2. CASE x # r
    <3>1. k \in 2..Len(queue) /\ k - 1 \in DOMAIN queue' /\ queue'[k - 1] = x
      BY <1>2, <2>2
    <3>2. k - 1 \in Nat /\ (k - 1) + 1 = k /\ b - StoreBound \in Int
      BY <1>2, <3>1, Sizes
    <3>3. \A h \in holders \ {r} : left'[h] = left[h]
      BY <1>1
    <3>4. Served(holders, left, (k - 1) + 1, b - StoreBound)
      BY <3>2
    <3>5. Served(holders \cup {r}, left', k - 1, b - StoreBound)
      BY <1>1, <3>2, <3>3, <3>4, ServedOnGrant
    <3> QED BY <1>1, <3>1, <3>5 DEF DueBy
  <2> QED BY <2>1, <2>2
<1> QED BY <1>7, <1>8 DEF DueBy

\* As time passes every step comes closer to its end.
LEMMA DueOnTick ==
    ASSUME TypeOK, QueueOK, PoolDiscipline, LeftOK, Tick, phase # "closing",
           NEW x \in Slot, NEW b \in Nat, DueBy(x, b)
    PROVE  b >= 1 /\ DueBy(x, b - 1)'
<1>1. /\ \A y \in Slot : Running(y) => left[y] > 0
      /\ ~CanGrant /\ UNCHANGED <<todo, queue, holders>>
      /\ left' = [y \in Slot |-> IF Running(y) THEN left[y] - 1 ELSE 0]
      /\ left \in [Slot -> Nat] /\ holders \in SUBSET Slot /\ queue \in Seq(Slot)
  BY DEF Tick, TypeOK
<1>2. CASE Running(x) /\ left[x] <= b
  <2>1. left[x] \in Nat /\ left[x] > 0 /\ left'[x] = left[x] - 1
    BY <1>1, <1>2
  <2>2. b >= 1 /\ left'[x] <= b - 1
    BY <1>2, <2>1
  <2>3. Running(x)'
    BY <1>1, <1>2 DEF Running, Waiting
  <2> QED BY <2>2, <2>3 DEF DueBy
<1>3. CASE \E k \in DOMAIN queue :
            queue[k] = x /\ b >= StoreBound /\ Served(holders, left, k, b - StoreBound)
  <2> PICK k \in DOMAIN queue :
            queue[k] = x /\ b >= StoreBound /\ Served(holders, left, k, b - StoreBound)
    BY <1>3
  <2>1. Cardinality(holders) >= Conns
    <3>1. queue # <<>>
      BY <1>1
    <3>2. ~(Cardinality(holders) < Conns)
      BY <1>1, <3>1 DEF CanGrant
    <3>3. Cardinality(holders) \in Nat
      BY <1>1, Sizes
    <3> QED BY <3>2, <3>3, Sizes
  <2>2. \A h \in holders : left[h] \in 1..StoreBound /\ left'[h] = left[h] - 1
    <3> TAKE h \in holders
    <3>1. h \in Slot /\ Running(h) /\ Head(todo[h]) \in Statement
      BY <1>1 DEF PoolDiscipline
    <3>2. left[h] \in Nat /\ left[h] > 0 /\ left[h] <= StoreBound
      BY <1>1, <3>1, AllowedType DEF LeftOK
    <3> QED BY <1>1, <3>1, <3>2, Sizes
  <2>3. k \in Nat \ {0} /\ b - StoreBound \in Int
    BY <1>1, Sizes
  <2>4. b - StoreBound >= 1 /\ Served(holders, left', k, (b - StoreBound) - 1)
    BY <1>1, <2>1, <2>2, <2>3, ServedOnTick
  <2>5. b >= 1 /\ b - 1 >= StoreBound /\ (b - StoreBound) - 1 = (b - 1) - StoreBound
    BY <2>4, Sizes
  <2>6. Served(holders', left', k, (b - 1) - StoreBound)
    BY <1>1, <2>4, <2>5
  <2> QED BY <1>1, <2>5, <2>6 DEF DueBy
<1> QED BY <1>2, <1>3 DEF DueBy

-----------------------------------------------------------------------------
(* The steps. *)

\* The step a request goes on to is over in the time for one.
LEMMA DueNext ==
    ASSUME TypeOK, QueueOK, PoolDiscipline, LeftOK, NEW r \in Slot, NEW steps \in Seq(Step),
           GoOn(r, steps), holders' = holders \ {r}, steps # <<>>
    PROVE  DueBy(r, Cost(Head(steps)))'
<1>1. /\ todo' = [todo EXCEPT ![r] = steps] /\ queue' \in Seq(Slot)
      /\ \A i, j \in DOMAIN queue' : queue'[i] = queue'[j] => i = j
      /\ Waiting(r)' <=> steps # <<>> /\ Head(steps) \in Statement
      /\ steps # <<>> /\ Head(steps) \notin Statement => left'[r] = Allowed(Head(steps))
  BY GoOnLine
<1>2. todo'[r] = steps
  BY <1>1 DEF TypeOK
<1>3. CASE Head(steps) \notin Statement
  <2>1. /\ Running(r)' /\ left'[r] = Allowed(Head(steps))
        /\ Cost(Head(steps)) = Allowed(Head(steps))
    BY <1>1, <1>2, <1>3 DEF Running, Cost
  <2>2. Allowed(Head(steps)) \in Nat
    BY AllowedType
  <2>3. left'[r] <= Cost(Head(steps))
    BY <2>1, <2>2
  <2> QED BY <2>1, <2>3 DEF DueBy
<1>4. CASE Head(steps) \in Statement
  <2>1. Waiting(r)'
    BY <1>1, <1>4
  <2>2. PICK k \in DOMAIN queue' : queue'[k] = r
    BY <2>1 DEF Waiting
  <2>3. PoolDiscipline'
    BY GoOnPool
  <2>4. \A j \in DOMAIN queue' : queue'[j] \notin holders'
    BY <2>3 DEF PoolDiscipline, Running, Waiting
  <2>5. holders' \in SUBSET Slot
    BY DEF TypeOK
  <2>6. Served(holders', left', k, Turn - StoreBound)
    BY <1>1, <2>4, <2>5, LineServed
  <2>7. Cost(Head(steps)) = Turn
    BY <1>4 DEF Cost
  <2>8. Turn >= StoreBound
    <3>1. /\ Turn \in Nat /\ Turn - StoreBound = (Turns - 1) * StoreBound
          /\ Turns \in Nat /\ Turns >= 1 /\ StoreBound \in Nat
      BY TurnsCover, Sizes
    <3>2. (Turns - 1) * StoreBound \in Nat
      BY <3>1
    <3> QED BY <3>1, <3>2
  <2> QED BY <2>2, <2>6, <2>7, <2>8 DEF DueBy
<1> QED BY <1>3, <1>4

\* A request goes on with steps that are planned, and in a shutdown only with
\* what it had left to do, with no row, or in the grace.
LEMMA GoOnStep ==
    ASSUME LifeInv, NEW r \in Slot, NEW steps \in Seq(Step), GoOn(r, steps),
           phase \in Up, holders' = holders \ {r}, calls' = calls \ {r},
           UNCHANGED <<phase, schema, window>>, fresh' \subseteq fresh,
           HasRow(steps) => \E n \in 0..Budget : Planned(steps, n),
           phase # "serving" /\ HasRow(steps) =>
              \/ todo[r] # <<>> /\ steps = Tail(todo[r])
              \/ phase = "draining" /\ window + Grace >= Window
    PROVE  LifeInv'
<1>1. TypeOK /\ QueueOK /\ PoolDiscipline /\ LeftOK
  BY DEF LifeInv
<1>2. /\ todo' = [todo EXCEPT ![r] = steps] /\ todo' \in [Slot -> Seq(Step)]
      /\ left' \in [Slot -> Nat] /\ queue' \in Seq(Slot)
      /\ \A x \in Slot \ {r} : left'[x] = left[x]
  BY <1>1, GoOnLine
<1>3. todo'[r] = steps /\ \A x \in Slot \ {r} : todo'[x] = todo[x]
  BY <1>1, <1>2 DEF TypeOK
<1>4. QueueOK' /\ PoolDiscipline' /\ LeftOK'
  BY <1>1, GoOnPool
<1>5. UpOK' /\ schema = "current"
  BY DEF LifeInv, UpOK
<1>6. TypeOK'
  BY <1>1, <1>2, <1>5 DEF TypeOK
<1>7. CallsOK'
  <2> SUFFICES ASSUME NEW x \in calls'
               PROVE  /\ phase' \in {"draining", "closing"}
                      /\ todo'[x] # <<>> /\ Head(todo'[x]) \in Call
                      /\ phase' = "draining" => left'[x] + Window <= ReapTimeout + window'
    BY DEF CallsOK
  <2>1. x \in calls /\ x \in Slot \ {r}
    BY <1>1 DEF TypeOK
  <2> QED BY <1>2, <1>3, <2>1 DEF LifeInv, CallsOK
<1>8. InFlightCallsFinish'
  BY DEF LifeInv, InFlightCallsFinish
<1>9. PlanOK'
  BY <1>3 DEF LifeInv, PlanOK
<1>10. ASSUME HasRow(steps), todo[r] # <<>>, steps = Tail(todo[r]) PROVE HasRow(todo[r])
  <2>1. todo[r] \in Seq(Step)
    BY <1>1 DEF TypeOK
  <2> QED BY <1>10, <2>1, RowsLeft
<1>11. NoRowsLeft'
  BY <1>3, <1>10 DEF LifeInv, NoRowsLeft
<1>12. RowsDue'
  <2> SUFFICES ASSUME Window > Grace + Budget, phase = "draining", NEW x \in Slot, HasRow(todo'[x])
               PROVE  \E rest \in 0..Budget, b \in 0..Window :
                        Planned(todo'[x], rest) /\ b + rest < window /\ DueBy(x, b)'
    BY DEF RowsDue
  <2>1. CASE x # r
    <3>1. PICK rest \in 0..Budget, b \in 0..Window :
                Planned(todo[x], rest) /\ b + rest < window /\ DueBy(x, b)
      BY <1>3, <2>1 DEF LifeInv, RowsDue
    <3>2. DueBy(x, b)'
      BY <1>1, <2>1, <3>1, Times, DueStill
    <3> QED BY <1>3, <2>1, <3>1, <3>2
  <2>2. CASE x = r /\ todo[r] # <<>> /\ steps = Tail(todo[r])
    <3>1. HasRow(steps)
      BY <1>3, <2>2
    <3>2. HasRow(todo[r])
      BY <1>10, <2>2, <3>1
    <3>3. PICK rest \in 0..Budget, b \in 0..Window :
                Planned(todo[r], rest) /\ b + rest < window /\ DueBy(r, b)
      BY <3>2 DEF LifeInv, RowsDue
    <3>4. PICK n \in 0..Budget : Planned(steps, n) /\ rest = Cost(Head(steps)) + n
      BY <2>2, <3>1, <3>2, <3>3, PlanStep
    <3>5. steps # <<>>
      BY <3>4, PlanStep
    <3>6. DueBy(r, Cost(Head(steps)))'
      BY <1>1, <3>5, DueNext
    <3>7. Cost(Head(steps)) \in Nat /\ n \in Nat /\ Turn \in Nat
      BY <3>4, Times, AllowedType, PlanStep DEF Cost
    <3>8. Cost(Head(steps)) + n < window /\ Cost(Head(steps)) \in 0..Window
      <4>1. window \in 0..Window /\ Window \in Nat /\ b \in Nat
        BY <1>1, Times DEF TypeOK
      <4> QED BY <3>3, <3>4, <3>7, <4>1
    <3> QED BY <1>3, <2>2, <3>4, <3>6, <3>8
  <2>3. CASE x = r /\ window + Grace >= Window
    <3>1. HasRow(steps)
      BY <1>3, <2>3
    <3>2. PICK n \in 0..Budget : Planned(steps, n)
      BY <3>1
    <3>3. steps # <<>> /\ n \in Nat /\ Cost(Head(steps)) + n <= Budget
      BY <3>2, PlanStep
    <3>4. DueBy(r, Cost(Head(steps)))'
      BY <1>1, <3>3, DueNext
    <3>5. Cost(Head(steps)) \in Nat /\ Budget \in Nat
      BY <3>2, Times, AllowedType, PlanStep DEF Cost, Budget
    <3>6. Cost(Head(steps)) + n < window /\ Cost(Head(steps)) \in 0..Window
      <4>1. window \in 0..Window /\ Window \in Nat /\ Grace \in Nat
        BY <1>1, Times DEF TypeOK
      <4> QED BY <2>3, <3>3, <3>5, <4>1
    <3> QED BY <1>3, <2>3, <3>2, <3>4, <3>6
  <2>4. HasRow(steps) \/ x # r
    BY <1>3
  <2> QED BY <2>1, <2>2, <2>3, <2>4
<1> QED
  BY <1>4, <1>5, <1>6, <1>7, <1>8, <1>9, <1>11, <1>12 DEF LifeInv

LEMMA RequestStep ==
    ASSUME LifeInv, NEW r \in Slot,
           \/ StepEnds(r) \/ StepFails(r)
           \/ \E steps \in Handler : Arrive(r, steps) \/ ArriveLate(r, steps)
    PROVE  LifeInv'
<1>1. TypeOK /\ QueueOK /\ PoolDiscipline /\ LeftOK
  BY DEF LifeInv
<1>2. todo[r] \in Seq(Step)
  BY <1>1 DEF TypeOK
<1>3. todo[r] # <<>> => phase \in Up
  BY DEF LifeInv, UpOK
<1>4. CASE StepEnds(r)
  <2>1. todo[r] # <<>> /\ GoOn(r, Tail(todo[r]))
    BY <1>4 DEF StepEnds, Running
  <2>2. Tail(todo[r]) \in Seq(Step)
    BY <1>2, <2>1, HeadTailProperties
  <2>3. ASSUME HasRow(Tail(todo[r])) PROVE \E n \in 0..Budget : Planned(Tail(todo[r]), n)
    <3>1. HasRow(todo[r])
      BY <1>2, <2>1, <2>3, RowsLeft
    <3>2. PICK rest \in 0..Budget : Planned(todo[r], rest)
      BY <3>1 DEF LifeInv, PlanOK
    <3> QED BY <2>3, <3>2, PlanStep
  <2> QED BY <1>3, <1>4, <2>1, <2>2, <2>3, GoOnStep DEF StepEnds
<1>5. CASE StepFails(r)
  <2>1. todo[r] # <<>> /\ GoOn(r, AfterFailing(Head(todo[r])))
    BY <1>5 DEF StepFails
  <2>2. /\ AfterFailing(Head(todo[r])) \in Seq(Step)
        /\ ~HasRow(AfterFailing(Head(todo[r])))
    BY FailingSteps
  <2> QED BY <1>3, <1>5, <2>1, <2>2, GoOnStep DEF StepFails
<1>6. CASE \E steps \in Handler : Arrive(r, steps) \/ ArriveLate(r, steps)
  <2> PICK steps \in Handler : Arrive(r, steps) \/ ArriveLate(r, steps)
    BY <1>6
  <2>1. /\ phase = "serving" \/ (phase = "draining" /\ window + Grace >= Window)
        /\ todo[r] = <<>> /\ GoOn(r, steps) /\ fresh' \subseteq fresh
        /\ UNCHANGED <<phase, schema, window, holders, calls>>
    BY DEF Arrive, ArriveLate
  <2>2. steps \in Seq(Step) /\ (HasRow(steps) => \E n \in 0..Budget : Planned(steps, n))
    BY HandlerSteps
  <2>3. holders' = holders \ {r} /\ calls' = calls \ {r}
    <3>1. r \notin holders
      BY <1>1, <2>1 DEF PoolDiscipline, Running
    <3>2. r \notin calls
      BY <2>1 DEF LifeInv, CallsOK
    <3> QED BY <2>1, <3>1, <3>2
  <2> QED BY <2>1, <2>2, <2>3, GoOnStep DEF Up
<1> QED BY <1>4, <1>5, <1>6

LEMMA GrantStep ==
    ASSUME LifeInv, NEW r \in Slot, Grant(r)
    PROVE  LifeInv'
<1>1. /\ TypeOK /\ QueueOK /\ PoolDiscipline /\ LeftOK
      /\ queue \in Seq(Slot) /\ holders \in SUBSET Slot /\ left \in [Slot -> Nat]
  BY DEF LifeInv, TypeOK
<1>2. /\ queue # <<>> /\ Cardinality(holders) < Conns /\ r = Head(queue)
      /\ holders' = holders \cup {r} /\ queue' = Tail(queue)
      /\ left' = [left EXCEPT ![r] = StoreBound]
      /\ UNCHANGED <<phase, schema, window, todo, calls, fresh>>
  BY DEF Grant, CanGrant
<1>3. /\ Len(queue) \in Nat /\ Len(queue) >= 1 /\ DOMAIN queue = 1..Len(queue)
      /\ queue' \in Seq(Slot) /\ DOMAIN queue' = 1..(Len(queue) - 1) /\ queue[1] = r
      /\ \A i \in 1..(Len(queue) - 1) : queue'[i] = queue[i + 1]
  BY <1>1, <1>2, HeadTailProperties, LenProperties
<1>4. todo[r] # <<>> /\ Head(todo[r]) \in Statement
  <2>1. 1 \in DOMAIN queue
    BY <1>3
  <2> QED BY <1>1, <1>3, <2>1 DEF QueueOK
<1>5. \A j \in DOMAIN queue : queue[j] = r => j = 1
  <2>1. 1 \in DOMAIN queue
    BY <1>3
  <2> QED BY <1>1, <1>3, <2>1 DEF QueueOK
<1>6. \A x \in Slot : Waiting(x)' <=> (x # r /\ Waiting(x))
  <2> TAKE x \in Slot
  <2>1. ASSUME NEW k \in DOMAIN queue', queue'[k] = x PROVE x # r /\ Waiting(x)
    <3>1. k + 1 \in DOMAIN queue /\ queue[k + 1] = x /\ k + 1 # 1
      BY <1>3, <2>1
    <3> QED BY <1>5, <3>1 DEF Waiting
  <2>2. ASSUME x # r, NEW k \in DOMAIN queue, queue[k] = x PROVE Waiting(x)'
    <3>1. k - 1 \in DOMAIN queue' /\ queue'[k - 1] = x
      BY <1>3, <2>2
    <3> QED BY <3>1 DEF Waiting
  <2> QED BY <2>1, <2>2 DEF Waiting
<1>7. \A x \in Slot : Running(x)' <=> x = r \/ Running(x)
  BY <1>2, <1>4, <1>6 DEF Running
<1>8. left'[r] = StoreBound /\ \A x \in Slot \ {r} : left'[x] = left[x]
  BY <1>1, <1>2
<1>9. QueueOK'
  <2>1. ASSUME NEW j \in DOMAIN queue', NEW k \in DOMAIN queue', queue'[j] = queue'[k]
        PROVE  j = k
    <3>1. /\ j + 1 \in DOMAIN queue /\ k + 1 \in DOMAIN queue
          /\ queue[j + 1] = queue[k + 1]
      BY <1>3, <2>1
    <3>2. j + 1 = k + 1
      BY <1>1, <3>1 DEF QueueOK
    <3> QED BY <1>3, <3>2
  <2>2. \A k \in DOMAIN queue' :
            todo'[queue'[k]] # <<>> /\ Head(todo'[queue'[k]]) \in Statement
    BY <1>1, <1>2, <1>3 DEF QueueOK
  <2> QED BY <2>1, <2>2 DEF QueueOK
<1>10. PoolDiscipline'
  <2>1. Cardinality(holders') <= Conns
    <3>1. IsFiniteSet(holders) /\ Cardinality(holders) \in Nat
      BY <1>1, Sizes
    <3>2. Cardinality(holders \cup {r})
            = IF r \in holders THEN Cardinality(holders) ELSE Cardinality(holders) + 1
      BY <3>1, FS_AddElement
    <3> QED BY <1>2, <3>1, <3>2, Sizes
  <2>2. \A x \in Slot : x \in holders <=> Running(x) /\ Head(todo[x]) \in Statement
    BY <1>1 DEF PoolDiscipline
  <2>3. \A x \in Slot : x \in holders' <=> (Running(x)' /\ Head(todo'[x]) \in Statement)
    BY <1>2, <1>4, <1>7, <2>2
  <2>4. holders' = {x \in Slot : Running(x)' /\ Head(todo'[x]) \in Statement}
    BY <1>1, <1>2, <2>3
  <2> QED BY <2>1, <2>4 DEF PoolDiscipline
<1>11. LeftOK'
  <2> SUFFICES ASSUME NEW x \in Slot, Running(x)'
               PROVE  left'[x] <= Allowed(Head(todo'[x]))
    BY DEF LeftOK
  <2>1. CASE x = r
    BY <1>2, <1>4, <1>8, <2>1, AllowedType, Sizes
  <2>2. CASE x # r
    BY <1>1, <1>2, <1>7, <1>8, <2>2 DEF LeftOK
  <2> QED BY <2>1, <2>2
<1>12. UpOK' /\ schema = "current"
  BY <1>2, <1>4 DEF LifeInv, UpOK, Up
<1>13. TypeOK'
  <2>1. left' \in [Slot -> Nat]
    BY <1>1, <1>2, Sizes
  <2> QED BY <1>1, <1>2, <1>3, <1>12, <2>1 DEF TypeOK
<1>14. CallsOK'
  <2>1. r \notin calls
    BY <1>4 DEF LifeInv, CallsOK, Statement, Call
  <2> QED BY <1>1, <1>2, <1>8, <2>1 DEF LifeInv, CallsOK, TypeOK
<1>15. InFlightCallsFinish' /\ PlanOK' /\ NoRowsLeft'
  BY <1>2 DEF LifeInv, InFlightCallsFinish, PlanOK, NoRowsLeft
<1>16. RowsDue'
  <2> SUFFICES ASSUME Window > Grace + Budget, phase = "draining", NEW x \in Slot, HasRow(todo[x])
               PROVE  \E rest \in 0..Budget, b \in 0..Window :
                        Planned(todo[x], rest) /\ b + rest < window /\ DueBy(x, b)'
    BY <1>2 DEF RowsDue
  <2>1. PICK rest \in 0..Budget, b \in 0..Window :
                Planned(todo[x], rest) /\ b + rest < window /\ DueBy(x, b)
    BY DEF LifeInv, RowsDue
  <2>2. DueBy(x, b)'
    BY <1>1, <2>1, Times, DueOnGrant
  <2> QED BY <2>1, <2>2
<1> QED
  BY <1>9, <1>10, <1>11, <1>12, <1>13, <1>14, <1>15, <1>16 DEF LifeInv

LEMMA TickStep ==
    ASSUME LifeInv, Tick
    PROVE  LifeInv'
<1>1. /\ TypeOK /\ QueueOK /\ PoolDiscipline /\ LeftOK
      /\ left \in [Slot -> Nat] /\ window \in 0..Window /\ Window \in Nat
  BY Times DEF LifeInv, TypeOK
<1>2. /\ phase \in {"serving", "draining", "closing"}
      /\ \A r \in Slot : Running(r) => left[r] > 0
      /\ phase = "draining" => window > 0
      /\ left' = [r \in Slot |-> IF Running(r) THEN left[r] - 1 ELSE 0]
      /\ window' = IF phase = "draining" THEN window - 1 ELSE window
      /\ UNCHANGED <<phase, schema, todo, queue, holders, calls, fresh>>
  BY DEF Tick
<1>3. left' \in [Slot -> Nat] /\ window' \in 0..Window
  BY <1>1, <1>2
<1>4. \A x : Running(x)' <=> Running(x)
  BY <1>2 DEF Running, Waiting
<1>5. TypeOK'
  BY <1>1, <1>2, <1>3 DEF TypeOK
<1>6. QueueOK' /\ PoolDiscipline' /\ UpOK' /\ InFlightCallsFinish' /\ PlanOK' /\ NoRowsLeft'
  BY <1>1, <1>2, <1>4
     DEF LifeInv, QueueOK, PoolDiscipline, UpOK, InFlightCallsFinish, PlanOK, NoRowsLeft
<1>7. LeftOK'
  <2> SUFFICES ASSUME NEW x \in Slot, Running(x)
               PROVE  left'[x] <= Allowed(Head(todo[x]))
    BY <1>2, <1>4 DEF LeftOK
  <2>1. left[x] <= Allowed(Head(todo[x])) /\ Allowed(Head(todo[x])) \in Nat
    BY <1>1, AllowedType DEF LeftOK
  <2> QED BY <1>1, <1>2, <2>1
<1>8. CallsOK'
  <2> SUFFICES ASSUME NEW x \in calls, phase = "draining"
               PROVE  left'[x] + Window <= ReapTimeout + window'
    BY <1>2 DEF LifeInv, CallsOK
  <2>1. /\ x \in Slot /\ todo[x] # <<>> /\ Head(todo[x]) \in Call
        /\ left[x] + Window <= ReapTimeout + window
    BY <1>1 DEF LifeInv, CallsOK, TypeOK
  <2>2. Running(x)
    BY <1>1, <2>1 DEF Running, Waiting, QueueOK, Call, Statement
  <2> QED BY <1>1, <1>2, <2>1, <2>2, Times
<1>9. RowsDue'
  <2> SUFFICES ASSUME Window > Grace + Budget, phase = "draining", NEW x \in Slot, HasRow(todo[x])
               PROVE  \E rest \in 0..Budget, b \in 0..Window :
                        Planned(todo[x], rest) /\ b + rest < window' /\ DueBy(x, b)'
    BY <1>2 DEF RowsDue
  <2>1. PICK rest \in 0..Budget, b \in 0..Window :
                Planned(todo[x], rest) /\ b + rest < window /\ DueBy(x, b)
    BY DEF LifeInv, RowsDue
  <2>2. b \in Nat /\ rest \in Nat
    BY <1>1, <2>1, PlanStep
  <2>3. b >= 1 /\ DueBy(x, b - 1)'
    BY <1>1, <2>1, <2>2, DueOnTick
  <2>4. b - 1 \in 0..Window /\ (b - 1) + rest < window'
    BY <1>1, <1>2, <2>1, <2>2, <2>3
  <2> QED BY <2>1, <2>3, <2>4
<1> QED BY <1>5, <1>6, <1>7, <1>8, <1>9 DEF LifeInv

LEMMA LifeInit == Init => LifeInv
<1> SUFFICES ASSUME Init PROVE LifeInv
  OBVIOUS
<1>1. /\ \A r \in Slot : todo[r] = <<>> /\ ~Running(r)
      /\ queue = <<>> /\ holders = {} /\ calls = {} /\ phase = "connecting"
  BY DEF Init, Running
<1>2. TypeOK
  BY Times DEF Init, TypeOK, Phase, Step
<1>3. QueueOK /\ LeftOK /\ UpOK /\ CallsOK
  BY <1>1 DEF QueueOK, LeftOK, UpOK, CallsOK, Up
<1>4. PoolDiscipline
  <2>1. Cardinality(holders) = 0
    BY <1>1, FS_EmptySet
  <2> QED BY <1>1, <2>1, Sizes DEF PoolDiscipline
<1>5. InFlightCallsFinish /\ NoRowsLeft /\ RowsDue
  BY <1>1 DEF InFlightCallsFinish, NoRowsLeft, RowsDue
<1>6. PlanOK
  BY <1>1 DEF PlanOK, HasRow
<1> QED BY <1>2, <1>3, <1>4, <1>5, <1>6 DEF LifeInv

\* No requests, outside of a shutdown.
LEMMA EmptyStep ==
    ASSUME LifeInv,
           \/ NoRequests
           \/ phase \notin Up /\ UNCHANGED requests,
           phase' \in Phase \ {"draining", "closing"},
           schema' \in {"none", "older", "current"}, window' \in 0..Window,
           phase' \in {"starting", "serving"} => schema' = "current"
    PROVE  LifeInv'
<1>1. TypeOK /\ UpOK /\ PoolDiscipline
  BY DEF LifeInv
<1>2. /\ \A r \in Slot : todo'[r] = <<>>
      /\ queue' = <<>> /\ holders' = {} /\ calls' = {}
      /\ todo' \in [Slot -> Seq(Step)] /\ left' \in [Slot -> Nat] /\ fresh' \subseteq Slot
  <2>1. CASE NoRequests
    <3>1. <<>> \in Seq(Step)
      OBVIOUS
    <3>2. /\ todo' = [r \in Slot |-> <<>>] /\ left' = [r \in Slot |-> 0]
          /\ queue' = <<>> /\ holders' = {} /\ calls' = {} /\ fresh' = {}
      BY <2>1 DEF NoRequests
    <3> QED BY <3>1, <3>2
  <2>2. CASE phase \notin Up /\ UNCHANGED requests
    <3>1. /\ todo' = todo /\ left' = left /\ queue' = queue
          /\ holders' = holders /\ calls' = calls /\ fresh' = fresh
      BY <2>2 DEF requests
    <3> QED BY <1>1, <2>2, <3>1 DEF UpOK, TypeOK
  <2> QED BY <2>1, <2>2
<1>3. \A r \in Slot : ~Running(r)'
  BY <1>2 DEF Running
<1>4. TypeOK'
  BY <1>2 DEF TypeOK
<1>5. QueueOK' /\ LeftOK' /\ CallsOK'
  BY <1>2, <1>3 DEF QueueOK, LeftOK, CallsOK
<1>6. UpOK'
  BY <1>2 DEF UpOK, Up
<1>7. PoolDiscipline'
  <2>1. Cardinality(holders') = 0
    BY <1>2, FS_EmptySet
  <2> QED BY <1>2, <1>3, <2>1, Sizes DEF PoolDiscipline
<1>8. InFlightCallsFinish' /\ NoRowsLeft' /\ RowsDue'
  BY <1>2 DEF InFlightCallsFinish, NoRowsLeft, RowsDue
<1>9. PlanOK'
  BY <1>2 DEF PlanOK, HasRow
<1> QED BY <1>4, <1>5, <1>6, <1>7, <1>8, <1>9 DEF LifeInv

\* At the signal the window is long enough for everything that is planned.
LEMMA SignalStep ==
    ASSUME LifeInv, Signal
    PROVE  LifeInv'
<1>1. /\ TypeOK /\ QueueOK /\ PoolDiscipline /\ LeftOK
      /\ phase \in {"starting", "serving"} /\ phase' = "draining" /\ window' = Window
      /\ calls' = {r \in Slot : todo[r] # <<>> /\ Head(todo[r]) \in Call}
      /\ fresh' \subseteq Slot
      /\ UNCHANGED <<schema, todo, left, queue, holders>>
  BY DEF LifeInv, Signal
<1>2. \A x : (Running(x)' <=> Running(x)) /\ (Waiting(x)' <=> Waiting(x))
  BY <1>1 DEF Running, Waiting
<1>3. TypeOK'
  BY <1>1, Times DEF TypeOK, Phase
<1>4. QueueOK' /\ PoolDiscipline' /\ LeftOK' /\ PlanOK'
  BY <1>1, <1>2 DEF LifeInv, QueueOK, PoolDiscipline, LeftOK, PlanOK
<1>5. UpOK'
  BY <1>1 DEF LifeInv, UpOK, Up
<1>6. CallsOK'
  <2> SUFFICES ASSUME NEW x \in calls' PROVE left[x] + Window <= ReapTimeout + Window
    BY <1>1 DEF CallsOK
  <2>1. x \in Slot /\ todo[x] # <<>> /\ Head(todo[x]) \in Call
    BY <1>1
  <2>2. Running(x)
    BY <1>1, <2>1 DEF Running, Waiting, QueueOK, Call, Statement
  <2>3. left[x] \in Nat /\ left[x] <= Allowed(Head(todo[x]))
    BY <1>1, <2>1, <2>2 DEF LeftOK, TypeOK
  <2>4. Allowed(Head(todo[x])) = ReapTimeout
    BY <2>1, AllowedType
  <2> QED BY <2>3, <2>4, Times
<1>7. InFlightCallsFinish' /\ NoRowsLeft'
  BY <1>1 DEF InFlightCallsFinish, NoRowsLeft
<1>8. RowsDue'
  <2> SUFFICES ASSUME Window > Grace + Budget, NEW x \in Slot, HasRow(todo[x])
               PROVE  \E rest \in 0..Budget, b \in 0..Window :
                        Planned(todo[x], rest) /\ b + rest < Window /\ DueBy(x, b)'
    BY <1>1 DEF RowsDue
  <2>1. PICK rest \in 0..Budget : Planned(todo[x], rest)
    BY DEF LifeInv, PlanOK
  <2>2. /\ todo[x] # <<>> /\ rest \in Nat
        /\ Cost(Head(todo[x])) + rest <= Budget
    BY <2>1, PlanStep
  <2>3. DueBy(x, Cost(Head(todo[x])))
    BY <1>1, <2>2, DueInTime
  <2>4. Cost(Head(todo[x])) \in Nat /\ Budget \in Nat
    BY Times, AllowedType DEF Cost, Budget
  <2>5. PICK b \in Nat : b + rest <= Budget /\ DueBy(x, b)
    BY <2>2, <2>3, <2>4
  <2>6. DueBy(x, b)'
    BY <1>1, <1>2, <2>5 DEF DueBy
  <2>7. b \in 0..Window /\ b + rest < Window
    BY <2>2, <2>4, <2>5, Times
  <2> QED BY <2>1, <2>6, <2>7
<1> QED BY <1>3, <1>4, <1>5, <1>6, <1>7, <1>8 DEF LifeInv

\* When the window is over, no call of then and no row is left.
LEMMA DrainStep ==
    ASSUME LifeInv, DrainEnds
    PROVE  LifeInv'
<1>1. /\ TypeOK /\ phase = "draining" /\ phase' = "closing"
      /\ window = 0 \/ \A r \in Slot : todo[r] = <<>>
      /\ UNCHANGED <<schema, window, todo, left, queue, holders, calls, fresh>>
  BY DEF LifeInv, DrainEnds, requests
<1>2. \A x : Running(x)' <=> Running(x)
  BY <1>1 DEF Running, Waiting
<1>3. TypeOK'
  BY <1>1 DEF TypeOK, Phase
<1>4. QueueOK' /\ PoolDiscipline' /\ LeftOK' /\ PlanOK' /\ UpOK' /\ RowsDue'
  BY <1>1, <1>2 DEF LifeInv, QueueOK, PoolDiscipline, LeftOK, PlanOK, UpOK, Up, RowsDue
<1>5. CallsOK'
  BY <1>1 DEF LifeInv, CallsOK
<1>6. InFlightCallsFinish'
  <2> SUFFICES ASSUME Window > ReapTimeout, NEW x \in calls PROVE FALSE
    BY <1>1 DEF InFlightCallsFinish
  <2>1. /\ x \in Slot /\ todo[x] # <<>> /\ left[x] \in Nat
        /\ left[x] + Window <= ReapTimeout + window
    BY <1>1 DEF LifeInv, CallsOK, TypeOK
  <2> QED BY <1>1, <2>1, Times
<1>7. NoRowsLeft'
  <2> SUFFICES ASSUME Window > Grace + Budget, NEW x \in Slot, HasRow(todo[x]) PROVE FALSE
    BY <1>1 DEF NoRowsLeft
  <2>1. PICK rest \in 0..Budget, b \in 0..Window :
                Planned(todo[x], rest) /\ b + rest < window
    BY <1>1 DEF LifeInv, RowsDue
  <2>2. todo[x] # <<>> /\ rest \in Nat /\ b \in Nat
    BY <2>1, PlanStep, Times
  <2> QED BY <1>1, <2>1, <2>2
<1> QED BY <1>3, <1>4, <1>5, <1>6, <1>7 DEF LifeInv

LEMMA MainStep ==
    ASSUME LifeInv, Connect \/ Migrate \/ Start \/ Die \/ Exit \/ Restart
    PROVE  LifeInv'
<1>1. /\ schema \in {"none", "older", "current"} /\ window \in 0..Window
      /\ phase = "starting" => schema = "current"
      /\ 0 \in 0..Window
  BY Times DEF LifeInv, TypeOK, UpOK
<1>2. CASE Connect
  BY <1>1, <1>2, EmptyStep DEF Connect, Up, Phase
<1>3. CASE Migrate
  BY <1>1, <1>3, EmptyStep DEF Migrate, Up, Phase
<1>4. CASE Start
  BY <1>1, <1>4, EmptyStep DEF Start, Up, Phase
<1>5. CASE Die
  BY <1>1, <1>5, EmptyStep DEF Die, Phase
<1>6. CASE Exit
  BY <1>1, <1>6, EmptyStep DEF Exit, Phase
<1>7. CASE Restart
  BY <1>1, <1>7, EmptyStep DEF Restart, Up, Phase
<1> QED BY <1>2, <1>3, <1>4, <1>5, <1>6, <1>7

LEMMA LifeStep == LifeInv /\ [Next]_vars => LifeInv'
<1> SUFFICES ASSUME LifeInv, [Next]_vars PROVE LifeInv'
  OBVIOUS
<1>1. CASE Connect \/ Migrate \/ Start \/ Die \/ Exit \/ Restart
  BY <1>1, MainStep
<1>2. CASE Signal
  BY <1>2, SignalStep
<1>3. CASE DrainEnds
  BY <1>3, DrainStep
<1>4. ASSUME NEW r \in Slot,
             \/ Progress(r)
             \/ \E steps \in Handler : Arrive(r, steps) \/ ArriveLate(r, steps)
      PROVE  LifeInv'
  BY <1>4, GrantStep, RequestStep DEF Progress
<1>5. CASE Tick
  BY <1>5, TickStep
<1>6. CASE UNCHANGED vars
  BY <1>6 DEF vars, LifeInv, TypeOK, QueueOK, PoolDiscipline, LeftOK, UpOK, CallsOK,
              InFlightCallsFinish, PlanOK, RowsDue, NoRowsLeft, DueBy, Running, Waiting
<1> QED BY <1>1, <1>2, <1>3, <1>4, <1>5, <1>6 DEF Next

LEMMA Invariance == Spec => []LifeInv
BY LifeInit, LifeStep, PTL DEF Spec

-----------------------------------------------------------------------------
(* What follows. *)

\* The types, and that the tables exist before a statement runs on them.
THEOREM TypeCorrect == Spec => []TypeOK
<1>1. LifeInv => TypeOK
  BY DEF LifeInv
<1> QED BY <1>1, Invariance, PTL

\* A connection is held for exactly as long as a statement runs on it.
THEOREM PoolIsDisciplined == Spec => []PoolDiscipline
<1>1. LifeInv => PoolDiscipline
  BY DEF LifeInv
<1> QED BY <1>1, Invariance, PTL

\* A window longer than the REAP client's timeout outlasts the calls that are
\* under way when the signal comes.
THEOREM CallsFinish == Spec => []InFlightCallsFinish
<1>1. LifeInv => InFlightCallsFinish
  BY DEF LifeInv
<1> QED BY <1>1, Invariance, PTL

LEMMA WindowCoversBudget == Slot # {} /\ EnoughWindow => Window > Grace + Budget
<1> SUFFICES ASSUME Slot # {}, EnoughWindow PROVE Window > Grace + Budget
  OBVIOUS
<1>1. Turns \in Nat /\ StoreBound \in Nat
  BY TurnsCover, Sizes
<1>2. Window > Grace + 5 * Turns * StoreBound + ReapTimeout + SendTimeout
  BY DEF EnoughWindow, Turns
<1>3. 5 * Turns * StoreBound = 5 * (Turns * StoreBound)
  BY <1>1
<1> QED BY <1>1, <1>2, <1>3, Times DEF Budget, Turn

\* A shutdown whose window is long enough for a create leaves no create half
\* done, however the requests queue for connections.
THEOREM ShutdownLosesNoRow == Spec => []NoRowLostToShutdown
<1>1. LifeInv => NoRowLostToShutdown
  <2> SUFFICES ASSUME LifeInv, EnoughWindow, phase = "closing", NEW r \in Slot, Owing(r)
               PROVE  FALSE
    BY DEF NoRowLostToShutdown
  <2>1. HasRow(todo[r])
    BY DEF Owing, HasRow
  <2>2. Window > Grace + Budget
    BY WindowCoversBudget
  <2> QED BY <2>1, <2>2 DEF LifeInv, NoRowsLeft
<1> QED BY <1>1, Invariance, PTL
=============================================================================
