------------------------- MODULE EventConsumerProofs -------------------------
(***************************************************************************)
(* Machine-checked proofs about EventConsumer, for every number of clients, *)
(* events, attempts, moves and restarts, and every limit.                   *)
(***************************************************************************)
EXTENDS EventConsumer, NumberSets

-----------------------------------------------------------------------------
(* The inductive invariant.                                                *)

\* A snapshot a storage transaction could have returned.
Snapshots ==
    [rev : Nat, cp : 0..head, sparse : SUBSET (1..head), rows : [Events -> Rows]]

Requests ==
    [op : {"none", "pull", "ack", "nack", "seek", "retire"},
     step : {"idle", "inspected", "read", "recover", "lease", "settle", "move"},
     event : 0..MaxEvents, token : Rows, after : Nat,
     window : SUBSET (1..head), obs : SUBSET (Events \X Rows), snap : Snapshots]

Shape ==
    /\ era \in Nat
    /\ consumer \in Snapshots
    /\ outstanding \subseteq Events \X Rows

\* Without a consumer nothing is stored, and what is stored is about committed
\* events and belongs to the time since the last move.
Stored ==
    /\ consumer.rev = 0 => consumer = Missing
    /\ \A e \in Events : consumer.rows[e].state # "none" =>
          e \in 1..head /\ consumer.rows[e].era = era

\* What was checked when the operation was planned.
Planned(r) ==
    /\ r.op \in {"ack", "nack"} => r.event \in Events
    /\ r.step = "recover" =>
          /\ r.window \subseteq Leased(r.snap)
          /\ CanNormalize(r.snap, r.window)
          /\ \A e \in r.window : <<e, r.snap.rows[e]>> \in r.obs
    /\ r.step = "lease" =>
          /\ mode = "exact"
          /\ \A e \in r.window : /\ r.snap.cp < e /\ e \notin r.snap.sparse
                                 /\ r.snap.rows[e].state \in {"none", "retry"}
    /\ r.step = "settle" =>
          /\ r.op \in {"ack", "nack"}
          /\ Valid(r.snap)
          /\ r.snap.rows[r.event].state = "leased"
    /\ r.step = "move" => r.event \in 0..head /\ mode \in Movable

\* What was seen due is over: the row is still due while it is the same, and an
\* event that is not settled has had at least the attempt that was seen.
Witnessed(r) ==
    \A o \in r.obs : o[2].state = "leased" =>
        /\ consumer.rows[o[1]] = o[2] => o[1] \in due
        /\ o[2].era = era => \/ o[1] \in (1..consumer.cp) \cup consumer.sparse
                             \/ o[2].attempts <= consumer.rows[o[1]].attempts

\* No move came between the beginning of the operation and now.
Unmoved(r) ==
    \/ mode = "protected" /\ era = 0
    \/ r.token.state = "leased" /\ r.token.era = era

\* Every event between the checkpoint and an event of the window is in it.
Reaches(W, cp) == \A e \in W : \A d \in Events : cp < d /\ d <= e => d \in W

\* A resolution planned from the snapshot that is still stored settles what was
\* settled before and, when it is final, its event.
Extends(s, r) ==
    /\ s.rows[r.event] = consumer.rows[r.event]
    /\ consumer.cp <= s.cp
    /\ (1..s.cp) \cup s.sparse =
          (1..consumer.cp) \cup consumer.sparse \cup {e \in {r.event} : Final(r, s)}

Fresh(r) ==
    Unmoved(r) =>
        /\ r.step = "inspected" => r.after <= consumer.cp
        /\ r.step = "read" => Reaches(r.window, consumer.cp)
        /\ r.step = "settle" => /\ r.snap.rev <= consumer.rev
                                /\ r.snap.rev = consumer.rev => Extends(r.snap, r)

\* A planned lease fits if nothing was written since.
Fits(r) ==
    era = 0 /\ r.step = "lease" =>
        /\ r.snap.rev <= consumer.rev
        /\ r.snap.rev = consumer.rev =>
              Cardinality(Leased(consumer) \cup r.window) <= InFlightLimit

\* The checkpoint and the sparse resolutions are what was settled, in a consumer
\* that is only moved where a move cannot mislead a pull.
Settled ==
    mode = "exact" \/ era = 0 => (1..consumer.cp) \cup consumer.sparse = earned

\* A lease that is honoured is not over.
Honoured ==
    \A l \in outstanding : /\ l[2].state = "leased" /\ l[1] \notin due
                           /\ consumer.rows[l[1]] = l[2]

Limited ==
    mode = "protected" \/ era = 0 => Cardinality(Leased(consumer)) <= InFlightLimit

OnlyMovable == mode \in Movable \/ era = 0

\* About the store.
StoreInv ==
    TypeOK /\ Shape /\ Stored /\ Settled /\ Honoured /\ Limited /\ OnlyMovable

\* About the operation under way.
CarriedInv(r) == Planned(r) /\ Witnessed(r) /\ Fresh(r) /\ Fits(r)

ConsumerInv ==
    /\ StoreInv
    /\ client \in [Clients -> Requests]
    /\ \A c \in Clients : CarriedInv(client[c])

-----------------------------------------------------------------------------
(* Numbers, rows and snapshots.                                            *)

LEMMA Constants ==
    /\ MaxEvents \in Nat \ {0} /\ MaxAttempts \in Nat \ {0}
    /\ MaxSparse \in Nat \ {0} /\ BatchLimit \in Nat \ {0}
    /\ InFlightLimit \in Nat \ {0} /\ MaxUpsets \in Nat
BY ConsumerAssumption

LEMMA EventsAreNumbers ==
    /\ \A e \in Events : e \in Nat /\ 1 <= e /\ e <= MaxEvents
    /\ Events \subseteq 0..MaxEvents
BY Constants DEF Events

\* A row is absent, or is at an attempt its state allows.
LEMMA RowKinds ==
    ASSUME era \in Nat, NEW row \in Rows
    PROVE  /\ row = [state |-> row.state, attempts |-> row.attempts, era |-> row.era]
           /\ row.state \in {"none", "leased", "retry", "dead"}
           /\ row.attempts \in 0..MaxAttempts /\ row.era \in 0..era
           /\ row.state = "none" => row = NoRow
           /\ row.state = "leased" => row.attempts >= 1
           /\ row.state = "retry" => row.attempts >= 1 /\ row.attempts < MaxAttempts
           /\ row.state = "dead" => row.attempts = MaxAttempts
BY Constants DEF Rows, NoRow

LEMMA NoRowIsRow == NoRow \in Rows /\ NoRow.state = "none" /\ NoRow.attempts = 0
BY DEF Rows, NoRow

\* A failed lease is a retry with attempts left, or dead.
LEMMA FailedRow ==
    ASSUME era \in Nat, NEW row \in Rows, row.state = "leased"
    PROVE  /\ Failed(row) \in Rows
           /\ Failed(row).state = IF row.attempts = MaxAttempts THEN "dead" ELSE "retry"
           /\ Failed(row).attempts = row.attempts /\ Failed(row).era = row.era
<1>1. /\ row = [state |-> row.state, attempts |-> row.attempts, era |-> row.era]
      /\ row.attempts \in 1..MaxAttempts /\ row.era \in 0..era
  BY RowKinds, Constants
<1>2. Failed(row) = [state |-> IF row.attempts = MaxAttempts THEN "dead" ELSE "retry",
                     attempts |-> row.attempts, era |-> row.era]
  BY <1>1 DEF Failed
<1>3. CASE row.attempts = MaxAttempts
  BY <1>1, <1>2, <1>3, Constants DEF Rows
<1>4. CASE row.attempts # MaxAttempts
  <2>1. row.attempts \in 1..(MaxAttempts - 1)
    BY <1>1, <1>4, Constants
  <2> QED BY <1>1, <1>2, <1>4, <2>1 DEF Rows
<1> QED BY <1>3, <1>4

\* A row that is new or due for a retry can be leased once more.
LEMMA LeasedRow ==
    ASSUME era \in Nat, NEW s, NEW e, s.rows[e] \in Rows,
           s.rows[e].state \in {"none", "retry"}
    PROVE  /\ NewLease(s, e) \in Rows
           /\ NewLease(s, e).state = "leased" /\ NewLease(s, e).era = era
           /\ NewLease(s, e).attempts = s.rows[e].attempts + 1
           /\ NewLease(s, e).attempts > s.rows[e].attempts
<1>1. s.rows[e].attempts + 1 \in 1..MaxAttempts
  BY RowKinds, NoRowIsRow, Constants
<1>2. s.rows[e].attempts \in Nat
  BY RowKinds
<1> QED BY <1>1, <1>2 DEF NewLease, Rows

\* What was a row, a snapshot or a request still is after events were committed
\* and the consumer moved.
LEMMA TypesGrow ==
    ASSUME era \in Nat, era' \in Nat, era <= era',
           head \in Nat, head' \in Nat, head <= head'
    PROVE  Rows \subseteq Rows' /\ Snapshots \subseteq Snapshots'
           /\ Requests \subseteq Requests'
<1>1. ASSUME NEW row \in Rows PROVE row \in Rows'
  <2>1. row.era \in 0..era => row.era \in 0..era'
    OBVIOUS
  <2> QED BY <1>1, <2>1 DEF Rows
<1>2. ASSUME NEW s \in Snapshots PROVE s \in Snapshots'
  <2>1. 0..head \subseteq 0..head' /\ 1..head \subseteq 1..head'
    OBVIOUS
  <2>2. [Events -> Rows] \subseteq [Events -> Rows']
    BY <1>1
  <2> QED BY <2>1, <2>2 DEF Snapshots
<1>3. ASSUME NEW r \in Requests PROVE r \in Requests'
  <2>1. 1..head \subseteq 1..head'
    OBVIOUS
  <2>2. Events \X Rows \subseteq Events \X Rows'
    BY <1>1
  <2> QED BY <1>1, <1>2, <2>1, <2>2 DEF Requests
<1> QED BY <1>1, <1>2, <1>3

LEMMA MissingIsSnapshot ==
    ASSUME era \in Nat, head \in Nat
    PROVE  Missing \in Snapshots /\ Valid(Missing) /\ Leased(Missing) = {}
           /\ Missing.rev = 0 /\ Missing.cp = 0 /\ Missing.sparse = {}
           /\ \A e \in Events : Missing.rows[e] = NoRow
<1>1. Missing \in Snapshots
  BY NoRowIsRow DEF Missing, Snapshots
<1>2. Valid(Missing)
  BY Constants, FS_EmptySet DEF Valid, Missing
<1>3. Leased(Missing) = {}
  BY NoRowIsRow DEF Leased, Missing
<1> QED BY <1>1, <1>2, <1>3 DEF Missing

LEMMA IdleIsRequest ==
    ASSUME era \in Nat, head \in Nat
    PROVE  Idle \in Requests /\ CarriedInv(Idle)
<1>1. Idle \in Requests
  BY MissingIsSnapshot, NoRowIsRow, Constants DEF Idle, Requests
<1>2. CarriedInv(Idle)
  BY DEF Idle, CarriedInv, Planned, Witnessed, Fresh, Fits
<1> QED BY <1>1, <1>2

-----------------------------------------------------------------------------
(* The operators on snapshots.                                             *)

\* What a snapshot counts as settled.
Covered(s) == (1..s.cp) \cup s.sparse

LEMMA SnapshotParts ==
    ASSUME NEW s \in Snapshots
    PROVE  /\ s = [rev |-> s.rev, cp |-> s.cp, sparse |-> s.sparse, rows |-> s.rows]
           /\ s.rev \in Nat /\ s.cp \in 0..head /\ s.sparse \in SUBSET (1..head)
           /\ s.rows \in [Events -> Rows]
           /\ s.rows = [e \in Events |-> s.rows[e]]
           /\ \A e \in Events : s.rows[e] \in Rows
BY DEF Snapshots

\* Snapshots with some of their parts replaced.
LEMMA NewRows ==
    ASSUME NEW s \in Snapshots, NEW rows
    PROVE  [s EXCEPT !.rows = rows] =
               [rev |-> s.rev, cp |-> s.cp, sparse |-> s.sparse, rows |-> rows]
BY DEF Snapshots

LEMMA NewProgress ==
    ASSUME NEW s \in Snapshots, NEW cp, NEW sparse
    PROVE  [s EXCEPT !.cp = cp, !.sparse = sparse] =
               [rev |-> s.rev, cp |-> cp, sparse |-> sparse, rows |-> s.rows]
<1>0. s = [rev |-> s.rev, cp |-> s.cp, sparse |-> s.sparse, rows |-> s.rows]
  BY DEF Snapshots
<1> DEFINE t1 == [s EXCEPT !.cp = cp]
<1>1. [s EXCEPT !.cp = cp, !.sparse = sparse] = [t1 EXCEPT !.sparse = sparse]
  OBVIOUS
<1>2. t1 = [rev |-> s.rev, cp |-> cp, sparse |-> s.sparse, rows |-> s.rows]
  BY <1>0
<1> HIDE DEF t1
<1>3. [t1 EXCEPT !.sparse = sparse] =
          [rev |-> s.rev, cp |-> cp, sparse |-> sparse, rows |-> s.rows]
  BY <1>2
<1> QED BY <1>1, <1>3

LEMMA NewNormal ==
    ASSUME NEW s \in Snapshots, NEW rev, NEW sparse, NEW rows
    PROVE  [s EXCEPT !.rev = rev, !.sparse = sparse, !.rows = rows] =
               [rev |-> rev, cp |-> s.cp, sparse |-> sparse, rows |-> rows]
<1>0. s = [rev |-> s.rev, cp |-> s.cp, sparse |-> s.sparse, rows |-> s.rows]
  BY DEF Snapshots
<1> DEFINE t1 == [s EXCEPT !.rev = rev]
           t2 == [s EXCEPT !.rev = rev, !.sparse = sparse]
<1>1. /\ t2 = [t1 EXCEPT !.sparse = sparse]
      /\ [s EXCEPT !.rev = rev, !.sparse = sparse, !.rows = rows] = [t2 EXCEPT !.rows = rows]
  OBVIOUS
<1>2. t1 = [rev |-> rev, cp |-> s.cp, sparse |-> s.sparse, rows |-> s.rows]
  BY <1>0
<1> HIDE DEF t1, t2
<1>3. [t1 EXCEPT !.sparse = sparse] =
          [rev |-> rev, cp |-> s.cp, sparse |-> sparse, rows |-> s.rows]
  BY <1>2
<1>4. t2 = [rev |-> rev, cp |-> s.cp, sparse |-> sparse, rows |-> s.rows]
  BY <1>1, <1>3
<1>5. [t2 EXCEPT !.rows = rows] =
          [rev |-> rev, cp |-> s.cp, sparse |-> sparse, rows |-> rows]
  BY <1>4
<1> QED BY <1>1, <1>5

LEMMA Rewritten ==
    ASSUME NEW s \in Snapshots, NEW rows \in [Events -> Rows]
    PROVE  LET t == [s EXCEPT !.rev = s.rev + 1, !.rows = rows] IN
           /\ t \in Snapshots /\ t.rev = s.rev + 1 /\ t.cp = s.cp
           /\ t.sparse = s.sparse /\ t.rows = rows
<1>1. ASSUME NEW rev \in Nat
      PROVE  LET t == [s EXCEPT !.rev = rev, !.rows = rows] IN
             /\ t \in Snapshots /\ t.rev = rev /\ t.cp = s.cp
             /\ t.sparse = s.sparse /\ t.rows = rows
  BY DEF Snapshots
<1>2. s.rev + 1 \in Nat
  BY DEF Snapshots
<1> QED BY <1>1, <1>2

LEMMA MaxOfIsLast ==
    ASSUME NEW n \in Nat, NEW S \in SUBSET (0..n), S # {}
    PROVE  MaxOf(S) \in S /\ \A d \in S : d <= MaxOf(S)
<1>1. \E e \in S : \A d \in S : d <= e
  BY Largest
<1> QED BY <1>1 DEF MaxOf

\* The checkpoint moves on and takes nothing along that is not settled, if every
\* event on its way is in the prefix.
LEMMA WalkSettles ==
    ASSUME head \in Nat, NEW s \in Snapshots,
           NEW settled \in SUBSET (1..head), NEW prefix \in SUBSET (1..head)
    PROVE  LET w == Walk(s, settled, prefix) IN
           /\ w \in Snapshots /\ w.rev = s.rev /\ w.rows = s.rows
           /\ s.cp <= w.cp
           /\ (1..s.cp) \cup settled \subseteq Covered(w)
           /\ head <= MaxEvents /\ Reaches(prefix, s.cp) =>
                 Covered(w) = (1..s.cp) \cup settled
<1> DEFINE w == Walk(s, settled, prefix)
           ahead == {e \in prefix : s.cp < e}
           passed == {e \in ahead : \A d \in ahead : d <= e => d \in settled}
           all == passed \cup {s.cp}
<1>s. /\ s = [rev |-> s.rev, cp |-> s.cp, sparse |-> s.sparse, rows |-> s.rows]
      /\ s.rev \in Nat /\ s.cp \in 0..head /\ s.rows \in [Events -> Rows]
  BY SnapshotParts
<1>w. w = [rev |-> s.rev, cp |-> MaxOf(all), sparse |-> settled \ passed, rows |-> s.rows]
  <2>1. w = [s EXCEPT !.cp = MaxOf(all), !.sparse = settled \ passed]
    BY DEF Walk
  <2> HIDE DEF w, all, passed
  <2> QED BY <2>1, NewProgress
<1>a. all \in SUBSET (0..head) /\ all # {}
  BY <1>s
<1>p. \A e \in passed : /\ e \in prefix /\ e \in settled /\ s.cp < e
                        /\ \A d \in prefix : s.cp < d /\ d <= e => d \in settled /\ d \in passed
  <2> SUFFICES ASSUME NEW e \in passed
               PROVE  /\ e \in prefix /\ e \in settled /\ s.cp < e
                      /\ \A d \in prefix : s.cp < d /\ d <= e => d \in settled /\ d \in passed
    OBVIOUS
  <2>1. e \in prefix /\ s.cp < e /\ e \in Nat /\ e \in settled
    OBVIOUS
  <2>2. ASSUME NEW d \in prefix, s.cp < d, d <= e PROVE d \in settled /\ d \in passed
    <3>1. d \in ahead /\ d \in Nat
      BY <2>2
    <3>2. ASSUME NEW x \in ahead, x <= d PROVE x \in settled
      <4>1. x \in Nat /\ x <= e
        BY <3>1, <3>2, <2>1, <2>2
      <4> QED BY <4>1
    <3>3. d \in settled
      BY <3>1, <2>2
    <3> QED BY <3>1, <3>2, <3>3
  <2> QED BY <2>1, <2>2
<1> HIDE DEF passed, all, w
<1>m. MaxOf(all) \in all /\ \A d \in all : d <= MaxOf(all)
  BY <1>a, MaxOfIsLast
<1>n. /\ w.rev = s.rev /\ w.cp = MaxOf(all) /\ w.sparse = settled \ passed
      /\ w.rows = s.rows /\ w.cp \in 0..head
  BY <1>w, <1>m, <1>a
<1>1. w \in Snapshots
  BY <1>w, <1>n, <1>s DEF Snapshots
<1>2. s.cp <= w.cp
  BY <1>n, <1>m DEF all
<1>3. ASSUME NEW e \in (1..s.cp) \cup settled PROVE e \in Covered(w)
  <2>1. CASE e \in 1..s.cp
    BY <2>1, <1>2, <1>n, <1>s DEF Covered
  <2>2. CASE e \in settled /\ e \notin passed
    BY <2>2, <1>n DEF Covered
  <2>3. CASE e \in passed
    <3>1. e \in 1..head /\ e <= w.cp
      BY <2>3, <1>p, <1>m, <1>n DEF all
    <3> QED BY <3>1, <1>n DEF Covered
  <2> QED BY <2>1, <2>2, <2>3
<1>4. ASSUME head <= MaxEvents, Reaches(prefix, s.cp), NEW e \in Covered(w)
      PROVE  e \in (1..s.cp) \cup settled
  <2>1. CASE e \in w.sparse
    BY <2>1, <1>n
  <2>2. CASE e \in 1..w.cp /\ ~(e <= s.cp)
    <3>1. w.cp \in passed
      BY <2>2, <1>m, <1>n, <1>s DEF all
    <3>2. e \in Nat /\ s.cp < e /\ e <= w.cp /\ e \in Events
      BY <2>2, <1>n, <1>s, <1>4, Constants DEF Events
    <3>3. e \in prefix
      BY <3>1, <3>2, <1>4, <1>p DEF Reaches
    <3> QED BY <3>1, <3>2, <3>3, <1>p
  <2>3. CASE e \in 1..w.cp /\ e <= s.cp
    BY <2>3, <1>s
  <2> QED BY <1>4, <2>1, <2>2, <2>3 DEF Covered
<1>5. head <= MaxEvents /\ Reaches(prefix, s.cp) => Covered(w) = (1..s.cp) \cup settled
  BY <1>3, <1>4
<1> QED BY <1>1, <1>n, <1>2, <1>3, <1>5 DEF w

\* Normalising keeps the checkpoint and gives every lease of S a failed row.
LEMMA NormalizedParts ==
    ASSUME era \in Nat, head \in Nat, NEW s \in Snapshots,
           NEW S \in SUBSET Leased(s), S \subseteq 1..head
    PROVE  LET t == Normalized(s, S) IN
           /\ t \in Snapshots /\ t.rev = s.rev + 1 /\ t.cp = s.cp
           /\ t.sparse = s.sparse \cup Spent(s, S)
           /\ Covered(t) = Covered(s) \cup Spent(s, S)
           /\ \A e \in Events :
                 t.rows[e] = IF e \in S THEN Failed(s.rows[e]) ELSE s.rows[e]
<1> DEFINE t == Normalized(s, S)
<1>s. /\ s = [rev |-> s.rev, cp |-> s.cp, sparse |-> s.sparse, rows |-> s.rows]
      /\ s.rev \in Nat /\ s.cp \in 0..head /\ s.sparse \in SUBSET (1..head)
      /\ \A e \in Events : s.rows[e] \in Rows
  BY SnapshotParts
<1>1. t = [rev |-> s.rev + 1, cp |-> s.cp, sparse |-> s.sparse \cup Spent(s, S),
           rows |-> [e \in Events |-> IF e \in S THEN Failed(s.rows[e]) ELSE s.rows[e]]]
  <2> DEFINE rows == [e \in Events |-> IF e \in S THEN Failed(s.rows[e]) ELSE s.rows[e]]
             sparse == s.sparse \cup Spent(s, S)
  <2>1. t = [s EXCEPT !.rev = s.rev + 1, !.sparse = sparse, !.rows = rows]
    BY DEF Normalized
  <2>2. t = [rev |-> s.rev + 1, cp |-> s.cp, sparse |-> sparse, rows |-> rows]
    <3> HIDE DEF t, rows, sparse
    <3> QED BY <2>1, NewNormal
  <2> QED BY <2>2
<1>2. \A e \in S : e \in Events /\ s.rows[e].state = "leased"
  BY DEF Leased
<1>3. \A e \in S : Failed(s.rows[e]) \in Rows
  BY <1>2, <1>s, FailedRow
<1>4. Spent(s, S) \subseteq 1..head
  BY DEF Spent
<1> HIDE DEF t
<1>5. t \in Snapshots
  <2>1. [e \in Events |-> IF e \in S THEN Failed(s.rows[e]) ELSE s.rows[e]] \in [Events -> Rows]
    BY <1>3, <1>s
  <2> QED BY <1>1, <2>1, <1>4, <1>s DEF Snapshots
<1>6. /\ t.rev = s.rev + 1 /\ t.cp = s.cp /\ t.sparse = s.sparse \cup Spent(s, S)
      /\ \A e \in Events : t.rows[e] = IF e \in S THEN Failed(s.rows[e]) ELSE s.rows[e]
  BY <1>1
<1>7. Covered(t) = Covered(s) \cup Spent(s, S)
  BY <1>6 DEF Covered
<1> QED BY <1>5, <1>6, <1>7 DEF t

\* What is picked for a lease may be leased and fits.
LEMMA LeasableParts ==
    ASSUME era \in Nat, head \in 0..MaxEvents, NEW s \in Snapshots,
           NEW W \in SUBSET (1..head), NEW obs
    PROVE  LET P == Leasable(s, W, obs) IN
           /\ P \subseteq W
           /\ \A e \in P : /\ s.cp < e /\ e \notin s.sparse /\ e \notin Covered(s)
                           /\ s.rows[e].state \in {"none", "retry"}
           /\ Cardinality(Leased(s)) <= InFlightLimit =>
                 Cardinality(Leased(s) \cup P) <= InFlightLimit
<1> DEFINE open == {e \in W : /\ s.cp < e /\ e \notin s.sparse
                             /\ \/ s.rows[e].state = "none"
                                \/ s.rows[e].state = "retry" /\ IsDue(s, e, obs)}
           live == Cardinality(Leased(s))
           room == IF live < InFlightLimit THEN InFlightLimit - live ELSE 0
           n == IF BatchLimit < room THEN BatchLimit ELSE room
           P == Leasable(s, W, obs)
<1>1. P = FirstOf(open, n)
  BY DEF Leasable
<1>2. P \subseteq open
  BY <1>1 DEF FirstOf
<1>3. Leased(s) \in SUBSET (0..MaxEvents) /\ open \in SUBSET (0..MaxEvents)
  <2>1. Leased(s) \subseteq Events
    BY DEF Leased
  <2>2. open \subseteq 1..head
    OBVIOUS
  <2>3. 1..head \subseteq 0..MaxEvents
    BY Constants
  <2> HIDE DEF open
  <2> QED BY <2>1, <2>2, <2>3, EventsAreNumbers
<1>4. live \in Nat
  BY <1>3, FiniteBelow, Constants
<1>5. n \in Nat /\ (live <= InFlightLimit => live + n <= InFlightLimit)
  BY <1>4, Constants
<1>6. ASSUME NEW e \in P
      PROVE  /\ s.cp < e /\ e \notin s.sparse /\ e \notin Covered(s)
             /\ s.rows[e].state \in {"none", "retry"}
  <2>1. e \in open
    BY <1>2
  <2>2. e \in Nat /\ s.cp \in Nat
    <3>1. e \in 1..head /\ head \in Nat
      BY <2>1, Constants
    <3>2. s.cp \in 0..head
      BY SnapshotParts
    <3> QED BY <3>1, <3>2
  <2>3. s.cp < e /\ e \notin s.sparse /\ s.rows[e].state \in {"none", "retry"}
    BY <2>1
  <2> HIDE DEF open, P
  <2> QED BY <2>2, <2>3 DEF Covered
<1>7. P \subseteq W
  BY <1>2
<1> HIDE DEF open, live, n, P
<1>8. Cardinality(P) <= n
  <2>1. Cardinality({e \in open : Cardinality({d \in open : d < e}) < n}) <= n
    BY <1>3, <1>5, Constants, FirstAreFew
  <2> QED BY <2>1, <1>1 DEF FirstOf
<1>9. ASSUME live <= InFlightLimit PROVE Cardinality(Leased(s) \cup P) <= InFlightLimit
  <2>1. P \in SUBSET (0..MaxEvents)
    BY <1>2, <1>3
  <2>2. /\ Cardinality(P) \in Nat
        /\ Cardinality(Leased(s) \cup P) <= live + Cardinality(P)
        /\ Cardinality(Leased(s) \cup P) \in Nat
    <3>1. Leased(s) \cup P \in SUBSET (0..MaxEvents)
      BY <2>1, <1>3
    <3> QED BY <2>1, <3>1, <1>3, UnionIsSmall, FiniteBelow, Constants DEF live
  <2> QED BY <2>2, <1>4, <1>5, <1>8, <1>9, Constants
<1> QED BY <1>6, <1>7, <1>9 DEF P, live

-----------------------------------------------------------------------------
(* What a step of the store does to an operation under way.                *)

\* Nothing was written, or instants passed.
Untouched == era' = era /\ consumer' = consumer /\ due \subseteq due'

\* A new revision: nothing settled is lost, a row that changes into a lease is
\* the next attempt at an event that was not settled, and an event's attempts
\* are only forgotten when it is settled.
Written ==
    /\ era' = era
    /\ consumer.rev < consumer'.rev /\ consumer.cp <= consumer'.cp
    /\ Covered(consumer) \subseteq Covered(consumer')
    /\ \A e \in Events :
          /\ consumer'.rows[e] = consumer.rows[e] /\ e \in due
                /\ consumer.rows[e].state = "leased" => e \in due'
          /\ consumer'.rows[e] # consumer.rows[e] /\ consumer'.rows[e].state = "leased"
                => /\ e \notin Covered(consumer)
                   /\ consumer.rows[e].attempts < consumer'.rows[e].attempts
                   /\ consumer'.rows[e].era = era
          /\ e \in Covered(consumer') \/ consumer.rows[e].attempts <= consumer'.rows[e].attempts

\* The consumer was moved.
Moved == era' = era + 1 /\ \A e \in Events : consumer'.rows[e] = NoRow

Advance ==
    /\ head <= head' /\ head' \in 0..MaxEvents /\ mode' = mode
    /\ consumer' \in Snapshots'
    /\ Untouched \/ Written \/ Moved

\* An operation that is not the one taking the step keeps what it knows.
LEMMA CarriedOn ==
    ASSUME StoreInv, Advance, NEW r \in Requests, CarriedInv(r)
    PROVE  r \in Requests' /\ CarriedInv(r)'
<1>t. /\ era \in Nat /\ head \in 0..MaxEvents /\ consumer \in Snapshots
      /\ era' \in Nat /\ era <= era' /\ head \in Nat /\ head' \in Nat /\ head <= head'
      /\ mode' = mode
  BY Constants DEF StoreInv, TypeOK, Shape, Advance, Untouched, Written, Moved
<1>g. Rows \subseteq Rows' /\ Snapshots \subseteq Snapshots' /\ Requests \subseteq Requests'
  BY <1>t, TypesGrow
<1>r. /\ r.token \in Rows /\ r.obs \subseteq Events \X Rows
      /\ r.window \subseteq 1..head /\ r.snap \in Snapshots
      /\ r.event \in 0..MaxEvents /\ r.snap.rev \in Nat
  BY SnapshotParts DEF Requests
<1>o. \A o \in r.obs : /\ o[1] \in Events /\ o[2] \in Rows
                       /\ o[2].era \in 0..era /\ o[2].attempts \in Nat
  <2>1. \A o \in r.obs : o[1] \in Events /\ o[2] \in Rows
    BY <1>r
  <2> QED BY <2>1, <1>t, RowKinds
<1>c. /\ consumer.rev \in Nat /\ consumer.cp \in Nat
      /\ \A e \in Events : consumer.rows[e] \in Rows /\ consumer.rows[e].attempts \in Nat
  <2>1. /\ consumer.rev \in Nat /\ consumer.cp \in 0..head
        /\ \A e \in Events : consumer.rows[e] \in Rows
    BY <1>t, SnapshotParts
  <2> QED BY <2>1, <1>t, RowKinds
<1>d. /\ consumer'.rev \in Nat /\ consumer'.cp \in Nat
      /\ \A e \in Events : consumer'.rows[e].attempts \in Nat
  BY <1>t, Constants DEF Advance, Snapshots, Rows, NoRow
<1>1. Planned(r)'
  <2>1. /\ (r.step = "move" => r.event \in 0..head /\ mode \in Movable)'
        /\ (r.step = "lease" => mode = "exact")'
    BY <1>t DEF CarriedInv, Planned
  <2> QED BY <2>1 DEF CarriedInv, Planned, CanNormalize, Valid, Normalized, Spent, Leased
<1>2. Witnessed(r)'
  <2> SUFFICES ASSUME NEW o \in r.obs, o[2].state = "leased"
               PROVE  /\ consumer'.rows[o[1]] = o[2] => o[1] \in due'
                      /\ o[2].era = era' =>
                            \/ o[1] \in Covered(consumer')
                            \/ o[2].attempts <= consumer'.rows[o[1]].attempts
    BY DEF Witnessed, Covered
  <2>w. /\ consumer.rows[o[1]] = o[2] => o[1] \in due
        /\ o[2].era = era => \/ o[1] \in Covered(consumer)
                             \/ o[2].attempts <= consumer.rows[o[1]].attempts
    BY DEF CarriedInv, Witnessed, Covered
  <2>1. CASE Untouched
    BY <2>1, <2>w DEF Untouched
  <2>2. CASE Written
    <3>1. o[1] \in Events
      BY <1>o
    <3>2. /\ consumer'.rows[o[1]] = consumer.rows[o[1]] /\ o[1] \in due
                /\ consumer.rows[o[1]].state = "leased" => o[1] \in due'
          /\ consumer'.rows[o[1]] # consumer.rows[o[1]] /\ consumer'.rows[o[1]].state = "leased"
                => /\ o[1] \notin Covered(consumer)
                   /\ consumer.rows[o[1]].attempts < consumer'.rows[o[1]].attempts
                   /\ consumer'.rows[o[1]].era = era
          /\ o[1] \in Covered(consumer') \/ consumer.rows[o[1]].attempts <= consumer'.rows[o[1]].attempts
          /\ era' = era
          /\ Covered(consumer) \subseteq Covered(consumer')
      BY <3>1, <2>2 DEF Written
    <3>3. /\ consumer.rows[o[1]].attempts \in Nat /\ consumer'.rows[o[1]].attempts \in Nat
          /\ o[2].attempts \in Nat
      BY <3>1, <1>c, <1>d, <1>o
    <3>4. ASSUME consumer'.rows[o[1]] = o[2] PROVE o[1] \in due'
      BY <3>2, <3>3, <3>4, <2>w
    <3>5. ASSUME o[2].era = era'
          PROVE  o[1] \in Covered(consumer') \/ o[2].attempts <= consumer'.rows[o[1]].attempts
      BY <3>2, <3>3, <3>5, <2>w
    <3> QED BY <3>4, <3>5
  <2>3. CASE Moved
    BY <2>3, <1>o, <1>t, NoRowIsRow DEF Moved
  <2> QED BY <2>1, <2>2, <2>3 DEF Advance
<1>3. Fresh(r)'
  <2>1. CASE Untouched
    BY <2>1, <1>t DEF Untouched, CarriedInv, Fresh, Unmoved, Extends, Final, Reaches
  <2>2. CASE Written
    <3>1. era' = era /\ consumer.rev < consumer'.rev /\ consumer.cp <= consumer'.cp
      BY <2>2 DEF Written
    <3>2. Unmoved(r)' => Unmoved(r)
      BY <3>1, <1>t DEF Unmoved
    <3>3. ASSUME Unmoved(r), r.step = "inspected" PROVE r.after <= consumer'.cp
      <4>1. r.after <= consumer.cp /\ r.after \in Nat
        BY <3>3 DEF CarriedInv, Fresh, Requests
      <4> QED BY <4>1, <3>1, <1>c, <1>d
    <3>4. ASSUME Unmoved(r), r.step = "read" PROVE Reaches(r.window, consumer'.cp)
      <4>1. Reaches(r.window, consumer.cp)
        BY <3>4 DEF CarriedInv, Fresh
      <4>2. \A d \in Events : consumer'.cp < d => consumer.cp < d
        BY <3>1, <1>c, <1>d, EventsAreNumbers
      <4> QED BY <4>1, <4>2 DEF Reaches
    <3>5. ASSUME Unmoved(r), r.step = "settle"
          PROVE  r.snap.rev <= consumer'.rev /\ r.snap.rev # consumer'.rev
      <4>1. r.snap.rev <= consumer.rev
        BY <3>5 DEF CarriedInv, Fresh
      <4> QED BY <4>1, <3>1, <1>c, <1>d, <1>r
    <3> QED BY <3>2, <3>3, <3>4, <3>5 DEF Fresh
  <2>3. CASE Moved
    <3>1. r.token.era \in 0..era
      BY <1>r, <1>t, RowKinds
    <3>2. ~Unmoved(r)'
      BY <3>1, <2>3, <1>t DEF Unmoved, Moved
    <3> QED BY <3>2 DEF Fresh
  <2> QED BY <2>1, <2>2, <2>3 DEF Advance
<1>4. Fits(r)'
  <2>1. CASE Untouched
    BY <2>1 DEF Untouched, CarriedInv, Fits, Leased
  <2>2. CASE Written
    <3>1. era' = era /\ consumer.rev < consumer'.rev
      BY <2>2 DEF Written
    <3>2. era = 0 /\ r.step = "lease" => r.snap.rev <= consumer.rev
      BY DEF CarriedInv, Fits
    <3>3. era' = 0 /\ r.step = "lease" => r.snap.rev <= consumer'.rev /\ r.snap.rev # consumer'.rev
      BY <3>1, <3>2, <1>c, <1>d, <1>r
    <3> QED BY <3>3 DEF Fits
  <2>3. CASE Moved
    BY <2>3, <1>t DEF Moved, Fits
  <2> QED BY <2>1, <2>2, <2>3 DEF Advance
<1> QED BY <1>g, <1>1, <1>2, <1>3, <1>4 DEF CarriedInv

\* A step of one client's operation, or of none.
LEMMA OneClient ==
    ASSUME ConsumerInv, Advance, StoreInv', NEW c \in Clients,
           client' = [client EXCEPT ![c] = client'[c]],
           client'[c] \in Requests', CarriedInv(client[c])'
    PROVE  ConsumerInv'
<1>1. ASSUME NEW d \in Clients, d # c
      PROVE  client'[d] \in Requests' /\ CarriedInv(client[d])'
  <2>1. client'[d] = client[d]
    BY <1>1 DEF ConsumerInv
  <2>2. PICK r : r = client[d]
    OBVIOUS
  <2>3. r \in Requests /\ CarriedInv(r)
    BY <2>2 DEF ConsumerInv
  <2>4. r \in Requests' /\ CarriedInv(r)'
    BY <2>3, CarriedOn DEF ConsumerInv
  <2> QED BY <2>1, <2>2, <2>4
<1>2. client' \in [Clients -> Requests']
  <2>1. client \in [Clients -> Requests]
    BY DEF ConsumerInv
  <2> QED BY <2>1, <1>1
<1>3. ASSUME NEW d \in Clients PROVE CarriedInv(client[d])'
  BY <1>1
<1> QED BY <1>2, <1>3 DEF ConsumerInv

LEMMA NoClient ==
    ASSUME ConsumerInv, Advance, StoreInv', client' = client
    PROVE  ConsumerInv'
<1>1. ASSUME NEW d \in Clients
      PROVE  client'[d] \in Requests' /\ CarriedInv(client[d])'
  <2>2. PICK r : r = client[d]
    OBVIOUS
  <2>3. r \in Requests /\ CarriedInv(r)
    BY <2>2 DEF ConsumerInv
  <2>4. r \in Requests' /\ CarriedInv(r)'
    BY <2>3, CarriedOn DEF ConsumerInv
  <2> QED BY <2>2, <2>4
<1>2. client' \in [Clients -> Requests']
  <2>1. client \in [Clients -> Requests]
    BY DEF ConsumerInv
  <2> QED BY <2>1, <1>1
<1> QED BY <1>1, <1>2 DEF ConsumerInv

\* An operation that ends carries nothing.
LEMMA Ends ==
    ASSUME ConsumerInv, Advance, StoreInv', NEW c \in Clients, Finish(c)
    PROVE  ConsumerInv'
<1>1. client'[c] = Idle /\ client' = [client EXCEPT ![c] = client'[c]]
  BY DEF Finish, ConsumerInv
<1>2. era' \in Nat /\ head' \in Nat
  BY Constants DEF StoreInv, Shape, TypeOK
<1>3. Idle \in Requests' /\ CarriedInv(Idle)'
  <2>1. Idle \in Requests'
    BY <1>2, Constants DEF Idle, Requests, Missing, Snapshots, NoRow, Rows
  <2>2. CarriedInv(Idle)'
    BY DEF Idle, CarriedInv, Planned, Witnessed, Fresh, Fits
  <2> QED BY <2>1, <2>2
<1>4. CarriedInv(client[c])'
  BY <1>1, <1>3
<1> QED BY <1>1, <1>3, <1>4, OneClient

-----------------------------------------------------------------------------
(* Steps that leave the stored consumer alone.                             *)

LEMMA Quiet ==
    ASSUME StoreInv, head <= head', head' \in 0..MaxEvents, hidden' \subseteq 1..head',
           UNCHANGED <<mode, consumer, due, era, history>>,
           cursors' \subseteq cursors \cup (0..head),
           process' \in {"up", "down", "refused"}
    PROVE  StoreInv' /\ Advance
<1>t. /\ era \in Nat /\ head \in 0..MaxEvents /\ consumer \in Snapshots
      /\ era' \in Nat /\ era <= era' /\ head \in Nat /\ head' \in Nat
  BY Constants DEF StoreInv, TypeOK, Shape
<1>g. Rows \subseteq Rows' /\ Snapshots \subseteq Snapshots'
  BY <1>t, TypesGrow
<1>h. 0..head \subseteq 0..head' /\ 1..head \subseteq 1..head'
  BY <1>t
<1>1. Advance
  BY <1>t, <1>g DEF Advance, Untouched
<1>2. TypeOK'
  BY <1>h, <1>g DEF StoreInv, TypeOK, Valid
<1>3. Shape'
  BY <1>t, <1>g DEF StoreInv, Shape, history
<1>4. Stored'
  BY <1>h DEF StoreInv, Stored
<1>5. Settled' /\ Honoured' /\ Limited' /\ OnlyMovable'
  BY DEF StoreInv, Settled, Honoured, Limited, OnlyMovable, Leased, history
<1> QED BY <1>1, <1>2, <1>3, <1>4, <1>5 DEF StoreInv

LEMMA EmitInv == ConsumerInv /\ Emit => ConsumerInv'
<1> SUFFICES ASSUME ConsumerInv, Emit PROVE ConsumerInv'
  OBVIOUS
<1>1. head \in 0..MaxEvents /\ hidden \subseteq 1..head
      /\ process \in {"up", "down", "refused"} /\ StoreInv
  BY DEF ConsumerInv, StoreInv, TypeOK
<1>2. head <= head' /\ head' \in 0..MaxEvents /\ hidden' \subseteq 1..head'
  BY <1>1, Constants DEF Emit
<1>3. /\ UNCHANGED <<mode, consumer, due, era, history>> /\ client' = client
      /\ cursors' = cursors /\ process' = process
  BY DEF Emit
<1>4. StoreInv' /\ Advance
  BY <1>1, <1>2, <1>3, Quiet
<1> QED BY <1>3, <1>4, NoClient

LEMMA PolicyInv ==
    ASSUME ConsumerInv, NEW e \in Events, ChangePolicy(e)
    PROVE  ConsumerInv'
<1>1. head \in 0..MaxEvents /\ hidden \subseteq 1..head
      /\ process \in {"up", "down", "refused"} /\ StoreInv
  BY DEF ConsumerInv, StoreInv, TypeOK
<1>2. head <= head' /\ head' \in 0..MaxEvents /\ hidden' \subseteq 1..head'
  BY <1>1, EventsAreNumbers, Constants DEF ChangePolicy
<1>3. /\ UNCHANGED <<mode, consumer, due, era, history>> /\ client' = client
      /\ cursors' = cursors /\ process' = process
  BY DEF ChangePolicy
<1>4. StoreInv' /\ Advance
  BY <1>1, <1>2, <1>3, Quiet
<1> QED BY <1>3, <1>4, NoClient

\* A client's step in which only its own operation changes.
LEMMA Private ==
    ASSUME ConsumerInv, NEW c \in Clients,
           UNCHANGED <<stream, consumer, due, era, process, cursors, history>>,
           client' = [client EXCEPT ![c] = client'[c]],
           client'[c] \in Requests, CarriedInv(client'[c])
    PROVE  ConsumerInv'
<1>1. head \in 0..MaxEvents /\ hidden \subseteq 1..head /\ era \in Nat
      /\ process \in {"up", "down", "refused"} /\ StoreInv
  BY DEF ConsumerInv, StoreInv, TypeOK, Shape
<1>2. head <= head' /\ head' \in 0..MaxEvents /\ hidden' \subseteq 1..head'
  BY <1>1, Constants DEF stream
<1>3. UNCHANGED <<mode, consumer, due, era, history>> /\ cursors' = cursors
      /\ process' = process
  BY DEF stream
<1>4. StoreInv' /\ Advance
  BY <1>1, <1>2, <1>3, Quiet
<1>5. PICK r : r = client'[c]
  OBVIOUS
<1>6. r \in Requests' /\ CarriedInv(r)'
  BY <1>1, <1>4, <1>5, CarriedOn
<1>7. client'[c] \in Requests' /\ CarriedInv(client[c])'
  BY <1>5, <1>6
<1> QED BY <1>4, <1>7, OneClient

LEMMA AbandonInv ==
    ASSUME ConsumerInv, NEW c \in Clients, Abandon(c)
    PROVE  ConsumerInv'
<1>1. client'[c] = Idle /\ client' = [client EXCEPT ![c] = client'[c]]
  BY DEF Abandon, Finish, ConsumerInv
<1>2. Idle \in Requests /\ CarriedInv(Idle)
  BY IdleIsRequest, Constants DEF ConsumerInv, StoreInv, Shape, TypeOK
<1>3. UNCHANGED <<stream, consumer, due, era, process, cursors, history>>
  BY DEF Abandon
<1> QED BY <1>1, <1>2, <1>3, Private

LEMMA BeginPullInv ==
    ASSUME ConsumerInv, NEW c \in Clients, BeginPull(c)
    PROVE  ConsumerInv'
<1> DEFINE q == [Idle EXCEPT !.op = "pull", !.step = "inspected", !.after = consumer.cp]
<1>1. /\ client' = [client EXCEPT ![c] = q] /\ client'[c] = q
      /\ UNCHANGED <<stream, consumer, due, era, process, cursors, history>>
  BY DEF BeginPull, Begin, ConsumerInv
<1>2. Idle \in Requests /\ consumer.cp \in Nat
  BY IdleIsRequest, Constants DEF ConsumerInv, StoreInv, Shape, TypeOK
<1>3. /\ q \in Requests
      /\ q.op = "pull" /\ q.step = "inspected" /\ q.after = consumer.cp /\ q.obs = {}
  BY <1>2 DEF Requests, Idle
<1> HIDE DEF q
<1>4. CarriedInv(q)
  BY <1>2, <1>3 DEF CarriedInv, Planned, Witnessed, Fresh, Fits
<1>5. client'[c] \in Requests /\ CarriedInv(client'[c])
  BY <1>1, <1>3, <1>4
<1> QED BY <1>1, <1>5, Private

LEMMA BeginResolveInv ==
    ASSUME ConsumerInv, NEW c \in Clients, NEW op \in {"ack", "nack"}, NEW e \in 1..head,
           NEW token \in {consumer.rows[e], NoRow}, BeginResolve(c, op, e, token)
    PROVE  ConsumerInv'
<1> DEFINE q == [Idle EXCEPT !.op = op, !.step = "inspected", !.event = e,
                             !.token = token, !.after = consumer.cp]
<1>1. /\ client' = [client EXCEPT ![c] = q] /\ client'[c] = q
      /\ UNCHANGED <<stream, consumer, due, era, process, cursors, history>>
  BY DEF BeginResolve, Begin, ConsumerInv
<1>2. Idle \in Requests /\ consumer.cp \in Nat /\ head \in 0..MaxEvents
      /\ consumer \in Snapshots
  BY IdleIsRequest, Constants DEF ConsumerInv, StoreInv, Shape, TypeOK
<1>3. e \in Events /\ e \in 0..MaxEvents
  BY <1>2, Constants DEF Events
<1>4. token \in Rows
  <2>1. consumer.rows[e] \in Rows
    BY <1>2, <1>3, SnapshotParts
  <2> QED BY <2>1, NoRowIsRow
<1>5. /\ q \in Requests
      /\ q.op = op /\ q.step = "inspected" /\ q.after = consumer.cp /\ q.obs = {}
      /\ q.event = e
  BY <1>2, <1>3, <1>4 DEF Requests, Idle
<1> HIDE DEF q
<1>6. CarriedInv(q)
  BY <1>2, <1>3, <1>5 DEF CarriedInv, Planned, Witnessed, Fresh, Fits
<1>7. client'[c] \in Requests /\ CarriedInv(client'[c])
  BY <1>1, <1>5, <1>6
<1> QED BY <1>1, <1>7, Private

LEMMA BeginMoveInv ==
    ASSUME ConsumerInv, NEW c \in Clients, NEW op \in {"seek", "retire"},
           NEW target \in 0..MaxEvents, op = "retire" => target = 0,
           BeginMove(c, op, target)
    PROVE  ConsumerInv'
<1> DEFINE s == [Missing EXCEPT !.rev = consumer.rev]
           q == [Idle EXCEPT !.op = op, !.step = "move", !.event = target, !.snap = s]
<1>1. /\ client' = [client EXCEPT ![c] = q] /\ client'[c] = q
      /\ UNCHANGED <<stream, consumer, due, era, process, cursors, history>>
  BY DEF BeginMove, Begin, ConsumerInv
<1>2. Idle \in Requests /\ consumer.rev \in Nat /\ head \in 0..MaxEvents
      /\ cursors \subseteq 0..head /\ Missing \in Snapshots
  BY IdleIsRequest, MissingIsSnapshot, Constants
     DEF ConsumerInv, StoreInv, Shape, TypeOK
<1>3. s \in Snapshots
  BY <1>2 DEF Snapshots
<1>4. /\ q \in Requests
      /\ q.op = op /\ q.step = "move" /\ q.event = target /\ q.obs = {}
  BY <1>2, <1>3 DEF Requests, Idle
<1>5. target \in 0..head /\ mode \in Movable
  <2>1. mode \in {"exact", "protected"}
    BY ConsumerAssumption DEF ConsumerInv, StoreInv, TypeOK
  <2> QED BY <2>1, <1>2 DEF BeginMove
<1> HIDE DEF q
<1>6. CarriedInv(q)
  BY <1>4, <1>5 DEF CarriedInv, Planned, Witnessed, Fresh, Fits
<1>7. client'[c] \in Requests /\ CarriedInv(client'[c])
  BY <1>1, <1>4, <1>6
<1> QED BY <1>1, <1>7, Private

LEMMA ReadWindowInv ==
    ASSUME ConsumerInv, NEW c \in Clients, ReadWindow(c)
    PROVE  ConsumerInv'
<1>0. PICK r : r = client[c]
  OBVIOUS
<1> DEFINE W == {e \in Events : r.after < e /\ e <= head /\ e <= r.after + MaxSparse + 1}
<1>1. r \in Requests /\ CarriedInv(r) /\ StoreInv /\ r.step = "inspected"
  BY <1>0 DEF ReadWindow, ConsumerInv
<1>t. /\ head \in 0..MaxEvents /\ era \in Nat /\ consumer \in Snapshots
      /\ consumer.cp \in Nat /\ r.after \in Nat /\ due \subseteq Events
      /\ client \in [Clients -> Requests]
  BY <1>1, Constants DEF ConsumerInv, StoreInv, Shape, TypeOK, Requests
<1>v. \A e \in Events : consumer.rows[e] \in Rows /\ consumer.rows[e].attempts \in Nat
  <2>1. \A e \in Events : consumer.rows[e] \in Rows
    BY <1>t, SnapshotParts
  <2> QED BY <2>1, <1>t, RowKinds
<1>w. W \subseteq 1..head
  <2>1. ASSUME NEW e \in W PROVE e \in 1..head
    <3>1. e \in Nat /\ 1 <= e /\ e <= head
      BY EventsAreNumbers
    <3> QED BY <3>1, <1>t, Constants
  <2> QED BY <2>1
<1>d. ASSUME NEW S PROVE /\ DueRows(S) \subseteq Events \X Rows
                         /\ \A o \in DueRows(S) : o[1] \in due /\ o[2] = consumer.rows[o[1]]
  <2>1. ASSUME NEW o \in DueRows(S)
        PROVE  o \in Events \X Rows /\ o[1] \in due /\ o[2] = consumer.rows[o[1]]
    <3>1. PICK e \in due : o = <<e, consumer.rows[e]>>
      BY DEF DueRows
    <3> QED BY <3>1, <1>t, <1>v
  <2> QED BY <2>1
<1>u. UNCHANGED <<stream, consumer, due, era, process, cursors, history>>
  BY DEF ReadWindow
<1>r. ASSUME NEW X \in SUBSET (1..head), NEW O \in SUBSET (Events \X Rows),
             \A o \in O : o[1] \in due /\ o[2] = consumer.rows[o[1]],
             r.after <= consumer.cp => Reaches(X, consumer.cp),
             client' = [client EXCEPT ![c] = [r EXCEPT
                   !.step = "read", !.after = 0, !.window = X, !.obs = O]]
      PROVE  ConsumerInv'
  <2> DEFINE q == [r EXCEPT !.step = "read", !.after = 0, !.window = X, !.obs = O]
  <2>1. client' = [client EXCEPT ![c] = q] /\ client'[c] = q
    BY <1>r, <1>t
  <2>2. /\ q \in Requests
        /\ q.op = r.op /\ q.step = "read" /\ q.obs = O /\ q.event = r.event
        /\ q.window = X /\ q.token = r.token
    BY <1>1 DEF Requests
  <2> HIDE DEF q
  <2>3. Planned(q)
    BY <2>2, <1>1 DEF Planned, CarriedInv
  <2>4. Witnessed(q)
    <3>1. \A o \in O : o[1] \in Events
      OBVIOUS
    <3>2. \A o \in O : consumer.rows[o[1]].attempts \in Nat
      BY <3>1, <1>v
    <3> QED BY <2>2, <1>r, <3>2 DEF Witnessed
  <2>5. Fresh(q)
    BY <2>2, <1>1, <1>r DEF Fresh, CarriedInv, Unmoved
  <2>6. Fits(q)
    BY <2>2 DEF Fits
  <2>7. client'[c] \in Requests /\ CarriedInv(client'[c])
    BY <2>1, <2>2, <2>3, <2>4, <2>5, <2>6 DEF CarriedInv
  <2> QED BY <2>1, <2>7, <1>u, Private
<1>2. ASSUME NEW n \in Nat, r.after <= consumer.cp
      PROVE  Reaches({e \in W : e <= n}, consumer.cp) /\ Reaches(W, consumer.cp)
  <2>1. ASSUME NEW e \in W, NEW d \in Events, consumer.cp < d, d <= e
        PROVE  d \in W /\ (e <= n => d <= n)
    <3>1. e \in Nat /\ d \in Nat
      BY EventsAreNumbers
    <3> QED BY <3>1, <2>1, <1>2, <1>t, Constants
  <2> HIDE DEF W
  <2>2. {e \in W : e <= n} \subseteq W
    OBVIOUS
  <2> QED BY <2>1, <2>2 DEF Reaches
<1>3. CASE r.op = "pull" /\ client' = [client EXCEPT ![c] = [r EXCEPT
              !.step = "read", !.after = 0, !.window = W, !.obs = DueRows(Events)]]
  <2> HIDE DEF W
  <2>1. r.after <= consumer.cp => Reaches(W, consumer.cp)
    BY <1>2
  <2> QED BY <1>3, <1>d, <1>w, <1>r, <2>1
<1>4. CASE client' = [client EXCEPT ![c] = [r EXCEPT
              !.step = "read", !.after = 0, !.obs = DueRows({r.event}),
              !.window = {e \in W : e <= r.event}]]
  <2> DEFINE X == {e \in W : e <= r.event}
             O == DueRows({r.event})
  <2>1. r.event \in Nat
    BY <1>1 DEF Requests
  <2>2. r.after <= consumer.cp => Reaches(X, consumer.cp)
    BY <1>2, <2>1
  <2>3. X \in SUBSET (1..head)
    BY <1>w
  <2>4. O \in SUBSET (Events \X Rows) /\ \A o \in O : o[1] \in due /\ o[2] = consumer.rows[o[1]]
    BY <1>d
  <2>5. client' = [client EXCEPT ![c] = [r EXCEPT
              !.step = "read", !.after = 0, !.obs = O, !.window = X]]
    BY <1>4
  <2> HIDE DEF X, O
  <2>6. [r EXCEPT !.step = "read", !.after = 0, !.obs = O, !.window = X] =
        [r EXCEPT !.step = "read", !.after = 0, !.window = X, !.obs = O]
    BY <1>1 DEF Requests
  <2> QED BY <1>r, <2>2, <2>3, <2>4, <2>5, <2>6
<1>5. CASE Finish(c)
  <2>1. Abandon(c) \/ upsets' # upsets
    BY <1>5, <1>u DEF Abandon
  <2>2. upsets' = upsets
    BY DEF ReadWindow
  <2> QED BY <2>1, <2>2, AbandonInv
<1> QED BY <1>0, <1>3, <1>4, <1>5 DEF ReadWindow

-----------------------------------------------------------------------------
(* Plans.                                                                  *)

LEMMA PlanInv ==
    ASSUME ConsumerInv, NEW c \in Clients, NEW r, r = client[c],
           NEW step \in {"recover", "lease", "settle"},
           NEW S \in SUBSET (1..head), NEW s \in Snapshots, Plan(c, step, S, s),
           \A q \in Requests :
               /\ q.op = r.op /\ q.step = step /\ q.event = r.event /\ q.token = r.token
               /\ q.obs = r.obs /\ q.window = S /\ q.snap = s
               => Planned(q) /\ Fresh(q) /\ Fits(q)
    PROVE  ConsumerInv'
<1>1. r \in Requests /\ CarriedInv(r) /\ client \in [Clients -> Requests]
  BY DEF ConsumerInv
<1>2. client' = [client EXCEPT ![c].step = step, ![c].window = S, ![c].snap = s]
  BY DEF Plan
<1>3. PICK q : q = client'[c]
  OBVIOUS
<1>4. /\ q \in Requests /\ client' = [client EXCEPT ![c] = client'[c]]
      /\ q.op = r.op /\ q.step = step /\ q.event = r.event /\ q.token = r.token
      /\ q.obs = r.obs /\ q.window = S /\ q.snap = s
  BY <1>1, <1>2, <1>3 DEF Requests
<1>5. Planned(q) /\ Fresh(q) /\ Fits(q)
  BY <1>4
<1>6. Witnessed(q)
  BY <1>1, <1>4 DEF CarriedInv, Witnessed
<1>7. client'[c] \in Requests /\ CarriedInv(client'[c])
  BY <1>3, <1>4, <1>5, <1>6 DEF CarriedInv
<1>8. UNCHANGED <<stream, consumer, due, era, process, cursors, history>>
  BY DEF Plan
<1> QED BY <1>4, <1>7, <1>8, Private

\* The rows of a plan.
LEMMA OnlyParts ==
    ASSUME NEW s \in Snapshots, NEW S \in SUBSET Events
    PROVE  /\ Only(s, S) \in Snapshots
           /\ Only(s, S).rev = s.rev /\ Only(s, S).cp = s.cp
           /\ Only(s, S).sparse = s.sparse
           /\ Only(s, S).rows \in [Events -> Rows]
           /\ \A e \in S : Only(s, S).rows[e] = s.rows[e]
<1> DEFINE rows == [e \in Events |-> IF e \in S THEN s.rows[e] ELSE NoRow]
<1>1. rows \in [Events -> Rows] /\ \A e \in S : rows[e] = s.rows[e]
  BY SnapshotParts, NoRowIsRow
<1> HIDE DEF rows
<1>2. Only(s, S) = [rev |-> s.rev, cp |-> s.cp, sparse |-> s.sparse, rows |-> rows]
  BY NewRows DEF Only, rows
<1>3. /\ s.rev \in Nat /\ s.cp \in 0..head /\ s.sparse \in SUBSET (1..head)
  BY SnapshotParts
<1> QED BY <1>1, <1>2, <1>3 DEF Snapshots

LEMMA PrepareLeaseInv ==
    ASSUME ConsumerInv, NEW c \in Clients, PrepareLease(c)
    PROVE  ConsumerInv'
<1>0. PICK r : r = client[c]
  OBVIOUS
<1> DEFINE ended == Expired(consumer, r.obs)
           picked == Leasable(consumer, r.window, r.obs)
<1>1. r \in Requests /\ CarriedInv(r) /\ StoreInv /\ r.step = "read" /\ r.op = "pull"
      /\ mode = "exact"
  BY <1>0 DEF PrepareLease, ConsumerInv
<1>t. /\ head \in 0..MaxEvents /\ era \in Nat /\ consumer \in Snapshots /\ head \in Nat
      /\ r.window \in SUBSET (1..head) /\ 1..head \subseteq Events
  BY <1>1, Constants DEF StoreInv, Shape, TypeOK, Requests, Events
<1>2. CASE CanNormalize(consumer, ended) /\ Plan(c, "recover", ended, consumer)
  <2>1. ended \subseteq Leased(consumer) /\ \A e \in ended : <<e, consumer.rows[e]>> \in r.obs
    BY DEF Expired, IsDue
  <2>2. ended \in SUBSET (1..head)
    BY <2>1, <1>1 DEF Leased, StoreInv, Stored
  <2> HIDE DEF ended
  <2>3. ASSUME NEW q \in Requests, q.op = r.op, q.step = "recover", q.obs = r.obs,
               q.window = ended, q.snap = consumer
        PROVE  Planned(q) /\ Fresh(q) /\ Fits(q)
    BY <2>3, <2>1, <1>1, <1>2 DEF Planned, Fresh, Fits
  <2> QED BY <1>0, <1>2, <1>t, <2>2, <2>3, PlanInv
<1>3. CASE Plan(c, "lease", picked, Only(consumer, picked))
  <2>1. /\ picked \subseteq r.window
        /\ \A e \in picked : /\ consumer.cp < e /\ e \notin consumer.sparse
                             /\ consumer.rows[e].state \in {"none", "retry"}
        /\ Cardinality(Leased(consumer)) <= InFlightLimit =>
              Cardinality(Leased(consumer) \cup picked) <= InFlightLimit
    BY <1>t, LeasableParts
  <2> HIDE DEF picked
  <2>2. picked \in SUBSET (1..head) /\ picked \in SUBSET Events
    BY <2>1, <1>t
  <2> DEFINE s == Only(consumer, picked)
  <2>3. /\ s \in Snapshots /\ s.rev = consumer.rev /\ s.cp = consumer.cp
        /\ s.sparse = consumer.sparse /\ \A e \in picked : s.rows[e] = consumer.rows[e]
    BY <2>2, <1>t, OnlyParts
  <2>4. era = 0 => Cardinality(Leased(consumer) \cup picked) <= InFlightLimit
    BY <2>1, <1>1 DEF StoreInv, Limited
  <2>5. Plan(c, "lease", picked, s)
    BY <1>3
  <2>6. consumer.rev \in Nat
    BY <1>t, SnapshotParts
  <2> HIDE DEF s
  <2>7. ASSUME NEW q \in Requests, q.op = r.op, q.step = "lease", q.window = picked,
               q.snap = s
        PROVE  Planned(q) /\ Fresh(q) /\ Fits(q)
    BY <2>7, <2>1, <2>3, <2>4, <2>6, <1>1 DEF Planned, Fresh, Fits
  <2> QED BY <1>0, <2>2, <2>3, <2>5, <2>7, PlanInv
<1>4. CASE Abandon(c)
  BY <1>4, AbandonInv
<1> QED BY <1>0, <1>2, <1>3, <1>4 DEF PrepareLease

\* What a resolution does to the snapshot it is computed from.
LEMMA ResolutionParts ==
    ASSUME StoreInv, NEW r \in Requests, Planned(r), r.op \in {"ack", "nack"},
           Resolvable(r, consumer)
    PROVE  LET w == Resolution(r, consumer) IN
           /\ w \in Snapshots /\ w.rev = consumer.rev /\ w.rows = consumer.rows
           /\ consumer.cp <= w.cp /\ Valid(w)
           /\ Covered(consumer) \cup {e \in {r.event} : Final(r, consumer)}
                 \subseteq Covered(w)
           /\ Reaches(r.window, consumer.cp) =>
                 Covered(w) = Covered(consumer) \cup {e \in {r.event} : Final(r, consumer)}
           /\ r.event \in Events /\ consumer.rows[r.event].state = "leased"
<1> DEFINE w == Resolution(r, consumer)
           settled == consumer.sparse \cup {e \in {r.event} : Final(r, consumer)}
<1>1. /\ head \in 0..MaxEvents /\ head \in Nat /\ head <= MaxEvents
      /\ consumer \in Snapshots /\ r.window \in SUBSET (1..head)
      /\ consumer.sparse \subseteq 1..head
  BY Constants DEF StoreInv, Shape, TypeOK, Requests
<1>2. r.event \in Events /\ consumer.rows[r.event].state = "leased" /\ Valid(w)
  BY DEF Planned, Resolvable
<1>3. r.event \in 1..head
  BY <1>2 DEF StoreInv, Stored
<1>4. settled \in SUBSET (1..head)
  BY <1>1, <1>3
<1>5. w = Walk(consumer, settled, r.window)
  BY DEF Resolution
<1>6. (1..consumer.cp) \cup settled =
         Covered(consumer) \cup {e \in {r.event} : Final(r, consumer)}
  BY DEF Covered
<1> HIDE DEF w, settled
<1>7. /\ w \in Snapshots /\ w.rev = consumer.rev /\ w.rows = consumer.rows
      /\ consumer.cp <= w.cp
      /\ (1..consumer.cp) \cup settled \subseteq Covered(w)
      /\ Reaches(r.window, consumer.cp) => Covered(w) = (1..consumer.cp) \cup settled
  BY <1>1, <1>4, <1>5, WalkSettles
<1> QED BY <1>2, <1>6, <1>7 DEF w

LEMMA PrepareResolutionInv ==
    ASSUME ConsumerInv, NEW c \in Clients, PrepareResolution(c)
    PROVE  ConsumerInv'
<1>0. PICK r : r = client[c]
  OBVIOUS
<1> DEFINE w == Resolution(r, consumer)
           rows == Only(consumer, {r.event}).rows
           s == [w EXCEPT !.rows = rows]
<1>1. r \in Requests /\ CarriedInv(r) /\ StoreInv /\ r.step = "read" /\ r.op \in {"ack", "nack"}
  BY <1>0 DEF PrepareResolution, ConsumerInv
<1>2. CASE Resolvable(r, consumer) /\ Plan(c, "settle", {}, s)
  <2>1. /\ w \in Snapshots /\ w.rev = consumer.rev
        /\ consumer.cp <= w.cp /\ Valid(w)
        /\ Reaches(r.window, consumer.cp) =>
              Covered(w) = Covered(consumer) \cup {e \in {r.event} : Final(r, consumer)}
        /\ r.event \in Events /\ consumer.rows[r.event].state = "leased"
    BY <1>1, <1>2, ResolutionParts DEF CarriedInv
  <2>2. consumer \in Snapshots /\ consumer.rev \in Nat
    BY <1>1, SnapshotParts DEF StoreInv, Shape
  <2>3. rows \in [Events -> Rows] /\ rows[r.event] = consumer.rows[r.event]
    <3>1. {r.event} \in SUBSET Events /\ r.event \in {r.event}
      BY <2>1
    <3> QED BY <3>1, <2>2, OnlyParts
  <2> HIDE DEF w, rows
  <2>4. s = [rev |-> w.rev, cp |-> w.cp, sparse |-> w.sparse, rows |-> rows]
    BY <2>1, NewRows
  <2>5. Plan(c, "settle", {}, s)
    BY <1>2
  <2>6. /\ w.rev \in Nat /\ w.cp \in 0..head /\ w.sparse \in SUBSET (1..head)
    BY <2>1, SnapshotParts
  <2> HIDE DEF s
  <2>7. /\ s.rev = consumer.rev /\ s.cp = w.cp /\ s.sparse = w.sparse
        /\ s.rows[r.event] = consumer.rows[r.event] /\ s \in Snapshots
    BY <2>1, <2>3, <2>4, <2>6 DEF Snapshots
  <2>8. Valid(s)
    BY <2>7, <2>1 DEF Valid
  <2>9. ASSUME NEW q \in Requests, q.op = r.op, q.step = "settle", q.event = r.event,
               q.token = r.token, q.snap = s
        PROVE  Planned(q) /\ Fresh(q) /\ Fits(q)
    <3>1. Planned(q)
      BY <2>9, <2>8, <2>7, <2>1, <1>1 DEF Planned
    <3>2. Fits(q)
      BY <2>9 DEF Fits
    <3>3. ASSUME Unmoved(q) PROVE Extends(s, q)
      <4>1. Unmoved(r)
        BY <3>3, <2>9 DEF Unmoved
      <4>2. Reaches(r.window, consumer.cp)
        BY <4>1, <1>1 DEF CarriedInv, Fresh
      <4>3. Final(q, s) <=> Final(r, consumer)
        BY <2>7, <2>9 DEF Final
      <4>4. Covered(w) = Covered(consumer) \cup {e \in {r.event} : Final(r, consumer)}
        BY <4>2, <2>1
      <4>5. (1..s.cp) \cup s.sparse =
               (1..consumer.cp) \cup consumer.sparse \cup {e \in {q.event} : Final(q, s)}
        BY <4>3, <4>4, <2>7, <2>9 DEF Covered
      <4> QED BY <4>5, <2>1, <2>7, <2>9 DEF Extends
    <3>4. Fresh(q)
      BY <3>3, <2>9, <2>7, <2>2 DEF Fresh
    <3> QED BY <3>1, <3>2, <3>4
  <2>10. {} \in SUBSET (1..head)
    OBVIOUS
  <2> QED BY <1>0, <2>5, <2>7, <2>9, <2>10, PlanInv
<1>3. CASE Abandon(c)
  BY <1>3, AbandonInv
<1> QED BY <1>0, <1>2, <1>3 DEF PrepareResolution

-----------------------------------------------------------------------------
(* Transactions on the stored consumer.                                    *)

\* Facts about the stored consumer that every transaction starts from.
LEMMA StoreTypes ==
    ASSUME StoreInv
    PROVE  /\ head \in 0..MaxEvents /\ head \in Nat /\ era \in Nat
           /\ consumer \in Snapshots /\ consumer.rev \in Nat /\ consumer.cp \in Nat
           /\ consumer.sparse \in SUBSET (1..head)
           /\ consumer.rows \in [Events -> Rows]
           /\ 1..head \subseteq Events
           /\ \A e \in Events : /\ consumer.rows[e] \in Rows
                                /\ consumer.rows[e].attempts \in Nat
           /\ \A l \in outstanding : l[1] \in Events /\ l[2] \in Rows
<1>1. /\ head \in 0..MaxEvents /\ head \in Nat /\ era \in Nat /\ consumer \in Snapshots
      /\ 1..head \subseteq Events /\ consumer.cp \in Nat
  BY Constants DEF StoreInv, TypeOK, Shape, Events
<1>2. \A e \in Events : consumer.rows[e] \in Rows
  BY <1>1, SnapshotParts
<1>3. \A e \in Events : consumer.rows[e].attempts \in Nat
  BY <1>1, <1>2, RowKinds
<1>4. \A l \in outstanding : l[1] \in Events /\ l[2] \in Rows
  BY DEF StoreInv, Shape
<1> QED BY <1>1, <1>2, <1>3, <1>4, SnapshotParts

\* What a transaction has to show of the snapshot it writes.
LEMMA WriteInv ==
    ASSUME StoreInv, UNCHANGED <<stream, era>>, process' \in {"up", "down", "refused"},
           cursors' \subseteq 0..head,
           consumer' \in Snapshots, Valid(consumer'), 0 < consumer'.rev,
           \A e \in Events : consumer'.rows[e].state # "none" =>
               e \in 1..head /\ consumer'.rows[e].era = era,
           due' \subseteq {e \in Events : consumer'.rows[e].state \in {"leased", "retry"}},
           mode = "exact" \/ era = 0 => Covered(consumer') = earned',
           outstanding' \subseteq Events \X Rows,
           \A l \in outstanding' : /\ l[2].state = "leased" /\ l[1] \notin due'
                                   /\ consumer'.rows[l[1]] = l[2],
           mode = "protected" \/ era = 0 =>
               Cardinality(Leased(consumer')) <= InFlightLimit
    PROVE  StoreInv'
<1>1. head' = head /\ mode' = mode /\ hidden' = hidden /\ era' = era
  BY DEF stream
<1>2. Rows' = Rows /\ Snapshots' = Snapshots
  BY <1>1 DEF Rows, Snapshots
<1>3. /\ consumer'.rev \in Nat /\ consumer'.cp \in 0..head
      /\ consumer'.sparse \subseteq 1..head /\ \A e \in Events : consumer'.rows[e] \in Rows
  BY SnapshotParts
<1>4. TypeOK'
  BY <1>1, <1>2, <1>3 DEF StoreInv, TypeOK, Valid
<1>5. Shape'
  BY <1>1, <1>2 DEF StoreInv, Shape
<1>6. Stored'
  BY <1>1, <1>3 DEF Stored
<1>7. Settled'
  BY <1>1 DEF Settled, Covered
<1>8. Honoured'
  BY DEF Honoured
<1>9. Limited' /\ OnlyMovable'
  BY <1>1 DEF Limited, OnlyMovable, Leased, StoreInv
<1> QED BY <1>4, <1>5, <1>6, <1>7, <1>8, <1>9 DEF StoreInv

LEMMA NormalizeStep ==
    ASSUME StoreInv, UNCHANGED <<stream, era, cursors>>,
           process' \in {"up", "down", "refused"},
           NEW S \in SUBSET Leased(consumer), CanNormalize(consumer, S),
           consumer' = Normalized(consumer, S),
           due' = (due \ S) \cup (S \ Spent(consumer, S)),
           earned' = earned \cup Spent(consumer, S),
           outstanding' \subseteq outstanding,
           \A l \in outstanding' : l[1] \notin S
    PROVE  StoreInv' /\ Advance
<1>t. /\ head \in 0..MaxEvents /\ head \in Nat /\ era \in Nat
      /\ consumer \in Snapshots /\ consumer.rev \in Nat /\ consumer.cp \in Nat
      /\ \A e \in Events : /\ consumer.rows[e] \in Rows
                           /\ consumer.rows[e].attempts \in Nat
      /\ \A l \in outstanding : l[1] \in Events /\ l[2] \in Rows
  BY StoreTypes
<1>s. \A e \in S : e \in Events /\ consumer.rows[e].state = "leased"
  BY DEF Leased
<1>h. S \subseteq 1..head
  BY <1>s DEF StoreInv, Stored
<1>n. /\ consumer' \in Snapshots /\ consumer'.rev = consumer.rev + 1
      /\ consumer'.cp = consumer.cp
      /\ Covered(consumer') = Covered(consumer) \cup Spent(consumer, S)
      /\ \A e \in Events :
            consumer'.rows[e] = IF e \in S THEN Failed(consumer.rows[e]) ELSE consumer.rows[e]
  BY <1>t, <1>h, NormalizedParts
<1>f. \A e \in S : /\ Failed(consumer.rows[e]).state =
                        IF e \in Spent(consumer, S) THEN "dead" ELSE "retry"
                   /\ Failed(consumer.rows[e]).attempts = consumer.rows[e].attempts
                   /\ Failed(consumer.rows[e]).era = consumer.rows[e].era
  BY <1>s, <1>t, FailedRow DEF Spent
<1>1. Valid(consumer')
  BY DEF CanNormalize
<1>2. \A e \in Events : consumer'.rows[e].state # "none" =>
         e \in 1..head /\ consumer'.rows[e].era = era
  <2>1. \A e \in Events : consumer.rows[e].state # "none" =>
           e \in 1..head /\ consumer.rows[e].era = era
    BY DEF StoreInv, Stored
  <2>2. ASSUME NEW e \in Events, e \in S PROVE e \in 1..head /\ consumer'.rows[e].era = era
    BY <2>1, <2>2, <1>n, <1>s, <1>f
  <2> QED BY <2>1, <2>2, <1>n
<1>3. due' \subseteq {e \in Events : consumer'.rows[e].state \in {"leased", "retry"}}
  <2>1. due \subseteq {e \in Events : consumer.rows[e].state \in {"leased", "retry"}}
    BY DEF StoreInv, TypeOK
  <2> QED BY <2>1, <1>n, <1>s, <1>f
<1>4. mode = "exact" \/ era = 0 => Covered(consumer') = earned'
  BY <1>n DEF StoreInv, Settled, Covered
<1>5. /\ outstanding' \subseteq Events \X Rows
      /\ \A l \in outstanding' : /\ l[2].state = "leased" /\ l[1] \notin due'
                                 /\ consumer'.rows[l[1]] = l[2]
  <2>1. /\ outstanding \subseteq Events \X Rows
        /\ \A l \in outstanding : /\ l[2].state = "leased" /\ l[1] \notin due
                                  /\ consumer.rows[l[1]] = l[2]
    BY DEF StoreInv, Honoured, Shape
  <2>2. ASSUME NEW l \in outstanding'
        PROVE  /\ l[2].state = "leased" /\ l[1] \notin due' /\ consumer'.rows[l[1]] = l[2]
    <3>1. l[1] \in Events /\ l[1] \notin S /\ l \in outstanding
      BY <1>t
    <3> QED BY <3>1, <2>1, <1>n
  <2> QED BY <2>1, <2>2
<1>6. mode = "protected" \/ era = 0 => Cardinality(Leased(consumer')) <= InFlightLimit
  <2>1. Leased(consumer') \subseteq Leased(consumer)
    BY <1>n, <1>f DEF Leased
  <2>2. Leased(consumer) \in SUBSET (0..MaxEvents)
    BY EventsAreNumbers DEF Leased
  <2>3. Cardinality(Leased(consumer')) <= Cardinality(Leased(consumer))
    BY <2>1, <2>2, SubsetIsSmall, Constants
  <2>4. Cardinality(Leased(consumer)) \in Nat /\ Cardinality(Leased(consumer')) \in Nat
    BY <2>1, <2>2, FiniteBelow, Constants
  <2> QED BY <2>3, <2>4, Constants DEF StoreInv, Limited
<1>7. StoreInv'
  <2>1. cursors' \subseteq 0..head /\ 0 < consumer'.rev
    BY <1>n, <1>t DEF StoreInv, TypeOK
  <2> QED BY <2>1, <1>n, <1>1, <1>2, <1>3, <1>4, <1>5, <1>6, WriteInv
<1>8. Written
  <2>1. ASSUME NEW e \in Events
        PROVE  /\ consumer'.rows[e] = consumer.rows[e] /\ e \in due
                     /\ consumer.rows[e].state = "leased" => e \in due'
               /\ consumer'.rows[e].state = "leased" => consumer'.rows[e] = consumer.rows[e]
               /\ consumer'.rows[e].attempts = consumer.rows[e].attempts
    BY <1>n, <1>f
  <2>2. /\ consumer.rev < consumer'.rev /\ consumer.cp <= consumer'.cp
        /\ Covered(consumer) \subseteq Covered(consumer')
    BY <1>n, <1>t
  <2>3. \A e \in Events : consumer.rows[e].attempts <= consumer'.rows[e].attempts
    BY <2>1, <1>t
  <2> QED BY <2>1, <2>2, <2>3 DEF Written
<1>9. Advance
  <2>1. head' = head /\ mode' = mode /\ Snapshots' = Snapshots
    BY DEF stream, Snapshots, Rows
  <2> QED BY <2>1, <1>8, <1>n, <1>t DEF Advance
<1> QED BY <1>7, <1>9

LEMMA LeaseStep ==
    ASSUME StoreInv, UNCHANGED <<stream, era, process>>, cursors' \subseteq 0..head,
           NEW s \in Snapshots, s.rev = consumer.rev, s.rows = consumer.rows,
           consumer.cp <= s.cp, Covered(consumer) \subseteq Covered(s), Valid(s),
           NEW S \in SUBSET (1..head), NEW D \in SUBSET Covered(s), S \cap D = {},
           \A e \in S : /\ e \notin Covered(consumer)
                        /\ consumer.rows[e].state \in {"none", "retry"},
           mode = "exact" \/ era = 0 => Covered(s) = earned',
           mode = "protected" \/ era = 0 =>
               Cardinality(Leased(consumer) \cup S) <= InFlightLimit,
           WriteLeases(s, S, D)
    PROVE  StoreInv' /\ Advance
<1>t. /\ head \in 0..MaxEvents /\ head \in Nat /\ era \in Nat
      /\ consumer \in Snapshots /\ consumer.rev \in Nat /\ consumer.cp \in Nat
      /\ 1..head \subseteq Events
      /\ \A e \in Events : /\ consumer.rows[e] \in Rows
                           /\ consumer.rows[e].attempts \in Nat
      /\ \A l \in outstanding : l[1] \in Events /\ l[2] \in Rows
  BY StoreTypes
<1>s. s.rev \in Nat /\ s.cp \in 0..head /\ s.sparse \in SUBSET (1..head)
  BY SnapshotParts
<1> DEFINE rows == [e \in Events |-> IF e \in S THEN NewLease(s, e)
                                     ELSE IF e \in D THEN NoRow ELSE s.rows[e]]
           t == [s EXCEPT !.rev = s.rev + 1, !.rows = rows]
<1>l. \A e \in S : /\ e \in Events /\ NewLease(s, e) \in Rows
                   /\ NewLease(s, e).state = "leased" /\ NewLease(s, e).era = era
                   /\ consumer.rows[e].attempts < NewLease(s, e).attempts
                   /\ NewLease(s, e) # consumer.rows[e]
  <2> SUFFICES ASSUME NEW e \in S
               PROVE  /\ e \in Events /\ NewLease(s, e) \in Rows
                      /\ NewLease(s, e).state = "leased" /\ NewLease(s, e).era = era
                      /\ consumer.rows[e].attempts < NewLease(s, e).attempts
                      /\ NewLease(s, e) # consumer.rows[e]
    OBVIOUS
  <2>1. e \in Events /\ s.rows[e] = consumer.rows[e] /\ consumer.rows[e] \in Rows
    BY <1>t
  <2>2. consumer.rows[e].state \in {"none", "retry"}
    OBVIOUS
  <2> QED BY <2>1, <2>2, <1>t, LeasedRow
<1>r. /\ rows \in [Events -> Rows]
      /\ \A e \in Events : rows[e] = IF e \in S THEN NewLease(s, e)
                                     ELSE IF e \in D THEN NoRow ELSE consumer.rows[e]
  BY <1>l, <1>t, NoRowIsRow
<1>w. /\ consumer' = t /\ due' = {e \in due : t.rows[e] = consumer.rows[e]}
      /\ outstanding' = {l \in outstanding : l[1] \notin D}
                        \cup {<<e, NewLease(s, e)>> : e \in S}
  BY DEF WriteLeases, Write
<1> HIDE DEF rows
<1>e. /\ t \in Snapshots /\ t.rev = s.rev + 1 /\ t.cp = s.cp
      /\ t.sparse = s.sparse /\ t.rows = rows
  BY <1>r, Rewritten
<1> HIDE DEF t
<1>n. /\ consumer' \in Snapshots /\ consumer'.rev = consumer.rev + 1
      /\ consumer'.cp = s.cp /\ consumer'.sparse = s.sparse
      /\ consumer'.rows = rows
      /\ Covered(consumer') = Covered(s)
  BY <1>w, <1>e DEF Covered
<1>d. due' = {e \in due : rows[e] = consumer.rows[e]}
  BY <1>w, <1>e
<1>1. Valid(consumer')
  BY <1>n DEF Valid
<1>2. \A e \in Events : consumer'.rows[e].state # "none" =>
         e \in 1..head /\ consumer'.rows[e].era = era
  <2>1. \A e \in Events : consumer.rows[e].state # "none" =>
           e \in 1..head /\ consumer.rows[e].era = era
    BY DEF StoreInv, Stored
  <2> QED BY <2>1, <1>n, <1>r, <1>l, NoRowIsRow, ZenonT(40)
<1>3. due' \subseteq {e \in Events : consumer'.rows[e].state \in {"leased", "retry"}}
  <2>1. due \subseteq {e \in Events : consumer.rows[e].state \in {"leased", "retry"}}
    BY DEF StoreInv, TypeOK
  <2> QED BY <2>1, <1>n, <1>d
<1>4. mode = "exact" \/ era = 0 => Covered(consumer') = earned'
  BY <1>n
<1>5. ASSUME NEW l \in outstanding'
      PROVE  /\ l \in Events \X Rows
             /\ l[2].state = "leased" /\ l[1] \notin due' /\ consumer'.rows[l[1]] = l[2]
  <2>1. CASE l \in outstanding /\ l[1] \notin D
    <3>1. /\ l \in Events \X Rows /\ l[2].state = "leased" /\ l[1] \notin due
          /\ consumer.rows[l[1]] = l[2]
      BY <2>1 DEF StoreInv, Honoured, Shape
    <3>2. l[1] \notin S /\ l[1] \in Events
      BY <3>1
    <3> QED BY <3>1, <3>2, <2>1, <1>n, <1>r, <1>d
  <2>2. CASE l \in {<<e, NewLease(s, e)>> : e \in S}
    <3>1. PICK e \in S : l = <<e, NewLease(s, e)>>
      BY <2>2
    <3>2. l[1] = e /\ l[2] = NewLease(s, e)
      BY <3>1
    <3>3. rows[e] = NewLease(s, e)
      BY <1>l, <1>r
    <3> QED BY <3>1, <3>2, <3>3, <1>l, <1>n, <1>d
  <2> QED BY <2>1, <2>2, <1>w
<1>6. mode = "protected" \/ era = 0 => Cardinality(Leased(consumer')) <= InFlightLimit
  <2>1. Leased(consumer') \subseteq Leased(consumer) \cup S
    BY <1>n, <1>r, NoRowIsRow DEF Leased
  <2>2. Leased(consumer) \cup S \in SUBSET (0..MaxEvents)
    BY EventsAreNumbers, <1>t DEF Leased
  <2>3. Cardinality(Leased(consumer')) <= Cardinality(Leased(consumer) \cup S)
    BY <2>1, <2>2, SubsetIsSmall, Constants
  <2>4. /\ Cardinality(Leased(consumer) \cup S) \in Nat
        /\ Cardinality(Leased(consumer')) \in Nat
    BY <2>1, <2>2, FiniteBelow, Constants
  <2> QED BY <2>3, <2>4, Constants
<1>7. StoreInv'
  <2>1. process' \in {"up", "down", "refused"} /\ 0 < consumer'.rev
    BY <1>n, <1>t DEF StoreInv, TypeOK
  <2>2. outstanding' \subseteq Events \X Rows
    BY <1>5
  <2> QED BY <2>1, <2>2, <1>n, <1>1, <1>2, <1>3, <1>4, <1>5, <1>6, WriteInv
<1>8. Written
  <2>1. /\ consumer.rev < consumer'.rev /\ consumer.cp <= consumer'.cp
        /\ Covered(consumer) \subseteq Covered(consumer')
    BY <1>n, <1>t
  <2>2. ASSUME NEW e \in Events
        PROVE  /\ consumer'.rows[e] = consumer.rows[e] /\ e \in due
                     /\ consumer.rows[e].state = "leased" => e \in due'
               /\ consumer'.rows[e] # consumer.rows[e] /\ consumer'.rows[e].state = "leased"
                     => /\ e \notin Covered(consumer)
                        /\ consumer.rows[e].attempts < consumer'.rows[e].attempts
                        /\ consumer'.rows[e].era = era
               /\ e \in Covered(consumer')
                     \/ consumer.rows[e].attempts <= consumer'.rows[e].attempts
    <3>1. CASE e \in S
      <4>1. consumer'.rows[e] = NewLease(s, e) /\ e \notin Covered(consumer)
        BY <3>1, <1>n, <1>r
      <4>2. NewLease(s, e).attempts \in Nat
        BY <3>1, <1>l, <1>t, RowKinds
      <4> QED BY <3>1, <4>1, <4>2, <1>l, <1>t
    <3>2. CASE e \notin S /\ e \in D
      BY <3>2, <1>n, <1>r, <1>d, NoRowIsRow
    <3>3. CASE e \notin S /\ e \notin D
      BY <3>3, <1>n, <1>r, <1>d, <1>t
    <3> QED BY <3>1, <3>2, <3>3
  <2>3. era' = era
    OBVIOUS
  <2> QED BY <2>1, <2>2, <2>3 DEF Written
<1>9. Advance
  <2>1. head' = head /\ mode' = mode /\ Snapshots' = Snapshots
    BY DEF stream, Snapshots, Rows
  <2> QED BY <2>1, <1>8, <1>n, <1>t DEF Advance
<1> QED BY <1>7, <1>9

LEMMA SettleStep ==
    ASSUME StoreInv, UNCHANGED <<stream, era, process, cursors>>,
           NEW e \in Events, consumer.rows[e].state = "leased",
           NEW s \in Snapshots, s.rev = consumer.rev,
           consumer.cp <= s.cp, Covered(consumer) \subseteq Covered(s), Valid(s),
           NEW after, (after = NoRow /\ e \in Covered(s)) \/ after = Failed(consumer.rows[e]),
           mode = "exact" \/ era = 0 => Covered(s) = earned',
           Write([s EXCEPT !.rev = @ + 1, !.rows = [consumer.rows EXCEPT ![e] = after]]),
           outstanding' = outstanding \ {<<e, consumer.rows[e]>>}
    PROVE  StoreInv' /\ Advance
<1>t. /\ head \in 0..MaxEvents /\ head \in Nat /\ era \in Nat
      /\ consumer \in Snapshots /\ consumer.rev \in Nat /\ consumer.cp \in Nat
      /\ consumer.rows \in [Events -> Rows]
      /\ \A d \in Events : /\ consumer.rows[d] \in Rows
                           /\ consumer.rows[d].attempts \in Nat
      /\ \A l \in outstanding : l[1] \in Events /\ l[2] \in Rows
  BY StoreTypes
<1>s. s.rev \in Nat /\ s.cp \in 0..head /\ s.sparse \in SUBSET (1..head)
  BY SnapshotParts
<1>a. /\ after \in Rows /\ after.state # "leased"
      /\ after.state = "none" \/ after.era = consumer.rows[e].era
      /\ e \in Covered(s) \/ consumer.rows[e].attempts <= after.attempts
  BY <1>t, FailedRow, NoRowIsRow
<1> DEFINE rows == [consumer.rows EXCEPT ![e] = after]
           t == [s EXCEPT !.rev = s.rev + 1, !.rows = rows]
<1>r. /\ rows \in [Events -> Rows]
      /\ \A d \in Events : rows[d] = IF d = e THEN after ELSE consumer.rows[d]
  BY <1>a, <1>t
<1>w. consumer' = t /\ due' = {d \in due : t.rows[d] = consumer.rows[d]}
  BY DEF Write
<1> HIDE DEF rows
<1>e. /\ t \in Snapshots /\ t.rev = s.rev + 1 /\ t.cp = s.cp
      /\ t.sparse = s.sparse /\ t.rows = rows
  BY <1>r, Rewritten
<1> HIDE DEF t
<1>n. /\ consumer' \in Snapshots /\ consumer'.rev = consumer.rev + 1
      /\ consumer'.cp = s.cp /\ consumer'.sparse = s.sparse
      /\ consumer'.rows = rows
      /\ Covered(consumer') = Covered(s)
  BY <1>w, <1>e DEF Covered
<1>d. due' = {d \in due : rows[d] = consumer.rows[d]}
  BY <1>w, <1>e
<1>1. Valid(consumer')
  BY <1>n DEF Valid
<1>2. \A d \in Events : consumer'.rows[d].state # "none" =>
         d \in 1..head /\ consumer'.rows[d].era = era
  <2>1. \A d \in Events : consumer.rows[d].state # "none" =>
           d \in 1..head /\ consumer.rows[d].era = era
    BY DEF StoreInv, Stored
  <2> QED BY <2>1, <1>n, <1>r, <1>a
<1>3. due' \subseteq {d \in Events : consumer'.rows[d].state \in {"leased", "retry"}}
  <2>1. due \subseteq {d \in Events : consumer.rows[d].state \in {"leased", "retry"}}
    BY DEF StoreInv, TypeOK
  <2> QED BY <2>1, <1>n, <1>d
<1>4. mode = "exact" \/ era = 0 => Covered(consumer') = earned'
  BY <1>n
<1>5. ASSUME NEW l \in outstanding'
      PROVE  /\ l \in Events \X Rows
             /\ l[2].state = "leased" /\ l[1] \notin due' /\ consumer'.rows[l[1]] = l[2]
  <2>1. /\ l \in outstanding /\ l \in Events \X Rows /\ l[2].state = "leased"
        /\ l[1] \notin due /\ consumer.rows[l[1]] = l[2]
    BY DEF StoreInv, Honoured, Shape
  <2>2. l[1] # e
    <3>1. ASSUME l[1] = e PROVE FALSE
      <4>1. l = <<l[1], l[2]>>
        BY <2>1
      <4>2. l = <<e, consumer.rows[e]>>
        BY <4>1, <3>1, <2>1
      <4> QED BY <4>2
    <3> QED BY <3>1
  <2>3. l[1] \in Events
    BY <2>1
  <2> QED BY <2>1, <2>2, <2>3, <1>n, <1>r, <1>d
<1>6. mode = "protected" \/ era = 0 => Cardinality(Leased(consumer')) <= InFlightLimit
  <2>1. Leased(consumer') \subseteq Leased(consumer)
    BY <1>n, <1>r, <1>a DEF Leased
  <2>2. Leased(consumer) \in SUBSET (0..MaxEvents)
    BY EventsAreNumbers DEF Leased
  <2>3. Cardinality(Leased(consumer')) <= Cardinality(Leased(consumer))
    BY <2>1, <2>2, SubsetIsSmall, Constants
  <2>4. Cardinality(Leased(consumer)) \in Nat /\ Cardinality(Leased(consumer')) \in Nat
    BY <2>1, <2>2, FiniteBelow, Constants
  <2> QED BY <2>3, <2>4, Constants DEF StoreInv, Limited
<1>7. StoreInv'
  <2>1. /\ process' \in {"up", "down", "refused"} /\ 0 < consumer'.rev
        /\ cursors' \subseteq 0..head
    BY <1>n, <1>t DEF StoreInv, TypeOK
  <2>2. outstanding' \subseteq Events \X Rows
    BY <1>5
  <2> QED BY <2>1, <2>2, <1>n, <1>1, <1>2, <1>3, <1>4, <1>5, <1>6, WriteInv
<1>8. Written
  <2>1. /\ consumer.rev < consumer'.rev /\ consumer.cp <= consumer'.cp
        /\ Covered(consumer) \subseteq Covered(consumer')
    BY <1>n, <1>t
  <2>2. ASSUME NEW d \in Events
        PROVE  /\ consumer'.rows[d] = consumer.rows[d] /\ d \in due
                     /\ consumer.rows[d].state = "leased" => d \in due'
               /\ consumer'.rows[d].state = "leased" => consumer'.rows[d] = consumer.rows[d]
               /\ d \in Covered(consumer')
                     \/ consumer.rows[d].attempts <= consumer'.rows[d].attempts
    BY <1>n, <1>r, <1>d, <1>a, <1>t
  <2>3. era' = era
    OBVIOUS
  <2> QED BY <2>1, <2>2, <2>3 DEF Written
<1>9. Advance
  <2>1. head' = head /\ mode' = mode /\ Snapshots' = Snapshots
    BY DEF stream, Snapshots, Rows
  <2> QED BY <2>1, <1>8, <1>n, <1>t DEF Advance
<1> QED BY <1>7, <1>9

\* An instant that passes ends the lease that was handed out, if it was one.
LEMMA InstantInv ==
    ASSUME ConsumerInv, NEW e \in Events, InstantPasses(e)
    PROVE  ConsumerInv'
<1>1. StoreInv /\ era \in Nat /\ head \in 0..MaxEvents
  BY DEF ConsumerInv, StoreInv, Shape, TypeOK
<1>2. /\ UNCHANGED <<stream, consumer, era, process, client, cursors, earned>>
      /\ due' = due \cup {e} /\ consumer.rows[e].state \in {"leased", "retry"}
      /\ outstanding' = {l \in outstanding : l # <<e, consumer.rows[e]>>}
  BY DEF InstantPasses
<1>3. head' = head /\ mode' = mode /\ hidden' = hidden
  BY <1>2 DEF stream
<1>4. Rows' = Rows /\ Snapshots' = Snapshots
  BY <1>2, <1>3 DEF Rows, Snapshots
<1>5. TypeOK' /\ Shape' /\ Stored'
  BY <1>1, <1>2, <1>3, <1>4 DEF StoreInv, TypeOK, Shape, Stored, Valid
<1>6. Settled' /\ Limited' /\ OnlyMovable'
  BY <1>1, <1>2, <1>3 DEF StoreInv, Settled, Limited, OnlyMovable, Leased
<1>7. Honoured'
  <2> SUFFICES ASSUME NEW l \in outstanding'
               PROVE  /\ l[2].state = "leased" /\ l[1] \notin due'
                      /\ consumer'.rows[l[1]] = l[2]
    BY DEF Honoured
  <2>1. /\ l[2].state = "leased" /\ l[1] \notin due /\ consumer.rows[l[1]] = l[2]
        /\ l # <<e, consumer.rows[e]>> /\ l \in Events \X Rows
    BY <1>1, <1>2 DEF StoreInv, Honoured, Shape
  <2>2. l[1] # e
    <3>1. l = <<l[1], l[2]>>
      BY <2>1
    <3> QED BY <3>1, <2>1
  <2> QED BY <2>1, <2>2, <1>2
<1>8. StoreInv'
  BY <1>5, <1>6, <1>7 DEF StoreInv
<1>9. Advance
  BY <1>1, <1>2, <1>3, <1>4, Constants DEF Advance, Untouched, StoreInv, Shape
<1> QED BY <1>2, <1>8, <1>9, NoClient

\* A move finds no lease, leaves no row, and starts the count anew.
LEMMA MoveStep ==
    ASSUME StoreInv, UNCHANGED <<stream, process, cursors>>,
           NEW r, r.event \in 0..head, mode \in Movable,
           MoveAllowed(r), era' = era + 1,
           IF r.op = "seek" THEN Seek(r) ELSE Retire
    PROVE  StoreInv' /\ Advance
<1>t. /\ head \in 0..MaxEvents /\ head \in Nat /\ era \in Nat
      /\ consumer \in Snapshots /\ consumer.rev \in Nat
  BY StoreTypes
<1>m. /\ Missing \in Snapshots /\ Missing.rev = 0 /\ Missing.cp = 0
      /\ Missing.sparse = {} /\ \A e \in Events : Missing.rows[e] = NoRow
      /\ Missing.rows \in [Events -> Rows]
  BY <1>t, MissingIsSnapshot, SnapshotParts
<1>u. head' = head /\ mode' = mode /\ hidden' = hidden /\ process' = process
      /\ cursors' = cursors /\ era' \in Nat
  BY <1>t DEF stream
<1>g. Rows \subseteq Rows' /\ Snapshots \subseteq Snapshots'
  BY <1>t, <1>u, TypesGrow
<1> DEFINE sought == [Missing EXCEPT !.rev = consumer.rev + 1, !.cp = r.event]
<1>s. /\ sought \in Snapshots /\ sought.rev = consumer.rev + 1 /\ sought.cp = r.event
      /\ sought.sparse = {} /\ sought.rows = Missing.rows
  <2>1. consumer.rev + 1 \in Nat
    BY <1>t
  <2> DEFINE rev == consumer.rev + 1
             cp == r.event
             t == [Missing EXCEPT !.rev = rev, !.cp = cp]
  <2>2. sought = t /\ rev \in Nat /\ cp \in 0..head
    BY <2>1
  <2> HIDE DEF rev, cp, sought
  <2>3. /\ t \in Snapshots /\ t.rev = rev /\ t.cp = cp
        /\ t.sparse = Missing.sparse /\ t.rows = Missing.rows
    BY <2>2, <1>m DEF Snapshots
  <2> HIDE DEF t
  <2> QED BY <2>2, <2>3, <1>m DEF rev, cp
<1>1. /\ consumer' \in Snapshots
      /\ consumer'.rows = Missing.rows /\ consumer'.sparse = {}
      /\ consumer'.rev = 0 => consumer' = Missing
      /\ (1..consumer'.cp) = earned'
      /\ due' = {e \in due : consumer'.rows[e] = consumer.rows[e]}
      /\ outstanding' = outstanding
  <2>1. CASE r.op = "seek"
    <3>1. /\ consumer' = sought /\ due' = {e \in due : sought.rows[e] = consumer.rows[e]}
          /\ earned' = 1..r.event /\ outstanding' = outstanding
      BY <2>1 DEF Seek, Write
    <3> HIDE DEF sought
    <3> QED BY <3>1, <1>s, <1>t
  <2>2. CASE r.op # "seek"
    <3>1. consumer' = Missing /\ earned' = {} /\ outstanding' = outstanding
          /\ due' = {e \in due : Missing.rows[e] = consumer.rows[e]}
      BY <2>2 DEF Retire, Write
    <3> QED BY <3>1, <1>m
  <2> QED BY <2>1, <2>2
<1>2. \A e \in Events : consumer'.rows[e] = NoRow
  BY <1>1, <1>m
<1>3. outstanding = {}
  <2>1. ASSUME NEW l \in outstanding PROVE FALSE
    <3>1. l[1] \in Events /\ consumer.rows[l[1]].state = "leased"
      BY DEF StoreInv, Honoured, Shape
    <3> QED BY <3>1 DEF MoveAllowed, Leased
  <2> QED BY <2>1
<1>4. due' = {}
  <2>1. \A e \in due : e \in Events /\ consumer.rows[e].state # "none"
    BY DEF StoreInv, TypeOK
  <2> QED BY <2>1, <1>1, <1>2, NoRowIsRow
<1>5. TypeOK'
  <2>1. /\ consumer'.rev \in Nat /\ consumer'.cp \in 0..head
        /\ \A e \in Events : consumer'.rows[e] \in Rows
    BY <1>1, SnapshotParts
  <2>2. Valid(consumer)'
    BY <1>1, FS_EmptySet, Constants DEF Valid
  <2> QED BY <2>1, <2>2, <1>1, <1>4, <1>u, <1>g DEF StoreInv, TypeOK
<1>6. Shape' /\ Stored'
  BY <1>1, <1>2, <1>3, <1>u, <1>g, NoRowIsRow DEF Shape, Stored
<1>7. Settled' /\ Honoured' /\ OnlyMovable'
  BY <1>1, <1>3, <1>u DEF Settled, Honoured, OnlyMovable
<1>8. Limited'
  <2>1. Leased(consumer') = {}
    BY <1>2, NoRowIsRow DEF Leased
  <2>2. Cardinality(Leased(consumer')) = 0
    BY <2>1, FS_EmptySet
  <2> QED BY <2>2, Constants DEF Limited, Leased
<1>9. Advance
  BY <1>1, <1>2, <1>u, <1>g, <1>t DEF Advance, Moved
<1> QED BY <1>5, <1>6, <1>7, <1>8, <1>9 DEF StoreInv

-----------------------------------------------------------------------------
(* The commits.                                                            *)

LEMMA NoWriteStep ==
    ASSUME StoreInv, UNCHANGED <<stream, era, process>>, NoWrite,
           cursors' \subseteq cursors \cup (0..head)
    PROVE  StoreInv' /\ Advance
<1>1. head \in 0..MaxEvents /\ hidden \subseteq 1..head
      /\ process \in {"up", "down", "refused"}
  BY DEF StoreInv, TypeOK
<1>2. head <= head' /\ head' \in 0..MaxEvents /\ hidden' \subseteq 1..head'
  BY <1>1, Constants DEF stream
<1>3. UNCHANGED <<mode, consumer, due, era, history>> /\ process' = process
  BY DEF stream, NoWrite, history
<1> QED BY <1>1, <1>2, <1>3, Quiet

\* What an operation saw due is not handed out.
LEMMA SeenIsOver ==
    ASSUME StoreInv, NEW r \in Requests, Witnessed(r),
           NEW e \in Leased(consumer), <<e, consumer.rows[e]>> \in r.obs
    PROVE  \A l \in outstanding : l[1] # e
<1> DEFINE o == <<e, consumer.rows[e]>>
<1>1. o[1] = e /\ o[2] = consumer.rows[e] /\ o[2].state = "leased" /\ o \in r.obs
  BY DEF Leased
<1> HIDE DEF o
<1>2. e \in due
  BY <1>1 DEF Witnessed
<1> QED BY <1>2 DEF StoreInv, Honoured

LEMMA RecoverStep ==
    ASSUME StoreInv, NEW r \in Requests, CarriedInv(r), r.step = "recover",
           Recover(r), UNCHANGED <<stream, era, process, cursors>>
    PROVE  StoreInv' /\ Advance
<1>1. CASE consumer = r.snap /\ WriteNormalized(r.window)
  <2>1. /\ r.window \in SUBSET Leased(consumer) /\ CanNormalize(consumer, r.window)
        /\ \A e \in r.window : <<e, consumer.rows[e]>> \in r.obs
    BY <1>1 DEF CarriedInv, Planned
  <2>2. \A l \in outstanding : l[1] \notin r.window
    BY <2>1, SeenIsOver DEF CarriedInv
  <2>3. process' \in {"up", "down", "refused"}
    BY DEF StoreInv, TypeOK
  <2> QED BY <1>1, <2>1, <2>2, <2>3, NormalizeStep DEF WriteNormalized
<1>2. CASE NoWrite
  BY <1>2, NoWriteStep
<1> QED BY <1>1, <1>2 DEF Recover

LEMMA LeaseExactStep ==
    ASSUME StoreInv, NEW r \in Requests, CarriedInv(r), r.step = "lease", Lease(r),
           UNCHANGED <<stream, era, process, cursors>>
    PROVE  StoreInv' /\ Advance
<1>m. mode = "exact"
  BY DEF CarriedInv, Planned
<1>1. CASE /\ Current(r.snap)
           /\ consumer.cp = r.snap.cp /\ consumer.sparse = r.snap.sparse
           /\ \A e \in r.window : consumer.rows[e] = r.snap.rows[e]
           /\ WriteLeases(consumer, r.window, {}) /\ UNCHANGED earned
  <2>t. /\ consumer \in Snapshots /\ consumer.cp \in Nat /\ head \in Nat
        /\ r.window \in SUBSET (1..head) /\ cursors' \subseteq 0..head
    BY StoreTypes DEF StoreInv, TypeOK, Requests
  <2>1. \A e \in r.window : /\ consumer.cp < e /\ e \notin consumer.sparse
                            /\ consumer.rows[e].state \in {"none", "retry"}
    BY <1>1 DEF CarriedInv, Planned
  <2>2. \A e \in r.window : e \notin Covered(consumer)
    BY <2>1, <2>t DEF Covered
  <2>3. era = 0 => Cardinality(Leased(consumer) \cup r.window) <= InFlightLimit
    BY <1>1 DEF CarriedInv, Fits, Current
  <2>4. Covered(consumer) = earned'
    BY <1>1, <1>m DEF StoreInv, Settled, Covered
  <2>5. Valid(consumer) /\ mode # "protected"
    BY <1>m DEF StoreInv, TypeOK
  <2>6. {} \in SUBSET Covered(consumer) /\ r.window \cap {} = {}
        /\ consumer.cp <= consumer.cp /\ Covered(consumer) \subseteq Covered(consumer)
    BY <2>t
  <2> QED BY <1>1, <2>t, <2>1, <2>2, <2>3, <2>4, <2>5, <2>6, LeaseStep
<1>2. CASE NoWrite
  BY <1>2, NoWriteStep
<1> QED BY <1>1, <1>2 DEF Lease

LEMMA LeaseProtectedStep ==
    ASSUME StoreInv, NEW r \in Requests, CarriedInv(r), r.step = "read",
           LeaseProtected(r), mode = "protected", UNCHANGED <<stream, era, process>>
    PROVE  StoreInv' /\ Advance
<1> DEFINE ended == Expired(consumer, r.obs)
           concealed == r.window \cap hidden
           settled == {e \in concealed : consumer.cp < e}
           walked == Walk(consumer, consumer.sparse \cup settled, r.window)
           picked == Leasable(consumer, r.window \ hidden, r.obs)
<1>t. /\ head \in 0..MaxEvents /\ head \in Nat /\ head <= MaxEvents /\ era \in Nat
      /\ consumer \in Snapshots /\ consumer.cp \in Nat
      /\ consumer.sparse \in SUBSET (1..head)
      /\ r.window \in SUBSET (1..head) /\ cursors \subseteq 0..head
  BY StoreTypes, Constants DEF StoreInv, TypeOK, Requests
<1>w. /\ walked \in Snapshots /\ walked.rev = consumer.rev /\ walked.rows = consumer.rows
      /\ consumer.cp <= walked.cp
      /\ (1..consumer.cp) \cup (consumer.sparse \cup settled) \subseteq Covered(walked)
      /\ Reaches(r.window, consumer.cp) =>
            Covered(walked) = (1..consumer.cp) \cup (consumer.sparse \cup settled)
  <2>1. consumer.sparse \cup settled \in SUBSET (1..head)
    BY <1>t
  <2> HIDE DEF settled
  <2> QED BY <2>1, <1>t, WalkSettles
<1>1. CASE CanNormalize(consumer, ended) /\ WriteNormalized(ended) /\ UNCHANGED cursors
  <2>1. ended \in SUBSET Leased(consumer) /\ \A e \in ended : <<e, consumer.rows[e]>> \in r.obs
    BY DEF Expired, IsDue
  <2> HIDE DEF ended
  <2>2. \A l \in outstanding : l[1] \notin ended
    BY <2>1, SeenIsOver DEF CarriedInv
  <2>3. process' \in {"up", "down", "refused"}
    BY DEF StoreInv, TypeOK
  <2> QED BY <1>1, <2>1, <2>2, <2>3, NormalizeStep DEF WriteNormalized
<1>2. CASE NoWrite /\ cursors' \subseteq cursors \cup {walked.cp}
  <2>1. walked.cp \in 0..head
    BY <1>w, SnapshotParts
  <2>2. cursors' \subseteq cursors \cup (0..head)
    BY <1>2, <2>1
  <2> QED BY <1>2, <2>2, NoWriteStep
<1>3. CASE /\ Valid(walked) /\ WriteLeases(walked, picked, concealed)
           /\ earned' = earned \cup settled /\ cursors' \subseteq cursors \cup {walked.cp}
  <2>1. cursors' \subseteq 0..head
    <3>1. walked.cp \in 0..head
      BY <1>w, SnapshotParts
    <3> QED BY <3>1, <1>t, <1>3
  <2>2. r.window \ hidden \in SUBSET (1..head)
    BY <1>t
  <2>3. /\ picked \subseteq r.window \ hidden
        /\ \A e \in picked : /\ e \notin Covered(consumer)
                             /\ consumer.rows[e].state \in {"none", "retry"}
        /\ Cardinality(Leased(consumer)) <= InFlightLimit =>
              Cardinality(Leased(consumer) \cup picked) <= InFlightLimit
    BY <2>2, <1>t, LeasableParts
  <2> HIDE DEF picked
  <2>4. picked \in SUBSET (1..head) /\ picked \cap concealed = {}
    BY <2>3, <1>t
  <2>5. Covered(consumer) \subseteq Covered(walked)
    BY <1>w DEF Covered
  <2>6. concealed \in SUBSET Covered(walked)
    <3>1. ASSUME NEW e \in concealed PROVE e \in (1..consumer.cp) \cup settled
      BY <1>t
    <3> HIDE DEF concealed, settled, walked
    <3> QED BY <3>1, <1>w
  <2>7. Cardinality(Leased(consumer) \cup picked) <= InFlightLimit
    BY <2>3 DEF StoreInv, Limited
  <2>8. mode = "exact" \/ era = 0 => Covered(walked) = earned'
    <3>1. ASSUME era = 0 PROVE Covered(walked) = earned'
      <4>1. Reaches(r.window, consumer.cp)
        BY <3>1 DEF CarriedInv, Fresh, Unmoved
      <4>2. (1..consumer.cp) \cup consumer.sparse = earned
        BY <3>1 DEF StoreInv, Settled
      <4> HIDE DEF walked, settled
      <4> QED BY <4>1, <4>2, <1>w, <1>3
    <3> QED BY <3>1
  <2> HIDE DEF walked, concealed, settled
  <2> QED BY <1>3, <1>w, <2>1, <2>3, <2>4, <2>5, <2>6, <2>7, <2>8, LeaseStep
<1> QED BY <1>1, <1>2, <1>3 DEF LeaseProtected

LEMMA SettleAnyStep ==
    ASSUME StoreInv, NEW r \in Requests, r.event \in Events, r.op \in {"ack", "nack"},
           NEW s \in Snapshots, Valid(s), Settle(r, s),
           UNCHANGED <<stream, era, process, cursors>>,
           consumer.rows[r.event] = r.token /\ r.token.state = "leased"
              /\ s.rev = consumer.rev =>
                 /\ s.rows[r.event] = consumer.rows[r.event] /\ consumer.cp <= s.cp
                 /\ Covered(consumer) \cup {e \in {r.event} : Final(r, s)} \subseteq Covered(s)
                 /\ mode = "exact" \/ era = 0 =>
                       Covered(s) = Covered(consumer) \cup {e \in {r.event} : Final(r, s)}
    PROVE  StoreInv' /\ Advance
<1> DEFINE e == r.event
           final == Final(r, s)
           after == IF r.op = "ack" THEN NoRow ELSE Failed(s.rows[e])
<1>1. CASE /\ Current(s) /\ consumer.rows[e].state = "leased" /\ consumer.rows[e] = r.token
           /\ Write([s EXCEPT !.rev = @ + 1,
                              !.rows = [consumer.rows EXCEPT ![e] = after]])
           /\ earned' = IF final THEN earned \cup {e} ELSE earned
           /\ outstanding' = outstanding \ {<<e, r.token>>}
  <2>1. /\ s.rows[e] = consumer.rows[e] /\ consumer.cp <= s.cp
        /\ Covered(consumer) \cup {d \in {e} : final} \subseteq Covered(s)
        /\ mode = "exact" \/ era = 0 => Covered(s) = Covered(consumer) \cup {d \in {e} : final}
        /\ s.rev = consumer.rev
    BY <1>1 DEF Current
  <2>2. r.op = "ack" => final
    BY DEF Final
  <2> HIDE DEF final
  <2>3. (after = NoRow /\ e \in Covered(s)) \/ after = Failed(consumer.rows[e])
    BY <2>1, <2>2
  <2>4. mode = "exact" \/ era = 0 => Covered(s) = earned'
    <3>1. mode = "exact" \/ era = 0 => Covered(consumer) = earned
      BY DEF StoreInv, Settled, Covered
    <3> QED BY <3>1, <2>1, <1>1
  <2>5. outstanding' = outstanding \ {<<e, consumer.rows[e]>>}
    BY <1>1
  <2>6. Covered(consumer) \subseteq Covered(s)
    BY <2>1
  <2> HIDE DEF after
  <2> QED BY <1>1, <2>1, <2>3, <2>4, <2>5, <2>6, SettleStep
<1>2. CASE NoWrite
  BY <1>2, NoWriteStep
<1> QED BY <1>1, <1>2 DEF Settle

LEMMA SettleExactStep ==
    ASSUME StoreInv, NEW r \in Requests, CarriedInv(r), r.step = "settle",
           Settle(r, r.snap), UNCHANGED <<stream, era, process, cursors>>
    PROVE  StoreInv' /\ Advance
<1>1. /\ r.event \in Events /\ r.op \in {"ack", "nack"} /\ r.snap \in Snapshots
      /\ Valid(r.snap)
  BY DEF CarriedInv, Planned, Requests
<1>2. ASSUME consumer.rows[r.event] = r.token, r.token.state = "leased",
             r.snap.rev = consumer.rev
      PROVE  Extends(r.snap, r)
  <2>1. Unmoved(r)
    BY <1>1, <1>2 DEF StoreInv, Stored, Unmoved
  <2> QED BY <2>1, <1>2 DEF CarriedInv, Fresh
<1>3. consumer.rows[r.event] = r.token /\ r.token.state = "leased"
         /\ r.snap.rev = consumer.rev =>
            /\ r.snap.rows[r.event] = consumer.rows[r.event] /\ consumer.cp <= r.snap.cp
            /\ Covered(r.snap) = Covered(consumer) \cup {e \in {r.event} : Final(r, r.snap)}
  BY <1>2 DEF Extends, Covered
<1> QED BY <1>1, <1>3, SettleAnyStep

LEMMA SettleProtectedStep ==
    ASSUME StoreInv, NEW r \in Requests, CarriedInv(r), r.step = "read",
           r.op \in {"ack", "nack"}, mode = "protected",
           SettleProtected(r), UNCHANGED <<stream, era, process, cursors>>
    PROVE  StoreInv' /\ Advance
<1> DEFINE w == Resolution(r, consumer)
<1>1. CASE Resolvable(r, consumer) /\ Settle(r, w)
  <2>1. /\ w \in Snapshots /\ w.rev = consumer.rev /\ w.rows = consumer.rows
        /\ consumer.cp <= w.cp /\ Valid(w)
        /\ Covered(consumer) \cup {e \in {r.event} : Final(r, consumer)} \subseteq Covered(w)
        /\ Reaches(r.window, consumer.cp) =>
              Covered(w) = Covered(consumer) \cup {e \in {r.event} : Final(r, consumer)}
        /\ r.event \in Events
    BY <1>1, ResolutionParts DEF CarriedInv
  <2> HIDE DEF w
  <2>2. Final(r, w) <=> Final(r, consumer)
    BY <2>1 DEF Final
  <2>3. {e \in {r.event} : Final(r, w)} = {e \in {r.event} : Final(r, consumer)}
    BY <2>2
  <2>4. era = 0 => Reaches(r.window, consumer.cp)
    BY DEF CarriedInv, Fresh, Unmoved
  <2>5. /\ w.rows[r.event] = consumer.rows[r.event]
        /\ Covered(consumer) \cup {e \in {r.event} : Final(r, w)} \subseteq Covered(w)
        /\ mode = "exact" \/ era = 0 =>
              Covered(w) = Covered(consumer) \cup {e \in {r.event} : Final(r, w)}
    BY <2>1, <2>3, <2>4
  <2> QED BY <1>1, <2>1, <2>5, SettleAnyStep
<1>2. CASE NoWrite
  BY <1>2, NoWriteStep
<1> QED BY <1>1, <1>2 DEF SettleProtected

LEMMA CommitInv ==
    ASSUME ConsumerInv, NEW c \in Clients, Commit(c)
    PROVE  ConsumerInv'
<1>0. PICK r : r = client[c]
  OBVIOUS
<1>1. r \in Requests /\ CarriedInv(r) /\ StoreInv
  BY <1>0 DEF ConsumerInv
<1>2. Finish(c) /\ UNCHANGED <<stream, process>>
  BY DEF Commit
<1>3. CASE r.step = "recover" /\ Recover(r) /\ UNCHANGED <<cursors, era>>
  <2>1. StoreInv' /\ Advance
    BY <1>1, <1>2, <1>3, RecoverStep
  <2> QED BY <2>1, <1>2, Ends
<1>4. CASE r.step = "lease" /\ Lease(r) /\ UNCHANGED <<cursors, era>>
  <2>1. StoreInv' /\ Advance
    BY <1>1, <1>2, <1>4, LeaseExactStep
  <2> QED BY <2>1, <1>2, Ends
<1>5. CASE r.step = "settle" /\ Settle(r, r.snap) /\ UNCHANGED <<cursors, era>>
  <2>1. StoreInv' /\ Advance
    BY <1>1, <1>2, <1>5, SettleExactStep
  <2> QED BY <2>1, <1>2, Ends
<1>6. CASE r.step = "move" /\ Move(r) /\ UNCHANGED cursors
  <2>1. r.event \in 0..head /\ mode \in Movable
    BY <1>1, <1>6 DEF CarriedInv, Planned
  <2>2. CASE /\ MoveAllowed(r) /\ era' = era + 1
             /\ IF r.op = "seek" THEN Seek(r) ELSE Retire
    <3>1. StoreInv' /\ Advance
      BY <1>1, <1>2, <1>6, <2>1, <2>2, MoveStep
    <3> QED BY <3>1, <1>2, Ends
  <2>3. CASE NoWrite /\ UNCHANGED era
    <3>1. StoreInv' /\ Advance
      BY <1>1, <1>2, <1>6, <2>3, NoWriteStep
    <3> QED BY <3>1, <1>2, Ends
  <2> QED BY <1>6, <2>2, <2>3 DEF Move
<1>7. CASE /\ r.step = "read" /\ mode = "protected"
           /\ LeaseProtected(r) /\ UNCHANGED era
  <2>1. StoreInv' /\ Advance
    BY <1>1, <1>2, <1>7, LeaseProtectedStep
  <2> QED BY <2>1, <1>2, Ends
<1>8. CASE /\ r.step = "read" /\ mode = "protected" /\ r.op \in {"ack", "nack"}
           /\ SettleProtected(r) /\ UNCHANGED <<cursors, era>>
  <2>1. StoreInv' /\ Advance
    BY <1>1, <1>2, <1>8, SettleProtectedStep
  <2> QED BY <2>1, <1>2, Ends
<1> QED BY <1>0, <1>3, <1>4, <1>5, <1>6, <1>7, <1>8 DEF Commit

LEMMA StopInv == ConsumerInv /\ Stop => ConsumerInv'
<1> SUFFICES ASSUME ConsumerInv, Stop PROVE ConsumerInv'
  OBVIOUS
<1>1. head \in 0..MaxEvents /\ hidden \subseteq 1..head /\ StoreInv
  BY DEF ConsumerInv, StoreInv, TypeOK
<1>2. head <= head' /\ head' \in 0..MaxEvents /\ hidden' \subseteq 1..head'
  BY <1>1, Constants DEF Stop, stream
<1>3. /\ UNCHANGED <<mode, consumer, due, era, history>>
      /\ cursors' = {} /\ process' = "down" /\ client' = [c \in Clients |-> Idle]
  BY DEF Stop, stream
<1>4. StoreInv' /\ Advance
  BY <1>1, <1>2, <1>3, Quiet
<1>5. Idle \in Requests /\ CarriedInv(Idle)
  BY <1>1, IdleIsRequest, Constants DEF StoreInv, Shape
<1>6. PICK r : r = Idle
  OBVIOUS
<1>7. r \in Requests' /\ CarriedInv(r)'
  BY <1>1, <1>4, <1>5, <1>6, CarriedOn
<1>8. client' \in [Clients -> Requests']
  BY <1>3, <1>6, <1>7
<1>9. ASSUME NEW c \in Clients PROVE CarriedInv(client[c])'
  <2>1. client'[c] = r
    BY <1>3, <1>6
  <2> QED BY <2>1, <1>7
<1> QED BY <1>4, <1>8, <1>9 DEF ConsumerInv

LEMMA StartInv ==
    ASSUME ConsumerInv, NEW restored \in BOOLEAN, Start(restored)
    PROVE  ConsumerInv'
<1> DEFINE ended == {e \in Leased(consumer) : restored \/ e \in due}
<1>1. StoreInv /\ UNCHANGED <<stream, era, cursors>> /\ client' = client
  BY DEF ConsumerInv, Start
<1>2. CASE NoWrite /\ process' \in {"up", "refused"}
  <2>1. head \in 0..MaxEvents /\ hidden \subseteq 1..head
    BY <1>1 DEF StoreInv, TypeOK
  <2>2. head <= head' /\ head' \in 0..MaxEvents /\ hidden' \subseteq 1..head'
    BY <1>1, <2>1, Constants DEF stream
  <2>3. UNCHANGED <<mode, consumer, due, era, history>> /\ cursors' = cursors
        /\ process' \in {"up", "down", "refused"}
    BY <1>1, <1>2 DEF stream, NoWrite, history
  <2>4. StoreInv' /\ Advance
    BY <1>1, <2>2, <2>3, Quiet
  <2> QED BY <1>1, <2>4, NoClient
<1>3. CASE /\ CanNormalize(consumer, ended) /\ process' = "up"
           /\ consumer' = Normalized(consumer, ended)
           /\ due' = (due \ ended) \cup (ended \ Spent(consumer, ended))
           /\ earned' = earned \cup Spent(consumer, ended)
           /\ outstanding' = IF restored THEN {} ELSE outstanding
  <2>1. ended \in SUBSET Leased(consumer)
    OBVIOUS
  <2>2. \A l \in outstanding' : l \in outstanding /\ l[1] \notin ended
    <3>1. CASE restored
      BY <3>1, <1>3
    <3>2. CASE ~restored
      <4>1. ended \subseteq due
        BY <3>2
      <4>2. \A l \in outstanding : l[1] \notin due
        BY <1>1 DEF StoreInv, Honoured
      <4> HIDE DEF ended
      <4> QED BY <3>2, <4>1, <4>2, <1>3
    <3> QED BY <3>1, <3>2
  <2>3. outstanding' \subseteq outstanding /\ process' \in {"up", "down", "refused"}
    BY <2>2, <1>3
  <2> HIDE DEF ended
  <2>4. StoreInv' /\ Advance
    BY <1>1, <1>3, <2>1, <2>2, <2>3, NormalizeStep
  <2> QED BY <1>1, <2>4, NoClient
<1> QED BY <1>2, <1>3 DEF Start

-----------------------------------------------------------------------------
(* The theorems.                                                           *)

LEMMA InitInv == Init => ConsumerInv
<1> SUFFICES ASSUME Init PROVE ConsumerInv
  OBVIOUS
<1>1. /\ head = 0 /\ era = 0 /\ consumer = Missing /\ due = {} /\ outstanding = {}
      /\ earned = {} /\ hidden = {} /\ cursors = {} /\ process = "up" /\ mode \in Modes
      /\ client = [c \in Clients |-> Idle] /\ era \in Nat /\ head \in Nat
  BY DEF Init
<1>2. /\ Missing \in Snapshots /\ Valid(Missing) /\ Leased(Missing) = {}
      /\ Missing.rev = 0 /\ Missing.cp = 0 /\ Missing.sparse = {}
      /\ \A e \in Events : Missing.rows[e] = NoRow
  BY <1>1, MissingIsSnapshot
<1>3. TypeOK
  <2>1. head \in 0..MaxEvents /\ Missing.cp \in 0..head
    BY <1>1, <1>2, Constants
  <2>2. \A e \in Events : Missing.rows[e] \in Rows
    BY <1>2, NoRowIsRow
  <2> QED BY <2>1, <2>2, <1>1, <1>2 DEF TypeOK
<1>4. Shape /\ Stored
  BY <1>1, <1>2, NoRowIsRow DEF Shape, Stored
<1>5. Settled /\ Honoured /\ OnlyMovable
  BY <1>1, <1>2 DEF Settled, Honoured, OnlyMovable
<1>6. Limited
  BY <1>1, <1>2, FS_EmptySet, Constants DEF Limited
<1>7. Idle \in Requests /\ CarriedInv(Idle)
  BY <1>1, IdleIsRequest
<1>8. client \in [Clients -> Requests] /\ \A c \in Clients : CarriedInv(client[c])
  BY <1>1, <1>7
<1> QED BY <1>3, <1>4, <1>5, <1>6, <1>8 DEF ConsumerInv, StoreInv

LEMMA NextInv == ConsumerInv /\ [Next]_vars => ConsumerInv'
<1> SUFFICES ASSUME ConsumerInv, [Next]_vars PROVE ConsumerInv'
  OBVIOUS
<1>1. CASE Emit
  BY <1>1, EmitInv
<1>2. ASSUME NEW e \in Events, ChangePolicy(e) \/ InstantPasses(e) PROVE ConsumerInv'
  BY <1>2, PolicyInv, InstantInv
<1>3. ASSUME NEW c \in Clients, Step(c) PROVE ConsumerInv'
  BY <1>3, BeginPullInv, ReadWindowInv, PrepareLeaseInv, PrepareResolutionInv, CommitInv
     DEF Step
<1>4. ASSUME NEW c \in Resolvers, NEW op \in {"ack", "nack"}, NEW e \in 1..head,
             NEW token \in {consumer.rows[e], NoRow}, BeginResolve(c, op, e, token)
      PROVE  ConsumerInv'
  <2>1. c \in Clients
    BY DEF Clients
  <2> QED BY <1>4, <2>1, BeginResolveInv
<1>5. ASSUME NEW c \in Movers, NEW t \in 0..MaxEvents, BeginMove(c, "seek", t)
      PROVE  ConsumerInv'
  <2>1. c \in Clients
    BY DEF Clients
  <2> QED BY <1>5, <2>1, BeginMoveInv
<1>6. ASSUME NEW c \in Movers, BeginMove(c, "retire", 0) PROVE ConsumerInv'
  <2>1. c \in Clients /\ 0 \in 0..MaxEvents
    BY Constants DEF Clients
  <2> QED BY <1>6, <2>1, BeginMoveInv
<1>7. CASE Stop
  BY <1>7, StopInv
<1>8. ASSUME NEW restored \in BOOLEAN, Start(restored) PROVE ConsumerInv'
  BY <1>8, StartInv
<1>9. CASE UNCHANGED vars
  <2>1. /\ head \in 0..MaxEvents /\ hidden \subseteq 1..head /\ StoreInv
        /\ process \in {"up", "down", "refused"}
    BY DEF ConsumerInv, StoreInv, TypeOK
  <2>2. head <= head' /\ head' \in 0..MaxEvents /\ hidden' \subseteq 1..head'
    BY <1>9, <2>1, Constants DEF vars, stream
  <2>3. UNCHANGED <<mode, consumer, due, era, history>> /\ cursors' = cursors
        /\ process' = process /\ client' = client
    BY <1>9 DEF vars, stream, history
  <2>4. StoreInv' /\ Advance
    BY <2>1, <2>2, <2>3, Quiet
  <2> QED BY <2>3, <2>4, NoClient
<1> QED BY <1>1, <1>2, <1>3, <1>4, <1>5, <1>6, <1>7, <1>8, <1>9 DEF Next

LEMMA Invariance == Spec => []ConsumerInv
BY InitInv, NextInv, PTL DEF Spec

\* Every snapshot the store ever holds is one its constructors accept, whatever
\* pulls, acknowledgements, expiries, moves, policy changes and restarts met, for
\* any number of clients and events and any limits.
THEOREM TypeCorrect == Spec => []TypeOK
<1>1. ConsumerInv => TypeOK
  BY DEF ConsumerInv, StoreInv
<1> QED BY <1>1, Invariance, PTL

\* A consumer that is not moved while a row policy applies counts as settled
\* exactly what was acknowledged, dead-lettered or hidden: with or without a
\* policy, whatever stale plans and windows commit late.
THEOREM NothingSkipped ==
    ASSUME "protected" \notin Movable
    PROVE  Spec => []SettledExactly
<1>1. ConsumerInv => SettledExactly
  <2> SUFFICES ASSUME ConsumerInv PROVE SettledExactly
    OBVIOUS
  <2>1. mode \in {"exact", "protected"}
    BY ConsumerAssumption DEF ConsumerInv, StoreInv, TypeOK
  <2>2. mode = "exact" \/ era = 0
    BY <2>1 DEF ConsumerInv, StoreInv, OnlyMovable
  <2> QED BY <2>2 DEF ConsumerInv, StoreInv, Settled, SettledExactly
<1> QED BY <1>1, Invariance, PTL

\* A lease that was handed out stays with its holder until it expires, is settled
\* or is ended by the policy or a restore, and the limit of leases in flight holds
\* for an unmoved consumer and in protected mode.
THEOREM LeasesHold == Spec => []LeasesRespected
<1>1. ConsumerInv => LeasesRespected
  BY DEF ConsumerInv, StoreInv, Honoured, Limited, LeasesRespected
<1> QED BY <1>1, Invariance, PTL
=============================================================================
