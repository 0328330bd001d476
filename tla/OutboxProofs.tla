----------------------------- MODULE OutboxProofs -----------------------------
(***************************************************************************)
(* Machine-checked proofs about Outbox, for every number of events,        *)
(* attempts and faults, every group and page size, every archive quota and *)
(* every choice of configurations.                                         *)
(***************************************************************************)
EXTENDS Outbox, NumberSets

-----------------------------------------------------------------------------
(* The inductive invariant.                                                *)

\* Where the worker is says which of its views hold anything.
Phased ==
    /\ worker \in {"down", "recover", "normalize", "failed", "scan", "idle",
                   "refused"} => DOMAIN run = {} /\ DOMAIN successes = {}
    /\ worker \in {"item", "defer", "bury"} => DOMAIN page # {} /\ DOMAIN run = {}
    /\ worker \in {"deliver", "settle"} => DOMAIN run # {}
    /\ worker = "end" => DOMAIN page = {} /\ DOMAIN run = {}
    /\ worker \notin {"normalize", "item", "defer", "bury", "deliver",
                      "settle", "abandon"} => DOMAIN page = {}

\* Only committed events are observed or have a row.
OnlyCommitted ==
    /\ DOMAIN page \subseteq 1..committed
    /\ \A e \in Events : status[e].state # "absent" => e \in 1..committed

\* Claimed and accepted rows are in Delivering with a counted attempt, and
\* those the dispatcher has yet to consume are not.
RowStates ==
    /\ (DOMAIN run) \cap (DOMAIN successes) = {}
    /\ \A e \in DOMAIN run : run[e].state = "delivering" /\ run[e].attempts > 0
    /\ \A e \in DOMAIN successes :
          successes[e].state = "delivering" /\ successes[e].attempts > 0
    /\ worker # "normalize" =>
          \A e \in DOMAIN page : page[e].state \in {"absent", "pending"}

\* A claimed attempt is not yet spent on a call, except the one whose answer is
\* being settled.
CallsLeft ==
    /\ CallsAreCounted
    /\ worker = "deliver" =>
          \A e \in DOMAIN run : calls[e] < run[e].attempts
    /\ worker = "settle" =>
          \A e \in DOMAIN run : e # First(run) => calls[e] < run[e].attempts

\* What recovery has not reached yet lies behind its cursor and its page and
\* within its fence.
Behind ==
    /\ worker = "recover" =>
          \A e \in Events : status[e].state = "delivering" =>
              after < e /\ (upper = 0 \/ e <= upper)
    /\ worker = "normalize" =>
          \A e \in Events : status[e].state = "delivering" =>
              \/ e \in DOMAIN page
              \/ /\ more
                 /\ after < e /\ e <= upper
                 /\ \A d \in DOMAIN page : d < e
    /\ worker \in {"down", "failed"} => after = 0 /\ upper = 0

\* Why a verdict may be written: the buffer holds accepted events, an event
\* about to be buried has no attempt left, and a permanent answer was given.
Justified ==
    /\ DOMAIN successes \subseteq archive
    /\ worker = "bury" => page[First(page)].attempts = MaxAttempts
    /\ worker = "settle" => answer # "none"
    /\ worker = "settle" /\ answer = "permanent" => First(run) \in rejected

OutboxInv ==
    /\ TypeOK /\ ViewExact /\ NoneStranded /\ RunsFit
    /\ Phased /\ OnlyCommitted /\ RowStates /\ CallsLeft /\ Behind /\ Justified

-----------------------------------------------------------------------------
(* The operators on sets of events and on views.                           *)

\* The bounds are numbers, and so are the events.
LEMMA Constants ==
    /\ MaxEvents \in Nat \ {0} /\ MaxAttempts \in Nat \ {0}
    /\ ClaimGroup \in Nat \ {0}
    /\ SuccessGroup \in Nat \ {0} /\ Quota \in Nat /\ MaxFaults \in Nat
BY OutboxAssumption

LEMMA EventsAreNumbers ==
    \A e \in Events : e \in Nat /\ 1 <= e /\ e <= MaxEvents
BY Constants DEF Events

\* A nonempty set of events has a first and a last one.
LEMMA Ends ==
    ASSUME NEW S \in SUBSET Events, S # {}
    PROVE  /\ \E e \in S : \A d \in S : e <= d
           /\ \E e \in S : \A d \in S : d <= e
<1>1. S \in SUBSET Nat /\ S \in SUBSET (0..MaxEvents)
  BY Constants, EventsAreNumbers
<1> QED BY <1>1, Smallest, Largest, Constants

\* Sets of events are finite.
LEMMA EventsFinite ==
    ASSUME NEW S, S \subseteq Events
    PROVE  IsFiniteSet(S) /\ Cardinality(S) \in Nat
<1>1. S \in SUBSET (0..MaxEvents)
  BY Constants, EventsAreNumbers
<1> QED BY <1>1, FiniteBelow, Constants

\* A view is a function from some events to rows.
LEMMA ViewType ==
    ASSUME NEW v
    PROVE  IsView(v) <=> /\ DOMAIN v \subseteq Events
                           /\ v = [e \in DOMAIN v |-> v[e]]
                           /\ \A e \in DOMAIN v : v[e] \in Rows
<1>1. ASSUME IsView(v)
      PROVE  /\ DOMAIN v \subseteq Events
             /\ v = [e \in DOMAIN v |-> v[e]]
             /\ \A e \in DOMAIN v : v[e] \in Rows
  <2>1. PICK S \in SUBSET Events : v \in [S -> Rows]
    BY <1>1 DEF IsView
  <2> QED BY <2>1
<1>2. ASSUME DOMAIN v \subseteq Events, v = [e \in DOMAIN v |-> v[e]],
             \A e \in DOMAIN v : v[e] \in Rows
      PROVE  IsView(v)
  <2>1. v \in [DOMAIN v -> Rows]
    BY <1>2
  <2> QED BY <2>1, <1>2 DEF IsView
<1> QED BY <1>1, <1>2

\* The empty view.
LEMMA NoneView ==
    /\ IsView(None) /\ DOMAIN None = {}
    /\ \A v : IsView(v) /\ DOMAIN v = {} => v = None
<1>1. DOMAIN None = {} /\ None = [e \in DOMAIN None |-> None[e]]
  BY DEF None
<1>2. IsView(None)
  BY <1>1, ViewType
<1>3. ASSUME NEW v, IsView(v), DOMAIN v = {} PROVE v = None
  <2>1. v = [e \in DOMAIN v |-> v[e]]
    BY <1>3, ViewType
  <2> QED BY <2>1, <1>3 DEF None
<1> QED BY <1>1, <1>2, <1>3

\* The next item of a view.
LEMMA FirstItem ==
    ASSUME NEW v, IsView(v), DOMAIN v # {}
    PROVE  /\ First(v) \in DOMAIN v /\ First(v) \in Events
           /\ \A d \in DOMAIN v : First(v) <= d
<1>1. DOMAIN v \subseteq Events
  BY ViewType
<1>2. \E e \in DOMAIN v : \A d \in DOMAIN v : e <= d
  BY <1>1, Ends
<1> QED BY <1>1, <1>2 DEF First

\* Taking items out of a view.
LEMMA DropView ==
    ASSUME NEW v, IsView(v), NEW S
    PROVE  /\ IsView(Drop(v, S))
           /\ DOMAIN Drop(v, S) = (DOMAIN v) \ S
           /\ \A e \in (DOMAIN v) \ S : Drop(v, S)[e] = v[e]
<1>1. DOMAIN Drop(v, S) = (DOMAIN v) \ S
      /\ \A e \in (DOMAIN v) \ S : Drop(v, S)[e] = v[e]
  BY DEF Drop
<1>2. Drop(v, S) = [e \in DOMAIN Drop(v, S) |-> Drop(v, S)[e]]
  BY DEF Drop
<1>3. DOMAIN v \subseteq Events /\ \A e \in DOMAIN v : v[e] \in Rows
  BY ViewType
<1>4. DOMAIN Drop(v, S) \subseteq Events /\ \A e \in DOMAIN Drop(v, S) : Drop(v, S)[e] \in Rows
  BY <1>1, <1>3
<1>5. IsView(Drop(v, S))
  BY <1>2, <1>4, ViewType
<1> QED BY <1>1, <1>5

\* Comparing some items of a view with the table.
LEMMA KeptMatch ==
    ASSUME NEW v, NEW S, Matches(Keep(v, S)), NEW e \in DOMAIN v, e \in S
    PROVE  status[e] = v[e]
BY DEF Matches, Keep

\* The first items of a set come before the others.
LEMMA FirstOfOrder ==
    ASSUME NEW S, S \subseteq Events, NEW n \in Nat
    PROVE  /\ FirstOf(S, n) \subseteq S
           /\ \A e \in S \ FirstOf(S, n) : \A d \in FirstOf(S, n) : d < e
<1>1. FirstOf(S, n) \subseteq S
  BY DEF FirstOf
<1>2. ASSUME NEW e \in S \ FirstOf(S, n), NEW d \in FirstOf(S, n), ~(d < e)
      PROVE  FALSE
  <2>1. e \in Nat /\ d \in Nat
    BY <1>1, EventsAreNumbers
  <2> DEFINE below(x) == {y \in S : y < x}
  <2>2. below(e) \subseteq below(d)
    <3>1. ASSUME NEW y \in S, y < e PROVE y < d
      <4>1. y \in Nat
        BY EventsAreNumbers
      <4> QED BY <4>1, <3>1, <2>1, <1>2
    <3> QED BY <3>1
  <2>3. IsFiniteSet(below(d)) /\ Cardinality(below(d)) \in Nat /\ Cardinality(below(e)) \in Nat
    <3>1. below(d) \subseteq Events /\ below(e) \subseteq Events
      OBVIOUS
    <3> QED BY <3>1, EventsFinite
  <2>4. Cardinality(below(e)) <= Cardinality(below(d))
    BY <2>2, <2>3, FS_Subset
  <2>5. Cardinality(below(d)) < n /\ ~(Cardinality(below(e)) < n)
    BY <1>1 DEF FirstOf
  <2> QED BY <2>3, <2>4, <2>5
<1> QED BY <1>1, <1>2

\* What each kind of row holds.
LEMMA RowFacts ==
    /\ Absent \in Rows /\ Absent.state = "absent" /\ Absent.attempts = 0
    /\ \A n \in 0..MaxAttempts, b \in BOOLEAN :
          /\ Pending(n, b) \in Rows /\ Pending(n, b).state = "pending"
          /\ Pending(n, b).attempts = n
          /\ Delivering(n, b) \in Rows /\ Delivering(n, b).state = "delivering"
          /\ Delivering(n, b).attempts = n
    /\ \A n \in 0..MaxAttempts :
          /\ Delivered(n) \in Rows /\ Delivered(n).state = "delivered"
          /\ Delivered(n).attempts = n
          /\ DeadLetter(n) \in Rows /\ DeadLetter(n).state = "dead"
          /\ DeadLetter(n).attempts = n
          /\ Retry(n) \in Rows /\ Retry(n).state = "pending"
          /\ Retry(n).attempts = n
BY Constants DEF Rows, Absent, Pending, Delivering, Delivered, DeadLetter, Retry

-----------------------------------------------------------------------------
(* Steps that fail or lose the pass.                                       *)

\* A table that a write may leave: it forgets no attempt and has rows only
\* for committed events.
Writable(table) ==
    /\ table \in [Events -> Rows]
    /\ \A e \in Events :
          /\ status[e].attempts <= table[e].attempts
          /\ table[e].state # "absent" => e \in 1..committed

\* Such a write keeps every call counted.
LEMMA StillCounted ==
    ASSUME OutboxInv, Writable(status'), UNCHANGED calls
    PROVE  CallsAreCounted'
<1>1. ASSUME NEW e \in Events PROVE calls[e] <= status'[e].attempts
  <2>1. calls[e] <= status[e].attempts /\ status[e].attempts <= status'[e].attempts
    BY DEF OutboxInv, CallsLeft, CallsAreCounted, Writable
  <2>2. calls[e] \in Nat /\ status[e].attempts \in Nat /\ status'[e].attempts \in Nat
    BY Constants DEF OutboxInv, Writable, TypeOK, Rows
  <2> QED BY <2>1, <2>2
<1> QED BY <1>1 DEF CallsAreCounted

\* Once the pass is forgotten only the table matters.
LEMMA ForgottenPass ==
    ASSUME OutboxInv, Writable(status'), Forget, worker' \in {"down", "failed", "scan"},
           worker' = "scan" => \A e \in Events : status'[e].state # "delivering",
           UNCHANGED <<committed, destination, scanLimit, archive, calls, rejected>>,
           passed' \subseteq Events, lastError' \in {"none", "transient", "refused"},
           health' \in [degraded : BOOLEAN, destination : BOOLEAN],
           faults' \in 0..MaxFaults
    PROVE  OutboxInv'
<1>1. page' = None /\ run' = None /\ successes' = None /\ after' = 0 /\ upper' = 0
      /\ more' = FALSE /\ dirty' = FALSE /\ answer' = "none"
  BY DEF Forget
<1>2. IsView(None) /\ DOMAIN None = {}
  BY NoneView
<1>3. TypeOK
  BY DEF OutboxInv
<1>4. TypeOK'
  <2>1. status' \in [Events -> Rows]
    BY DEF Writable
  <2>2. 0 \in 0..MaxEvents /\ {"down", "failed", "scan"} \subseteq Phases
    BY Constants DEF Phases
  <2> QED BY <2>1, <2>2, <1>1, <1>2, <1>3 DEF TypeOK
<1>5. ViewExact' /\ RunsFit'
  BY <1>1, <1>2 DEF ViewExact, Matches, RunsFit
<1>6. NoneStranded'
  BY DEF NoneStranded
<1>7. Phased'
  BY <1>1, <1>2 DEF Phased
<1>8. OnlyCommitted'
  BY <1>1, <1>2 DEF OnlyCommitted, Writable
<1>9. RowStates'
  BY <1>1, <1>2 DEF RowStates
<1>10. CallsLeft'
  BY StillCounted DEF CallsLeft, Forget
<1>11. Behind'
  BY <1>1 DEF Behind
<1>12. Justified'
  BY <1>1, <1>2 DEF Justified
<1> QED BY <1>4, <1>5, <1>6, <1>7, <1>8, <1>9, <1>10, <1>11, <1>12 DEF OutboxInv

\* The table as it is may be written back.
LEMMA StatusWritable == ASSUME OutboxInv PROVE Writable(status)
<1>1. ASSUME NEW e \in Events PROVE status[e].attempts <= status[e].attempts
  <2>1. status[e].attempts \in Nat
    BY Constants DEF OutboxInv, TypeOK, Rows
  <2> QED BY <2>1
<1> QED BY <1>1 DEF OutboxInv, TypeOK, OnlyCommitted, Writable

\* A failed write keeps the invariant, whether or not it was applied.
LEMMA WriteFailsInv ==
    ASSUME OutboxInv, NEW table, Writable(table), WriteFails(table), Rearm
    PROVE  OutboxInv'
<1>1. TypeOK /\ faults' \in 0..MaxFaults
  BY Constants DEF OutboxInv, WriteFails, Fault, TypeOK
<1>2. Writable(status')
  BY StatusWritable DEF WriteFails
<1>3. health' \in [degraded : BOOLEAN, destination : BOOLEAN]
  BY <1>1 DEF WriteFails, TypeOK
<1>4. passed' \subseteq Events /\ lastError' \in {"none", "transient", "refused"}
  BY <1>1 DEF WriteFails, TypeOK, Rearm
<1> QED BY <1>1, <1>2, <1>3, <1>4, ForgottenPass DEF WriteFails, config

\* Losing the process keeps the invariant.
LEMMA CrashInv == ASSUME OutboxInv, Crash PROVE OutboxInv'
<1>1. TypeOK /\ faults' \in 0..MaxFaults
  BY Constants DEF OutboxInv, Crash, Fault, TypeOK
<1>2. Writable(status')
  BY StatusWritable DEF Crash, durable, config
<1> QED BY <1>1, <1>2, ForgottenPass DEF Crash, durable, config, TypeOK

\* Giving up the pass keeps it too.
LEMMA AbandonInv == ASSUME OutboxInv, Abandon PROVE OutboxInv'
<1>1. TypeOK
  BY DEF OutboxInv
<1>2. Writable(status')
  BY StatusWritable DEF Abandon, durable, config
<1> QED BY <1>1, <1>2, ForgottenPass DEF Abandon, durable, config, TypeOK

LEMMA ReadFailsInv == ASSUME OutboxInv, ReadFails PROVE OutboxInv'
BY StatusWritable, WriteFailsInv DEF ReadFails

-----------------------------------------------------------------------------
(* Steps that write no row.                                                *)

\* When the tables and the pass stay as they are, what depends on the worker's
\* phase is all there is to show.
LEMMA WorkerMoves ==
    ASSUME OutboxInv, UNCHANGED <<durable, pass>>, worker' \in Phases,
           passed' \subseteq Events, lastError' \in {"none", "transient", "refused"},
           health' = health, faults' \in 0..MaxFaults,
           NoneStranded', Phased', RowStates', CallsLeft', Behind', Justified'
    PROVE  OutboxInv'
<1>1. TypeOK'
  BY DEF OutboxInv, TypeOK, durable, config, pass
<1>2. ViewExact' /\ RunsFit'
  BY DEF OutboxInv, ViewExact, RunsFit, Fits, Matches, durable, config, pass
<1>3. OnlyCommitted'
  BY DEF OutboxInv, OnlyCommitted, durable, config, pass
<1> QED BY <1>1, <1>2, <1>3 DEF OutboxInv

LEMMA StutterInv == ASSUME OutboxInv, UNCHANGED vars PROVE OutboxInv'
<1>1. UNCHANGED <<durable, pass>> /\ UNCHANGED <<worker, passed, lastError, health, faults>>
  BY DEF vars
<1>2. TypeOK
  BY DEF OutboxInv
<1>3. NoneStranded' /\ Phased' /\ RowStates'
  BY <1>1 DEF OutboxInv, NoneStranded, Phased, RowStates, durable, config, pass
<1>4. CallsLeft' /\ Behind' /\ Justified'
  BY <1>1 DEF OutboxInv, CallsLeft, CallsAreCounted, Behind, Justified, First, durable, config, pass
<1> QED BY <1>1, <1>2, <1>3, <1>4, WorkerMoves DEF TypeOK

\* A command's event is new: nothing the worker holds is about it.
LEMMA CommitInv == ASSUME OutboxInv, Commit PROVE OutboxInv'
<1>1. UNCHANGED <<status, archive, calls, rejected, destination, scanLimit, passed,
                   worker, after, upper, page, more, run, successes, answer, dirty,
                   lastError, health, faults>>
      /\ committed' = committed + 1 /\ committed < MaxEvents
  BY DEF Commit, pass, config
<1>2. TypeOK /\ TypeOK'
  BY <1>1, Constants DEF OutboxInv, TypeOK
<1>3. ViewExact' /\ RunsFit' /\ NoneStranded'
  BY <1>1 DEF OutboxInv, ViewExact, RunsFit, Fits, Matches, NoneStranded
<1>4. OnlyCommitted'
  <2>1. 1..committed \subseteq 1..committed'
    BY <1>1, <1>2 DEF TypeOK
  <2> QED BY <2>1, <1>1 DEF OutboxInv, OnlyCommitted
<1>5. Phased' /\ RowStates'
  BY <1>1 DEF OutboxInv, Phased, RowStates
<1>6. CallsLeft' /\ Behind' /\ Justified'
  BY <1>1 DEF OutboxInv, CallsLeft, CallsAreCounted, Behind, Justified, First
<1> QED BY <1>2, <1>3, <1>4, <1>5, <1>6 DEF OutboxInv

LEMMA ClockPassesInv ==
    ASSUME OutboxInv, NEW e \in Events, ClockPasses(e) PROVE OutboxInv'
<1>1. UNCHANGED <<durable, pass>> /\ UNCHANGED <<worker, lastError, health, faults>>
      /\ passed' = passed \cup {e}
  BY DEF ClockPasses
<1>2. TypeOK
  BY DEF OutboxInv
<1>3. NoneStranded' /\ Phased' /\ RowStates'
  BY <1>1 DEF OutboxInv, NoneStranded, Phased, RowStates, durable, config, pass
<1>4. CallsLeft' /\ Behind' /\ Justified'
  BY <1>1 DEF OutboxInv, CallsLeft, CallsAreCounted, Behind, Justified, First, durable, config, pass
<1> QED BY <1>1, <1>2, <1>3, <1>4, WorkerMoves DEF TypeOK

\* Recovery starts at the beginning; a wait ends where the scan resumes.
LEMMA WaitsEndInv ==
    ASSUME OutboxInv, Start \/ PauseEnds \/ IdleEnds PROVE OutboxInv'
<1>1. UNCHANGED <<durable, pass>> /\ UNCHANGED <<passed, lastError, health, faults>>
      /\ \/ worker \in {"down", "failed"} /\ worker' = "recover"
         \/ worker = "idle" /\ worker' = "scan"
  BY DEF Start, PauseEnds, IdleEnds
<1>2. TypeOK
  BY DEF OutboxInv
<1>3. NoneStranded' /\ Phased' /\ RowStates'
  BY <1>1 DEF OutboxInv, NoneStranded, Phased, RowStates, durable, config, pass, Phases
<1>4. CallsLeft' /\ Justified'
  BY <1>1 DEF OutboxInv, CallsLeft, CallsAreCounted, Justified, durable, config, pass
<1>5. Behind'
  <2>1. \A e \in Events : 0 < e
    BY EventsAreNumbers
  <2> QED BY <1>1, <2>1 DEF OutboxInv, Behind, durable, config, pass
<1>6. worker' \in Phases
  BY <1>1 DEF Phases
<1> QED BY <1>1, <1>2, <1>3, <1>4, <1>5, <1>6, WorkerMoves DEF TypeOK

\* A scan's page is exact, and what it leaves out comes after it.
LEMMA RecoverScanInv == ASSUME OutboxInv, RecoverScan PROVE OutboxInv'
<1> DEFINE top == Top
           items == Items
<1>1. /\ worker = "recover" /\ worker' = "normalize"
      /\ upper' = top /\ page' = [e \in items |-> status[e]] /\ more' = HasMore
      /\ UNCHANGED <<committed, status, archive, calls, rejected, destination, scanLimit, passed,
                     after, run, successes, answer, dirty, lastError, health, faults>>
  BY DEF RecoverScan, durable, config
<1>2. TypeOK /\ DOMAIN run = {} /\ DOMAIN successes = {}
  BY <1>1 DEF OutboxInv, Phased
<1>3. Ahead \subseteq 1..committed /\ 1..committed \subseteq Events
  BY <1>2, Constants DEF Ahead, Undelivered, TypeOK, Events
<1>4. /\ items \subseteq Ahead
      /\ \A e \in Ahead \ items : e <= Top => HasMore /\ \A d \in items : d < e
  <2>1. scanLimit \in Nat /\ scanLimit + 1 \in Nat /\ Ahead \subseteq Events
    BY <1>2, <1>3 DEF TypeOK
  <2>2. IndexPage \subseteq Ahead /\ \A e \in Ahead \ IndexPage : \A d \in IndexPage : d < e
    BY <2>1, FirstOfOrder DEF IndexPage
  <2>3. Fenced \subseteq IndexPage /\ Fenced \subseteq Events
    BY <2>1, <2>2 DEF Fenced
  <2>4. items \subseteq Fenced /\ \A e \in Fenced \ items : \A d \in items : d < e
    BY <2>1, <2>3, FirstOfOrder DEF Items
  <2>5. ASSUME NEW e \in Ahead \ items, e <= Top
        PROVE  HasMore /\ \A d \in items : d < e
    <3>1. CASE e \in IndexPage
      <4>1. e \in Fenced
        BY <3>1, <2>5 DEF Fenced
      <4> QED BY <4>1, <2>4, <2>5 DEF HasMore
    <3>2. CASE e \notin IndexPage
      <4>1. Ahead # IndexPage
        BY <3>2, <2>5
      <4> QED BY <4>1, <3>2, <2>2, <2>3, <2>4, <2>5 DEF HasMore
    <3> QED BY <3>1, <3>2
  <2> QED BY <2>2, <2>3, <2>4, <2>5
<1> HIDE DEF items
<1>5. IsView(page') /\ DOMAIN page' = items /\ \A e \in items : page'[e] = status[e]
  <2>1. DOMAIN page' = items /\ \A e \in items : page'[e] = status[e]
    BY <1>1
  <2>2. page' = [e \in DOMAIN page' |-> page'[e]]
    BY <1>1
  <2>3. \A e \in items : e \in Events /\ status[e] \in Rows
    BY <1>2, <1>3, <1>4 DEF TypeOK
  <2> QED BY <2>1, <2>2, <2>3, ViewType
<1>6. top \in 0..MaxEvents /\ HasMore \in BOOLEAN
  BY <1>2 DEF TypeOK, Top, HasMore
<1>7. TypeOK'
  BY <1>1, <1>2, <1>5, <1>6 DEF TypeOK, Phases
<1>8. ViewExact' /\ RunsFit'
  BY <1>1, <1>2, <1>5 DEF OutboxInv, ViewExact, RunsFit, Matches
<1>9. NoneStranded' /\ Phased' /\ RowStates'
  BY <1>1, <1>2 DEF NoneStranded, Phased, RowStates
<1>10. OnlyCommitted'
  BY <1>1, <1>3, <1>4, <1>5 DEF OutboxInv, OnlyCommitted
<1>11. CallsLeft' /\ Justified'
  BY <1>1 DEF OutboxInv, CallsLeft, CallsAreCounted, Justified
<1>12. Behind'
  <2>1. ASSUME NEW e \in Events, status[e].state = "delivering"
        PROVE  \/ e \in items
               \/ /\ HasMore
                  /\ after < e /\ e <= top
                  /\ \A d \in items : d < e
    <3>1. e \in 1..committed /\ after < e /\ (upper = 0 \/ e <= upper)
      BY <1>1, <2>1 DEF OutboxInv, OnlyCommitted, Behind
    <3>2. e <= committed
      BY <3>1, <1>2 DEF TypeOK
    <3>3. e \in Ahead /\ e <= Top
      BY <2>1, <3>1, <3>2 DEF Ahead, Undelivered, Top
    <3> QED BY <3>1, <3>3, <1>4
  <2> QED BY <2>1, <1>1, <1>5 DEF Behind
<1> QED BY <1>7, <1>8, <1>9, <1>10, <1>11, <1>12 DEF OutboxInv

\* A refused page gives the pass up before anything was written.
LEMMA RecoverRefusedInv == ASSUME OutboxInv, RecoverRefused PROVE OutboxInv'
<1>1. TypeOK
  BY DEF OutboxInv
<1>2. Writable(status')
  BY StatusWritable DEF RecoverRefused, durable, config
<1> QED BY <1>1, <1>2, ForgottenPass DEF RecoverRefused, durable, config, TypeOK

LEMMA RecoverNextInv == ASSUME OutboxInv, RecoverNext PROVE OutboxInv'
<1>1. worker = "normalize" /\ DOMAIN page = {} /\ UNCHANGED durable
      /\ UNCHANGED <<passed, lastError, health, faults>>
  BY DEF RecoverNext
<1>2. TypeOK /\ DOMAIN run = {} /\ DOMAIN successes = {}
  BY <1>1 DEF OutboxInv, Phased
<1>3. CASE more
  <2>1. worker' = "recover" /\ UNCHANGED pass
    BY <1>3 DEF RecoverNext
  <2>2. NoneStranded' /\ Phased' /\ RowStates'
    BY <1>1, <1>2, <2>1 DEF OutboxInv, NoneStranded, Phased, RowStates, durable, config, pass
  <2>3. CallsLeft' /\ Justified'
    BY <1>1, <2>1 DEF OutboxInv, CallsLeft, CallsAreCounted, Justified, durable, config, pass
  <2>4. Behind'
    BY <1>1, <2>1 DEF OutboxInv, Behind, durable, config, pass
  <2>5. worker' \in Phases
    BY <2>1 DEF Phases
  <2> QED BY <1>1, <1>2, <2>1, <2>2, <2>3, <2>4, <2>5, WorkerMoves DEF TypeOK
<1>4. CASE ~more
  <2>1. worker' = "scan" /\ Forget
    BY <1>4 DEF RecoverNext
  <2>2. \A e \in Events : status[e].state # "delivering"
    BY <1>1, <1>4 DEF OutboxInv, Behind
  <2>3. Writable(status')
    BY <1>1, StatusWritable DEF durable, config
  <2> QED BY <1>1, <1>2, <2>1, <2>2, <2>3, ForgottenPass DEF durable, config, TypeOK
<1> QED BY <1>3, <1>4

LEMMA ScanInv == ASSUME OutboxInv, Scan PROVE OutboxInv'
<1> DEFINE rest == {e \in Claimable : after < e}
           items == FirstOf(rest, scanLimit)
<1>1. /\ worker = "scan" /\ worker' = (IF items = {} THEN "end" ELSE "item")
      /\ page' = [e \in items |-> status[e]] /\ more' = (items # rest) /\ dirty' = FALSE
      /\ UNCHANGED <<committed, status, archive, calls, rejected, destination, scanLimit, passed,
                     after, upper, run, successes, answer, lastError, health, faults>>
  BY DEF Scan, durable, config
<1>2. TypeOK /\ DOMAIN run = {} /\ DOMAIN successes = {}
  BY <1>1 DEF OutboxInv, Phased
<1>3. rest \subseteq Claimable /\ Claimable \subseteq 1..committed
      /\ 1..committed \subseteq Events
  BY <1>2, Constants DEF Claimable, TypeOK, Events
<1>4. items \subseteq rest
  <2>1. rest \subseteq Events
    BY <1>3
  <2> HIDE DEF rest
  <2> QED BY <2>1, <1>2, FirstOfOrder DEF TypeOK
<1> HIDE DEF items
<1>5. IsView(page') /\ DOMAIN page' = items /\ \A e \in items : page'[e] = status[e]
  <2>1. DOMAIN page' = items /\ \A e \in items : page'[e] = status[e]
    BY <1>1
  <2>2. page' = [e \in DOMAIN page' |-> page'[e]]
    BY <1>1
  <2>3. \A e \in items : e \in Events /\ status[e] \in Rows
    BY <1>2, <1>3, <1>4 DEF TypeOK
  <2> QED BY <2>1, <2>2, <2>3, ViewType
<1>6. worker' \in {"item", "end"} /\ (worker' = "end" <=> items = {})
  BY <1>1
<1>7. TypeOK'
  BY <1>1, <1>2, <1>5, <1>6 DEF TypeOK, Phases
<1>8. ViewExact' /\ RunsFit'
  BY <1>1, <1>2, <1>5 DEF OutboxInv, ViewExact, RunsFit, Matches
<1>9. NoneStranded' /\ Phased'
  BY <1>1, <1>2, <1>5, <1>6 DEF OutboxInv, NoneStranded, Phased, Phases
<1>10. OnlyCommitted' /\ RowStates'
  BY <1>1, <1>2, <1>3, <1>4, <1>5 DEF OutboxInv, OnlyCommitted, RowStates, Claimable
<1>11. CallsLeft' /\ Justified' /\ Behind'
  BY <1>1, <1>6 DEF OutboxInv, CallsLeft, CallsAreCounted, Justified, Behind
<1> QED BY <1>7, <1>8, <1>9, <1>10, <1>11 DEF OutboxInv

\* The decision to leave an item pending, to bury it, or to give up.
LEMMA DecideInv ==
    ASSUME OutboxInv, DeferItem \/ Exhausted \/ ClockFails PROVE OutboxInv'
<1>1. TypeOK
  BY DEF OutboxInv
<1>2. /\ UNCHANGED <<durable, pass>> /\ UNCHANGED <<passed, health>>
      /\ \/ worker = "item" /\ worker' \in {"defer", "bury"}
         \/ worker \in {"item", "deliver", "settle"} /\ worker' = "abandon"
  BY DEF DeferItem, Exhausted, ClockFails, AtItem
<1>3. faults' \in 0..MaxFaults /\ lastError' \in {"none", "transient", "refused"}
  <2>1. CASE DeferItem
    BY <1>1, <2>1, Constants DEF DeferItem, Fault, TypeOK
  <2>2. CASE Exhausted
    BY <1>1, <2>2 DEF Exhausted, TypeOK
  <2>3. CASE ClockFails
    BY <1>1, <2>3, Constants DEF ClockFails, Fault, TypeOK
  <2> QED BY <2>1, <2>2, <2>3
<1>4. NoneStranded' /\ Phased' /\ RowStates'
  BY <1>2 DEF OutboxInv, NoneStranded, Phased, RowStates, durable, config, pass, Phases
<1>5. CallsLeft' /\ Behind'
  BY <1>2 DEF OutboxInv, CallsLeft, CallsAreCounted, Behind, durable, config, pass
<1>6. Justified'
  <2>1. ASSUME worker' = "bury" PROVE page[First(page)].attempts = MaxAttempts
    <3>1. Exhausted
      BY <2>1 DEF DeferItem, ClockFails
    <3>2. DOMAIN page # {} /\ IsView(page)
      BY <3>1, <1>1 DEF Exhausted, AtItem, OutboxInv, Phased, TypeOK
    <3>3. page[First(page)] \in Rows /\ ~(page[First(page)].attempts < MaxAttempts)
      BY <3>1, <3>2, FirstItem, ViewType DEF Exhausted, Permitted
    <3>4. page[First(page)].attempts \in 0..MaxAttempts
      BY <3>3 DEF Rows
    <3> QED BY <3>3, <3>4, Constants
  <2> QED BY <1>2, <2>1 DEF OutboxInv, Justified, durable, config, pass
<1>7. worker' \in Phases
  BY <1>2 DEF Phases
<1> QED BY <1>1, <1>2, <1>3, <1>4, <1>5, <1>6, <1>7, WorkerMoves DEF TypeOK

\* Consuming an item without touching its row.
LEMMA DeferredInv == ASSUME OutboxInv, Deferred PROVE OutboxInv'
<1> DEFINE e == First(page)
<1>1. /\ worker = "defer" /\ successes = None
      /\ page' = Drop(page, {e}) /\ after' = e /\ worker' = Onward(page') /\ dirty' = TRUE
      /\ UNCHANGED <<committed, status, archive, calls, rejected, destination, scanLimit, passed,
                     upper, more, run, successes, answer, lastError, health, faults>>
  BY DEF Deferred, durable, config
<1>2. TypeOK /\ DOMAIN page # {} /\ DOMAIN run = {} /\ IsView(page)
  BY <1>1 DEF OutboxInv, Phased, TypeOK
<1>3. e \in DOMAIN page /\ e \in 0..MaxEvents
  BY <1>2, FirstItem, EventsAreNumbers, Constants
<1> HIDE DEF e
<1>4. IsView(page') /\ DOMAIN page' = (DOMAIN page) \ {e}
      /\ \A d \in DOMAIN page' : page'[d] = page[d]
  <2>1. /\ IsView(Drop(page, {e})) /\ DOMAIN Drop(page, {e}) = (DOMAIN page) \ {e}
        /\ \A d \in (DOMAIN page) \ {e} : Drop(page, {e})[d] = page[d]
    BY <1>2, DropView
  <2> QED BY <2>1, <1>1
<1>5. worker' \in {"item", "end"} /\ (worker' = "end" <=> DOMAIN page' = {})
  BY <1>1 DEF Onward
<1>6. TypeOK'
  BY <1>1, <1>2, <1>3, <1>4, <1>5 DEF TypeOK, Phases
<1>7. ViewExact' /\ RunsFit'
  BY <1>1, <1>2, <1>4 DEF OutboxInv, ViewExact, RunsFit, Matches
<1>8. NoneStranded' /\ Phased'
  BY <1>1, <1>2, <1>5 DEF OutboxInv, NoneStranded, Phased, Phases
<1>9. OnlyCommitted' /\ RowStates'
  BY <1>1, <1>4 DEF OutboxInv, OnlyCommitted, RowStates
<1>10. CallsLeft' /\ Justified' /\ Behind'
  BY <1>1, <1>5 DEF OutboxInv, CallsLeft, CallsAreCounted, Justified, Behind
<1> QED BY <1>6, <1>7, <1>8, <1>9, <1>10 DEF OutboxInv

LEMMA EndPageInv == ASSUME OutboxInv, EndPage PROVE OutboxInv'
<1>1. /\ worker = "end" /\ worker' \in {"scan", "refused", "idle"} /\ successes = None
      /\ after' \in {after, 0} /\ more' = FALSE /\ dirty' = FALSE
      /\ UNCHANGED <<committed, status, archive, calls, rejected, destination, scanLimit, passed,
                     upper, page, run, successes, answer, lastError, faults>>
  BY DEF EndPage, NextAfter, durable, config
<1>2. TypeOK /\ DOMAIN run = {} /\ DOMAIN page = {} /\ DOMAIN successes = {}
  BY <1>1, NoneView DEF OutboxInv, Phased
<1>3. health' \in [degraded : BOOLEAN, destination : BOOLEAN]
  BY <1>2 DEF EndPage, TypeOK
<1>4. TypeOK'
  <2>1. after' \in 0..MaxEvents /\ worker' \in Phases
    BY <1>1, <1>2, Constants DEF TypeOK, Phases
  <2> QED BY <1>1, <1>2, <1>3, <2>1 DEF TypeOK
<1>5. ViewExact' /\ RunsFit'
  BY <1>1, <1>2 DEF OutboxInv, ViewExact, RunsFit, Matches
<1>6. NoneStranded' /\ Phased'
  BY <1>1, <1>2 DEF OutboxInv, NoneStranded, Phased, Phases
<1>7. OnlyCommitted' /\ RowStates'
  BY <1>1 DEF OutboxInv, OnlyCommitted, RowStates
<1>8. CallsLeft' /\ Justified' /\ Behind'
  BY <1>1 DEF OutboxInv, CallsLeft, CallsAreCounted, Justified, Behind
<1> QED BY <1>4, <1>5, <1>6, <1>7, <1>8 DEF OutboxInv

-----------------------------------------------------------------------------
(* Steps that write rows.                                                  *)

\* Rewriting one observed row so that it forgets no attempt.
LEMMA OneRow ==
    ASSUME OutboxInv, NEW e \in 1..committed, NEW row \in Rows,
           status[e].attempts <= row.attempts
    PROVE  Writable([d \in Events |-> IF d \in {e} THEN row ELSE status[d]])
BY StatusWritable DEF Writable

\* A view that matches the table tells the state and the attempts of its rows.
LEMMA Observed ==
    ASSUME OutboxInv
    PROVE  /\ \A e \in DOMAIN page : /\ e \in 1..committed /\ e \in Events
                                     /\ status[e] = page[e] /\ page[e] \in Rows
           /\ \A e \in (DOMAIN run) \cup (DOMAIN successes) :
                 e \in 1..committed /\ e \in Events
           /\ \A e \in DOMAIN run : status[e] = run[e] /\ run[e] \in Rows
           /\ \A e \in DOMAIN successes :
                 status[e] = successes[e] /\ successes[e] \in Rows
<1>1. /\ DOMAIN page \subseteq Events /\ DOMAIN run \subseteq Events
      /\ DOMAIN successes \subseteq Events
      /\ \A e \in DOMAIN page : page[e] \in Rows
      /\ \A e \in DOMAIN run : run[e] \in Rows
      /\ \A e \in DOMAIN successes : successes[e] \in Rows
  BY ViewType DEF OutboxInv, TypeOK
<1>2. /\ \A e \in DOMAIN page : status[e] = page[e]
      /\ \A e \in DOMAIN run : status[e] = run[e]
      /\ \A e \in DOMAIN successes : status[e] = successes[e]
  BY DEF OutboxInv, ViewExact, Matches
<1>3. \A e \in (DOMAIN run) \cup (DOMAIN successes) : status[e].state = "delivering"
  BY <1>2 DEF OutboxInv, RowStates
<1> QED BY <1>1, <1>2, <1>3 DEF OutboxInv, OnlyCommitted

\* Attempts are numbers up to the limit.
LEMMA Attempts == \A row \in Rows : row.attempts \in 0..MaxAttempts /\ row.attempts \in Nat
                                    /\ row.attempts <= row.attempts
<1>1. \A row \in Rows : row.attempts \in 0..MaxAttempts
  BY DEF Rows
<1> QED BY <1>1, Constants

\* An interrupted delivery is made pending, and recovery moves past it.
LEMMA NormalizeInv == ASSUME OutboxInv, Normalize PROVE OutboxInv'
<1> DEFINE e == First(page)
           table == IF page[e].state = "delivering"
                    THEN [d \in Events |-> IF d \in {e} THEN Retry(page[d].attempts)
                                                        ELSE status[d]]
                    ELSE status
<1>1. worker = "normalize" /\ DOMAIN page # {} /\ Rearm
      /\ \/ /\ status' = table /\ page' = Drop(page, {e}) /\ after' = e
            /\ UNCHANGED <<committed, archive, calls, rejected, destination, scanLimit,
                            worker, upper, more, run, successes, answer, dirty,
                            lastError, health, faults>>
         \/ WriteFails(table)
  BY DEF Normalize, Put, config
<1>2. TypeOK /\ DOMAIN run = {} /\ DOMAIN successes = {} /\ IsView(page)
  BY <1>1 DEF OutboxInv, Phased, TypeOK
<1>3. e \in DOMAIN page /\ e \in Events /\ \A d \in DOMAIN page : e <= d
  BY <1>1, <1>2, FirstItem
<1>4. e \in 1..committed /\ status[e] = page[e] /\ page[e] \in Rows
  BY <1>3, Observed
<1> HIDE DEF e
<1>5. Retry(page[e].attempts) \in Rows /\ Retry(page[e].attempts).state = "pending"
      /\ Retry(page[e].attempts).attempts = page[e].attempts
  BY <1>4, RowFacts, Attempts
<1>6. Writable(table)
  <2>1. CASE page[e].state = "delivering"
    <3>1. table = [d \in Events |-> IF d \in {e} THEN Retry(page[e].attempts) ELSE status[d]]
      BY <2>1
    <3> QED BY <3>1, <1>4, <1>5, Attempts, OneRow
  <2>2. CASE page[e].state # "delivering"
    BY <2>2, StatusWritable
  <2> QED BY <2>1, <2>2
<1>7. table[e].state # "delivering" /\ \A d \in Events : d # e => table[d] = status[d]
  BY <1>3, <1>4, <1>5
<1> HIDE DEF table
<1>8. CASE WriteFails(table)
  BY <1>1, <1>6, <1>8, WriteFailsInv
<1>9. CASE /\ status' = table /\ page' = Drop(page, {e}) /\ after' = e
           /\ UNCHANGED <<committed, archive, calls, rejected, destination, scanLimit,
                            worker, upper, more, run, successes, answer, dirty,
                            lastError, health, faults>>
  <2>1. IsView(page') /\ DOMAIN page' = (DOMAIN page) \ {e}
        /\ \A d \in DOMAIN page' : page'[d] = page[d]
    <3>1. /\ IsView(Drop(page, {e})) /\ DOMAIN Drop(page, {e}) = (DOMAIN page) \ {e}
          /\ \A d \in (DOMAIN page) \ {e} : Drop(page, {e})[d] = page[d]
      BY <1>2, DropView
    <3> QED BY <3>1, <1>9
  <2>2. TypeOK'
    <3>1. status' \in [Events -> Rows] /\ after' \in 0..MaxEvents /\ passed' \subseteq Events
      BY <1>1, <1>2, <1>3, <1>6, <1>9, EventsAreNumbers, Constants
         DEF Writable, Rearm, TypeOK
    <3> QED BY <1>2, <1>9, <2>1, <3>1 DEF TypeOK
  <2>3. ViewExact' /\ RunsFit'
    <3>1. \A d \in DOMAIN page' : status'[d] = page'[d]
      BY <1>7, <1>9, <2>1, Observed
    <3> QED BY <1>2, <1>9, <3>1 DEF ViewExact, RunsFit, Matches
  <2>4. NoneStranded' /\ Phased' /\ RowStates'
    BY <1>1, <1>2, <1>9 DEF NoneStranded, Phased, RowStates
  <2>5. OnlyCommitted'
    BY <1>6, <1>9, <2>1 DEF OutboxInv, OnlyCommitted, Writable
  <2>6. CallsLeft'
    BY <1>1, <1>6, <1>9, StillCounted DEF CallsLeft
  <2>7. Justified'
    BY <1>1, <1>2, <1>9 DEF Justified
  <2>8. Behind'
    <3>1. ASSUME NEW d \in Events, table[d].state = "delivering"
          PROVE  \/ d \in DOMAIN page'
                 \/ more /\ e < d /\ d <= upper /\ \A c \in DOMAIN page' : c < d
      <4>1. d # e /\ status[d].state = "delivering"
        BY <1>7, <3>1
      <4> QED BY <4>1, <1>1, <1>3, <2>1 DEF OutboxInv, Behind
    <3> QED BY <1>1, <1>9, <3>1 DEF Behind
  <2> QED BY <2>2, <2>3, <2>4, <2>5, <2>6, <2>7, <2>8 DEF OutboxInv
<1> QED BY <1>1, <1>8, <1>9

\* The leading items that are claimed together: due, within their attempts,
\* and accepted together by the destination.
LEMMA FitsTogether ==
    ASSUME OutboxInv, NEW S, NEW T, T \subseteq Events, S \subseteq T, NEW e, Fits(T, e)
    PROVE  Fits(S, e)
<1>1. CASE destination = "webhook" \/ e \in archive
  BY <1>1 DEF Fits
<1>2. CASE ~(destination = "webhook" \/ e \in archive)
  <2> DEFINE s == {d \in S \ archive : d <= e}
             t == {d \in T \ archive : d <= e}
  <2>1. Cardinality(archive) + Cardinality(t) <= Quota
    BY <1>2 DEF Fits
  <2>2. s \subseteq t /\ t \subseteq Events /\ archive \subseteq Events
    BY DEF OutboxInv, TypeOK
  <2>3. Cardinality(s) <= Cardinality(t)
    BY <2>2, EventsFinite, FS_Subset
  <2>4. Cardinality(s) \in Nat /\ Cardinality(t) \in Nat /\ Cardinality(archive) \in Nat
    <3>1. s \subseteq Events
      BY <2>2
    <3> QED BY <3>1, <2>2, EventsFinite
  <2> HIDE DEF s, t
  <2>5. Cardinality(archive) + Cardinality(s) <= Quota
    BY <2>1, <2>3, <2>4, Constants
  <2> QED BY <2>5 DEF Fits, s
<1> QED BY <1>1, <1>2

LEMMA ClaimInv ==
    ASSUME OutboxInv, worker = "item", NEW S, S \subseteq DOMAIN page, S # {}, Claim(S),
           \A e \in S : page[e].attempts < MaxAttempts,
           \A e \in S : Fits(S, e)
    PROVE  OutboxInv'
<1> DEFINE claimed == [e \in S |-> Delivering(page[e].attempts + 1, FALSE)]
           table == [e \in Events |-> IF e \in S THEN claimed[e] ELSE status[e]]
<1>1. Rearm
      /\ \/ /\ status' = table /\ run' = claimed /\ page' = Drop(page, S)
            /\ after' = (CHOOSE e \in S : \A d \in S : d <= e)
            /\ worker' = "deliver"
            /\ lastError' \in {"none", lastError}
            /\ UNCHANGED <<committed, archive, calls, rejected, destination, scanLimit,
                            upper, more, successes, answer, dirty, health, faults>>
         \/ WriteFails(table)
  BY DEF Claim, Put, config
<1>2. TypeOK /\ DOMAIN run = {} /\ IsView(page)
  BY DEF OutboxInv, Phased, TypeOK
<1>3. \A e \in S : /\ e \in Events /\ e \in 1..committed
                    /\ status[e] = page[e] /\ page[e] \in Rows
                    /\ page[e].state \in {"absent", "pending"}
  BY Observed DEF OutboxInv, RowStates
<1>4. ASSUME NEW e \in S
      PROVE  /\ claimed[e] \in Rows /\ claimed[e].state = "delivering"
             /\ claimed[e].attempts = page[e].attempts + 1
             /\ page[e].attempts \in Nat /\ claimed[e].attempts > 0
             /\ status[e].attempts <= claimed[e].attempts
  <2>1. page[e].attempts \in Nat /\ page[e].attempts + 1 \in 0..MaxAttempts
    BY <1>3, Attempts, Constants
  <2>2. claimed[e] = Delivering(page[e].attempts + 1, FALSE)
    OBVIOUS
  <2>3. claimed[e] \in Rows /\ claimed[e].state = "delivering"
        /\ claimed[e].attempts = page[e].attempts + 1
    BY <2>1, <2>2, RowFacts
  <2> HIDE DEF claimed
  <2>4. claimed[e].attempts > 0 /\ page[e].attempts <= claimed[e].attempts
    BY <2>1, <2>3
  <2> QED BY <2>1, <2>3, <2>4, <1>3
<1>5. IsView(claimed) /\ DOMAIN claimed = S
  BY <1>3, <1>4, ViewType
<1> HIDE DEF claimed
<1>6. \A e \in Events : table[e] = IF e \in S THEN claimed[e] ELSE status[e]
  OBVIOUS
<1>7. Writable(table)
  BY <1>3, <1>4, StatusWritable DEF Writable
<1> HIDE DEF table
<1>8. CASE WriteFails(table)
  BY <1>1, <1>7, <1>8, WriteFailsInv
<1>9. CASE /\ status' = table /\ run' = claimed /\ page' = Drop(page, S)
           /\ after' = (CHOOSE e \in S : \A d \in S : d <= e)
           /\ worker' = "deliver"
           /\ lastError' \in {"none", lastError}
           /\ UNCHANGED <<committed, archive, calls, rejected, destination, scanLimit,
                            upper, more, successes, answer, dirty, health, faults>>
  <2>1. IsView(page') /\ DOMAIN page' = (DOMAIN page) \ S
        /\ \A d \in DOMAIN page' : page'[d] = page[d]
    <3>1. /\ IsView(Drop(page, S)) /\ DOMAIN Drop(page, S) = (DOMAIN page) \ S
          /\ \A d \in (DOMAIN page) \ S : Drop(page, S)[d] = page[d]
      BY <1>2, DropView
    <3> QED BY <3>1, <1>9
  <2>2. after' \in 0..MaxEvents
    <3>1. S \in SUBSET Events
      BY <1>3
    <3>2. \E e \in S : \A d \in S : d <= e
      BY <3>1, Ends
    <3>3. after' \in S
      BY <3>2, <1>9
    <3> QED BY <3>1, <3>3, EventsAreNumbers, Constants
  <2>3. TypeOK'
    <3>1. status' \in [Events -> Rows] /\ passed' \subseteq Events /\ worker' \in Phases
      BY <1>1, <1>2, <1>7, <1>9 DEF Writable, Rearm, TypeOK, Phases
    <3> QED BY <1>2, <1>5, <1>9, <2>1, <2>2, <3>1 DEF TypeOK
  <2>4. \A e \in DOMAIN successes : e \notin S
    BY <1>3, Observed DEF OutboxInv, RowStates
  <2>5. ViewExact'
    <3>1. \A d \in DOMAIN page' : status'[d] = page'[d]
      BY <1>6, <1>9, <2>1, Observed
    <3>2. \A d \in DOMAIN run' : status'[d] = run'[d]
      BY <1>3, <1>5, <1>6, <1>9
    <3>3. \A d \in DOMAIN successes' : status'[d] = successes'[d]
      BY <1>6, <1>9, <2>4, Observed
    <3> QED BY <3>1, <3>2, <3>3 DEF ViewExact, Matches
  <2>6. RunsFit'
    BY <1>5, <1>9 DEF RunsFit, Fits
  <2>7. NoneStranded'
    BY <1>2, <1>5, <1>6, <1>9 DEF OutboxInv, NoneStranded, Phases
  <2>8. Phased'
    BY <1>5, <1>9 DEF Phased
  <2>9. OnlyCommitted'
    BY <1>7, <1>9, <2>1 DEF OutboxInv, OnlyCommitted, Writable
  <2>10. RowStates'
    BY <1>4, <1>5, <1>9, <2>1, <2>4 DEF OutboxInv, RowStates
  <2>11. CallsLeft'
    <3>1. ASSUME NEW e \in S PROVE calls[e] < claimed[e].attempts
      <4>1. calls[e] <= page[e].attempts /\ calls[e] \in Nat
        BY <1>2, <1>3 DEF OutboxInv, CallsLeft, CallsAreCounted, TypeOK
      <4> QED BY <4>1, <1>4
    <3>2. CallsAreCounted'
      BY <1>7, <1>9, StillCounted
    <3> QED BY <3>1, <3>2, <1>5, <1>9 DEF CallsLeft
  <2>12. Justified' /\ Behind'
    BY <1>9 DEF OutboxInv, Justified, Behind
  <2> QED BY <2>3, <2>5, <2>6, <2>7, <2>8, <2>9, <2>10, <2>11, <2>12 DEF OutboxInv
<1> QED BY <1>1, <1>8, <1>9

\* A claimed run is a nonempty group of due, permitted items that fit together.
LEMMA RunFacts ==
    ASSUME OutboxInv, AtItem, NEW n \in 1..Cardinality(Admissible(Candidates))
    PROVE  LET S == FirstOf(Admissible(Candidates), n)
           IN  /\ S \subseteq DOMAIN page /\ S # {}
               /\ \A e \in S : page[e].attempts < MaxAttempts
               /\ \A e \in S : Fits(S, e)
<1> DEFINE A == Admissible(Candidates)
           S == FirstOf(A, n)
<1>1. DOMAIN page \subseteq Events /\ \A e \in Events : e <= e
  BY ViewType, EventsAreNumbers DEF OutboxInv, TypeOK
<1>2. FirstOf(DOMAIN page, ClaimGroup) \subseteq DOMAIN page
  BY DEF FirstOf
<1>3. Candidates \subseteq DOMAIN page /\ \A e \in Candidates : Permitted(e)
  BY <1>1, <1>2 DEF Candidates
<1>4. A \subseteq Candidates /\ \A e \in A : Fits(Candidates, e)
  BY <1>1, <1>3 DEF Admissible
<1>5. A \subseteq Events /\ Candidates \subseteq Events
  BY <1>1, <1>3, <1>4
<1>6. S # {}
  <2>1. A # {}
    BY <1>5, EventsFinite, FS_EmptySet
  <2>2. A \in SUBSET Events
    BY <1>5
  <2>3. PICK e \in A : \A d \in A : e <= d
    BY <2>1, <2>2, Ends
  <2>4. {d \in A : d < e} = {}
    BY <2>3, <1>5, EventsAreNumbers
  <2>5. Cardinality({d \in A : d < e}) < n
    <3>1. n \in Nat /\ 0 < n
      BY <1>5, EventsFinite
    <3> QED BY <3>1, <2>4, FS_EmptySet
  <2> QED BY <2>5 DEF FirstOf
<1>7. S \subseteq A
  BY DEF FirstOf
<1> HIDE DEF A, S
<1>8. S \subseteq Candidates
  BY <1>4, <1>7
<1>9. \A e \in S : Fits(S, e)
  BY <1>4, <1>5, <1>7, <1>8, FitsTogether
<1>10. S \subseteq DOMAIN page /\ \A e \in S : page[e].attempts < MaxAttempts
  BY <1>3, <1>8 DEF Permitted
<1> QED BY <1>6, <1>9, <1>10 DEF S, A

LEMMA DispatchRunInv == ASSUME OutboxInv, DispatchRun PROVE OutboxInv'
<1>1. PICK n \in 1..Cardinality(Admissible(Candidates)) :
           Claim(FirstOf(Admissible(Candidates), n))
  BY DEF DispatchRun
<1>2. AtItem /\ worker = "item"
  BY DEF DispatchRun, AtItem
<1> DEFINE S == FirstOf(Admissible(Candidates), n)
<1>3. /\ S \subseteq DOMAIN page /\ S # {}
      /\ \A e \in S : page[e].attempts < MaxAttempts
      /\ \A e \in S : Fits(S, e)
  BY <1>2, RunFacts
<1>4. Claim(S)
  BY <1>1
<1> HIDE DEF S
<1> QED BY <1>2, <1>3, <1>4, ClaimInv

\* Giving an event up for want of attempts.
LEMMA DeadLetterPendingInv == ASSUME OutboxInv, DeadLetterPending PROVE OutboxInv'
<1> DEFINE e == First(page)
           row == DeadLetter(page[e].attempts)
           table == [d \in Events |-> IF d \in {e} THEN row ELSE status[d]]
<1>1. /\ worker = "bury" /\ successes = None /\ Rearm
      /\ \/ /\ status' = table /\ page' = Drop(page, {e}) /\ after' = e
            /\ worker' = Onward(page') /\ dirty' = TRUE
            /\ UNCHANGED <<committed, archive, calls, rejected, destination, scanLimit, upper, more,
                           run, successes, answer, lastError, health, faults>>
         \/ WriteFails(table)
  <2>1. Put({e}, LAMBDA d : DeadLetter(page[d].attempts)) = table
    BY DEF Put
  <2> QED BY <2>1 DEF DeadLetterPending, config
<1>2. TypeOK /\ DOMAIN run = {} /\ DOMAIN page # {} /\ IsView(page)
      /\ DOMAIN successes = {}
  BY <1>1, NoneView DEF OutboxInv, Phased, TypeOK
<1>3. e \in DOMAIN page /\ e \in Events
  BY <1>2, FirstItem
<1>4. e \in 1..committed /\ status[e] = page[e] /\ page[e] \in Rows
  BY <1>3, Observed
<1> HIDE DEF e
<1>5. row \in Rows /\ row.state = "dead" /\ row.attempts = page[e].attempts
  BY <1>4, RowFacts, Attempts
<1> HIDE DEF row
<1>6. Writable(table)
  BY <1>4, <1>5, Attempts, OneRow
<1>7. table[e] = row /\ \A d \in Events : d # e => table[d] = status[d]
  BY <1>3
<1> HIDE DEF table
<1>8. CASE WriteFails(table)
  BY <1>1, <1>6, <1>8, WriteFailsInv
<1>9. CASE /\ status' = table /\ page' = Drop(page, {e}) /\ after' = e
           /\ worker' = Onward(page') /\ dirty' = TRUE
           /\ UNCHANGED <<committed, archive, calls, rejected, destination, scanLimit, upper, more,
                           run, successes, answer, lastError, health, faults>>
  <2>1. IsView(page') /\ DOMAIN page' = (DOMAIN page) \ {e}
        /\ \A d \in DOMAIN page' : page'[d] = page[d]
    <3>1. /\ IsView(Drop(page, {e})) /\ DOMAIN Drop(page, {e}) = (DOMAIN page) \ {e}
          /\ \A d \in (DOMAIN page) \ {e} : Drop(page, {e})[d] = page[d]
      BY <1>2, DropView
    <3> QED BY <3>1, <1>9
  <2>2. worker' \in {"item", "end"} /\ (worker' = "end" <=> DOMAIN page' = {})
    BY <1>9 DEF Onward
  <2>3. TypeOK'
    <3>1. status' \in [Events -> Rows] /\ after' \in 0..MaxEvents /\ passed' \subseteq Events
      BY <1>1, <1>2, <1>3, <1>6, <1>9, EventsAreNumbers, Constants
         DEF Writable, Rearm, TypeOK
    <3> QED BY <1>2, <1>9, <2>1, <2>2, <3>1 DEF TypeOK, Phases
  <2>4. ViewExact' /\ RunsFit'
    <3>1. \A d \in DOMAIN page' : status'[d] = page'[d]
      BY <1>7, <1>9, <2>1, Observed
    <3> QED BY <1>2, <1>9, <3>1 DEF ViewExact, RunsFit, Matches
  <2>5. NoneStranded' /\ Phased'
    BY <1>1, <1>2, <1>5, <1>7, <1>9, <2>2 DEF OutboxInv, NoneStranded, Phased, Phases
  <2>6. RowStates'
    BY <1>1, <1>2, <1>9, <2>1 DEF OutboxInv, RowStates
  <2>7. OnlyCommitted'
    BY <1>6, <1>9, <2>1 DEF OutboxInv, OnlyCommitted, Writable
  <2>8. CallsLeft'
    BY <1>6, <1>9, <2>2, StillCounted DEF CallsLeft
  <2>9. Justified' /\ Behind'
    BY <1>2, <1>9, <2>2 DEF Justified, Behind
  <2> QED BY <2>3, <2>4, <2>5, <2>6, <2>7, <2>8, <2>9 DEF OutboxInv
<1> QED BY <1>1, <1>8, <1>9

\* Renewing the lease of a claimed event before its call.
LEMMA RenewLeaseInv == ASSUME OutboxInv, RenewLease PROVE OutboxInv'
<1> DEFINE e == First(run)
           row == Delivering(run[e].attempts, TRUE)
           table == [d \in Events |-> IF d \in {e} THEN row ELSE status[d]]
<1>1. /\ worker = "deliver" /\ Rearm
      /\ \/ /\ status' = table /\ run' = [run EXCEPT ![e] = row]
            /\ UNCHANGED <<committed, archive, calls, rejected, destination, scanLimit, worker, after,
                           upper, page, more, successes, answer, dirty, lastError, health,
                           faults>>
         \/ WriteFails(table)
  <2>1. Put({e}, LAMBDA d : row) = table
    BY DEF Put
  <2> QED BY <2>1 DEF RenewLease, AtDelivery, RunWith, config
<1>2. TypeOK /\ DOMAIN run # {} /\ IsView(run)
  BY <1>1 DEF OutboxInv, Phased, TypeOK
<1>3. e \in DOMAIN run /\ e \in Events
  BY <1>2, FirstItem
<1>4. e \in 1..committed /\ status[e] = run[e] /\ run[e] \in Rows
  BY <1>3, Observed
<1> HIDE DEF e
<1>5. row \in Rows /\ row.state = "delivering" /\ row.attempts = run[e].attempts
  BY <1>4, RowFacts, Attempts, ZenonT(40)
<1> HIDE DEF row
<1>6. Writable(table)
  BY <1>4, <1>5, Attempts, OneRow
<1>7. table[e] = row /\ \A d \in Events : d # e => table[d] = status[d]
  BY <1>3
<1> HIDE DEF table
<1>8. CASE WriteFails(table)
  BY <1>1, <1>6, <1>8, WriteFailsInv
<1>9. CASE /\ status' = table /\ run' = [run EXCEPT ![e] = row]
           /\ UNCHANGED <<committed, archive, calls, rejected, destination, scanLimit, worker, after,
                           upper, page, more, successes, answer, dirty, lastError, health,
                           faults>>
  <2>1. IsView(run') /\ DOMAIN run' = DOMAIN run /\ run'[e] = row
        /\ \A d \in DOMAIN run : d # e => run'[d] = run[d]
    <3>1. DOMAIN run' = DOMAIN run /\ run'[e] = row
          /\ \A d \in DOMAIN run : d # e => run'[d] = run[d]
      BY <1>3, <1>9
    <3>2. run' = [d \in DOMAIN run' |-> run'[d]]
      BY <1>9
    <3>3. DOMAIN run \subseteq Events /\ \A d \in DOMAIN run : run[d] \in Rows
      BY <1>2, ViewType
    <3>4. \A d \in DOMAIN run' : run'[d] \in Rows
      BY <1>5, <3>1, <3>3
    <3> QED BY <3>1, <3>2, <3>3, <3>4, ViewType
  <2>2. TypeOK'
    <3>1. status' \in [Events -> Rows] /\ passed' \subseteq Events
      BY <1>1, <1>2, <1>6, <1>9 DEF Writable, Rearm, TypeOK
    <3> QED BY <1>2, <1>9, <2>1, <3>1 DEF TypeOK
  <2>3. e \notin DOMAIN page /\ e \notin DOMAIN successes
    BY <1>1, <1>3, Observed DEF OutboxInv, RowStates
  <2>4. ViewExact'
    BY <1>7, <1>9, <2>1, <2>3, Observed DEF ViewExact, Matches
  <2>5. RunsFit'
    BY <1>9, <2>1 DEF OutboxInv, RunsFit, Fits
  <2>6. NoneStranded' /\ Phased'
    BY <1>1, <1>3, <1>7, <1>9, <2>1 DEF OutboxInv, NoneStranded, Phased
  <2>7. RowStates'
    <3>1. \A d \in DOMAIN run' : run'[d].state = "delivering" /\ run'[d].attempts > 0
      BY <1>3, <1>5, <2>1 DEF OutboxInv, RowStates
    <3> QED BY <1>9, <2>1, <3>1 DEF OutboxInv, RowStates
  <2>8. OnlyCommitted'
    BY <1>6, <1>9 DEF OutboxInv, OnlyCommitted, Writable
  <2>9. CallsLeft'
    <3>1. CallsAreCounted'
      BY <1>6, <1>9, StillCounted
    <3>2. \A d \in DOMAIN run' : calls[d] < run'[d].attempts
      BY <1>1, <1>3, <1>5, <2>1 DEF OutboxInv, CallsLeft
    <3> QED BY <3>1, <3>2, <1>1, <1>9 DEF CallsLeft
  <2>10. Justified' /\ Behind'
    BY <1>1, <1>9 DEF OutboxInv, Justified, Behind
  <2> QED BY <2>2, <2>4, <2>5, <2>6, <2>7, <2>8, <2>9, <2>10 DEF OutboxInv
<1> QED BY <1>1, <1>8, <1>9

\* Completing a group of accepted events.
LEMMA FlushInv == ASSUME OutboxInv, Flush PROVE OutboxInv'
<1> DEFINE S == DOMAIN successes
           table == [d \in Events |-> IF d \in S THEN Delivered(successes[d].attempts)
                                                 ELSE status[d]]
<1>1. /\ successes # None /\ Rearm
      /\ \/ /\ status' = table /\ successes' = None
            /\ UNCHANGED <<committed, archive, calls, rejected, destination, scanLimit, worker, after,
                           upper, page, more, run, answer, dirty, lastError, health,
                           faults>>
         \/ WriteFails(table)
  <2>1. Put(S, LAMBDA d : Delivered(successes[d].attempts)) = table
    BY DEF Put
  <2> QED BY <2>1 DEF Flush, FlushDue, config
<1>2. TypeOK /\ IsView(successes) /\ S # {}
  BY <1>1, NoneView DEF OutboxInv, TypeOK
<1>3. worker \notin {"down", "recover", "normalize", "failed", "scan", "idle", "refused"}
  BY <1>2 DEF OutboxInv, Phased
<1>4. \A d \in S : /\ d \in 1..committed /\ d \in Events
                   /\ status[d] = successes[d] /\ successes[d] \in Rows
  BY Observed
<1>5. \A d \in S : /\ Delivered(successes[d].attempts) \in Rows
                   /\ Delivered(successes[d].attempts).state = "delivered"
                   /\ Delivered(successes[d].attempts).attempts = status[d].attempts
  BY <1>4, RowFacts, Attempts
<1>6. /\ \A d \in S : table[d] \in Rows /\ table[d].state = "delivered"
                      /\ table[d].attempts = status[d].attempts
      /\ \A d \in Events : d \notin S => table[d] = status[d]
      /\ table \in [Events -> Rows]
  BY <1>2, <1>4, <1>5 DEF TypeOK
<1> HIDE DEF table
<1>7. Writable(table)
  BY <1>4, <1>6, Attempts, StatusWritable DEF Writable
<1>8. CASE WriteFails(table)
  BY <1>1, <1>7, <1>8, WriteFailsInv
<1>9. CASE /\ status' = table /\ successes' = None
           /\ UNCHANGED <<committed, archive, calls, rejected, destination, scanLimit, worker, after,
                          upper, page, more, run, answer, dirty, lastError, health,
                          faults>>
  <2>1. IsView(successes') /\ DOMAIN successes' = {}
    BY <1>9, NoneView
  <2>2. TypeOK'
    <3>1. passed' \subseteq Events
      BY <1>1, <1>2 DEF Rearm, TypeOK
    <3> QED BY <1>2, <1>6, <1>9, <2>1, <3>1 DEF TypeOK
  <2>3. \A d \in (DOMAIN page) \cup (DOMAIN run) : d \notin S
    BY <1>3, <1>4, Observed DEF OutboxInv, RowStates
  <2>4. ViewExact'
    BY <1>6, <1>9, <2>1, <2>3, Observed DEF ViewExact, Matches
  <2>5. RunsFit'
    BY <1>9 DEF OutboxInv, RunsFit, Fits
  <2>6. NoneStranded' /\ Phased'
    BY <1>3, <1>6, <1>9, <2>1 DEF OutboxInv, NoneStranded, Phased, TypeOK
  <2>7. RowStates'
    BY <1>9, <2>1 DEF OutboxInv, RowStates
  <2>8. OnlyCommitted'
    BY <1>7, <1>9 DEF OutboxInv, OnlyCommitted, Writable
  <2>9. CallsLeft'
    <3>1. CallsAreCounted'
      BY <1>7, <1>9, StillCounted
    <3> QED BY <3>1, <1>9 DEF OutboxInv, CallsLeft, First
  <2>10. Justified' /\ Behind'
    BY <1>3, <1>9, <2>1 DEF OutboxInv, Justified, Behind, First
  <2> QED BY <2>2, <2>4, <2>5, <2>6, <2>7, <2>8, <2>9, <2>10 DEF OutboxInv
<1> QED BY <1>1, <1>8, <1>9

\* Settling a failed call: the row is retried or given up.
LEMMA SettleInv == ASSUME OutboxInv, Settle PROVE OutboxInv'
<1> DEFINE e == First(run)
           row == Settled(e)
           table == [d \in Events |-> IF d \in {e} THEN row ELSE status[d]]
<1>1. /\ worker = "settle" /\ successes = None /\ Rearm
      /\ \/ /\ status' = table /\ run' = Drop(run, {e}) /\ worker' = AfterRun(run')
            /\ answer' = "none" /\ dirty' = TRUE
            /\ UNCHANGED <<committed, archive, calls, rejected, destination, scanLimit, after, upper,
                           page, more, successes, lastError, health, faults>>
         \/ WriteFails(table)
  <2>1. Put({e}, LAMBDA d : Settled(d)) = table
    BY DEF Put
  <2> QED BY <2>1 DEF Settle, config
<1>2. TypeOK /\ DOMAIN run # {} /\ IsView(run) /\ DOMAIN successes = {}
  BY <1>1, NoneView DEF OutboxInv, Phased, TypeOK
<1>3. e \in DOMAIN run /\ e \in Events
  BY <1>2, FirstItem
<1>4. e \in 1..committed /\ status[e] = run[e] /\ run[e] \in Rows
  BY <1>3, Observed
<1>5. row \in Rows /\ row.state \in {"pending", "dead"} /\ row.attempts = run[e].attempts
  BY <1>4, RowFacts, Attempts DEF Settled
<1> HIDE DEF row
<1>6. Writable(table)
  BY <1>4, <1>5, Attempts, OneRow
<1>7. table[e] = row /\ \A d \in Events : d # e => table[d] = status[d]
  BY <1>3
<1> HIDE DEF table
<1>8. CASE WriteFails(table)
  BY <1>1, <1>6, <1>8, WriteFailsInv
<1>9. CASE /\ status' = table /\ run' = Drop(run, {e}) /\ worker' = AfterRun(run')
           /\ answer' = "none" /\ dirty' = TRUE
           /\ UNCHANGED <<committed, archive, calls, rejected, destination, scanLimit, after, upper,
                           page, more, successes, lastError, health, faults>>
  <2>1. IsView(run') /\ DOMAIN run' = (DOMAIN run) \ {e}
        /\ \A d \in DOMAIN run' : run'[d] = run[d]
    <3>1. /\ IsView(Drop(run, {e})) /\ DOMAIN Drop(run, {e}) = (DOMAIN run) \ {e}
          /\ \A d \in (DOMAIN run) \ {e} : Drop(run, {e})[d] = run[d]
      BY <1>2, DropView
    <3> QED BY <3>1, <1>9
  <2>2. /\ worker' \in {"deliver", "item", "end"}
        /\ worker' = "deliver" <=> DOMAIN run' # {}
        /\ worker' = "item" => DOMAIN page # {}
        /\ worker' = "end" => DOMAIN page = {}
    BY <1>9 DEF AfterRun, Onward
  <2>3. TypeOK'
    <3>1. status' \in [Events -> Rows] /\ passed' \subseteq Events
      BY <1>1, <1>2, <1>6, <1>9 DEF Writable, Rearm, TypeOK
    <3> QED BY <1>2, <1>9, <2>1, <2>2, <3>1 DEF TypeOK, Phases
  <2>4. e \notin DOMAIN page
    BY <1>1, <1>3, Observed DEF OutboxInv, RowStates
  <2>5. ViewExact'
    BY <1>2, <1>7, <1>9, <2>1, <2>4, Observed DEF ViewExact, Matches
  <2>6. RunsFit'
    <3>1. DOMAIN run \subseteq Events
      BY <1>2, ViewType
    <3>2. \A d \in DOMAIN run' : Fits(DOMAIN run', d)
      BY <2>1, <3>1, FitsTogether DEF OutboxInv, RunsFit
    <3> QED BY <3>2, <1>9 DEF RunsFit, Fits
  <2>7. NoneStranded'
    BY <1>1, <1>2, <1>5, <1>7, <1>9, <2>1 DEF OutboxInv, NoneStranded, Phases
  <2>8. Phased'
    BY <1>2, <1>9, <2>1, <2>2 DEF OutboxInv, Phased
  <2>9. RowStates'
    BY <1>1, <1>9, <2>1 DEF OutboxInv, RowStates
  <2>10. OnlyCommitted'
    BY <1>6, <1>9 DEF OutboxInv, OnlyCommitted, Writable
  <2>11. CallsLeft'
    <3>1. CallsAreCounted'
      BY <1>6, <1>9, StillCounted
    <3>2. \A d \in DOMAIN run' : calls[d] < run'[d].attempts
      BY <1>1, <2>1 DEF OutboxInv, CallsLeft
    <3> QED BY <3>1, <3>2, <1>9, <2>2 DEF CallsLeft
  <2>12. Justified' /\ Behind'
    BY <1>9, <2>2 DEF OutboxInv, Justified, Behind
  <2> QED BY <2>3, <2>5, <2>6, <2>7, <2>8, <2>9, <2>10, <2>11, <2>12 DEF OutboxInv
<1> QED BY <1>1, <1>8, <1>9

\* What the destination takes from a run was counted in it: the first event of
\* the run moves from what the run still needs to what the archive holds.
LEMMA FitsAfterTaking ==
    ASSUME OutboxInv, NEW S, S \subseteq Events, NEW e \in S, NEW A, A \in {archive, archive \cup {e}},
           NEW d \in S, e <= d, Fits(S, d)
    PROVE  \/ destination = "webhook" \/ d \in A
           \/ Cardinality(A) + Cardinality({x \in S \ A : x <= d}) <= Quota
<1>1. CASE destination = "webhook" \/ d \in archive \/ A = archive \/ e \in archive
  <2>1. archive \cup {e} = archive \/ e \notin archive
    OBVIOUS
  <2> QED BY <1>1, <2>1 DEF Fits
<1>2. CASE ~(destination = "webhook" \/ d \in archive \/ A = archive \/ e \in archive)
  <2> DEFINE t == {x \in S \ archive : x <= d}
             u == {x \in S \ A : x <= d}
  <2>1. A = archive \cup {e} /\ e \in t /\ u = t \ {e}
    BY <1>2
  <2>2. Cardinality(archive) + Cardinality(t) <= Quota
    BY <1>2 DEF Fits
  <2>3. t \subseteq Events /\ archive \subseteq Events
    BY DEF OutboxInv, TypeOK
  <2>4. IsFiniteSet(t) /\ IsFiniteSet(archive)
        /\ Cardinality(t) \in Nat /\ Cardinality(archive) \in Nat
    BY <2>3, EventsFinite
  <2> HIDE DEF t, u
  <2>5. Cardinality(u) = Cardinality(t) - 1
    BY <2>1, <2>4, FS_RemoveElement
  <2>6. Cardinality(A) = Cardinality(archive) + 1
    BY <1>2, <2>1, <2>4, FS_AddElement
  <2>7. Cardinality(A) + Cardinality(u) <= Quota
    BY <2>2, <2>4, <2>5, <2>6, Constants
  <2> QED BY <2>7 DEF u
<1> QED BY <1>1, <1>2

\* One call to the destination, whatever it answers.
LEMMA DeliverClaimedInv == ASSUME OutboxInv, DeliverClaimed PROVE OutboxInv'
<1> DEFINE e == First(run)
<1>1. /\ worker = "deliver" /\ calls' = [calls EXCEPT ![e] = @ + 1]
      /\ Accepted(e) \/ AcceptedUnrecorded(e) \/ Retryable(e) \/ PermanentFailure(e)
      /\ UNCHANGED <<committed, status, destination, scanLimit, passed, after, upper, page, more,
                     dirty, health>>
  BY DEF DeliverClaimed, AtDelivery, config
<1>2. TypeOK /\ DOMAIN run # {} /\ IsView(run) /\ IsView(successes)
      /\ DOMAIN run \subseteq Events
  BY <1>1, ViewType DEF OutboxInv, Phased, TypeOK
<1>3. e \in DOMAIN run /\ e \in Events /\ \A d \in DOMAIN run : e <= d
  BY <1>2, FirstItem
<1>4. status[e] = run[e] /\ run[e] \in Rows
  BY <1>3, Observed
<1>5. /\ calls' \in [Events -> Nat]
      /\ \A d \in Events : d # e => calls'[d] = calls[d]
      /\ calls'[e] <= status[e].attempts
  <2>1. calls[e] < run[e].attempts /\ calls[e] \in Nat /\ run[e].attempts \in Nat
    BY <1>1, <1>2, <1>3, <1>4, Attempts DEF OutboxInv, CallsLeft, TypeOK
  <2>2. calls'[e] = calls[e] + 1 /\ \A d \in Events : d # e => calls'[d] = calls[d]
    BY <1>1, <1>2, <1>3 DEF TypeOK
  <2>3. calls' \in [Events -> Nat]
    <3> HIDE DEF e
    <3>1. calls[e] + 1 \in Nat
      BY <2>1
    <3> QED BY <3>1, <1>1, <1>2 DEF TypeOK
  <2> QED BY <2>1, <2>2, <2>3, <1>4
<1>6. CallsAreCounted'
  BY <1>1, <1>5 DEF OutboxInv, CallsLeft, CallsAreCounted
<1>7. OnlyCommitted'
  BY <1>1 DEF OutboxInv, OnlyCommitted
<1>8. archive' \in {archive, archive \cup {e}} /\ archive' \subseteq Events
  BY <1>1, <1>2, <1>3 DEF Accepted, AcceptedUnrecorded, Retryable, PermanentFailure, TypeOK
<1>9. \A d \in DOMAIN run : d # e => calls'[d] < run[d].attempts
  BY <1>1, <1>2, <1>5 DEF OutboxInv, CallsLeft
<1>10. CASE Accepted(e)
  <2>1. /\ archive' = archive \cup {e} /\ worker' = AfterRun(run') /\ run' = Drop(run, {e})
        /\ lastError' = "none" /\ UNCHANGED <<answer, rejected, faults>>
        /\ successes' = [d \in DOMAIN successes \cup {e} |->
                            IF d = e THEN run[e] ELSE successes[d]]
    BY <1>10 DEF Accepted
  <2>2. IsView(run') /\ DOMAIN run' = (DOMAIN run) \ {e}
        /\ \A d \in DOMAIN run' : run'[d] = run[d]
    <3>1. /\ IsView(Drop(run, {e})) /\ DOMAIN Drop(run, {e}) = (DOMAIN run) \ {e}
          /\ \A d \in (DOMAIN run) \ {e} : Drop(run, {e})[d] = run[d]
      BY <1>2, DropView
    <3> QED BY <3>1, <2>1
  <2>3. IsView(successes') /\ DOMAIN successes' = (DOMAIN successes) \cup {e}
        /\ successes'[e] = run[e] /\ \A d \in DOMAIN successes : d # e => successes'[d] = successes[d]
    <3>1. DOMAIN successes' = (DOMAIN successes) \cup {e} /\ successes'[e] = run[e]
          /\ \A d \in DOMAIN successes : d # e => successes'[d] = successes[d]
      BY <2>1
    <3>2. successes' = [d \in DOMAIN successes' |-> successes'[d]]
      BY <2>1
    <3>3. DOMAIN successes \subseteq Events /\ \A d \in DOMAIN successes : successes[d] \in Rows
      BY <1>2, ViewType
    <3>4. DOMAIN successes' \subseteq Events /\ \A d \in DOMAIN successes' : successes'[d] \in Rows
      BY <1>3, <1>4, <3>1, <3>3
    <3> QED BY <3>1, <3>2, <3>4, ViewType
  <2>4. /\ worker' \in {"deliver", "item", "end"}
        /\ worker' = "deliver" <=> DOMAIN run' # {}
        /\ worker' = "item" => DOMAIN page # {}
        /\ worker' = "end" => DOMAIN page = {}
    BY <2>1, <1>1 DEF AfterRun, Onward
  <2>5. TypeOK'
    BY <1>1, <1>2, <1>5, <1>8, <2>1, <2>2, <2>3, <2>4 DEF TypeOK, Phases
  <2>6. ViewExact'
    <3>1. \A d \in DOMAIN successes' : status[d] = successes'[d]
      BY <1>4, <2>3, Observed
    <3> QED BY <1>1, <2>2, <3>1, Observed DEF ViewExact, Matches
  <2>7. RunsFit'
    <3>1. ASSUME NEW d \in DOMAIN run'
          PROVE  \/ destination = "webhook" \/ d \in archive'
                 \/ Cardinality(archive') + Cardinality({x \in DOMAIN run' \ archive' : x <= d})
                      <= Quota
      <4>1. d \in DOMAIN run /\ e <= d /\ Fits(DOMAIN run, d)
        BY <2>2, <1>3 DEF OutboxInv, RunsFit
      <4>2. \/ destination = "webhook" \/ d \in archive'
            \/ Cardinality(archive') + Cardinality({x \in DOMAIN run \ archive' : x <= d}) <= Quota
        BY <4>1, <1>2, <1>3, <1>8, FitsAfterTaking
      <4>3. {x \in DOMAIN run \ archive' : x <= d} = {x \in DOMAIN run' \ archive' : x <= d}
        BY <2>1, <2>2
      <4> QED BY <4>2, <4>3
    <3> QED BY <1>1, <3>1 DEF RunsFit, Fits
  <2>8. NoneStranded' /\ Phased'
    BY <1>1, <1>3, <2>2, <2>3, <2>4 DEF OutboxInv, NoneStranded, Phased, Phases
  <2>9. RowStates'
    <3>1. DOMAIN run' \cap DOMAIN successes' = {}
      BY <2>2, <2>3 DEF OutboxInv, RowStates
    <3>2. \A d \in DOMAIN successes' : successes'[d].state = "delivering" /\ successes'[d].attempts > 0
      BY <1>3, <2>3 DEF OutboxInv, RowStates
    <3> QED BY <1>1, <2>2, <3>1, <3>2 DEF OutboxInv, RowStates
  <2>10. CallsLeft'
    BY <1>6, <1>9, <2>2, <2>4 DEF CallsLeft
  <2>11. Justified' /\ Behind'
    BY <1>1, <2>1, <2>3, <2>4 DEF OutboxInv, Justified, Behind
  <2> QED BY <1>7, <2>5, <2>6, <2>7, <2>8, <2>9, <2>10, <2>11 DEF OutboxInv
<1>11. CASE AcceptedUnrecorded(e) \/ Retryable(e) \/ PermanentFailure(e)
  <2>1. /\ worker' \in {"abandon", "settle"} /\ UNCHANGED <<run, successes>>
        /\ worker' = "settle" => answer' # "none" /\ (answer' = "permanent" => e \in rejected')
        /\ answer' \in {"none", "retryable", "permanent"} /\ rejected' \subseteq Events
        /\ lastError' \in {"none", "transient", "refused"} /\ faults' \in 0..MaxFaults
    <3>1. Fault => faults' \in 0..MaxFaults
      BY <1>2, Constants DEF Fault, TypeOK
    <3>2. CASE AcceptedUnrecorded(e)
      BY <1>2, <3>1, <3>2 DEF AcceptedUnrecorded, TypeOK
    <3>3. CASE Retryable(e)
      BY <1>2, <3>1, <3>3 DEF Retryable, TypeOK
    <3>4. CASE PermanentFailure(e)
      BY <1>2, <1>3, <3>1, <3>4 DEF PermanentFailure, TypeOK
    <3> QED BY <1>11, <3>2, <3>3, <3>4
  <2>2. TypeOK'
    BY <1>1, <1>2, <1>5, <1>8, <2>1 DEF TypeOK, Phases
  <2>3. ViewExact'
    BY <1>1, <2>1 DEF OutboxInv, ViewExact, Matches
  <2>4. RunsFit'
    <3>1. ASSUME NEW d \in DOMAIN run
          PROVE  \/ destination = "webhook" \/ d \in archive'
                 \/ Cardinality(archive') + Cardinality({x \in DOMAIN run \ archive' : x <= d})
                      <= Quota
      <4>1. e <= d /\ Fits(DOMAIN run, d)
        BY <1>3 DEF OutboxInv, RunsFit
      <4> QED BY <4>1, <1>2, <1>3, <1>8, FitsAfterTaking
    <3> QED BY <1>1, <2>1, <3>1 DEF RunsFit, Fits
  <2>5. NoneStranded' /\ Phased'
    BY <1>1, <1>2, <2>1 DEF OutboxInv, NoneStranded, Phased, Phases
  <2>6. RowStates'
    BY <1>1, <2>1 DEF OutboxInv, RowStates
  <2>7. CallsLeft'
    BY <1>6, <1>9, <2>1 DEF CallsLeft, First
  <2>8. Justified' /\ Behind'
    <3>1. First(run)' = e
      BY <2>1
    <3> QED BY <1>1, <1>8, <2>1, <3>1 DEF OutboxInv, Justified, Behind
  <2> QED BY <1>7, <2>2, <2>3, <2>4, <2>5, <2>6, <2>7, <2>8 DEF OutboxInv
<1> QED BY <1>1, <1>10, <1>11

-----------------------------------------------------------------------------
(* The invariant.                                                          *)

LEMMA InvInit == ASSUME Init PROVE OutboxInv
<1>1. page = None /\ run = None /\ successes = None /\ worker = "down"
      /\ after = 0 /\ upper = 0 /\ committed = 0 /\ answer = "none"
      /\ status = [e \in Events |-> Absent] /\ calls = [e \in Events |-> 0]
  BY DEF Init
<1>2. IsView(None) /\ DOMAIN None = {}
  BY NoneView
<1>3. TypeOK
  <2>1. status \in [Events -> Rows] /\ calls \in [Events -> Nat]
    BY <1>1, RowFacts
  <2>2. 0 \in 0..MaxEvents /\ 0 \in 0..MaxFaults
    BY Constants
  <2>3. destination \in {"archive", "webhook"} /\ scanLimit \in Nat \ {0}
    <3>1. PICK c \in Configurations :
              destination = c.destination /\ scanLimit = c.scanLimit
      BY DEF Init
    <3> QED BY <3>1, OutboxAssumption
  <2> QED BY <1>1, <1>2, <2>1, <2>2, <2>3 DEF Init, TypeOK, Phases
<1>4. ViewExact /\ RunsFit /\ NoneStranded
  BY <1>1, <1>2 DEF ViewExact, Matches, RunsFit, NoneStranded
<1>5. Phased /\ RowStates /\ Behind
  BY <1>1, <1>2 DEF Phased, RowStates, Behind
<1>6. OnlyCommitted /\ CallsLeft
  BY <1>1, <1>2, RowFacts DEF OnlyCommitted, CallsLeft, CallsAreCounted
<1>7. Justified
  BY <1>1, <1>2 DEF Justified
<1> QED BY <1>3, <1>4, <1>5, <1>6, <1>7 DEF OutboxInv

LEMMA InvNext == ASSUME OutboxInv, [Next]_vars PROVE OutboxInv'
<1>1. CASE Commit
  BY <1>1, CommitInv
<1>2. CASE \E e \in Events : ClockPasses(e)
  BY <1>2, ClockPassesInv
<1>3. CASE Start \/ PauseEnds \/ IdleEnds
  BY <1>3, WaitsEndInv
<1>4. CASE Recovery
  BY <1>4, RecoverScanInv, RecoverRefusedInv, NormalizeInv, RecoverNextInv DEF Recovery
<1>5. CASE Dispatch
  BY <1>5, ScanInv, DispatchRunInv, DecideInv, DeferredInv, DeadLetterPendingInv,
     RenewLeaseInv, DeliverClaimedInv, SettleInv, FlushInv, AbandonInv, EndPageInv
     DEF Dispatch
<1>6. CASE ReadFails \/ ClockFails \/ Crash
  BY <1>6, ReadFailsInv, DecideInv, CrashInv
<1>7. CASE UNCHANGED vars
  BY <1>7, StutterInv
<1> QED BY <1>1, <1>2, <1>3, <1>4, <1>5, <1>6, <1>7 DEF Next

LEMMA Invariant == Spec => []OutboxInv
<1>1. Init => OutboxInv
  BY InvInit
<1>2. OutboxInv /\ [Next]_vars => OutboxInv'
  BY InvNext
<1> QED BY <1>1, <1>2, PTL DEF Spec

\* Every row, view and counter of the outbox keeps its type.
THEOREM TypeCorrect == Spec => []TypeOK
<1>1. OutboxInv => TypeOK
  BY DEF OutboxInv
<1> QED BY <1>1, Invariant, PTL

\* The dispatcher never compares a row with something else than the table
\* holds: its StateChanged arms are dead code as long as it is alone.
THEOREM ViewsAreExact == Spec => []ViewExact
<1>1. OutboxInv => ViewExact
  BY DEF OutboxInv
<1> QED BY <1>1, Invariant, PTL

\* Recovery leaves no interrupted delivery behind, and the dispatcher leaves
\* none once it runs.
THEOREM NothingStranded == Spec => []NoneStranded
<1>1. OutboxInv => NoneStranded
  BY DEF OutboxInv
<1> QED BY <1>1, Invariant, PTL

\* A call to the destination is never made on an uncounted attempt.
THEOREM EveryCallCounted == Spec => []CallsAreCounted
<1>1. OutboxInv => CallsAreCounted
  BY DEF OutboxInv, CallsLeft
<1> QED BY <1>1, Invariant, PTL

\* The archive has room for every run that was claimed.
THEOREM ClaimedRunsFit == Spec => []RunsFit
<1>1. OutboxInv => RunsFit
  BY DEF OutboxInv
<1> QED BY <1>1, Invariant, PTL

-----------------------------------------------------------------------------
(* The outbox implements DeliveryService.                                  *)

\* What a row tells the service.
LEMMA FateFacts ==
    /\ \A row \in Rows : /\ row.state = "delivered" => Fate(row) = "delivered"
                         /\ row.state = "dead" => Fate(row) = "dead"
                         /\ row.state \notin {"delivered", "dead"} => Fate(row) = "open"
BY DEF Fate

\* A step that leaves every row's attempts and fate alone is invisible.
LEMMA Invisible ==
    ASSUME UNCHANGED <<committed, archive, rejected>>,
           \A e \in Events : /\ status'[e].attempts = status[e].attempts
                             /\ Fate(status'[e]) = Fate(status[e])
    PROVE  UNCHANGED Service!svars
<1>1. [e \in Events |-> status[e].attempts]' = [e \in Events |-> status[e].attempts]
  OBVIOUS
<1>2. [e \in Events |-> Fate(status[e])]' = [e \in Events |-> Fate(status[e])]
  OBVIOUS
<1> QED BY <1>1, <1>2 DEF Service!svars

LEMMA InvisibleStep ==
    ASSUME UNCHANGED <<committed, status, archive, rejected>>
    PROVE  UNCHANGED Service!svars
BY Invisible

\* Observed rows that are neither delivered nor dead are open to the service.
LEMMA IsOpen ==
    ASSUME OutboxInv, NEW e \in 1..committed,
           status[e].state \notin {"delivered", "dead"}
    PROVE  e \in Service!Open
<1>1. e \in Events
  BY Constants DEF OutboxInv, TypeOK, Events
<1>2. Fate(status[e]) = "open"
  BY <1>1, FateFacts DEF OutboxInv, TypeOK
<1> QED BY <1>1, <1>2 DEF Service!Open, Events

LEMMA CommitMaps == ASSUME OutboxInv, Commit PROVE Service!ServiceNext
<1>1. Service!Emit
  BY DEF Commit, Service!Emit
<1> QED BY <1>1 DEF Service!ServiceNext

LEMMA ClaimMaps ==
    ASSUME OutboxInv, worker = "item", NEW S, S \subseteq DOMAIN page, Claim(S),
           \A e \in S : page[e].attempts < MaxAttempts
    PROVE  Service!ServiceNext \/ UNCHANGED Service!svars
<1> DEFINE table == [e \in Events |->
                        IF e \in S THEN Delivering(page[e].attempts + 1, FALSE) ELSE status[e]]
<1>1. status' \in {status, table} /\ UNCHANGED <<committed, archive, rejected>>
  <2>1. [e \in Events |-> IF e \in S
                          THEN [d \in S |-> Delivering(page[d].attempts + 1, FALSE)][e]
                          ELSE status[e]] = table
    OBVIOUS
  <2> QED BY <2>1 DEF Claim, WriteFails, Put
<1>2. CASE status' = status
  BY <1>1, <1>2, InvisibleStep
<1>3. CASE status' = table
  <2>1. \A e \in S : /\ e \in Events /\ e \in 1..committed
                     /\ status[e] = page[e] /\ page[e] \in Rows
                     /\ page[e].state \in {"absent", "pending"}
    BY Observed DEF OutboxInv, RowStates
  <2>2. ASSUME NEW e \in S
        PROVE  /\ status[e].attempts < MaxAttempts
               /\ status'[e].attempts = status[e].attempts + 1
               /\ Fate(status'[e]) = "open" /\ Fate(status[e]) = "open"
    <3>1. page[e].attempts + 1 \in 0..MaxAttempts
      BY <2>1, Attempts, Constants
    <3>2. status'[e] = Delivering(page[e].attempts + 1, FALSE)
      BY <1>3, <2>1
    <3>3. status'[e] \in Rows /\ status'[e].state = "delivering"
          /\ status'[e].attempts = page[e].attempts + 1
      <4>1. LET row == Delivering(page[e].attempts + 1, FALSE)
            IN  row \in Rows /\ row.state = "delivering" /\ row.attempts = page[e].attempts + 1
        BY <3>1, RowFacts
      <4> QED BY <3>2, <4>1
    <3> QED BY <2>1, <3>3, FateFacts
  <2>3. \A e \in Events : e \notin S => status'[e] = status[e]
    BY <1>3
  <2>4. S \in SUBSET Service!Open
    BY <2>1, IsOpen
  <2>5. Service!Claim(S)
    <3>1. \A e \in S : [d \in Events |-> status[d].attempts][e] < MaxAttempts
      BY <2>1, <2>2
    <3>2. [e \in Events |-> status[e].attempts]' =
          [e \in Events |-> IF e \in S THEN [d \in Events |-> status[d].attempts][e] + 1
                                       ELSE [d \in Events |-> status[d].attempts][e]]
      BY <2>2, <2>3
    <3>3. [e \in Events |-> Fate(status[e])]' = [e \in Events |-> Fate(status[e])]
      BY <2>2, <2>3
    <3> QED BY <1>1, <3>1, <3>2, <3>3 DEF Service!Claim, Service!Events, Events
  <2> QED BY <2>4, <2>5 DEF Service!ServiceNext
<1> QED BY <1>1, <1>2, <1>3

LEMMA DispatchRunMaps ==
    ASSUME OutboxInv, DispatchRun PROVE Service!ServiceNext \/ UNCHANGED Service!svars
<1>1. PICK n \in 1..Cardinality(Admissible(Candidates)) :
           Claim(FirstOf(Admissible(Candidates), n))
  BY DEF DispatchRun
<1>2. AtItem /\ worker = "item"
  BY DEF DispatchRun, AtItem
<1> DEFINE S == FirstOf(Admissible(Candidates), n)
<1>3. S \subseteq DOMAIN page /\ \A e \in S : page[e].attempts < MaxAttempts
  BY <1>2, RunFacts
<1>4. Claim(S)
  BY <1>1
<1> HIDE DEF S
<1> QED BY <1>2, <1>3, <1>4, ClaimMaps

\* Rewriting one row without touching its attempts: the service sees nothing
\* if the row stays open, and the event given up if the row is dead.
LEMMA OneRowMaps ==
    ASSUME OutboxInv, NEW e \in 1..committed, status[e].state \notin {"delivered", "dead"},
           NEW row \in Rows, row.attempts = status[e].attempts,
           row.state # "delivered",
           row.state = "dead" => status[e].attempts = MaxAttempts \/ e \in rejected,
           status' \in {status, [d \in Events |-> IF d \in {e} THEN row ELSE status[d]]},
           UNCHANGED <<committed, archive, rejected>>
    PROVE  Service!ServiceNext \/ UNCHANGED Service!svars
<1>1. e \in Events /\ status \in [Events -> Rows]
  BY Constants DEF OutboxInv, TypeOK, Events
<1>2. CASE status' = status
  BY <1>2, InvisibleStep
<1>3. CASE status' = [d \in Events |-> IF d \in {e} THEN row ELSE status[d]]
  <2>1. status'[e] = row /\ \A d \in Events : d # e => status'[d] = status[d]
    BY <1>1, <1>3
  <2>2. Fate(status[e]) = "open"
    BY <1>1, FateFacts
  <2>3. CASE row.state # "dead"
    <3>1. Fate(row) = "open"
      BY <2>3, FateFacts
    <3> QED BY <2>1, <2>2, <3>1, Invisible
  <2>4. CASE row.state = "dead"
    <3>1. Fate(row) = "dead"
      BY <2>4, FateFacts
    <3>2. e \in Service!Open
      BY IsOpen
    <3>3. Service!GiveUp(e)
      <4>1. [d \in Events |-> status[d].attempts]' = [d \in Events |-> status[d].attempts]
        BY <2>1
      <4>2. [d \in Events |-> Fate(status[d])]' =
            [[d \in Events |-> Fate(status[d])] EXCEPT ![e] = "dead"]
        BY <1>1, <2>1, <3>1
      <4>3. [d \in Events |-> status[d].attempts][e] = MaxAttempts \/ e \in rejected
        BY <1>1, <2>4
      <4> QED BY <4>1, <4>2, <4>3 DEF Service!GiveUp
    <3> QED BY <3>2, <3>3 DEF Service!ServiceNext
  <2> QED BY <2>3, <2>4
<1> QED BY <1>2, <1>3

LEMMA NormalizeMaps ==
    ASSUME OutboxInv, Normalize PROVE Service!ServiceNext \/ UNCHANGED Service!svars
<1> DEFINE e == First(page)
           row == Retry(page[e].attempts)
<1>1. DOMAIN page # {} /\ IsView(page)
  BY DEF Normalize, OutboxInv, TypeOK
<1>2. e \in 1..committed /\ status[e] = page[e] /\ page[e] \in Rows
  BY <1>1, FirstItem, Observed
<1>3. /\ \/ status' = status
         \/ /\ page[e].state = "delivering"
            /\ status' = [d \in Events |-> IF d \in {e} THEN row ELSE status[d]]
      /\ UNCHANGED <<committed, archive, rejected>>
  <2>1. Put({e}, LAMBDA d : Retry(page[d].attempts)) =
        [d \in Events |-> IF d \in {e} THEN row ELSE status[d]]
    BY DEF Put
  <2> QED BY <2>1 DEF Normalize, WriteFails
<1> HIDE DEF e
<1>4. row \in Rows /\ row.state = "pending" /\ row.attempts = page[e].attempts
  BY <1>2, RowFacts, Attempts
<1> HIDE DEF row
<1>5. CASE status' = status
  BY <1>3, <1>5, InvisibleStep
<1>6. CASE /\ page[e].state = "delivering"
           /\ status' = [d \in Events |-> IF d \in {e} THEN row ELSE status[d]]
  BY <1>2, <1>3, <1>4, <1>6, OneRowMaps
<1> QED BY <1>3, <1>5, <1>6

LEMMA DeadLetterPendingMaps ==
    ASSUME OutboxInv, DeadLetterPending
    PROVE  Service!ServiceNext \/ UNCHANGED Service!svars
<1> DEFINE e == First(page)
           row == DeadLetter(page[e].attempts)
<1>1. worker = "bury" /\ DOMAIN page # {} /\ IsView(page)
  BY DEF DeadLetterPending, OutboxInv, TypeOK, Phased
<1>2. e \in DOMAIN page
  BY <1>1, FirstItem
<1>3. e \in 1..committed /\ status[e] = page[e] /\ page[e] \in Rows
      /\ page[e].state \in {"absent", "pending"} /\ page[e].attempts = MaxAttempts
  BY <1>1, <1>2, Observed DEF OutboxInv, RowStates, Justified
<1>4. /\ status' \in {status, [d \in Events |-> IF d \in {e} THEN row ELSE status[d]]}
      /\ UNCHANGED <<committed, archive, rejected>>
  <2>1. Put({e}, LAMBDA d : DeadLetter(page[d].attempts)) =
        [d \in Events |-> IF d \in {e} THEN row ELSE status[d]]
    BY DEF Put
  <2> QED BY <2>1 DEF DeadLetterPending, WriteFails
<1> HIDE DEF e
<1>5. row \in Rows /\ row.state = "dead" /\ row.attempts = page[e].attempts
  BY <1>3, RowFacts, Attempts
<1> HIDE DEF row
<1> QED BY <1>3, <1>4, <1>5, OneRowMaps

LEMMA RenewLeaseMaps ==
    ASSUME OutboxInv, RenewLease PROVE Service!ServiceNext \/ UNCHANGED Service!svars
<1> DEFINE e == First(run)
           row == Delivering(run[e].attempts, TRUE)
<1>1. worker = "deliver" /\ DOMAIN run # {} /\ IsView(run)
  BY DEF RenewLease, AtDelivery, OutboxInv, TypeOK, Phased
<1>2. e \in DOMAIN run
  BY <1>1, FirstItem
<1>3. e \in 1..committed /\ status[e] = run[e] /\ run[e] \in Rows
      /\ run[e].state = "delivering"
  BY <1>2, Observed DEF OutboxInv, RowStates
<1>4. /\ status' \in {status, [d \in Events |-> IF d \in {e} THEN row ELSE status[d]]}
      /\ UNCHANGED <<committed, archive, rejected>>
  <2>1. Put({e}, LAMBDA d : row) = [d \in Events |-> IF d \in {e} THEN row ELSE status[d]]
    BY DEF Put
  <2> QED BY <2>1 DEF RenewLease, WriteFails
<1> HIDE DEF e
<1>5. row \in Rows /\ row.state = "delivering" /\ row.attempts = run[e].attempts
  BY <1>3, RowFacts, Attempts
<1> HIDE DEF row
<1> QED BY <1>3, <1>4, <1>5, OneRowMaps

LEMMA SettleMaps ==
    ASSUME OutboxInv, Settle PROVE Service!ServiceNext \/ UNCHANGED Service!svars
<1> DEFINE e == First(run)
           row == Settled(e)
<1>1. worker = "settle" /\ DOMAIN run # {} /\ IsView(run)
  BY DEF Settle, OutboxInv, TypeOK, Phased
<1>2. e \in DOMAIN run
  BY <1>1, FirstItem
<1>3. e \in 1..committed /\ status[e] = run[e] /\ run[e] \in Rows
      /\ run[e].state = "delivering" /\ run[e].attempts \in 0..MaxAttempts
  BY <1>2, Observed, Attempts DEF OutboxInv, RowStates
<1>4. /\ status' \in {status, [d \in Events |-> IF d \in {e} THEN row ELSE status[d]]}
      /\ UNCHANGED <<committed, archive, rejected>>
  <2>1. Put({e}, LAMBDA d : Settled(d)) = [d \in Events |-> IF d \in {e} THEN row ELSE status[d]]
    BY DEF Put
  <2> QED BY <2>1 DEF Settle, WriteFails
<1>5. row \in Rows /\ row.state \in {"pending", "dead"} /\ row.attempts = run[e].attempts
  BY <1>3, RowFacts, Attempts DEF Settled
<1>6. row.state = "dead" => run[e].attempts = MaxAttempts \/ e \in rejected
  <2>1. CASE answer = "retryable" /\ run[e].attempts < MaxAttempts
    <3>1. row = Retry(run[e].attempts)
      BY <2>1 DEF Settled
    <3> QED BY <3>1, <1>3, RowFacts
  <2>2. CASE answer = "retryable" /\ ~(run[e].attempts < MaxAttempts)
    BY <2>2, <1>3, Constants
  <2>3. CASE answer # "retryable"
    BY <2>3, <1>1 DEF OutboxInv, Justified, TypeOK
  <2> QED BY <2>1, <2>2, <2>3
<1> HIDE DEF row, e
<1> QED BY <1>3, <1>4, <1>5, <1>6, OneRowMaps

LEMMA FlushMaps ==
    ASSUME OutboxInv, Flush PROVE Service!ServiceNext \/ UNCHANGED Service!svars
<1> DEFINE S == DOMAIN successes
           table == [d \in Events |-> IF d \in S THEN Delivered(successes[d].attempts)
                                                 ELSE status[d]]
<1>1. status' \in {status, table} /\ UNCHANGED <<committed, archive, rejected>>
  <2>1. Put(S, LAMBDA d : Delivered(successes[d].attempts)) = table
    BY DEF Put
  <2> QED BY <2>1 DEF Flush, WriteFails
<1>2. CASE status' = status
  BY <1>1, <1>2, InvisibleStep
<1>3. CASE status' = table
  <2>1. \A d \in S : /\ d \in 1..committed /\ d \in Events
                     /\ status[d] = successes[d] /\ successes[d] \in Rows
                     /\ successes[d].state = "delivering"
    BY Observed DEF OutboxInv, RowStates
  <2>2. ASSUME NEW d \in S
        PROVE  status'[d].attempts = status[d].attempts /\ Fate(status'[d]) = "delivered"
    <3>1. LET row == Delivered(successes[d].attempts)
          IN  row \in Rows /\ row.state = "delivered" /\ row.attempts = successes[d].attempts
      BY <2>1, Attempts, RowFacts
    <3>2. status'[d] = Delivered(successes[d].attempts)
      BY <1>3, <2>1
    <3> QED BY <2>1, <3>1, <3>2, FateFacts
  <2>3. \A d \in Events : d \notin S => status'[d] = status[d]
    BY <1>3
  <2> HIDE DEF S
  <2>4. S \in SUBSET Service!Open
    BY <2>1, IsOpen
  <2>5. Service!Confirm(S)
    <3>1. S \subseteq archive
      BY DEF OutboxInv, Justified, S
    <3>2. [e \in Events |-> status[e].attempts]' = [e \in Events |-> status[e].attempts]
      BY <2>2, <2>3
    <3>3. [e \in Events |-> Fate(status[e])]' =
          [e \in Events |-> IF e \in S THEN "delivered"
                                       ELSE [d \in Events |-> Fate(status[d])][e]]
      BY <2>2, <2>3
    <3> QED BY <1>1, <3>1, <3>2, <3>3 DEF Service!Confirm, Service!Events, Events
  <2> QED BY <2>4, <2>5 DEF Service!ServiceNext
<1> QED BY <1>1, <1>2, <1>3

LEMMA DeliverClaimedMaps ==
    ASSUME OutboxInv, DeliverClaimed
    PROVE  Service!ServiceNext \/ UNCHANGED Service!svars
<1> DEFINE e == First(run)
<1>1. worker = "deliver" /\ DOMAIN run # {} /\ IsView(run)
  BY DEF DeliverClaimed, AtDelivery, OutboxInv, TypeOK, Phased
<1>2. e \in DOMAIN run
  BY <1>1, FirstItem
<1>3. e \in 1..committed /\ e \in Events /\ status[e] = run[e] /\ run[e].state = "delivering"
      /\ run[e].attempts > 0
  BY <1>2, Observed DEF OutboxInv, RowStates
<1>4. e \in Service!Open
  BY <1>3, IsOpen
<1>5. Accepted(e) \/ AcceptedUnrecorded(e) \/ Retryable(e) \/ PermanentFailure(e)
  BY DEF DeliverClaimed
<1>6. /\ archive' \in {archive, archive \cup {e}} /\ rejected' \in {rejected, rejected \cup {e}}
      /\ archive' = archive \/ rejected' = rejected
  BY <1>5 DEF Accepted, AcceptedUnrecorded, Retryable, PermanentFailure
<1>7. UNCHANGED <<committed, status>>
  BY DEF DeliverClaimed
<1> HIDE DEF e
<1>8. /\ [d \in Events |-> status[d].attempts][e] > 0
      /\ [d \in Events |-> status[d].attempts]' = [d \in Events |-> status[d].attempts]
      /\ [d \in Events |-> Fate(status[d])]' = [d \in Events |-> Fate(status[d])]
  BY <1>3, <1>7
<1>9. CASE archive' = archive /\ rejected' = rejected
  BY <1>7, <1>9, InvisibleStep
<1>10. CASE archive' = archive \cup {e} /\ rejected' = rejected
  <2>1. Service!Receive(e)
    BY <1>7, <1>8, <1>10 DEF Service!Receive
  <2> QED BY <1>4, <2>1 DEF Service!ServiceNext
<1>11. CASE archive' = archive /\ rejected' = rejected \cup {e}
  <2>1. Service!Reject(e)
    BY <1>7, <1>8, <1>11 DEF Service!Reject
  <2> QED BY <1>4, <2>1 DEF Service!ServiceNext
<1> QED BY <1>6, <1>9, <1>10, <1>11

LEMMA InitMaps == ASSUME Init PROVE Service!ServiceInit
<1>1. \A e \in Events : status[e] = Absent
  BY DEF Init
<1>2. \A e \in Events : status[e].attempts = 0 /\ Fate(status[e]) = "open"
  BY <1>1, RowFacts, FateFacts
<1> QED BY <1>2 DEF Init, Service!ServiceInit, Service!Events, Events

LEMMA NextMaps ==
    ASSUME OutboxInv, [Next]_vars PROVE [Service!ServiceNext]_Service!svars
<1>1. CASE Commit
  BY <1>1, CommitMaps
<1>2. CASE \/ \E e \in Events : ClockPasses(e)
           \/ Start \/ PauseEnds \/ IdleEnds \/ RecoverScan \/ RecoverRefused \/ RecoverNext
           \/ Scan \/ DeferItem \/ Deferred \/ Exhausted \/ Abandon \/ EndPage
           \/ ReadFails \/ ClockFails \/ Crash \/ UNCHANGED vars
  <2>1. UNCHANGED <<committed, status, archive, rejected>>
    BY <1>2 DEF ClockPasses, Start, PauseEnds, IdleEnds, RecoverScan, RecoverRefused, RecoverNext, Scan,
                DeferItem, Deferred, Exhausted, Abandon, EndPage, ReadFails, WriteFails,
                ClockFails, Crash, vars, durable
  <2> QED BY <2>1, InvisibleStep
<1>3. CASE Normalize \/ DispatchRun \/ DeadLetterPending
  BY <1>3, NormalizeMaps, DispatchRunMaps, DeadLetterPendingMaps
<1>4. CASE RenewLease \/ DeliverClaimed \/ Settle \/ Flush
  BY <1>4, RenewLeaseMaps, DeliverClaimedMaps, SettleMaps, FlushMaps
<1> QED BY <1>1, <1>2, <1>3, <1>4 DEF Next, Recovery, Dispatch

\* The outbox implements at-least-once delivery with counted attempts: nothing
\* is confirmed that the destination did not take, nothing is given up that
\* still has attempts and was not refused, and no verdict is taken back.
THEOREM Refinement == Spec => ImplementsDelivery
<1>1. Init => Service!ServiceInit
  BY InitMaps
<1>2. OutboxInv /\ [Next]_vars => [Service!ServiceNext]_Service!svars
  BY NextMaps
<1> QED BY <1>1, <1>2, Invariant, PTL DEF Spec, ImplementsDelivery, Service!Service
=============================================================================
