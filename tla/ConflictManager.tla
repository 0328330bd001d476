-------------------------- MODULE ConflictManager --------------------------
(***************************************************************************)
(* The sharded conflict manager of crates/riffdb-conflict: multi-key,      *)
(* FIFO, all-or-nothing mutation leases, with cancellation, deadlines, and *)
(* dropped acquisitions.                                                   *)
(*                                                                         *)
(* Actors are the tasks that poll or drop an acquisition (one per waiter,  *)
(* also the holder of the lease the acquisition returns) and the deadline  *)
(* worker thread.  A section the code runs while it holds every shard lock *)
(* of a waiter is one step; everything after the locks are dropped (timer  *)
(* removal and wake-up, then one try_grant for each candidate) is further  *)
(* steps of the same actor, kept in settle and promote.                    *)
(***************************************************************************)
EXTENDS Integers, Sequences, FiniteSets

CONSTANTS
    Keys,                   \* conflict keys
    Shards,                 \* shard indices
    ShardOf,                \* [Keys -> Shards], shard_for_hash
    MaxWaiterId,            \* u64::MAX, the last id next_waiter_id hands out
    MaxKeysPerAcquisition,
    MaxKeysPerShard,
    MaxWaiters,
    MaxWaitersPerKey,
    Cancellable,            \* environment: the ids whose token may be cancelled,
    Expirable,              \* whose deadline may pass,
    Droppable,              \* whose acquisition may be dropped,
    Spurious,               \* whose task may be polled without a wake-up, and
    Crowded                 \* whose token may be full of other registrations

ASSUME ConfigAssumption ==
    /\ ShardOf \in [Keys -> Shards]
    /\ MaxWaiterId \in Nat \ {0}
    /\ MaxKeysPerAcquisition \in Nat \ {0}
    /\ MaxKeysPerShard \in Nat \ {0}
    /\ MaxWaiters \in Nat \ {0}
    /\ MaxWaitersPerKey \in 1..MaxWaiters

Ids == 1..MaxWaiterId       \* waiter ids; 0 is never one
None == 0                   \* holder: Option<u64> = None, and "no waiter"
Timer == 0                  \* the deadline worker as an actor
Actors == Ids \cup {Timer}  \* actor w polls, drops or holds acquisition w

WaiterStates == {"Waiting", "Granted", "Consumed", "Cancelled", "TimedOut",
                 "Abandoned", "Released"}

\* Where the task of an acquisition is: "new" and "parked" between polls,
\* "leased" while its caller holds the lease, "done" once it is over, and
\* otherwise inside poll.
PollPoints == {"arm", "armed", "recheck", "observe", "consume", "consumed",
               "regWaker", "final"}
Points == {"absent", "new", "parked", "leased", "done"} \cup PollPoints

Outcomes == {"Pending", "Lease", "WouldBlock", "Cancelled", "DeadlineExceeded",
             "KeyQueueCapacityExceeded", "TableCapacityExceeded",
             "WaiterCapacityExceeded",
             "CancellationRegistrationCapacityExceeded", "Dropped"}

VARIABLES
    nextWaiterId,   \* Inner.next_waiter_id; 0 once exhausted
    keysOf,         \* Waiter.keys, sorted and without duplicates: a set
    state,          \* Waiter.state
    queued,         \* Waiter.queued
    waker,          \* Waiter.waker is filled
    holder,         \* KeyState.holder
    waiters,        \* KeyState.waiters
    table,          \* the keys with an entry in Shard.keys
    queuedWaiters,  \* Inner.queued_waiters
    deadlines,      \* TimerState.deadlines
    timerJob,       \* the waiter the deadline worker has taken out
    registered,     \* Acquisition.registered
    cancelReg,      \* Acquisition.cancellation_registration is filled
    cancelled,      \* CancellationState.cancelled of the acquisition's token
    expired,        \* Instant::now() >= Waiter.deadline
    woken,          \* the task of the acquisition has been woken
    pc,             \* control point of that task
    result,         \* what the acquisition returned
    settle,         \* per actor: the waiter it still has to wake
    promote         \* per actor: the candidates it still has to try

lockVars  == <<holder, waiters, table, queuedWaiters, queued, state>>
timerVars == <<deadlines, timerJob>>
envVars   == <<cancelled, expired>>
idVars    == <<nextWaiterId, keysOf>>
taskVars  == <<registered, cancelReg, woken, pc, result, waker>>
afterVars == <<settle, promote>>
vars == <<lockVars, timerVars, envVars, idVars, taskVars, afterVars>>

TypeOK ==
    /\ nextWaiterId \in 0..MaxWaiterId
    /\ keysOf \in [Ids -> SUBSET Keys]
    /\ state \in [Ids -> WaiterStates]
    /\ queued \in [Ids -> BOOLEAN]
    /\ waker \in [Ids -> BOOLEAN]
    /\ holder \in [Keys -> Ids \cup {None}]
    /\ waiters \in [Keys -> Seq(Ids)]
    /\ table \subseteq Keys
    /\ queuedWaiters \in Int
    /\ deadlines \subseteq Ids
    /\ timerJob \in Ids \cup {None}
    /\ registered \in [Ids -> BOOLEAN]
    /\ cancelReg \in [Ids -> BOOLEAN]
    /\ cancelled \in [Ids -> BOOLEAN]
    /\ expired \in [Ids -> BOOLEAN]
    /\ woken \in [Ids -> BOOLEAN]
    /\ pc \in [Ids -> Points]
    /\ result \in [Ids -> Outcomes]
    /\ settle \in [Actors -> Ids \cup {None}]
    /\ promote \in [Actors -> SUBSET Ids]

Init ==
    /\ nextWaiterId = 1
    /\ keysOf = [w \in Ids |-> {}]
    /\ state = [w \in Ids |-> "Waiting"]
    /\ queued = [w \in Ids |-> FALSE]
    /\ waker = [w \in Ids |-> FALSE]
    /\ holder = [k \in Keys |-> None]
    /\ waiters = [k \in Keys |-> <<>>]
    /\ table = {}
    /\ queuedWaiters = 0
    /\ deadlines = {}
    /\ timerJob = None
    /\ registered = [w \in Ids |-> FALSE]
    /\ cancelReg = [w \in Ids |-> FALSE]
    /\ cancelled = [w \in Ids |-> FALSE]
    /\ expired = [w \in Ids |-> FALSE]
    /\ woken = [w \in Ids |-> FALSE]
    /\ pc = [w \in Ids |-> "absent"]
    /\ result = [w \in Ids |-> "Pending"]
    /\ settle = [a \in Actors |-> None]
    /\ promote = [a \in Actors |-> {}]

-----------------------------------------------------------------------------
(* The locked sections.  Each operator constrains lockVars'.               *)

\* Mutant of Without: the aborted waiter stays queued.
WithoutForgotten(q, w) == q

\* What VecDeque::retain leaves: a waiter is queued at most once per key
\* (QueueIntegrity), so it drops one element.
Without(q, w) ==
    IF \E i \in 1..Len(q) : q[i] = w
    THEN LET i == CHOOSE i \in 1..Len(q) : q[i] = w
         IN  SubSeq(q, 1, i - 1) \o SubSeq(q, i + 1, Len(q))
    ELSE q

\* Mutant of Fronts: only one successor is remembered.
FrontsFirstOnly(ks, q) ==
    LET all == {Head(q[k]) : k \in {j \in ks : q[j] # <<>>}}
    IN  {w \in all : \A v \in all : w <= v}

Fronts(ks, q) == {Head(q[k]) : k \in {j \in ks : q[j] # <<>>}}

EntriesIn(shard) == {k \in table : ShardOf[k] = shard}

\* The new entries of some shard do not fit.
TableFull(ks) ==
    \E s \in Shards :
        LET new == {k \in ks \ table : ShardOf[k] = s}
        IN  /\ new # {}
            /\ Cardinality(EntriesIn(s)) + Cardinality(new) > MaxKeysPerShard

\* Mutant of Eligible: the holder is not looked at.
EligibleIgnoresHolder(w, h, q) ==
    \A k \in keysOf[w] : q[k] # <<>> /\ Head(q[k]) = w

\* The eligibility test of try_grant_locked on holders h and queues q.
Eligible(w, h, q) ==
    \A k \in keysOf[w] : h[k] = None /\ q[k] # <<>> /\ Head(q[k]) = w

\* try_grant_locked for a waiter that is eligible in queues q, counted in n.
GrantLocked(w, q, n) ==
    /\ holder' = [k \in Keys |-> IF k \in keysOf[w] THEN w ELSE holder[k]]
    /\ waiters' = [k \in Keys |-> IF k \in keysOf[w] THEN Tail(q[k]) ELSE q[k]]
    /\ state' = [state EXCEPT ![w] = "Granted"]
    /\ queued' = [queued EXCEPT ![w] = FALSE]
    /\ queuedWaiters' = n - 1

\* Mutant of HoldersAfter: an aborted grant keeps its keys.
HoldersAfterKept(w) ==
    [k \in Keys |-> IF holder[k] = w /\ state[w] = "Consumed" THEN None ELSE holder[k]]

\* The holders once w has given its keys back.
HoldersAfter(w) ==
    [k \in Keys |-> IF holder[k] = w /\ k \in keysOf[w] THEN None ELSE holder[k]]

\* The queues once w has left them; a granted waiter is in none.
QueuesAfter(w) ==
    [k \in Keys |-> IF state[w] = "Waiting" /\ k \in keysOf[w]
                    THEN Without(waiters[k], w) ELSE waiters[k]]

\* Mutant of Emptied: empty entries stay in the table.
EmptiedForgotten(ks, h, q) == {}

\* The entries collect_candidates_and_cleanup drops.
Emptied(ks, h, q) == {k \in ks : h[k] = None /\ q[k] = <<>>}

\* The common end of abort and release: clear w from its keys, drop the
\* entries this empties, and leave the successors to actor a.
LeaveLocked(w, a, target) ==
    /\ holder' = HoldersAfter(w)
    /\ waiters' = QueuesAfter(w)
    /\ table' = table \ Emptied(keysOf[w], HoldersAfter(w), QueuesAfter(w))
    /\ state' = [state EXCEPT ![w] = target]
    /\ queued' = [queued EXCEPT ![w] = FALSE]
    /\ queuedWaiters' = IF queued[w] THEN queuedWaiters - 1 ELSE queuedWaiters
    /\ promote' = [promote EXCEPT ![a] = Fronts(keysOf[w], QueuesAfter(w))]

\* Inner::abort by actor a: a no-op unless w is Waiting or Granted.
Abort(w, a, target) ==
    IF state[w] \in {"Waiting", "Granted"}
    THEN /\ LeaveLocked(w, a, target)
         /\ settle' = [settle EXCEPT ![a] = w]
    ELSE UNCHANGED <<lockVars, afterVars>>

\* Inner::release by actor a, which owns the consumed lease w.
Release(w, a) ==
    IF state[w] = "Consumed"
    THEN /\ LeaveLocked(w, a, "Released")
         /\ UNCHANGED settle
    ELSE UNCHANGED <<lockVars, afterVars>>

-----------------------------------------------------------------------------
(* Starting an acquisition.                                                *)

\* Mutant of NextId: the counter runs past its width.
NextIdUnchecked(n) == n + 1

NextId(n) == IF n = MaxWaiterId THEN 0 ELSE n + 1

ValidKeySet(ks) ==
    IsFiniteSet(ks) /\ ks # {} /\ Cardinality(ks) <= MaxKeysPerAcquisition

\* Acquisition::new.  An empty or oversized key set, or an exhausted id
\* counter, makes a future that fails at its first poll and never touches the
\* manager.
AcquireMut(ks) ==
    /\ ValidKeySet(ks)
    /\ nextWaiterId # 0
    /\ keysOf' = [keysOf EXCEPT ![nextWaiterId] = ks]
    /\ pc' = [pc EXCEPT ![nextWaiterId] = "new"]
    /\ nextWaiterId' = NextId(nextWaiterId)
    /\ UNCHANGED <<lockVars, timerVars, envVars, afterVars,
                   registered, cancelReg, woken, result, waker>>

\* Mutant of Busy: barges past the waiters of a free key.
BusyIgnoresQueues(ks) == \E k \in ks \cap table : holder[k] # None

\* Some key is held or waited for.
Busy(ks) == \E k \in ks \cap table : holder[k] # None \/ waiters[k] # <<>>

\* Inner::try_acquire_mut: an uncontended lease or nothing, without queueing.
\* A cancelled token or a deadline that has passed is refused before an id is
\* taken, which changes nothing and is left out.
TryAcquireMut(ks) ==
    /\ ValidKeySet(ks)
    /\ nextWaiterId # 0
    /\ nextWaiterId' = NextId(nextWaiterId)
    /\ LET w == nextWaiterId IN
        /\ keysOf' = [keysOf EXCEPT ![w] = ks]
        /\ \/ /\ Busy(ks) \/ TableFull(ks)
              /\ result' = [result EXCEPT ![w] = IF Busy(ks) THEN "WouldBlock"
                                                 ELSE "TableCapacityExceeded"]
              /\ pc' = [pc EXCEPT ![w] = "done"]
              /\ UNCHANGED lockVars
           \/ /\ ~Busy(ks) /\ ~TableFull(ks)
              /\ holder' = [k \in Keys |-> IF k \in ks THEN w ELSE holder[k]]
              /\ table' = table \cup ks
              /\ state' = [state EXCEPT ![w] = "Consumed"]
              /\ result' = [result EXCEPT ![w] = "Lease"]
              /\ pc' = [pc EXCEPT ![w] = "leased"]
              /\ UNCHANGED <<waiters, queuedWaiters, queued>>
    /\ UNCHANGED <<timerVars, envVars, afterVars, registered, cancelReg, woken, waker>>

-----------------------------------------------------------------------------
(* Acquisition::poll, step by step.  An actor with settle or promote work  *)
(* left finishes it first.                                                 *)

Idle(a) == settle[a] = None /\ promote[a] = {}

At(w, point) == pc[w] = point /\ Idle(w)

Goto(w, point) == pc' = [pc EXCEPT ![w] = point]

Interrupted(w) == cancelled[w] \/ expired[w]

\* The poll looks at the token before the clock.
Interruption(w) == IF cancelled[w] THEN "Cancelled" ELSE "DeadlineExceeded"

InterruptedState(w) == IF cancelled[w] THEN "Cancelled" ELSE "TimedOut"

\* Acquisition::finish: unregister from the token and complete.
Finish(w, outcome) ==
    /\ Goto(w, "done")
    /\ result' = [result EXCEPT ![w] = outcome]
    /\ cancelReg' = [cancelReg EXCEPT ![w] = FALSE]

\* The first capacity check of Inner::register that fails, or "Ok".
RegisterCheck(w) ==
    IF \E k \in keysOf[w] \cap table : Len(waiters[k]) >= MaxWaitersPerKey
    THEN "KeyQueueCapacityExceeded"
    ELSE IF TableFull(keysOf[w])
    THEN "TableCapacityExceeded"
    ELSE IF queuedWaiters >= MaxWaiters
    THEN "WaiterCapacityExceeded"
    ELSE "Ok"

\* Mutant of QueuesWith: jumps the queue of a key that nobody holds.
QueuesWithJump(w) ==
    [k \in Keys |-> IF k \notin keysOf[w] THEN waiters[k]
                    ELSE IF holder[k] = None THEN <<w>> \o waiters[k]
                    ELSE Append(waiters[k], w)]

\* The queues once w has joined the back of each of its own.
QueuesWith(w) ==
    [k \in Keys |-> IF k \in keysOf[w] THEN Append(waiters[k], w) ELSE waiters[k]]

\* Inner::register: enqueue on every key, and grant at once if possible.
Register(w) ==
    \/ /\ RegisterCheck(w) # "Ok"
       /\ Finish(w, RegisterCheck(w))
       /\ UNCHANGED <<lockVars, registered>>
    \/ /\ RegisterCheck(w) = "Ok"
       /\ \/ /\ Eligible(w, holder, QueuesWith(w))
             /\ GrantLocked(w, QueuesWith(w), queuedWaiters + 1)
             /\ Goto(w, "recheck")
          \/ /\ ~Eligible(w, holder, QueuesWith(w))
             /\ waiters' = QueuesWith(w)
             /\ queued' = [queued EXCEPT ![w] = TRUE]
             /\ queuedWaiters' = queuedWaiters + 1
             /\ Goto(w, "arm")
             /\ UNCHANGED <<holder, state>>
       /\ table' = table \cup keysOf[w]
       /\ registered' = [registered EXCEPT ![w] = TRUE]
       /\ UNCHANGED <<result, cancelReg>>

\* The first poll: the leading cancellation and deadline checks, then
\* registration.  A cancellation between the two has the same effect as one
\* right after, so they are one step.
PollFirst(w) ==
    /\ pc[w] = "new"
    /\ \/ /\ Interrupted(w)
          /\ Finish(w, Interruption(w))
          /\ UNCHANGED <<lockVars, registered>>
       \/ ~Interrupted(w) /\ Register(w)
    /\ UNCHANGED <<timerVars, envVars, idVars, afterVars, woken, waker>>

\* The executor polls the task again.  An abort is complete, settle and
\* promote included, before this actor does anything else.
PollAgain(w) ==
    /\ At(w, "parked")
    /\ woken[w] \/ w \in Spurious
    /\ woken' = [woken EXCEPT ![w] = FALSE]
    /\ \/ /\ Interrupted(w)
          /\ Abort(w, w, InterruptedState(w))
          /\ Finish(w, Interruption(w))
       \/ /\ ~Interrupted(w)
          /\ Goto(w, "recheck")
          /\ UNCHANGED <<lockVars, afterVars, result, cancelReg>>
    /\ UNCHANGED <<timerVars, envVars, idVars, registered, waker>>

\* Mutant of PollArm: the deadline is never entered.
PollArmForgets(w) ==
    /\ At(w, "arm")
    /\ Goto(w, "armed")
    /\ UNCHANGED <<lockVars, timerVars, envVars, idVars, afterVars,
                   registered, cancelReg, woken, result, waker>>

\* TimerQueue::insert, after the shard locks are gone.
PollArm(w) ==
    /\ At(w, "arm")
    /\ deadlines' = deadlines \cup {w}
    /\ Goto(w, "armed")
    /\ UNCHANGED <<lockVars, envVars, idVars, afterVars, timerJob,
                   registered, cancelReg, woken, result, waker>>

\* Mutant of PollArmed: the deadline of an ended wait is left armed.
PollArmedKeeps(w) ==
    /\ At(w, "armed")
    /\ Goto(w, "recheck")
    /\ UNCHANGED <<lockVars, timerVars, envVars, idVars, afterVars,
                   registered, cancelReg, woken, result, waker>>

\* A waiter that was granted or aborted meanwhile takes its deadline back.
PollArmed(w) ==
    /\ At(w, "armed")
    /\ deadlines' = IF state[w] # "Waiting" THEN deadlines \ {w} ELSE deadlines
    /\ Goto(w, "recheck")
    /\ UNCHANGED <<lockVars, envVars, idVars, afterVars, timerJob,
                   registered, cancelReg, woken, result, waker>>

\* The second cancellation and deadline check.
PollRecheck(w) ==
    /\ At(w, "recheck")
    /\ IF Interrupted(w)
       THEN Abort(w, w, InterruptedState(w))
       ELSE UNCHANGED <<lockVars, afterVars>>
    /\ Goto(w, "observe")
    /\ UNCHANGED <<timerVars, envVars, idVars,
                   registered, cancelReg, woken, result, waker>>

\* One read of the waiter state decides the rest of the poll.
PollObserve(w) ==
    /\ At(w, "observe")
    /\ \/ /\ state[w] = "Granted"
          /\ Goto(w, "consume")
          /\ UNCHANGED <<result, cancelReg>>
       \/ /\ state[w] \in {"Cancelled", "Abandoned"}
          /\ Finish(w, "Cancelled")
       \/ /\ state[w] = "TimedOut"
          /\ Finish(w, "DeadlineExceeded")
    /\ UNCHANGED <<lockVars, timerVars, envVars, idVars, afterVars,
                   registered, woken, waker>>

\* The compare-exchange that takes the grant, without any shard lock.
PollConsume(w) ==
    /\ At(w, "consume")
    /\ \/ /\ state[w] = "Granted"
          /\ state' = [state EXCEPT ![w] = "Consumed"]
          /\ Goto(w, "consumed")
          /\ UNCHANGED woken
       \/ /\ state[w] # "Granted"
          /\ woken' = [woken EXCEPT ![w] = TRUE]
          /\ Goto(w, "parked")
          /\ UNCHANGED state
    /\ UNCHANGED <<holder, waiters, table, queuedWaiters, queued, timerVars,
                   envVars, idVars, afterVars, registered, cancelReg, result, waker>>

\* Mutant of PollConsumed: a late cancellation forgets the grant it consumed.
PollConsumedForgets(w) ==
    /\ At(w, "consumed")
    /\ \/ Interrupted(w) /\ Finish(w, Interruption(w))
       \/ /\ ~Interrupted(w)
          /\ Goto(w, "leased")
          /\ result' = [result EXCEPT ![w] = "Lease"]
          /\ cancelReg' = [cancelReg EXCEPT ![w] = FALSE]
    /\ UNCHANGED <<lockVars, afterVars, timerVars, envVars, idVars,
                   registered, woken, waker>>

\* The last cancellation and deadline check, then the lease is handed out.
PollConsumed(w) ==
    /\ At(w, "consumed")
    /\ \/ /\ Interrupted(w)
          /\ Release(w, w)
          /\ Finish(w, Interruption(w))
       \/ /\ ~Interrupted(w)
          /\ Goto(w, "leased")
          /\ result' = [result EXCEPT ![w] = "Lease"]
          /\ cancelReg' = [cancelReg EXCEPT ![w] = FALSE]
          /\ UNCHANGED <<lockVars, afterVars>>
    /\ UNCHANGED <<timerVars, envVars, idVars, registered, woken, waker>>

\* The state read was Waiting: CancellationToken::register, which fails when
\* the token is full and this acquisition has no registration in it yet.
PollRegisterCancellation(w) ==
    /\ At(w, "observe")
    /\ state[w] = "Waiting"
    /\ \/ /\ cancelled[w]
          /\ woken' = [woken EXCEPT ![w] = TRUE]
          /\ Goto(w, "regWaker")
          /\ UNCHANGED <<lockVars, afterVars, result, cancelReg>>
       \/ /\ ~cancelled[w]
          /\ cancelReg' = [cancelReg EXCEPT ![w] = TRUE]
          /\ Goto(w, "regWaker")
          /\ UNCHANGED <<lockVars, afterVars, result, woken>>
       \/ /\ w \in Crowded /\ ~cancelled[w] /\ ~cancelReg[w]
          /\ Abort(w, w, "Abandoned")
          /\ Finish(w, "CancellationRegistrationCapacityExceeded")
          /\ UNCHANGED woken
    /\ UNCHANGED <<timerVars, envVars, idVars, registered, waker>>

PollRegisterWaker(w) ==
    /\ At(w, "regWaker")
    /\ waker' = [waker EXCEPT ![w] = TRUE]
    /\ Goto(w, "final")
    /\ UNCHANGED <<lockVars, timerVars, envVars, idVars, afterVars,
                   registered, cancelReg, woken, result>>

\* Mutant of PollFinal: parks without looking at the state again.
PollFinalTrusting(w) ==
    /\ At(w, "final")
    /\ Goto(w, "parked")
    /\ UNCHANGED <<lockVars, timerVars, envVars, idVars, afterVars,
                   registered, cancelReg, woken, result, waker>>

\* Anything that happened before the waker was in place re-schedules the task.
PollFinal(w) ==
    /\ At(w, "final")
    /\ woken' = [woken EXCEPT ![w] = @ \/ Interrupted(w) \/ state[w] # "Waiting"]
    /\ Goto(w, "parked")
    /\ UNCHANGED <<lockVars, timerVars, envVars, idVars, afterVars,
                   registered, cancelReg, result, waker>>

\* Drop for Acquisition: the caller gives up between polls.
DropAcquisition(w) ==
    /\ w \in Droppable
    /\ pc[w] \in {"new", "parked"}
    /\ Idle(w)
    /\ Finish(w, "Dropped")
    /\ IF registered[w]
       THEN Abort(w, w, "Abandoned")
       ELSE UNCHANGED <<lockVars, afterVars>>
    /\ UNCHANGED <<timerVars, envVars, idVars, registered, woken, waker>>

\* MutationLease::release or its Drop.
ReleaseLease(w) ==
    /\ At(w, "leased")
    /\ Release(w, w)
    /\ Goto(w, "done")
    /\ UNCHANGED <<timerVars, envVars, idVars,
                   registered, cancelReg, woken, result, waker>>

-----------------------------------------------------------------------------
(* What an actor does after it has dropped the shard locks.                *)

\* timer.remove and Waiter::wake for the waiter that just left Waiting.
Settle(a) ==
    /\ settle[a] # None
    /\ LET w == settle[a]
       IN  /\ deadlines' = deadlines \ {w}
           /\ waker' = [waker EXCEPT ![w] = FALSE]
           /\ woken' = [woken EXCEPT ![w] = @ \/ waker[w]]
    /\ settle' = [settle EXCEPT ![a] = None]
    /\ UNCHANGED <<lockVars, envVars, idVars, timerJob, promote,
                   registered, cancelReg, pc, result>>

\* try_candidates: try_grant for the remaining candidate with the least id.
Promote(a) ==
    /\ settle[a] = None
    /\ \E c \in promote[a] :
        /\ \A d \in promote[a] : c <= d
        /\ promote' = [promote EXCEPT ![a] = @ \ {c}]
        /\ \/ /\ state[c] = "Waiting"
              /\ Eligible(c, holder, waiters)
              /\ GrantLocked(c, waiters, queuedWaiters)
              /\ settle' = [settle EXCEPT ![a] = c]
              /\ UNCHANGED table
           \/ /\ ~(state[c] = "Waiting" /\ Eligible(c, holder, waiters))
              /\ UNCHANGED <<lockVars, settle>>
    /\ UNCHANGED <<timerVars, envVars, idVars, taskVars>>

-----------------------------------------------------------------------------
(* The deadline worker, the clock and the callers' tokens.                 *)

\* timer_worker takes an entry whose deadline has passed.
TimerTake(w) ==
    /\ timerJob = None
    /\ Idle(Timer)
    /\ w \in deadlines
    /\ expired[w]
    /\ deadlines' = deadlines \ {w}
    /\ timerJob' = w
    /\ UNCHANGED <<lockVars, envVars, idVars, taskVars, afterVars>>

\* ... and aborts its waiter.
TimerAbort ==
    /\ timerJob # None
    /\ Abort(timerJob, Timer, "TimedOut")
    /\ timerJob' = None
    /\ UNCHANGED <<deadlines, envVars, idVars, taskVars>>

\* The acquisition looks at its token and its deadline until it completes.
Live(w) == pc[w] \notin {"absent", "leased", "done"}

\* CancellationToken::cancel: set the flag once and wake what is registered.
CancelToken(w) ==
    /\ w \in Cancellable
    /\ Live(w)
    /\ ~cancelled[w]
    /\ cancelled' = [cancelled EXCEPT ![w] = TRUE]
    /\ woken' = [woken EXCEPT ![w] = @ \/ cancelReg[w]]
    /\ UNCHANGED <<lockVars, timerVars, idVars, afterVars, expired,
                   registered, cancelReg, pc, result, waker>>

\* The clock passes the deadline of w.
DeadlinePasses(w) ==
    /\ w \in Expirable
    /\ Live(w)
    /\ ~expired[w]
    /\ expired' = [expired EXCEPT ![w] = TRUE]
    /\ UNCHANGED <<lockVars, timerVars, idVars, afterVars, taskVars, cancelled>>

-----------------------------------------------------------------------------

PollStep(w) ==
    \/ PollFirst(w) \/ PollArm(w) \/ PollArmed(w) \/ PollRecheck(w)
    \/ PollObserve(w) \/ PollConsume(w) \/ PollConsumed(w)
    \/ PollRegisterCancellation(w) \/ PollRegisterWaker(w) \/ PollFinal(w)

Next ==
    \/ \E ks \in SUBSET Keys : AcquireMut(ks) \/ TryAcquireMut(ks)
    \/ \E w \in Ids :
        \/ PollAgain(w) \/ PollStep(w)
        \/ DropAcquisition(w) \/ ReleaseLease(w)
        \/ TimerTake(w) \/ CancelToken(w) \/ DeadlinePasses(w)
    \/ \E a \in Actors : Settle(a) \/ Promote(a)
    \/ TimerAbort

Spec == Init /\ [][Next]_vars

\* Every woken task is polled again, code that is running keeps running, and
\* the deadline worker is never descheduled for good.  Nothing forces a
\* cancellation, a deadline, a drop, or a caller to give its lease back.
Fairness ==
    /\ \A w \in Ids :
        /\ WF_vars(woken[w] /\ PollAgain(w))
        /\ WF_vars(PollStep(w))
        /\ WF_vars(TimerTake(w))
    /\ \A a \in Actors : WF_vars(Settle(a) \/ Promote(a))
    /\ WF_vars(TimerAbort)

LiveSpec == Spec /\ Fairness

-----------------------------------------------------------------------------
(* Properties.                                                             *)

Owning(w) == state[w] \in {"Granted", "Consumed"}
Enqueued(w) == registered[w] /\ state[w] = "Waiting"

\* A key is never leased twice: two waiters that own their grant (handed out
\* or about to be consumed) share no key, whatever cancellations, timeouts
\* and drops race with the promotions.
MutualExclusion ==
    \A v, w \in Ids : v # w /\ Owning(v) /\ Owning(w) => keysOf[v] \cap keysOf[w] = {}

\* The holders are exactly the owners: no key stays held by an acquisition
\* that was cancelled, timed out, dropped or released, and an owner holds all
\* of its keys.
HoldersAreOwners ==
    \A w \in Ids, k \in Keys : holder[k] = w <=> Owning(w) /\ k \in keysOf[w]

\* Ids that next_waiter_id has not handed out appear nowhere.
UnusedIds ==
    /\ nextWaiterId # 0 => \A w \in Ids : w >= nextWaiterId => pc[w] = "absent"
    /\ \A w \in Ids : pc[w] = "absent" =>
        /\ state[w] = "Waiting"
        /\ timerJob # w /\ w \notin deadlines
        /\ \A a \in Actors : w \notin promote[a]
        /\ \A k \in Keys : \A i \in 1..Len(waiters[k]) : waiters[k][i] # w

\* A key without a table entry is free.
TableCovers == \A k \in Keys \ table : holder[k] = None /\ waiters[k] = <<>>

\* The inductive strengthening of MutualExclusion: a grant only looks at the
\* holders of its own keys, so the invariant has to tie holders to owners, and
\* try_acquire_mut only looks at entries, so it has to tie entries to holders.
OwnershipInv == TypeOK /\ HoldersAreOwners /\ UnusedIds /\ TableCovers

\* A queue holds every acquisition that waits for its key, once, and nobody
\* else.
QueueIntegrity ==
    \A k \in Keys :
        /\ \A i, j \in 1..Len(waiters[k]) : waiters[k][i] = waiters[k][j] => i = j
        /\ \A w \in Ids : (Enqueued(w) /\ k \in keysOf[w])
                            <=> \E i \in 1..Len(waiters[k]) : waiters[k][i] = w

Ahead(v, w, k) ==
    \E i, j \in 1..Len(waiters[k]) : i < j /\ waiters[k][i] = v /\ waiters[k][j] = w

\* No two waiters are each ahead of the other, so no cycle of waiters can
\* form: the reason multi-key acquisition cannot deadlock.
ConsistentOrder ==
    \A v, w \in Ids : \A k, l \in Keys : ~(Ahead(v, w, k) /\ Ahead(w, v, l))

\* No missed promotion: a waiter that could be granted is always still in the
\* candidate list of some actor, although candidates are tried one by one
\* after the locks are dropped.
NoStrandedWaiter ==
    \A w \in Ids : Enqueued(w) /\ Eligible(w, holder, waiters)
                     => \E a \in Actors : w \in promote[a]

\* No lost wake-up: a parked task that nobody has woken is still waiting, with
\* its waker in place and its deadline armed, or its wake-up is on its way; a
\* cancelled one has been woken.
NoLostWakeup ==
    \A w \in Ids : pc[w] = "parked" /\ ~woken[w] /\ settle[w] = None =>
        /\ ~cancelled[w]
        /\ waker[w]
        /\ \/ state[w] = "Waiting" /\ (w \in deadlines \/ timerJob = w)
           \/ \E a \in Actors : settle[a] = w

\* A finished acquisition owns and waits for nothing, although it may have
\* been granted between its last poll and its cancellation or drop.
NothingLeftBehind ==
    \A w \in Ids : pc[w] = "done" => ~Owning(w) /\ ~Enqueued(w)

\* The key table and the waiter counter never leak: an entry is held or waited
\* for, the counter is the number of waiters in the queues, and both stay
\* within the configured capacities.
Accounting ==
    /\ table = {k \in Keys : holder[k] # None \/ waiters[k] # <<>>}
    /\ queuedWaiters = Cardinality({w \in Ids : Enqueued(w)})
    /\ queuedWaiters <= MaxWaiters
    /\ \A k \in Keys : Len(waiters[k]) <= MaxWaitersPerKey
    /\ \A s \in Shards : Cardinality(EntriesIn(s)) <= MaxKeysPerShard

\* A deadline entry outlives the wait only until the actor that ended the wait
\* has removed it.
DeadlinesDoNotLeak ==
    \A w \in deadlines : state[w] = "Waiting" \/ pc[w] = "armed"
                           \/ \E a \in Actors : settle[a] = w

LeasePhase(w) ==
    CASE Enqueued(w) -> "waiting"
      [] Owning(w) -> "held"
      [] state[w] = "Waiting" /\ ~registered[w] -> "idle"
      [] OTHER -> "over"

Lease == INSTANCE LeaseService WITH
    want   <- [w \in Ids |-> IF Enqueued(w) \/ Owning(w) THEN keysOf[w] ELSE {}],
    phase  <- [w \in Ids |-> LeasePhase(w)],
    before <- {p \in Ids \X Ids : \E k \in Keys : Ahead(p[1], p[2], k)}

\* The sharded queues, late promotions and racing aborts implement the lease
\* service: all-or-nothing, exclusive, and first come first served among
\* conflicting acquisitions.
ImplementsLeaseService == Lease!LSSpec

\* Nobody starves: if lease holders eventually release, every acquisition that
\* is polled ends with a lease or an error.
AcquisitionsComplete ==
    (\A w \in Ids : pc[w] = "leased" ~> pc[w] = "done")
        => \A w \in Ids : pc[w] = "new" ~> pc[w] \in {"leased", "done"}

\* A deadline that passes while a task waits ends the wait, even when the
\* holder never releases.
DeadlinesFire ==
    \A w \in Ids : Enqueued(w) /\ expired[w] ~> ~Enqueued(w)
=============================================================================
