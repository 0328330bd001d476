----------------------- MODULE ConflictManagerProofs -----------------------
(***************************************************************************)
(* Machine-checked proofs about ConflictManager, for every number of keys, *)
(* shards, waiters and every capacity.                                     *)
(***************************************************************************)
EXTENDS ConflictManager, FiniteSetTheorems, SequenceTheorems, TLAPS

-----------------------------------------------------------------------------
(* The queue operators.                                                    *)

\* Taking a waiter out of a queue that has it (VecDeque::retain in
\* Inner::abort) closes the gap and keeps the order of the others.
LEMMA WithoutIndex ==
    ASSUME NEW S, NEW q \in Seq(S), NEW w, \E i \in 1..Len(q) : q[i] = w
    PROVE  \E p \in 1..Len(q) :
             /\ q[p] = w
             /\ Without(q, w) \in Seq(S)
             /\ Len(Without(q, w)) = Len(q) - 1
             /\ \A i \in 1..(Len(q) - 1) :
                  Without(q, w)[i] = IF i < p THEN q[i] ELSE q[i + 1]
<1> DEFINE p == CHOOSE i \in 1..Len(q) : q[i] = w
           l == SubSeq(q, 1, p - 1)
           r == SubSeq(q, p + 1, Len(q))
<1>1. p \in 1..Len(q) /\ q[p] = w
  OBVIOUS
<1>2. Without(q, w) = l \o r
  BY DEF Without
<1> HIDE DEF p
<1>3. l \in Seq(S) /\ Len(l) = p - 1 /\ \A i \in 1..(p - 1) : l[i] = q[i]
  BY <1>1
<1>4. r \in Seq(S) /\ Len(r) = Len(q) - p
      /\ \A i \in 1..(Len(q) - p) : r[i] = q[i + p]
  BY <1>1
<1> HIDE DEF l, r
<1>5. /\ l \o r \in Seq(S)
      /\ Len(l \o r) = Len(l) + Len(r)
      /\ \A i \in 1..(Len(l) + Len(r)) :
           (l \o r)[i] = IF i <= Len(l) THEN l[i] ELSE r[i - Len(l)]
  BY <1>3, <1>4, ConcatProperties
<1>6. ASSUME NEW i \in 1..(Len(q) - 1)
      PROVE  (l \o r)[i] = IF i < p THEN q[i] ELSE q[i + 1]
  <2>1. CASE i < p
    BY <2>1, <1>1, <1>3, <1>4, <1>5
  <2>2. CASE ~(i < p)
    <3>1. i - (p - 1) \in 1..(Len(q) - p) /\ i \in 1..(Len(l) + Len(r)) /\ ~(i <= Len(l))
      BY <2>2, <1>1, <1>3, <1>4
    <3>2. (l \o r)[i] = r[i - (p - 1)]
      BY <3>1, <1>3, <1>5
    <3>3. i - (p - 1) + p = i + 1
      BY <1>1
    <3>4. r[i - (p - 1)] = q[i + 1]
      BY <3>1, <3>3, <1>4
    <3> QED BY <2>2, <3>2, <3>4
  <2> QED BY <2>1, <2>2
<1>7. Without(q, w) \in Seq(S) /\ Len(Without(q, w)) = Len(q) - 1
  BY <1>1, <1>2, <1>3, <1>4, <1>5
<1>8. \A i \in 1..(Len(q) - 1) : Without(q, w)[i] = IF i < p THEN q[i] ELSE q[i + 1]
  BY <1>2, <1>6
<1> QED BY <1>1, <1>7, <1>8

\* What is left in the queue was there before, and stays a queue.
LEMMA WithoutLemma ==
    ASSUME NEW S, NEW q \in Seq(S), NEW w
    PROVE  /\ Without(q, w) \in Seq(S)
           /\ \A i \in 1..Len(Without(q, w)) :
                \E j \in 1..Len(q) : Without(q, w)[i] = q[j]
<1>1. CASE ~\E i \in 1..Len(q) : q[i] = w
  BY <1>1 DEF Without
<1>2. CASE \E i \in 1..Len(q) : q[i] = w
  <2>1. PICK p \in 1..Len(q) :
             /\ q[p] = w
             /\ Without(q, w) \in Seq(S)
             /\ Len(Without(q, w)) = Len(q) - 1
             /\ \A i \in 1..(Len(q) - 1) :
                  Without(q, w)[i] = IF i < p THEN q[i] ELSE q[i + 1]
    BY <1>2, WithoutIndex
  <2> QED BY <2>1, SMTT(30)
<1> QED BY <1>1, <1>2

-----------------------------------------------------------------------------
(* Type correctness.                                                       *)

\* The types of the variables a locked section writes.
LockTypeOK ==
    /\ state \in [Ids -> WaiterStates]
    /\ queued \in [Ids -> BOOLEAN]
    /\ holder \in [Keys -> Ids \cup {None}]
    /\ waiters \in [Keys -> Seq(Ids)]
    /\ table \subseteq Keys
    /\ queuedWaiters \in Int

AfterTypeOK ==
    /\ settle \in [Actors -> Ids \cup {None}]
    /\ promote \in [Actors -> SUBSET Ids]

\* Giving keys or queue places back (abort and release) keeps the types.
LEMMA LeaveType ==
    ASSUME TypeOK, NEW w \in Ids, NEW a \in Actors, NEW target \in WaiterStates,
           LeaveLocked(w, a, target)
    PROVE  LockTypeOK' /\ promote' \in [Actors -> SUBSET Ids]
<1>1. keysOf[w] \subseteq Keys
  BY DEF TypeOK
<1>2. HoldersAfter(w) \in [Keys -> Ids \cup {None}]
  BY DEF TypeOK, HoldersAfter
<1>3. QueuesAfter(w) \in [Keys -> Seq(Ids)]
  BY WithoutLemma DEF TypeOK, QueuesAfter
<1>4. Fronts(keysOf[w], QueuesAfter(w)) \in SUBSET Ids
  <2>1. ASSUME NEW k \in keysOf[w], QueuesAfter(w)[k] # <<>>
        PROVE  Head(QueuesAfter(w)[k]) \in Ids
    BY <2>1, <1>1, <1>3, HeadTailProperties
  <2> QED BY <2>1 DEF Fronts
<1>5. state' \in [Ids -> WaiterStates] /\ queued' \in [Ids -> BOOLEAN]
  BY DEF LeaveLocked, TypeOK
<1>6. holder' \in [Keys -> Ids \cup {None}] /\ waiters' \in [Keys -> Seq(Ids)]
  BY <1>2, <1>3 DEF LeaveLocked
<1>7. table' \subseteq Keys /\ queuedWaiters' \in Int
  BY DEF LeaveLocked, TypeOK
<1>8. promote' \in [Actors -> SUBSET Ids]
  BY <1>4 DEF LeaveLocked, TypeOK
<1> QED BY <1>5, <1>6, <1>7, <1>8 DEF LockTypeOK

\* Inner::abort keeps the types, whether the waiter was waiting or granted.
LEMMA AbortType ==
    ASSUME TypeOK, NEW w \in Ids, NEW a \in Actors, NEW target \in WaiterStates,
           Abort(w, a, target)
    PROVE  LockTypeOK' /\ AfterTypeOK'
<1>1. CASE state[w] \in {"Waiting", "Granted"}
  <2>1. LeaveLocked(w, a, target) /\ settle' = [settle EXCEPT ![a] = w]
    BY <1>1 DEF Abort
  <2> QED BY <2>1, LeaveType DEF AfterTypeOK, TypeOK
<1>2. CASE state[w] \notin {"Waiting", "Granted"}
  BY <1>2 DEF Abort, TypeOK, LockTypeOK, AfterTypeOK, lockVars, afterVars
<1> QED BY <1>1, <1>2

\* Inner::release keeps the types.
LEMMA ReleaseType ==
    ASSUME TypeOK, NEW w \in Ids, NEW a \in Actors, Release(w, a)
    PROVE  LockTypeOK' /\ AfterTypeOK'
<1>1. CASE state[w] = "Consumed"
  <2>1. LeaveLocked(w, a, "Released") /\ UNCHANGED settle
    BY <1>1 DEF Release
  <2>2. "Released" \in WaiterStates
    BY DEF WaiterStates
  <2> QED BY <2>1, <2>2, LeaveType DEF AfterTypeOK, TypeOK
<1>2. CASE state[w] # "Consumed"
  BY <1>2 DEF Release, TypeOK, LockTypeOK, AfterTypeOK, lockVars, afterVars
<1> QED BY <1>1, <1>2

\* Granting from queues in which the waiter is at every front.
LEMMA GrantType ==
    ASSUME TypeOK, NEW w \in Ids, NEW q \in [Keys -> Seq(Ids)], NEW n \in Int,
           Eligible(w, holder, q), GrantLocked(w, q, n), table' \subseteq Keys
    PROVE  LockTypeOK'
<1>1. ASSUME NEW k \in keysOf[w] PROVE Tail(q[k]) \in Seq(Ids)
  BY HeadTailProperties DEF Eligible, TypeOK
<1>2. waiters' \in [Keys -> Seq(Ids)]
  BY <1>1 DEF GrantLocked
<1> QED BY <1>2 DEF GrantLocked, TypeOK, LockTypeOK, WaiterStates

\* Registering appends a waiter to queues of waiters.
LEMMA QueuesWithType ==
    ASSUME TypeOK, NEW w \in Ids
    PROVE  QueuesWith(w) \in [Keys -> Seq(Ids)]
BY AppendProperties DEF QueuesWith, TypeOK

\* A new manager has the right types.
LEMMA TypeInit == ASSUME Init PROVE TypeOK
BY ConfigAssumption DEF Init, TypeOK, Ids, Actors, WaiterStates, Outcomes, Points, PollPoints

\* Every step of the manager, its callers and the deadline worker keeps the
\* types.
LEMMA TypeNext == ASSUME TypeOK, [Next]_vars PROVE TypeOK'
<1> USE DEF idVars, envVars, timerVars, taskVars
<1>a. \A w \in Ids : w \in Actors
  BY DEF Actors
<1>b. Timer \in Actors
  BY DEF Actors
<1>c. {"Cancelled", "TimedOut", "Abandoned", "Consumed", "Granted", "Waiting"}
        \subseteq WaiterStates
  BY DEF WaiterStates
<1>d. \A w \in Ids : InterruptedState(w) \in WaiterStates
  BY DEF InterruptedState, WaiterStates
<1>e. nextWaiterId # 0 => nextWaiterId \in Ids /\ NextId(nextWaiterId) \in 0..MaxWaiterId
  BY ConfigAssumption DEF TypeOK, Ids, NextId
<1>f. /\ \A o \in {"Lease", "WouldBlock", "Cancelled", "DeadlineExceeded", "Dropped",
                   "TableCapacityExceeded", "CancellationRegistrationCapacityExceeded"} :
           o \in Outcomes
      /\ \A w \in Ids : Interruption(w) \in Outcomes
      /\ \A w \in Ids : RegisterCheck(w) # "Ok" => RegisterCheck(w) \in Outcomes
  BY DEF Outcomes, Interruption, RegisterCheck
<1>g. \A x \in {"new", "parked", "leased", "done", "arm", "armed", "recheck", "observe",
               "consume", "consumed", "regWaker", "final"} : x \in Points
  BY DEF Points, PollPoints
<1> USE <1>f, <1>g
<1>1. ASSUME NEW ks \in SUBSET Keys, AcquireMut(ks) PROVE TypeOK'
  BY <1>1, <1>e DEF AcquireMut, TypeOK, lockVars, afterVars
<1>2. ASSUME NEW ks \in SUBSET Keys, TryAcquireMut(ks) PROVE TypeOK'
  <2> DEFINE n == nextWaiterId
  <2>a. n \in Ids
    BY <1>2, <1>e DEF TryAcquireMut
  <2>b. \/ /\ UNCHANGED lockVars
           /\ pc' = [pc EXCEPT ![n] = "done"]
           /\ \/ result' = [result EXCEPT ![n] = "WouldBlock"]
              \/ result' = [result EXCEPT ![n] = "TableCapacityExceeded"]
        \/ /\ holder' = [k \in Keys |-> IF k \in ks THEN n ELSE holder[k]]
           /\ table' = table \cup ks
           /\ state' = [state EXCEPT ![n] = "Consumed"]
           /\ result' = [result EXCEPT ![n] = "Lease"]
           /\ pc' = [pc EXCEPT ![n] = "leased"]
    BY <1>2 DEF TryAcquireMut
  <2> HIDE DEF n
  <2>c. keysOf' \in [Ids -> SUBSET Keys] /\ nextWaiterId' \in 0..MaxWaiterId
    BY <1>2, <1>e DEF TryAcquireMut, TypeOK
  <2>d. UNCHANGED <<waiters, queuedWaiters, queued, timerVars, envVars, afterVars,
                    registered, cancelReg, woken, waker>>
    BY <1>2 DEF TryAcquireMut, lockVars
  <2>1. CASE UNCHANGED lockVars
    <3>a. pc' = [pc EXCEPT ![n] = "done"] \/ pc' = [pc EXCEPT ![n] = "leased"]
      BY <2>b
    <3>b. \/ result' = [result EXCEPT ![n] = "WouldBlock"]
          \/ result' = [result EXCEPT ![n] = "TableCapacityExceeded"]
          \/ result' = [result EXCEPT ![n] = "Lease"]
      BY <2>b
    <3>1. pc' \in [Ids -> Points]
      BY <2>a, <3>a DEF TypeOK
    <3>2. result' \in [Ids -> Outcomes]
      BY <2>a, <3>b DEF TypeOK
    <3> QED BY <2>1, <2>c, <2>d, <3>1, <3>2 DEF TypeOK, lockVars, afterVars
  <2>2. CASE /\ holder' = [k \in Keys |-> IF k \in ks THEN n ELSE holder[k]]
             /\ table' = table \cup ks
             /\ state' = [state EXCEPT ![n] = "Consumed"]
             /\ result' = [result EXCEPT ![n] = "Lease"]
             /\ pc' = [pc EXCEPT ![n] = "leased"]
    BY <2>2, <2>a, <2>c, <2>d, <1>c DEF TypeOK, afterVars
  <2> QED BY <2>b, <2>1, <2>2
<1>3. ASSUME NEW w \in Ids, PollFirst(w) PROVE TypeOK'
  <2>1. CASE Interrupted(w)
    <3>1. Finish(w, Interruption(w)) /\ UNCHANGED <<lockVars, registered>>
      BY <1>3, <2>1 DEF PollFirst
    <3> QED BY <1>3, <3>1 DEF PollFirst, Finish, Goto, TypeOK, lockVars, afterVars
  <2>2. CASE ~Interrupted(w)
    <3>1. CASE RegisterCheck(w) # "Ok"
      <4>1. Finish(w, RegisterCheck(w)) /\ UNCHANGED <<lockVars, registered>>
        BY <1>3, <2>2, <3>1 DEF PollFirst, Register
      <4> QED BY <1>3, <3>1, <4>1 DEF PollFirst, Finish, Goto, TypeOK, lockVars, afterVars
    <3>2. CASE RegisterCheck(w) = "Ok"
      <4>1. table' \subseteq Keys
        BY <1>3, <2>2, <3>2 DEF PollFirst, Register, TypeOK
      <4>2. LockTypeOK'
        <5>1. CASE Eligible(w, holder, QueuesWith(w))
          <6>1. GrantLocked(w, QueuesWith(w), queuedWaiters + 1) /\ queuedWaiters + 1 \in Int
            BY <1>3, <2>2, <3>2, <5>1 DEF PollFirst, Register, TypeOK
          <6> QED BY <6>1, <5>1, <4>1, QueuesWithType, GrantType
        <5>2. CASE ~Eligible(w, holder, QueuesWith(w))
          <6>1. /\ waiters' = QueuesWith(w)
                /\ queued' = [queued EXCEPT ![w] = TRUE]
                /\ queuedWaiters' = queuedWaiters + 1
                /\ UNCHANGED <<holder, state>>
            BY <1>3, <2>2, <3>2, <5>2 DEF PollFirst, Register
          <6> QED BY <6>1, <4>1, QueuesWithType DEF TypeOK, LockTypeOK
        <5> QED BY <5>1, <5>2
      <4>3. pc' \in [Ids -> Points]
        BY <1>3, <2>2, <3>2, ZenonT(40) DEF PollFirst, Register, Goto, TypeOK
      <4>4. /\ registered' = [registered EXCEPT ![w] = TRUE]
            /\ UNCHANGED <<timerVars, envVars, idVars, afterVars, woken, waker,
                           result, cancelReg>>
        BY <1>3, <2>2, <3>2 DEF PollFirst, Register
      <4> QED BY <4>2, <4>3, <4>4 DEF TypeOK, LockTypeOK, afterVars
    <3> QED BY <3>1, <3>2
  <2> QED BY <2>1, <2>2
<1>4. ASSUME NEW w \in Ids, PollAgain(w) PROVE TypeOK'
  <2>1. CASE Interrupted(w)
    <3>1. LockTypeOK' /\ AfterTypeOK'
      BY <1>4, <2>1, <1>a, <1>d, AbortType DEF PollAgain
    <3>2. Finish(w, Interruption(w)) /\ woken' = [woken EXCEPT ![w] = FALSE]
      BY <1>4, <2>1 DEF PollAgain
    <3> QED BY <1>4, <3>1, <3>2
            DEF PollAgain, Finish, Goto, TypeOK, LockTypeOK, AfterTypeOK
  <2>2. CASE ~Interrupted(w)
    BY <1>4, <2>2 DEF PollAgain, Goto, TypeOK, lockVars, afterVars
  <2> QED BY <2>1, <2>2
<1>5. ASSUME NEW w \in Ids, PollArm(w) PROVE TypeOK'
  BY <1>5 DEF PollArm, Goto, TypeOK, lockVars, afterVars
<1>6. ASSUME NEW w \in Ids, PollArmed(w) PROVE TypeOK'
  BY <1>6 DEF PollArmed, Goto, TypeOK, lockVars, afterVars
<1>7. ASSUME NEW w \in Ids, PollRecheck(w) PROVE TypeOK'
  <2>1. LockTypeOK' /\ AfterTypeOK'
    <3>1. CASE Interrupted(w)
      BY <1>7, <3>1, <1>a, <1>d, AbortType DEF PollRecheck
    <3>2. CASE ~Interrupted(w)
      BY <1>7, <3>2 DEF PollRecheck, TypeOK, LockTypeOK, AfterTypeOK, lockVars, afterVars
    <3> QED BY <3>1, <3>2
  <2> QED BY <1>7, <2>1 DEF PollRecheck, Goto, TypeOK, LockTypeOK, AfterTypeOK
<1>8. ASSUME NEW w \in Ids, PollObserve(w) PROVE TypeOK'
  <2>1. pc' \in [Ids -> Points]
    BY <1>8 DEF PollObserve, Finish, Goto, TypeOK, lockVars, afterVars
  <2>2. result' \in [Ids -> Outcomes]
    BY <1>8 DEF PollObserve, Finish, Goto, TypeOK, lockVars, afterVars
  <2>3. cancelReg' \in [Ids -> BOOLEAN]
    BY <1>8 DEF PollObserve, Finish, Goto, TypeOK, lockVars, afterVars
  <2> QED BY <1>8, <2>1, <2>2, <2>3 DEF PollObserve, TypeOK, lockVars, afterVars
<1>9. ASSUME NEW w \in Ids, PollConsume(w) PROVE TypeOK'
  <2>1. state' \in [Ids -> WaiterStates]
    BY <1>9, <1>c DEF PollConsume, TypeOK
  <2>2. pc' \in [Ids -> Points]
    BY <1>9 DEF PollConsume, Goto, TypeOK
  <2>3. woken' \in [Ids -> BOOLEAN]
    BY <1>9 DEF PollConsume, TypeOK
  <2> QED BY <1>9, <2>1, <2>2, <2>3 DEF PollConsume, TypeOK, afterVars
<1>10. ASSUME NEW w \in Ids, PollConsumed(w) PROVE TypeOK'
  <2>1. CASE Interrupted(w)
    <3>1. LockTypeOK' /\ AfterTypeOK'
      BY <1>10, <2>1, <1>a, ReleaseType DEF PollConsumed
    <3>2. Finish(w, Interruption(w))
      BY <1>10, <2>1 DEF PollConsumed
    <3> QED BY <1>10, <3>1, <3>2
            DEF PollConsumed, Finish, Goto, TypeOK, LockTypeOK, AfterTypeOK
  <2>2. CASE ~Interrupted(w)
    <3>1. /\ Goto(w, "leased")
          /\ result' = [result EXCEPT ![w] = "Lease"]
          /\ cancelReg' = [cancelReg EXCEPT ![w] = FALSE]
          /\ UNCHANGED <<lockVars, afterVars>>
      BY <1>10, <2>2 DEF PollConsumed
    <3> QED BY <1>10, <3>1 DEF PollConsumed, Goto, TypeOK, lockVars, afterVars
  <2> QED BY <2>1, <2>2
<1>11. ASSUME NEW w \in Ids, PollRegisterCancellation(w) PROVE TypeOK'
  <2>1. LockTypeOK' /\ AfterTypeOK'
    <3>1. CASE UNCHANGED <<lockVars, afterVars>>
      BY <3>1 DEF TypeOK, LockTypeOK, AfterTypeOK, lockVars, afterVars
    <3>2. CASE Abort(w, w, "Abandoned")
      BY <3>2, <1>a, <1>c, AbortType
    <3> QED BY <1>11, <3>1, <3>2 DEF PollRegisterCancellation
  <2>2. pc' \in [Ids -> Points]
    BY <1>11, SMTT(30) DEF PollRegisterCancellation, Finish, Goto, TypeOK
  <2>3. result' \in [Ids -> Outcomes]
    BY <1>11 DEF PollRegisterCancellation, Finish, TypeOK
  <2>4. woken' \in [Ids -> BOOLEAN] /\ cancelReg' \in [Ids -> BOOLEAN]
    BY <1>11 DEF PollRegisterCancellation, Finish, TypeOK
  <2>5. UNCHANGED <<timerVars, envVars, idVars, registered, waker>>
    BY <1>11 DEF PollRegisterCancellation
  <2> QED BY <2>1, <2>2, <2>3, <2>4, <2>5 DEF TypeOK, LockTypeOK, AfterTypeOK
<1>12. ASSUME NEW w \in Ids, PollRegisterWaker(w) PROVE TypeOK'
  BY <1>12 DEF PollRegisterWaker, Goto, TypeOK, lockVars, afterVars
<1>13. ASSUME NEW w \in Ids, PollFinal(w) PROVE TypeOK'
  BY <1>13 DEF PollFinal, Interrupted, Goto, TypeOK, lockVars, afterVars
<1>14. ASSUME NEW w \in Ids, DropAcquisition(w) PROVE TypeOK'
  <2>1. LockTypeOK' /\ AfterTypeOK'
    <3>1. CASE registered[w]
      BY <1>14, <3>1, <1>a, <1>c, AbortType DEF DropAcquisition
    <3>2. CASE ~registered[w]
      BY <1>14, <3>2 DEF DropAcquisition, TypeOK, LockTypeOK, AfterTypeOK, lockVars, afterVars
    <3> QED BY <3>1, <3>2
  <2> QED BY <1>14, <2>1 DEF DropAcquisition, Finish, Goto, TypeOK, LockTypeOK, AfterTypeOK
<1>15. ASSUME NEW w \in Ids, ReleaseLease(w) PROVE TypeOK'
  <2>1. LockTypeOK' /\ AfterTypeOK'
    BY <1>15, <1>a, ReleaseType DEF ReleaseLease
  <2> QED BY <1>15, <2>1 DEF ReleaseLease, Goto, TypeOK, LockTypeOK, AfterTypeOK
<1>16. ASSUME NEW w \in Ids, TimerTake(w) PROVE TypeOK'
  BY <1>16 DEF TimerTake, TypeOK, lockVars, afterVars
<1>17. ASSUME NEW w \in Ids, CancelToken(w) PROVE TypeOK'
  BY <1>17 DEF CancelToken, TypeOK, lockVars, afterVars
<1>18. ASSUME NEW w \in Ids, DeadlinePasses(w) PROVE TypeOK'
  BY <1>18 DEF DeadlinePasses, TypeOK, lockVars, afterVars
<1>19. ASSUME NEW a \in Actors, Settle(a) PROVE TypeOK'
  <2>1. settle[a] \in Ids
    BY <1>19 DEF Settle, TypeOK, None
  <2> QED BY <1>19, <2>1 DEF Settle, TypeOK, lockVars, afterVars
<1>20. ASSUME NEW a \in Actors, Promote(a) PROVE TypeOK'
  <2>1. PICK c \in promote[a] :
            /\ promote' = [promote EXCEPT ![a] = @ \ {c}]
            /\ \/ /\ state[c] = "Waiting"
                  /\ Eligible(c, holder, waiters)
                  /\ GrantLocked(c, waiters, queuedWaiters)
                  /\ settle' = [settle EXCEPT ![a] = c]
                  /\ UNCHANGED table
               \/ UNCHANGED <<lockVars, settle>>
    BY <1>20 DEF Promote
  <2>2. c \in Ids
    BY DEF TypeOK
  <2>3. LockTypeOK'
    <3>1. CASE UNCHANGED lockVars
      BY <3>1 DEF TypeOK, LockTypeOK, lockVars
    <3>2. CASE ~UNCHANGED lockVars
      <4>1. Eligible(c, holder, waiters) /\ GrantLocked(c, waiters, queuedWaiters)
            /\ table' \subseteq Keys
        BY <2>1, <3>2 DEF TypeOK
      <4>2. waiters \in [Keys -> Seq(Ids)] /\ queuedWaiters \in Int
        BY DEF TypeOK
      <4> QED BY <4>1, <4>2, <2>2, GrantType
    <3> QED BY <3>1, <3>2
  <2>4. AfterTypeOK'
    BY <2>1, <2>2 DEF TypeOK, AfterTypeOK
  <2> QED BY <1>20, <2>3, <2>4 DEF Promote, TypeOK, LockTypeOK, AfterTypeOK
<1>21. ASSUME TimerAbort PROVE TypeOK'
  <2>1. timerJob \in Ids
    BY <1>21 DEF TimerAbort, TypeOK, None
  <2>2. LockTypeOK' /\ AfterTypeOK'
    BY <1>21, <2>1, <1>b, <1>c, AbortType DEF TimerAbort
  <2> QED BY <1>21, <2>2 DEF TimerAbort, TypeOK, LockTypeOK, AfterTypeOK
<1>22. CASE UNCHANGED vars
  BY <1>22 DEF TypeOK, vars, lockVars, afterVars
<1> QED
  BY <1>1, <1>2, <1>3, <1>4, <1>5, <1>6, <1>7, <1>8, <1>9, <1>10, <1>11, <1>12, <1>13,
     <1>14, <1>15, <1>16, <1>17, <1>18, <1>19, <1>20, <1>21, <1>22 DEF Next, PollStep

\* Every reachable state is well typed: in particular the id counter stays
\* within its width, and queues, holders, candidates and timer entries only
\* ever name waiters.
THEOREM TypeCorrect == Spec => []TypeOK
<1>1. Init => TypeOK
  BY TypeInit
<1>2. TypeOK /\ [Next]_vars => TypeOK'
  BY TypeNext
<1> QED BY <1>1, <1>2, PTL DEF Spec

-----------------------------------------------------------------------------
(* Mutual exclusion.                                                       *)

\* A grant to a waiter all of whose keys are free keeps holders and owners in
\* step.
LEMMA GrantOwnership ==
    ASSUME TypeOK, HoldersAreOwners, NEW w \in Ids, NEW q, NEW n,
           Eligible(w, holder, q), GrantLocked(w, q, n), UNCHANGED keysOf
    PROVE  HoldersAreOwners'
<1>1. holder' = [k \in Keys |-> IF k \in keysOf[w] THEN w ELSE holder[k]]
  BY DEF GrantLocked
<1>2. \A v \in Ids : Owning(v)' <=> v = w \/ Owning(v)
  BY DEF GrantLocked, Owning, TypeOK
<1>3. \A k \in keysOf[w] : holder[k] = None
  BY DEF Eligible
<1>4. ASSUME NEW v \in Ids, NEW k \in Keys
      PROVE  holder'[k] = v <=> (v = w \/ Owning(v)) /\ k \in keysOf[v]
  <2>1. holder[k] = v <=> Owning(v) /\ k \in keysOf[v]
    BY DEF HoldersAreOwners
  <2>2. CASE k \in keysOf[w]
    <3>1. holder'[k] = w /\ holder[k] = None /\ v # None
      BY <2>2, <1>1, <1>3 DEF None, Ids
    <3> QED BY <2>1, <2>2, <3>1
  <2>3. CASE k \notin keysOf[w]
    BY <2>1, <2>3, <1>1
  <2> QED BY <2>2, <2>3
<1> QED BY <1>2, <1>4 DEF HoldersAreOwners

\* Giving up (abort) or giving back (release) clears exactly what was held.
LEMMA LeaveOwnership ==
    ASSUME TypeOK, HoldersAreOwners, TableCovers, NEW w \in Ids, NEW a \in Actors,
           NEW target \in WaiterStates \ {"Granted", "Consumed"},
           LeaveLocked(w, a, target), UNCHANGED keysOf
    PROVE  HoldersAreOwners' /\ TableCovers'
<1>1. holder' = [k \in Keys |-> IF holder[k] = w /\ k \in keysOf[w] THEN None ELSE holder[k]]
  BY DEF LeaveLocked, HoldersAfter
<1>2. \A v \in Ids : Owning(v)' <=> v # w /\ Owning(v)
  BY DEF LeaveLocked, Owning, TypeOK
<1>3. ASSUME NEW v \in Ids, NEW k \in Keys
      PROVE  holder'[k] = v <=> (v # w /\ Owning(v)) /\ k \in keysOf[v]
  <2>1. holder[k] = v <=> Owning(v) /\ k \in keysOf[v]
    BY DEF HoldersAreOwners
  <2>2. holder[k] = w <=> Owning(w) /\ k \in keysOf[w]
    BY DEF HoldersAreOwners
  <2>3. v # None
    BY DEF None, Ids
  <2> QED BY <2>1, <2>2, <2>3, <1>1
<1>6. ASSUME NEW k \in Keys, k \notin table' PROVE holder'[k] = None /\ waiters'[k] = <<>>
  <2>1. CASE k \in table
    <3>1. k \in Emptied(keysOf[w], HoldersAfter(w), QueuesAfter(w))
      BY <1>6, <2>1 DEF LeaveLocked
    <3>2. HoldersAfter(w)[k] = None /\ QueuesAfter(w)[k] = <<>>
      BY <3>1 DEF Emptied
    <3> QED BY <3>2 DEF LeaveLocked
  <2>2. CASE k \notin table
    <3>1. holder[k] = None /\ waiters[k] = <<>>
      BY <2>2 DEF TableCovers
    <3>2. waiters'[k] = <<>>
      BY <3>1 DEF LeaveLocked, QueuesAfter, Without
    <3>3. holder'[k] = None
      BY <3>1, <1>1
    <3> QED BY <3>2, <3>3
  <2> QED BY <2>1, <2>2
<1>7. TableCovers'
  BY <1>6 DEF TableCovers
<1>8. HoldersAreOwners'
  BY <1>2, <1>3 DEF HoldersAreOwners
<1> QED BY <1>7, <1>8

\* Inner::abort leaves no key held for the waiter it gives up.
LEMMA AbortOwnership ==
    ASSUME TypeOK, HoldersAreOwners, TableCovers, NEW w \in Ids, NEW a \in Actors,
           NEW target \in WaiterStates \ {"Granted", "Consumed"},
           Abort(w, a, target), UNCHANGED keysOf
    PROVE  HoldersAreOwners' /\ TableCovers'
<1>1. CASE state[w] \in {"Waiting", "Granted"}
  <2>1. LeaveLocked(w, a, target)
    BY <1>1 DEF Abort
  <2> QED BY <2>1, LeaveOwnership
<1>2. CASE state[w] \notin {"Waiting", "Granted"}
  <2>1. UNCHANGED <<holder, waiters, table, state, keysOf>>
    BY <1>2 DEF Abort, lockVars
  <2> QED BY <2>1 DEF HoldersAreOwners, TableCovers, Owning
<1> QED BY <1>1, <1>2

\* Inner::release leaves no key held for the lease it returns.
LEMMA ReleaseOwnership ==
    ASSUME TypeOK, HoldersAreOwners, TableCovers, NEW w \in Ids, NEW a \in Actors,
           Release(w, a), UNCHANGED keysOf
    PROVE  HoldersAreOwners' /\ TableCovers'
<1>1. CASE state[w] = "Consumed"
  <2>1. "Released" \in WaiterStates \ {"Granted", "Consumed"}
    BY DEF WaiterStates
  <2>2. LeaveLocked(w, a, "Released")
    BY <1>1 DEF Release
  <2> QED BY <2>1, <2>2, LeaveOwnership
<1>2. CASE state[w] # "Consumed"
  <2>1. UNCHANGED <<holder, waiters, table, state, keysOf>>
    BY <1>2 DEF Release, lockVars
  <2> QED BY <2>1 DEF HoldersAreOwners, TableCovers, Owning
<1> QED BY <1>1, <1>2

\* v appears in none of the structures a locked section writes.
Untouched(v) ==
    /\ state[v] = "Waiting"
    /\ \A a \in Actors : v \notin promote[a]
    /\ \A k \in Keys : \A i \in 1..Len(waiters[k]) : waiters[k][i] # v

\* A step that hands out no id keeps the unused ids unused if it only writes
\* ids in use into the shared structures.
LEMMA UnusedFrame ==
    ASSUME UnusedIds, UNCHANGED nextWaiterId,
           \A v \in Ids : pc'[v] = "absent" <=> pc[v] = "absent",
           \A v \in Ids : pc[v] = "absent" => timerJob' # v /\ v \notin deadlines',
           \A v \in Ids : pc[v] = "absent" => Untouched(v)'
    PROVE  UnusedIds'
BY DEF UnusedIds, Untouched

\* Giving keys or queue places back brings no unused id into the lock table.
LEMMA LeaveUntouched ==
    ASSUME TypeOK, NEW w \in Ids, NEW a \in Actors, NEW target \in WaiterStates,
           LeaveLocked(w, a, target), NEW v \in Ids \ {w}, Untouched(v)
    PROVE  Untouched(v)'
<1>1. \A k \in Keys : \A i \in 1..Len(QueuesAfter(w)[k]) : QueuesAfter(w)[k][i] # v
  <2> TAKE k \in Keys
  <2>1. waiters[k] \in Seq(Ids) /\ \A j \in 1..Len(waiters[k]) : waiters[k][j] # v
    BY DEF TypeOK, Untouched
  <2>2. QueuesAfter(w)[k] \in {waiters[k], Without(waiters[k], w)}
    BY DEF QueuesAfter
  <2> QED BY <2>1, <2>2, WithoutLemma
<1>2. \A k \in Keys : QueuesAfter(w)[k] \in Seq(Ids)
  BY WithoutLemma DEF TypeOK, QueuesAfter
<1>3. v \notin Fronts(keysOf[w], QueuesAfter(w))
  <2>1. ASSUME NEW k \in keysOf[w], QueuesAfter(w)[k] # <<>>
        PROVE  Head(QueuesAfter(w)[k]) # v
    <3>1. k \in Keys
      BY DEF TypeOK
    <3>2. 1 \in 1..Len(QueuesAfter(w)[k]) /\ Head(QueuesAfter(w)[k]) = QueuesAfter(w)[k][1]
      BY <2>1, <3>1, <1>2
    <3> QED BY <3>1, <3>2, <1>1
  <2> QED BY <2>1 DEF Fronts
<1>4. state'[v] = "Waiting"
  BY DEF LeaveLocked, TypeOK, Untouched
<1>5. \A b \in Actors : v \notin promote'[b]
  BY <1>3 DEF LeaveLocked, TypeOK, Untouched
<1>6. waiters' = QueuesAfter(w)
  BY DEF LeaveLocked
<1> QED BY <1>1, <1>4, <1>5, <1>6 DEF Untouched

\* Neither does Inner::abort.
LEMMA AbortUntouched ==
    ASSUME TypeOK, NEW w \in Ids, NEW a \in Actors, NEW target \in WaiterStates,
           Abort(w, a, target), NEW v \in Ids \ {w}, Untouched(v)
    PROVE  Untouched(v)'
<1>1. CASE state[w] \in {"Waiting", "Granted"}
  <2>1. LeaveLocked(w, a, target)
    BY <1>1 DEF Abort
  <2> QED BY <2>1, LeaveUntouched
<1>2. CASE state[w] \notin {"Waiting", "Granted"}
  <2>1. UNCHANGED <<waiters, state, promote>>
    BY <1>2 DEF Abort, lockVars, afterVars
  <2> QED BY <2>1 DEF Untouched
<1> QED BY <1>1, <1>2

\* Neither does Inner::release.
LEMMA ReleaseUntouched ==
    ASSUME TypeOK, NEW w \in Ids, NEW a \in Actors, Release(w, a),
           NEW v \in Ids \ {w}, Untouched(v)
    PROVE  Untouched(v)'
<1>1. CASE state[w] = "Consumed"
  <2>1. LeaveLocked(w, a, "Released") /\ "Released" \in WaiterStates
    BY <1>1 DEF Release, WaiterStates
  <2> QED BY <2>1, LeaveUntouched
<1>2. CASE state[w] # "Consumed"
  <2>1. UNCHANGED <<waiters, state, promote>>
    BY <1>2 DEF Release, lockVars, afterVars
  <2> QED BY <2>1 DEF Untouched
<1> QED BY <1>1, <1>2

\* Granting pops the fronts of queues that hold only ids in use.
LEMMA GrantUntouched ==
    ASSUME TypeOK, NEW w \in Ids, NEW q \in [Keys -> Seq(Ids)], NEW n,
           Eligible(w, holder, q), GrantLocked(w, q, n),
           NEW v \in Ids \ {w}, Untouched(v), \A a \in Actors : v \notin promote'[a],
           \A k \in Keys : \A i \in 1..Len(q[k]) : q[k][i] # v
    PROVE  Untouched(v)'
<1>1. ASSUME NEW k \in Keys, NEW i \in 1..Len(waiters'[k]) PROVE waiters'[k][i] # v
  <2>1. CASE k \in keysOf[w]
    <3>1. q[k] \in Seq(Ids) /\ q[k] # <<>> /\ waiters'[k] = Tail(q[k])
      BY <2>1 DEF Eligible, GrantLocked
    <3>2. i + 1 \in 1..Len(q[k]) /\ waiters'[k][i] = q[k][i + 1]
      BY <3>1, HeadTailProperties
    <3> QED BY <3>2
  <2>2. CASE k \notin keysOf[w]
    BY <2>2 DEF GrantLocked
  <2> QED BY <2>1, <2>2
<1>2. state'[v] = "Waiting"
  BY DEF GrantLocked, TypeOK, Untouched
<1> QED BY <1>1, <1>2 DEF Untouched

\* Steps that leave the lock table, the ids and the candidates alone.
LEMMA OwnershipFrame ==
    ASSUME OwnershipInv, UNCHANGED <<holder, waiters, table, state, keysOf, nextWaiterId, promote>>,
           \A v \in Ids : pc'[v] = "absent" <=> pc[v] = "absent",
           \A v \in Ids : pc[v] = "absent" => timerJob' # v /\ v \notin deadlines'
    PROVE  HoldersAreOwners' /\ UnusedIds' /\ TableCovers'
<1>1. HoldersAreOwners' /\ TableCovers'
  BY DEF OwnershipInv, HoldersAreOwners, TableCovers, Owning
<1>2. \A v \in Ids : pc[v] = "absent" => Untouched(v)'
  BY DEF OwnershipInv, UnusedIds, Untouched
<1>3. UnusedIds
  BY DEF OwnershipInv
<1> QED BY <1>1, <1>2, <1>3, UnusedFrame

\* Moving the task of an acquisition that exists makes no id appear or vanish.
LEMMA GotoLemma ==
    ASSUME TypeOK, NEW w \in Ids, NEW x, x # "absent", pc[w] # "absent", Goto(w, x)
    PROVE  \A v \in Ids : pc'[v] = "absent" <=> pc[v] = "absent"
BY DEF TypeOK, Goto

\* Handing out the next id to an acquisition that starts as new, over or leased.
LEMMA FreshId ==
    ASSUME TypeOK, UnusedIds, nextWaiterId # 0, nextWaiterId' = NextId(nextWaiterId)
    PROVE  /\ nextWaiterId \in Ids
           /\ pc[nextWaiterId] = "absent"
           /\ nextWaiterId' # 0 => \A v \in Ids : v >= nextWaiterId' =>
                 v # nextWaiterId /\ pc[v] = "absent"
<1>1. nextWaiterId \in Ids
  BY DEF TypeOK, Ids
<1>2. pc[nextWaiterId] = "absent"
  BY <1>1 DEF UnusedIds, Ids
<1>3. ASSUME nextWaiterId' # 0, NEW v \in Ids, v >= nextWaiterId'
      PROVE  v # nextWaiterId /\ pc[v] = "absent"
  <2>1. v > nextWaiterId
    BY <1>1, <1>3 DEF NextId, Ids
  <2> QED BY <2>1, <1>1 DEF UnusedIds, Ids
<1> QED BY <1>1, <1>2, <1>3

\* The inductive step: every action keeps holders, owners and unused ids in
\* step.
LEMMA OwnershipNext == ASSUME OwnershipInv, [Next]_vars PROVE OwnershipInv'
<1> USE DEF idVars, envVars, timerVars, taskVars
<1>a. TypeOK /\ HoldersAreOwners /\ UnusedIds /\ TableCovers
  BY DEF OwnershipInv
<1>b. \A w \in Ids : w \in Actors
  BY DEF Actors
<1>c. /\ {"Cancelled", "TimedOut", "Abandoned"} \subseteq WaiterStates \ {"Granted", "Consumed"}
      /\ \A w \in Ids : InterruptedState(w) \in WaiterStates \ {"Granted", "Consumed"}
  BY DEF WaiterStates, InterruptedState
<1>d. \A v \in Ids : pc[v] = "absent" => Untouched(v) /\ timerJob # v /\ v \notin deadlines
  BY <1>a DEF UnusedIds, Untouched
<1>e. SUFFICES HoldersAreOwners' /\ UnusedIds' /\ TableCovers'
  BY <1>a, TypeNext DEF OwnershipInv
<1>1. ASSUME NEW ks \in SUBSET Keys, AcquireMut(ks)
      PROVE  HoldersAreOwners' /\ UnusedIds' /\ TableCovers'
  <2> DEFINE n == nextWaiterId
  <2>1. n \in Ids /\ pc[n] = "absent" /\ ~Owning(n)
    BY <1>1, <1>a, <1>d, FreshId DEF AcquireMut, Owning, Untouched
  <2>2. UNCHANGED <<holder, waiters, table, state, promote, timerJob, deadlines>>
        /\ keysOf' = [keysOf EXCEPT ![n] = ks] /\ pc' = [pc EXCEPT ![n] = "new"]
    BY <1>1 DEF AcquireMut, lockVars, afterVars
  <2>3. nextWaiterId' # 0 => \A v \in Ids : v >= nextWaiterId' => v # n /\ pc[v] = "absent"
    BY <1>1, <1>a, FreshId DEF AcquireMut
  <2> HIDE DEF n
  <2>4. HoldersAreOwners'
    BY <2>1, <2>2, <1>a DEF HoldersAreOwners, Owning, TypeOK
  <2>5. TableCovers'
    BY <2>2, <1>a DEF TableCovers
  <2>6. UnusedIds'
    <3>1. \A v \in Ids : v # n => pc'[v] = pc[v]
      BY <2>1, <2>2, <1>a DEF TypeOK
    <3>2. pc'[n] # "absent"
      BY <2>1, <2>2, <1>a DEF TypeOK
    <3> QED BY <3>1, <3>2, <2>2, <2>3, <1>d DEF UnusedIds, Untouched
  <2> QED BY <2>4, <2>5, <2>6
<1>2. ASSUME NEW ks \in SUBSET Keys, TryAcquireMut(ks)
      PROVE  HoldersAreOwners' /\ UnusedIds' /\ TableCovers'
  <2> DEFINE n == nextWaiterId
  <2>1. n \in Ids /\ pc[n] = "absent" /\ ~Owning(n)
    BY <1>2, <1>a, <1>d, FreshId DEF TryAcquireMut, Owning, Untouched
  <2>2. UNCHANGED <<waiters, promote, timerJob, deadlines>>
        /\ keysOf' = [keysOf EXCEPT ![n] = ks]
    BY <1>2 DEF TryAcquireMut, lockVars, afterVars
  <2>3. nextWaiterId' # 0 => \A v \in Ids : v >= nextWaiterId' => v # n /\ pc[v] = "absent"
    BY <1>2, <1>a, FreshId DEF TryAcquireMut
  <2>4. /\ pc' = [pc EXCEPT ![n] = "done"] \/ pc' = [pc EXCEPT ![n] = "leased"]
        /\ \/ UNCHANGED <<holder, table, state>>
           \/ /\ ~Busy(ks)
              /\ holder' = [k \in Keys |-> IF k \in ks THEN n ELSE holder[k]]
              /\ table' = table \cup ks
              /\ state' = [state EXCEPT ![n] = "Consumed"]
    BY <1>2 DEF TryAcquireMut, lockVars
  <2> HIDE DEF n
  <2>5. HoldersAreOwners' /\ TableCovers'
    <3>1. CASE UNCHANGED <<holder, table, state>>
      BY <3>1, <2>1, <2>2, <1>a DEF HoldersAreOwners, Owning, TableCovers, TypeOK
    <3>2. CASE /\ ~Busy(ks)
               /\ holder' = [k \in Keys |-> IF k \in ks THEN n ELSE holder[k]]
               /\ table' = table \cup ks
               /\ state' = [state EXCEPT ![n] = "Consumed"]
      <4>1. \A k \in ks : holder[k] = None
        BY <3>2, <1>a DEF Busy, TableCovers
      <4>2. \A v \in Ids : Owning(v)' <=> v = n \/ Owning(v)
        BY <3>2, <2>1, <1>a DEF Owning, TypeOK
      <4>3. ASSUME NEW v \in Ids, NEW k \in Keys
            PROVE  holder'[k] = v <=> (v = n \/ Owning(v)) /\ k \in keysOf'[v]
        <5>1. holder[k] = v <=> Owning(v) /\ k \in keysOf[v]
          BY <1>a DEF HoldersAreOwners
        <5>2. keysOf'[v] = IF v = n THEN ks ELSE keysOf[v]
          BY <2>1, <2>2, <1>a DEF TypeOK
        <5>3. v # None
          BY DEF None, Ids
        <5>4. CASE k \in ks
          BY <5>1, <5>2, <5>3, <5>4, <4>1, <3>2
        <5>5. CASE k \notin ks
          BY <5>1, <5>2, <5>5, <3>2, <2>1
        <5> QED BY <5>4, <5>5
      <4>4. TableCovers'
        BY <3>2, <2>2, <1>a DEF TableCovers
      <4> QED BY <4>2, <4>3, <4>4 DEF HoldersAreOwners
    <3> QED BY <3>1, <3>2, <2>4
  <2>6. UnusedIds'
    <3>1. \A v \in Ids : v # n => pc'[v] = pc[v] /\ state'[v] = state[v]
      BY <2>1, <2>4, <1>a DEF TypeOK
    <3>2. pc'[n] # "absent"
      BY <2>1, <2>4, <1>a DEF TypeOK
    <3> QED BY <3>1, <3>2, <2>2, <2>3, <1>d DEF UnusedIds, Untouched
  <2> QED BY <2>5, <2>6
<1>3. ASSUME NEW w \in Ids, PollFirst(w) PROVE HoldersAreOwners' /\ UnusedIds' /\ TableCovers'
  <2>0. pc[w] # "absent" /\ UNCHANGED <<keysOf, nextWaiterId, promote, timerJob, deadlines>>
    BY <1>3 DEF PollFirst, afterVars
  <2>1. CASE Interrupted(w) \/ RegisterCheck(w) # "Ok"
    <3>1. Goto(w, "done") /\ UNCHANGED lockVars
      BY <1>3, <2>1 DEF PollFirst, Register, Finish
    <3>2. \A v \in Ids : pc'[v] = "absent" <=> pc[v] = "absent"
      BY <3>1, <2>0, <1>a, GotoLemma
    <3> QED BY <3>1, <3>2, <2>0, <1>d, OwnershipFrame DEF lockVars
  <2>2. CASE ~Interrupted(w) /\ RegisterCheck(w) = "Ok"
    <3>1. table' = table \cup keysOf[w]
      BY <1>3, <2>2 DEF PollFirst, Register
    <3>2. \A v \in Ids : pc'[v] = "absent" <=> pc[v] = "absent"
      <4>1. Goto(w, "recheck") \/ Goto(w, "arm")
        BY <1>3, <2>2 DEF PollFirst, Register
      <4> QED BY <4>1, <2>0, <1>a, GotoLemma
    <3>3. QueuesWith(w) \in [Keys -> Seq(Ids)]
      BY <1>a, QueuesWithType
    <3>4. ASSUME NEW v \in Ids, pc[v] = "absent", NEW k \in Keys,
                 NEW i \in 1..Len(QueuesWith(w)[k])
          PROVE  QueuesWith(w)[k][i] # v
      <4>1. waiters[k] \in Seq(Ids) /\ \A j \in 1..Len(waiters[k]) : waiters[k][j] # v
        BY <3>4, <1>a, <1>d DEF TypeOK, Untouched
      <4>2. CASE k \notin keysOf[w]
        BY <4>1, <4>2 DEF QueuesWith
      <4>3. CASE k \in keysOf[w]
        <5>1. QueuesWith(w)[k] = Append(waiters[k], w)
          BY <4>3 DEF QueuesWith
        <5>2. w # v
          BY <3>4, <2>0
        <5> QED BY <5>1, <5>2, <4>1, AppendProperties
      <4> QED BY <4>2, <4>3
    <3>5. CASE Eligible(w, holder, QueuesWith(w))
      <4>1. GrantLocked(w, QueuesWith(w), queuedWaiters + 1)
        BY <1>3, <2>2, <3>5 DEF PollFirst, Register
      <4>2. HoldersAreOwners'
        BY <4>1, <3>5, <2>0, <1>a, GrantOwnership
      <4>3. TableCovers'
        BY <4>1, <3>1, <1>a DEF GrantLocked, TableCovers, QueuesWith
      <4>4. ASSUME NEW v \in Ids, pc[v] = "absent" PROVE Untouched(v)'
        <5>1. v \in Ids \ {w} /\ Untouched(v) /\ \A a \in Actors : v \notin promote'[a]
          BY <4>4, <2>0, <1>d DEF Untouched
        <5>2. \A k \in Keys : \A i \in 1..Len(QueuesWith(w)[k]) : QueuesWith(w)[k][i] # v
          BY <4>4, <3>4
        <5> QED BY <5>1, <5>2, <4>1, <3>3, <3>5, <1>a, GrantUntouched
      <4> QED BY <4>2, <4>3, <4>4, <3>2, <2>0, <1>a, <1>d, UnusedFrame
    <3>6. CASE ~Eligible(w, holder, QueuesWith(w))
      <4>1. waiters' = QueuesWith(w) /\ UNCHANGED <<holder, state>>
        BY <1>3, <2>2, <3>6 DEF PollFirst, Register
      <4>2. HoldersAreOwners'
        BY <4>1, <2>0, <1>a DEF HoldersAreOwners, Owning
      <4>3. TableCovers'
        BY <4>1, <3>1, <1>a DEF TableCovers, QueuesWith
      <4>4. \A v \in Ids : pc[v] = "absent" => Untouched(v)'
        BY <4>1, <3>4, <2>0, <1>d DEF Untouched
      <4> QED BY <4>2, <4>3, <4>4, <3>2, <2>0, <1>a, <1>d, UnusedFrame
    <3> QED BY <3>5, <3>6
  <2> QED BY <2>1, <2>2
<1>4. ASSUME NEW w \in Ids, pc[w] # "absent", NEW a \in Actors,
             NEW target \in WaiterStates \ {"Granted", "Consumed"}, Abort(w, a, target),
             UNCHANGED <<keysOf, nextWaiterId>>,
             \A v \in Ids : pc'[v] = "absent" <=> pc[v] = "absent",
             \A v \in Ids : pc[v] = "absent" => timerJob' # v /\ v \notin deadlines'
      PROVE  HoldersAreOwners' /\ UnusedIds' /\ TableCovers'
  <2>1. HoldersAreOwners' /\ TableCovers'
    BY <1>4, <1>a, AbortOwnership
  <2>2. \A v \in Ids : pc[v] = "absent" => Untouched(v)'
    BY <1>4, <1>a, <1>d, AbortUntouched
  <2> QED BY <2>1, <2>2, <1>4, <1>a, UnusedFrame
<1>5. ASSUME NEW w \in Ids, pc[w] # "absent", Release(w, w),
             UNCHANGED <<keysOf, nextWaiterId, timerJob, deadlines>>,
             \A v \in Ids : pc'[v] = "absent" <=> pc[v] = "absent"
      PROVE  HoldersAreOwners' /\ UnusedIds' /\ TableCovers'
  <2>1. HoldersAreOwners' /\ TableCovers'
    BY <1>5, <1>a, <1>b, ReleaseOwnership
  <2>2. \A v \in Ids : pc[v] = "absent" => Untouched(v)'
    BY <1>5, <1>a, <1>b, <1>d, ReleaseUntouched
  <2> QED BY <2>1, <2>2, <1>5, <1>a, <1>d, UnusedFrame
<1>6. ASSUME NEW w \in Ids, PollAgain(w) PROVE HoldersAreOwners' /\ UnusedIds' /\ TableCovers'
  <2>1. pc[w] # "absent" /\ UNCHANGED <<keysOf, nextWaiterId, timerJob, deadlines>>
    BY <1>6 DEF PollAgain, At
  <2>2. Goto(w, "done") \/ Goto(w, "recheck")
    BY <1>6 DEF PollAgain, Finish
  <2>3. \A v \in Ids : pc'[v] = "absent" <=> pc[v] = "absent"
    BY <2>1, <2>2, <1>a, GotoLemma
  <2>4. CASE Interrupted(w)
    <3>1. Abort(w, w, InterruptedState(w))
      BY <1>6, <2>4 DEF PollAgain
    <3> QED BY <3>1, <2>1, <2>3, <1>b, <1>c, <1>d, <1>4
  <2>5. CASE ~Interrupted(w)
    <3>1. UNCHANGED <<lockVars, afterVars>>
      BY <1>6, <2>5 DEF PollAgain
    <3> QED BY <3>1, <2>1, <2>3, <1>d, OwnershipFrame DEF lockVars, afterVars
  <2> QED BY <2>4, <2>5
<1>7. ASSUME NEW w \in Ids, PollArm(w) PROVE HoldersAreOwners' /\ UnusedIds' /\ TableCovers'
  <2>1. pc[w] # "absent" /\ Goto(w, "armed") /\ deadlines' = deadlines \cup {w}
        /\ UNCHANGED <<lockVars, keysOf, nextWaiterId, promote, timerJob>>
    BY <1>7 DEF PollArm, At, afterVars
  <2>2. \A v \in Ids : pc'[v] = "absent" <=> pc[v] = "absent"
    BY <2>1, <1>a, GotoLemma
  <2>3. \A v \in Ids : pc[v] = "absent" => timerJob' # v /\ v \notin deadlines'
    BY <2>1, <1>d
  <2> QED BY <2>1, <2>2, <2>3, OwnershipFrame DEF lockVars
<1>8. ASSUME NEW w \in Ids, PollArmed(w) PROVE HoldersAreOwners' /\ UnusedIds' /\ TableCovers'
  <2>1. pc[w] # "absent" /\ Goto(w, "recheck") /\ deadlines' \subseteq deadlines
        /\ UNCHANGED <<lockVars, keysOf, nextWaiterId, promote, timerJob>>
    BY <1>8 DEF PollArmed, At, afterVars
  <2>2. \A v \in Ids : pc'[v] = "absent" <=> pc[v] = "absent"
    BY <2>1, <1>a, GotoLemma
  <2>3. \A v \in Ids : pc[v] = "absent" => timerJob' # v /\ v \notin deadlines'
    BY <2>1, <1>d
  <2> QED BY <2>1, <2>2, <2>3, OwnershipFrame DEF lockVars
<1>9. ASSUME NEW w \in Ids, PollRecheck(w) PROVE HoldersAreOwners' /\ UnusedIds' /\ TableCovers'
  <2>1. pc[w] # "absent" /\ UNCHANGED <<keysOf, nextWaiterId, timerJob, deadlines>>
        /\ Goto(w, "observe")
    BY <1>9 DEF PollRecheck, At
  <2>2. \A v \in Ids : pc'[v] = "absent" <=> pc[v] = "absent"
    BY <2>1, <1>a, GotoLemma
  <2>3. CASE Interrupted(w)
    <3>1. Abort(w, w, InterruptedState(w))
      BY <1>9, <2>3 DEF PollRecheck
    <3> QED BY <3>1, <2>1, <2>2, <1>b, <1>c, <1>d, <1>4
  <2>4. CASE ~Interrupted(w)
    <3>1. UNCHANGED <<lockVars, afterVars>>
      BY <1>9, <2>4 DEF PollRecheck
    <3> QED BY <3>1, <2>1, <2>2, <1>d, OwnershipFrame DEF lockVars, afterVars
  <2> QED BY <2>3, <2>4
<1>10. ASSUME NEW w \in Ids, PollObserve(w) PROVE HoldersAreOwners' /\ UnusedIds' /\ TableCovers'
  <2>1. pc[w] # "absent" /\ (Goto(w, "consume") \/ Goto(w, "done"))
        /\ UNCHANGED <<lockVars, keysOf, nextWaiterId, promote, timerJob, deadlines>>
    BY <1>10 DEF PollObserve, Finish, At, afterVars
  <2>2. \A v \in Ids : pc'[v] = "absent" <=> pc[v] = "absent"
    BY <2>1, <1>a, GotoLemma
  <2> QED BY <2>1, <2>2, <1>d, OwnershipFrame DEF lockVars
<1>11. ASSUME NEW w \in Ids, PollConsume(w) PROVE HoldersAreOwners' /\ UnusedIds' /\ TableCovers'
  <2>1. pc[w] # "absent" /\ (Goto(w, "consumed") \/ Goto(w, "parked"))
        /\ UNCHANGED <<holder, waiters, table, keysOf, nextWaiterId, promote, timerJob, deadlines>>
    BY <1>11 DEF PollConsume, At, afterVars
  <2>2. \A v \in Ids : pc'[v] = "absent" <=> pc[v] = "absent"
    BY <2>1, <1>a, GotoLemma
  <2>3. UNCHANGED state \/ (state[w] = "Granted" /\ state' = [state EXCEPT ![w] = "Consumed"])
    BY <1>11 DEF PollConsume
  <2>4. \A v \in Ids : Owning(v)' <=> Owning(v)
    BY <2>3, <1>a DEF Owning, TypeOK
  <2>5. HoldersAreOwners' /\ TableCovers'
    BY <2>1, <2>4, <1>a DEF HoldersAreOwners, TableCovers
  <2>6. \A v \in Ids : pc[v] = "absent" => state'[v] = state[v]
    BY <2>1, <2>3, <1>a DEF TypeOK
  <2>7. \A v \in Ids : pc[v] = "absent" => Untouched(v)'
    BY <2>1, <2>6, <1>d DEF Untouched
  <2> QED BY <2>1, <2>2, <2>5, <2>7, <1>a, <1>d, UnusedFrame
<1>12. ASSUME NEW w \in Ids, PollConsumed(w) PROVE HoldersAreOwners' /\ UnusedIds' /\ TableCovers'
  <2>1. pc[w] # "absent" /\ UNCHANGED <<keysOf, nextWaiterId, timerJob, deadlines>>
        /\ (Goto(w, "done") \/ Goto(w, "leased"))
    BY <1>12 DEF PollConsumed, Finish, At
  <2>2. \A v \in Ids : pc'[v] = "absent" <=> pc[v] = "absent"
    BY <2>1, <1>a, GotoLemma
  <2>3. CASE Interrupted(w)
    <3>1. Release(w, w)
      BY <1>12, <2>3 DEF PollConsumed
    <3> QED BY <3>1, <2>1, <2>2, <1>5
  <2>4. CASE ~Interrupted(w)
    <3>1. UNCHANGED <<lockVars, afterVars>>
      BY <1>12, <2>4 DEF PollConsumed
    <3> QED BY <3>1, <2>1, <2>2, <1>d, OwnershipFrame DEF lockVars, afterVars
  <2> QED BY <2>3, <2>4
<1>13. ASSUME NEW w \in Ids, PollRegisterCancellation(w) PROVE HoldersAreOwners' /\ UnusedIds' /\ TableCovers'
  <2>1. pc[w] # "absent" /\ UNCHANGED <<keysOf, nextWaiterId, timerJob, deadlines>>
        /\ (Goto(w, "done") \/ Goto(w, "regWaker"))
    BY <1>13 DEF PollRegisterCancellation, Finish, At
  <2>2. \A v \in Ids : pc'[v] = "absent" <=> pc[v] = "absent"
    BY <2>1, <1>a, GotoLemma
  <2>3. CASE Abort(w, w, "Abandoned")
    BY <2>1, <2>2, <2>3, <1>b, <1>c, <1>d, <1>4
  <2>4. CASE UNCHANGED <<lockVars, afterVars>>
    BY <2>1, <2>2, <2>4, <1>d, OwnershipFrame DEF lockVars, afterVars
  <2> QED BY <1>13, <2>3, <2>4 DEF PollRegisterCancellation
<1>14. ASSUME NEW w \in Ids, PollRegisterWaker(w) \/ PollFinal(w) PROVE HoldersAreOwners' /\ UnusedIds' /\ TableCovers'
  <2>1. pc[w] # "absent" /\ (Goto(w, "final") \/ Goto(w, "parked"))
        /\ UNCHANGED <<lockVars, keysOf, nextWaiterId, promote, timerJob, deadlines>>
    BY <1>14 DEF PollRegisterWaker, PollFinal, At, afterVars
  <2>2. \A v \in Ids : pc'[v] = "absent" <=> pc[v] = "absent"
    BY <2>1, <1>a, GotoLemma
  <2> QED BY <2>1, <2>2, <1>d, OwnershipFrame DEF lockVars
<1>15. ASSUME NEW w \in Ids, DropAcquisition(w) PROVE HoldersAreOwners' /\ UnusedIds' /\ TableCovers'
  <2>1. pc[w] # "absent" /\ UNCHANGED <<keysOf, nextWaiterId, timerJob, deadlines>>
        /\ Goto(w, "done")
    BY <1>15 DEF DropAcquisition, Finish
  <2>2. \A v \in Ids : pc'[v] = "absent" <=> pc[v] = "absent"
    BY <2>1, <1>a, GotoLemma
  <2>3. CASE registered[w]
    <3>1. Abort(w, w, "Abandoned")
      BY <1>15, <2>3 DEF DropAcquisition
    <3> QED BY <3>1, <2>1, <2>2, <1>b, <1>c, <1>d, <1>4
  <2>4. CASE ~registered[w]
    <3>1. UNCHANGED <<lockVars, afterVars>>
      BY <1>15, <2>4 DEF DropAcquisition
    <3> QED BY <3>1, <2>1, <2>2, <1>d, OwnershipFrame DEF lockVars, afterVars
  <2> QED BY <2>3, <2>4
<1>16. ASSUME NEW w \in Ids, ReleaseLease(w) PROVE HoldersAreOwners' /\ UnusedIds' /\ TableCovers'
  <2>1. pc[w] # "absent" /\ UNCHANGED <<keysOf, nextWaiterId, timerJob, deadlines>>
        /\ Goto(w, "done") /\ Release(w, w)
    BY <1>16 DEF ReleaseLease, At
  <2>2. \A v \in Ids : pc'[v] = "absent" <=> pc[v] = "absent"
    BY <2>1, <1>a, GotoLemma
  <2> QED BY <2>1, <2>2, <1>5
<1>17. ASSUME NEW w \in Ids, TimerTake(w) PROVE HoldersAreOwners' /\ UnusedIds' /\ TableCovers'
  <2>1. w \in deadlines /\ deadlines' = deadlines \ {w} /\ timerJob' = w
        /\ UNCHANGED <<lockVars, keysOf, nextWaiterId, promote, pc>>
    BY <1>17 DEF TimerTake, afterVars
  <2>2. \A v \in Ids : pc[v] = "absent" => timerJob' # v /\ v \notin deadlines'
    BY <2>1, <1>d
  <2> QED BY <2>1, <2>2, OwnershipFrame DEF lockVars
<1>18. ASSUME NEW w \in Ids, CancelToken(w) \/ DeadlinePasses(w) PROVE HoldersAreOwners' /\ UnusedIds' /\ TableCovers'
  <2>1. UNCHANGED <<lockVars, keysOf, nextWaiterId, promote, pc, timerJob, deadlines>>
    BY <1>18 DEF CancelToken, DeadlinePasses, afterVars
  <2> QED BY <2>1, <1>d, OwnershipFrame DEF lockVars
<1>19. ASSUME NEW a \in Actors, Settle(a) PROVE HoldersAreOwners' /\ UnusedIds' /\ TableCovers'
  <2>1. UNCHANGED <<lockVars, keysOf, nextWaiterId, promote, pc, timerJob>>
        /\ deadlines' \subseteq deadlines
    BY <1>19 DEF Settle
  <2>2. \A v \in Ids : pc[v] = "absent" => timerJob' # v /\ v \notin deadlines'
    BY <2>1, <1>d
  <2> QED BY <2>1, <2>2, OwnershipFrame DEF lockVars
<1>20. ASSUME NEW a \in Actors, Promote(a) PROVE HoldersAreOwners' /\ UnusedIds' /\ TableCovers'
  <2>1. PICK c \in promote[a] :
            /\ promote' = [promote EXCEPT ![a] = @ \ {c}]
            /\ \/ /\ state[c] = "Waiting"
                  /\ Eligible(c, holder, waiters)
                  /\ GrantLocked(c, waiters, queuedWaiters)
                  /\ UNCHANGED table
               \/ UNCHANGED lockVars
    BY <1>20 DEF Promote
  <2>2. UNCHANGED <<keysOf, nextWaiterId, pc, timerJob, deadlines>>
    BY <1>20 DEF Promote
  <2>3. c \in Ids /\ pc[c] # "absent"
    BY <1>a, <1>d DEF TypeOK, Untouched
  <2>4. ASSUME NEW v \in Ids, pc[v] = "absent" PROVE \A b \in Actors : v \notin promote'[b]
    BY <2>1, <2>4, <1>a, <1>d DEF TypeOK, Untouched
  <2>5. CASE UNCHANGED lockVars
    <3>1. HoldersAreOwners' /\ TableCovers'
      BY <2>2, <2>5, <1>a DEF lockVars, HoldersAreOwners, TableCovers, Owning
    <3>2. \A v \in Ids : pc[v] = "absent" => Untouched(v)'
      BY <2>4, <2>5, <1>d DEF Untouched, lockVars
    <3> QED BY <3>1, <3>2, <2>2, <1>a, <1>d, UnusedFrame
  <2>6. CASE /\ Eligible(c, holder, waiters)
             /\ GrantLocked(c, waiters, queuedWaiters)
             /\ UNCHANGED table
    <3>1. HoldersAreOwners'
      BY <2>2, <2>3, <2>6, <1>a, GrantOwnership
    <3>2. TableCovers'
      BY <2>6, <1>a DEF GrantLocked, Eligible, TableCovers, TypeOK
    <3>3. ASSUME NEW v \in Ids, pc[v] = "absent" PROVE Untouched(v)'
      <4>1. v \in Ids \ {c} /\ Untouched(v) /\ waiters \in [Keys -> Seq(Ids)]
        BY <3>3, <2>3, <1>a, <1>d DEF TypeOK
      <4>2. \A k \in Keys : \A i \in 1..Len(waiters[k]) : waiters[k][i] # v
        BY <4>1 DEF Untouched
      <4> QED BY <4>1, <4>2, <3>3, <2>3, <2>4, <2>6, <1>a, GrantUntouched
    <3> QED BY <3>1, <3>2, <3>3, <2>2, <1>a, <1>d, UnusedFrame
  <2> QED BY <2>1, <2>5, <2>6
<1>21. ASSUME TimerAbort PROVE HoldersAreOwners' /\ UnusedIds' /\ TableCovers'
  <2>1. timerJob \in Ids /\ Timer \in Actors /\ Abort(timerJob, Timer, "TimedOut")
        /\ UNCHANGED <<keysOf, nextWaiterId, pc, deadlines>> /\ timerJob' = None
    BY <1>21, <1>a DEF TimerAbort, TypeOK, None, Actors
  <2>2. pc[timerJob] # "absent"
    BY <2>1, <1>d
  <2>3. \A v \in Ids : pc[v] = "absent" => timerJob' # v /\ v \notin deadlines'
    BY <2>1, <1>d DEF None, Ids
  <2> QED BY <2>1, <2>2, <2>3, <1>c, <1>4
<1>22. CASE UNCHANGED vars
  BY <1>22, <1>d, OwnershipFrame DEF vars, lockVars, afterVars
<1> QED
  BY <1>1, <1>2, <1>3, <1>6, <1>7, <1>8, <1>9, <1>10, <1>11, <1>12, <1>13, <1>14, <1>15,
     <1>16, <1>17, <1>18, <1>19, <1>20, <1>21, <1>22 DEF Next, PollStep

\* In a new manager nothing is held and no id is in use.
LEMMA OwnershipInit == ASSUME Init PROVE OwnershipInv
<1>1. TypeOK
  BY TypeInit
<1>2. HoldersAreOwners
  BY DEF Init, HoldersAreOwners, Owning, None, Ids
<1>3. UnusedIds
  BY DEF Init, UnusedIds, None, Ids
<1>4. TableCovers
  BY DEF Init, TableCovers
<1> QED BY <1>1, <1>2, <1>3, <1>4 DEF OwnershipInv

\* Holders and owners agree in every reachable state: no key is ever held by an
\* acquisition that was cancelled, timed out, dropped or released, and whoever
\* owns a grant holds all of its keys.
THEOREM OwnershipInvariant == Spec => []HoldersAreOwners
<1>1. Init => OwnershipInv
  BY OwnershipInit
<1>2. OwnershipInv /\ [Next]_vars => OwnershipInv'
  BY OwnershipNext
<1>3. OwnershipInv => HoldersAreOwners
  BY DEF OwnershipInv
<1> QED BY <1>1, <1>2, <1>3, PTL DEF Spec

\* No key is ever leased twice, however many waiters, keys and shards there
\* are and whatever cancels, times out or drops acquisitions.
THEOREM Exclusive == Spec => []MutualExclusion
<1>1. TypeOK /\ HoldersAreOwners => MutualExclusion
  <2>1. ASSUME TypeOK, HoldersAreOwners, NEW v \in Ids, NEW w \in Ids, v # w,
               Owning(v), Owning(w), NEW k \in keysOf[v], k \in keysOf[w]
        PROVE  FALSE
    <3>1. k \in Keys
      BY <2>1 DEF TypeOK
    <3>2. holder[k] = v /\ holder[k] = w
      BY <2>1, <3>1 DEF HoldersAreOwners
    <3> QED BY <3>2, <2>1
  <2> QED BY <2>1 DEF MutualExclusion
<1> QED BY <1>1, TypeCorrect, OwnershipInvariant, PTL

-----------------------------------------------------------------------------
(* Queues: who is in one, and who is before whom.                          *)

In(q, v) == \E i \in 1..Len(q) : q[i] = v
Before(q, u, v) == \E i, j \in 1..Len(q) : i < j /\ q[i] = u /\ q[j] = v
Distinct(q) == \A i, j \in 1..Len(q) : q[i] = q[j] => i = j

\* r is q without w.
Removed(q, r, w) ==
    /\ Distinct(r) /\ Len(r) <= Len(q)
    /\ \A v \in Ids : In(r, v) <=> In(q, v) /\ v # w
    /\ \A u, v \in Ids : Before(r, u, v) <=> Before(q, u, v) /\ u # w /\ v # w

\* Closing the gap at one position removes what was there.
LEMMA GapRemoves ==
    ASSUME NEW q \in Seq(Ids), NEW r \in Seq(Ids), NEW p \in 1..Len(q), Distinct(q),
           Len(r) = Len(q) - 1,
           \A i \in 1..Len(r) : r[i] = IF i < p THEN q[i] ELSE q[i + 1]
    PROVE  Removed(q, r, q[p])
<1> DEFINE m(i) == IF i < p THEN i ELSE i + 1
           n(j) == IF j < p THEN j ELSE j - 1
<1>0. Len(q) \in Nat /\ Len(r) \in Nat
  OBVIOUS
<1>1. \A i \in 1..Len(r) : r[i] = q[m(i)] /\ m(i) \in 1..Len(q) /\ m(i) # p /\ n(m(i)) = i
  BY <1>0
<1>2. \A j \in 1..Len(q) : j # p => n(j) \in 1..Len(r) /\ m(n(j)) = j
  BY <1>0
<1>3. \A i, j \in 1..Len(r) : i < j <=> m(i) < m(j)
  BY <1>0
<1>4. \A i, j \in 1..Len(q) : i # p /\ j # p => (i < j <=> n(i) < n(j))
  BY <1>0
<1> HIDE DEF m, n
<1>5. Distinct(r)
  BY <1>1 DEF Distinct
<1>6. Len(r) <= Len(q)
  BY <1>0
<1>7. ASSUME NEW v \in Ids PROVE In(r, v) <=> In(q, v) /\ v # q[p]
  <2>1. ASSUME In(r, v) PROVE In(q, v) /\ v # q[p]
    BY <2>1, <1>1 DEF In, Distinct
  <2>2. ASSUME In(q, v), v # q[p] PROVE In(r, v)
    <3>1. PICK j \in 1..Len(q) : q[j] = v
      BY <2>2 DEF In
    <3>2. n(j) \in 1..Len(r) /\ m(n(j)) = j
      BY <3>1, <2>2, <1>2
    <3>3. r[n(j)] = v
      BY <3>1, <3>2, <1>1
    <3> QED BY <3>2, <3>3 DEF In
  <2> QED BY <2>1, <2>2
<1>8. ASSUME NEW u \in Ids, NEW v \in Ids
      PROVE  Before(r, u, v) <=> Before(q, u, v) /\ u # q[p] /\ v # q[p]
  <2>1. ASSUME Before(r, u, v) PROVE Before(q, u, v) /\ u # q[p] /\ v # q[p]
    <3>1. PICK i, j \in 1..Len(r) : i < j /\ r[i] = u /\ r[j] = v
      BY <2>1 DEF Before
    <3>2. m(i) < m(j) /\ q[m(i)] = u /\ q[m(j)] = v /\ m(i) \in 1..Len(q) /\ m(j) \in 1..Len(q)
      BY <3>1, <1>1, <1>3
    <3>3. u # q[p] /\ v # q[p]
      BY <3>2, <1>1 DEF Distinct
    <3> QED BY <3>2, <3>3 DEF Before
  <2>2. ASSUME Before(q, u, v), u # q[p], v # q[p] PROVE Before(r, u, v)
    <3>1. PICK i, j \in 1..Len(q) : i < j /\ q[i] = u /\ q[j] = v
      BY <2>2 DEF Before
    <3>2. i # p /\ j # p
      BY <3>1, <2>2
    <3>3. n(i) < n(j) /\ n(i) \in 1..Len(r) /\ n(j) \in 1..Len(r)
      BY <3>1, <3>2, <1>2, <1>4
    <3>4. r[n(i)] = u /\ r[n(j)] = v
      BY <3>1, <3>2, <3>3, <1>1, <1>2
    <3> QED BY <3>3, <3>4 DEF Before
  <2> QED BY <2>1, <2>2
<1> QED BY <1>5, <1>6, <1>7, <1>8 DEF Removed

\* VecDeque::retain takes out the waiter and nothing else.
LEMMA WithoutRemoves ==
    ASSUME NEW q \in Seq(Ids), NEW w, Distinct(q)
    PROVE  Without(q, w) \in Seq(Ids) /\ Removed(q, Without(q, w), w)
<1>1. CASE In(q, w)
  <2>1. PICK p \in 1..Len(q) :
             /\ q[p] = w
             /\ Without(q, w) \in Seq(Ids)
             /\ Len(Without(q, w)) = Len(q) - 1
             /\ \A i \in 1..(Len(q) - 1) :
                  Without(q, w)[i] = IF i < p THEN q[i] ELSE q[i + 1]
    BY <1>1, WithoutIndex DEF In
  <2> QED BY <2>1, GapRemoves
<1>2. CASE ~In(q, w)
  <2>1. Without(q, w) = q
    BY <1>2 DEF Without, In
  <2>2. \A u, v \in Ids : Before(q, u, v) => In(q, u) /\ In(q, v)
    BY DEF Before, In
  <2> QED BY <1>2, <2>1, <2>2 DEF Removed
<1> QED BY <1>1, <1>2

\* So does VecDeque::pop_front.
LEMMA TailRemoves ==
    ASSUME NEW q \in Seq(Ids), q # <<>>, Distinct(q)
    PROVE  Tail(q) \in Seq(Ids) /\ Removed(q, Tail(q), Head(q))
<1>1. /\ Tail(q) \in Seq(Ids) /\ Len(Tail(q)) = Len(q) - 1 /\ Head(q) = q[1]
      /\ 1 \in 1..Len(q)
      /\ \A i \in 1..Len(Tail(q)) : Tail(q)[i] = q[i + 1]
  BY HeadTailProperties
<1>2. \A i \in 1..Len(Tail(q)) : Tail(q)[i] = IF i < 1 THEN q[i] ELSE q[i + 1]
  BY <1>1
<1> QED BY <1>1, <1>2, GapRemoves

\* VecDeque::push_back puts a new waiter behind all others.
LEMMA AppendAdds ==
    ASSUME NEW q \in Seq(Ids), NEW w \in Ids, Distinct(q), ~In(q, w)
    PROVE  /\ Append(q, w) \in Seq(Ids) /\ Len(Append(q, w)) = Len(q) + 1
           /\ Distinct(Append(q, w))
           /\ \A v \in Ids : In(Append(q, w), v) <=> In(q, v) \/ v = w
           /\ \A u, v \in Ids :
                 Before(Append(q, w), u, v) <=> Before(q, u, v) \/ (In(q, u) /\ v = w)
<1> DEFINE r == Append(q, w)
<1>1. /\ r \in Seq(Ids) /\ Len(r) = Len(q) + 1 /\ r[Len(q) + 1] = w
      /\ \A i \in 1..Len(q) : r[i] = q[i]
      /\ Len(q) \in Nat
  BY AppendProperties
<1> HIDE DEF r
<1>2. \A i \in 1..Len(q) : q[i] # w
  BY DEF In
<1>3. \A i \in 1..Len(r) : i \in 1..Len(q) \/ i = Len(q) + 1
  BY <1>1
<1>4. \A i \in 1..Len(q) : i \in 1..Len(r) /\ i < Len(q) + 1
  BY <1>1
<1>5. Distinct(r)
  BY <1>1, <1>2, <1>3 DEF Distinct
<1>6. \A v \in Ids : In(r, v) <=> In(q, v) \/ v = w
  BY <1>1, <1>3, <1>4 DEF In
<1>7. ASSUME NEW u \in Ids, NEW v \in Ids
      PROVE  Before(r, u, v) <=> Before(q, u, v) \/ (In(q, u) /\ v = w)
  <2>1. ASSUME Before(r, u, v) PROVE Before(q, u, v) \/ (In(q, u) /\ v = w)
    <3>1. PICK i, j \in 1..Len(r) : i < j /\ r[i] = u /\ r[j] = v
      BY <2>1 DEF Before
    <3>2. i \in 1..Len(q)
      BY <3>1, <1>1
    <3>3. CASE j \in 1..Len(q)
      BY <3>1, <3>2, <3>3, <1>1 DEF Before
    <3>4. CASE j = Len(q) + 1
      BY <3>1, <3>2, <3>4, <1>1 DEF In
    <3> QED BY <3>3, <3>4, <1>3
  <2>2. ASSUME Before(q, u, v) PROVE Before(r, u, v)
    BY <2>2, <1>1, <1>4 DEF Before
  <2>3. ASSUME In(q, u), v = w PROVE Before(r, u, v)
    <3>1. PICK i \in 1..Len(q) : q[i] = u
      BY <2>3 DEF In
    <3>2. i < Len(q) + 1 /\ i \in 1..Len(r) /\ Len(q) + 1 \in 1..Len(r) /\ r[i] = u /\ r[Len(q) + 1] = v
      BY <3>1, <2>3, <1>1
    <3> QED BY <3>2 DEF Before
  <2> QED BY <2>1, <2>2, <2>3
<1> QED BY <1>1, <1>5, <1>6, <1>7 DEF r

\* What the properties say in these words.
LEMMA QueueWords ==
    /\ QueueIntegrity <=>
         \A k \in Keys : /\ Distinct(waiters[k])
                         /\ \A w \in Ids : Enqueued(w) /\ k \in keysOf[w] <=> In(waiters[k], w)
    /\ \A v, w, k : Ahead(v, w, k) <=> Before(waiters[k], v, w)
BY DEF QueueIntegrity, Distinct, In, Ahead, Before

-----------------------------------------------------------------------------
(* The invariant behind the queues.                                        *)

\* Where the task of an acquisition is tells whether it was registered and
\* whether it took its grant; what is over owns and waits for nothing; and only
\* a task that has just given something up (after an interruption, or at its
\* end) may have settle or promote work left.
Control(w) ==
    /\ pc[w] \in {"absent", "new"} => ~registered[w] /\ state[w] = "Waiting"
    /\ pc[w] \in PollPoints \cup {"parked"} => registered[w]
    /\ state[w] = "Consumed" <=> pc[w] \in {"consumed", "leased"}
    /\ pc[w] = "done" => ~Owning(w) /\ ~Enqueued(w)
    /\ pc[w] # "absent" => keysOf[w] # {} /\ IsFiniteSet(keysOf[w])
    /\ w \in deadlines \/ timerJob = w => registered[w]
    /\ ~Idle(w) => pc[w] \in {"observe", "done"}

Controlled == \A w \in Ids : Control(w)

TimerIdle == timerJob # None => Idle(Timer)

\* The flag of a waiter says whether it is counted.
Flagged == \A w \in Ids : queued[w] <=> Enqueued(w)

QueueInv ==
    /\ OwnershipInv
    /\ Controlled /\ TimerIdle /\ Flagged
    /\ QueueIntegrity

-----------------------------------------------------------------------------
(* What a step can do to holders and queues.                               *)

Ended == {"Cancelled", "TimedOut", "Abandoned", "Released"}

\* Nothing, except that a grant may be taken by its task or an id handed out.
Still ==
    /\ UNCHANGED <<holder, waiters, table, queuedWaiters, queued, registered, promote>>
    /\ \A v \in Ids : pc[v] # "absent" => keysOf'[v] = keysOf[v]
    /\ \A v \in Ids : \/ state'[v] = state[v]
                      \/ state[v] = "Granted" /\ state'[v] = "Consumed"

\* A waiter joins its queues.
Joins(w) ==
    /\ pc[w] = "new" /\ RegisterCheck(w) = "Ok"
    /\ ~Eligible(w, holder, QueuesWith(w))
    /\ waiters' = QueuesWith(w)
    /\ queued' = [queued EXCEPT ![w] = TRUE]
    /\ queuedWaiters' = queuedWaiters + 1
    /\ table' = table \cup keysOf[w]
    /\ registered' = [registered EXCEPT ![w] = TRUE]
    /\ UNCHANGED <<holder, state, keysOf, promote>>

\* An acquisition gets free keys at once.
Takes(w, ks) ==
    /\ state[w] = "Waiting" /\ ~registered[w]
    /\ ks # {} /\ IsFiniteSet(ks) /\ ~TableFull(ks)
    /\ \A k \in ks : holder[k] = None /\ waiters[k] = <<>>
    /\ holder' = [k \in Keys |-> IF k \in ks THEN w ELSE holder[k]]
    /\ table' = table \cup ks
    /\ keysOf' = [keysOf EXCEPT ![w] = ks]
    /\ state'[w] \in {"Granted", "Consumed"}
    /\ \A v \in Ids \ {w} : state'[v] = state[v] /\ registered'[v] = registered[v]
    /\ UNCHANGED <<waiters, queuedWaiters, queued, promote>>

\* A candidate is granted, or is not eligible any more.
Serves(a, c) ==
    /\ Enqueued(c) /\ Eligible(c, holder, waiters)
    /\ GrantLocked(c, waiters, queuedWaiters)
    /\ promote' = [promote EXCEPT ![a] = @ \ {c}]
    /\ UNCHANGED <<table, registered, keysOf>>

Skips(a, c) ==
    /\ ~(Enqueued(c) /\ Eligible(c, holder, waiters))
    /\ promote' = [promote EXCEPT ![a] = @ \ {c}]
    /\ UNCHANGED <<lockVars, registered, keysOf>>

\* A waiter or an owner gives up its places or its keys.
Leaves(w, a, target) ==
    /\ Enqueued(w) \/ Owning(w)
    /\ promote[a] = {}
    /\ LeaveLocked(w, a, target)
    /\ UNCHANGED <<registered, keysOf>>

Step ==
    \/ Still
    \/ \E w \in Ids : Joins(w)
    \/ \E w \in Ids, ks \in SUBSET Keys : Takes(w, ks)
    \/ \E a \in Actors, c \in Ids : Serves(a, c) \/ Skips(a, c)
    \/ \E w \in Ids, a \in Actors, target \in Ended : Leaves(w, a, target)

\* An id that is registered or owns something was handed out.
LEMMA InUse ==
    ASSUME QueueInv, NEW v \in Ids, Enqueued(v) \/ Owning(v)
    PROVE  pc[v] # "absent"
BY DEF QueueInv, OwnershipInv, UnusedIds, Controlled, Control, Enqueued, Owning

LEMMA AbortKind ==
    ASSUME QueueInv, NEW w \in Ids, NEW a \in Actors, NEW target \in Ended,
           registered[w], promote[a] = {}, Abort(w, a, target),
           UNCHANGED <<registered, keysOf>>
    PROVE  Step
<1>1. CASE state[w] \in {"Waiting", "Granted"}
  <2>1. LeaveLocked(w, a, target)
    BY <1>1 DEF Abort
  <2>2. Enqueued(w) \/ Owning(w)
    BY <1>1 DEF Enqueued, Owning
  <2>3. Leaves(w, a, target)
    BY <2>1, <2>2 DEF Leaves
  <2> QED BY <2>3 DEF Step
<1>2. CASE state[w] \notin {"Waiting", "Granted"}
  <2>1. UNCHANGED <<lockVars, afterVars>>
    BY <1>2 DEF Abort
  <2>2. Still
    BY <2>1 DEF Still, lockVars, afterVars
  <2> QED BY <2>2 DEF Step
<1> QED BY <1>1, <1>2

LEMMA ReleaseKind ==
    ASSUME QueueInv, NEW w \in Ids, promote[w] = {}, Release(w, w),
           UNCHANGED <<registered, keysOf>>
    PROVE  Step
<1>1. CASE state[w] = "Consumed"
  <2>1. LeaveLocked(w, w, "Released")
    BY <1>1 DEF Release
  <2>2. Leaves(w, w, "Released")
    BY <1>1, <2>1 DEF Leaves, Owning
  <2>3. w \in Actors /\ "Released" \in Ended
    BY DEF Actors, Ended
  <2> QED BY <2>2, <2>3 DEF Step
<1>2. CASE state[w] # "Consumed"
  <2>1. UNCHANGED <<lockVars, afterVars>>
    BY <1>2 DEF Release
  <2>2. Still
    BY <2>1 DEF Still, lockVars, afterVars
  <2> QED BY <2>2 DEF Step
<1> QED BY <1>1, <1>2

\* try_acquire_mut takes all of its keys or leaves everything as it is.
LEMMA TryKind ==
    ASSUME QueueInv, NEW ks \in SUBSET Keys, TryAcquireMut(ks) PROVE Step
<1> DEFINE n == nextWaiterId
<1>0. TypeOK /\ UnusedIds /\ TableCovers
  BY DEF QueueInv, OwnershipInv
<1>1. n \in Ids /\ pc[n] = "absent"
  BY <1>0, FreshId DEF TryAcquireMut
<1>2. state[n] = "Waiting" /\ ~registered[n]
  BY <1>1 DEF QueueInv, Controlled, Control
<1>3. /\ keysOf' = [keysOf EXCEPT ![n] = ks]
      /\ UNCHANGED <<registered, promote, waiters, queuedWaiters, queued>>
      /\ ks # {} /\ IsFiniteSet(ks)
      /\ \/ UNCHANGED lockVars
         \/ /\ ~Busy(ks) /\ ~TableFull(ks)
            /\ holder' = [k \in Keys |-> IF k \in ks THEN n ELSE holder[k]]
            /\ table' = table \cup ks
            /\ state' = [state EXCEPT ![n] = "Consumed"]
  BY DEF TryAcquireMut, ValidKeySet, lockVars, afterVars
<1> HIDE DEF n
<1>4. CASE UNCHANGED lockVars
  <2>1. \A v \in Ids : pc[v] # "absent" => keysOf'[v] = keysOf[v]
    BY <1>0, <1>1, <1>3 DEF TypeOK
  <2>2. Still
    BY <2>1, <1>3, <1>4 DEF Still, lockVars
  <2> QED BY <2>2 DEF Step
<1>5. CASE /\ ~Busy(ks) /\ ~TableFull(ks)
           /\ holder' = [k \in Keys |-> IF k \in ks THEN n ELSE holder[k]]
           /\ table' = table \cup ks
           /\ state' = [state EXCEPT ![n] = "Consumed"]
  <2>1. \A k \in ks : holder[k] = None /\ waiters[k] = <<>>
    BY <1>0, <1>5 DEF Busy, TableCovers
  <2>2. state'[n] = "Consumed" /\ \A v \in Ids \ {n} : state'[v] = state[v]
    BY <1>0, <1>1, <1>5 DEF TypeOK
  <2>3. Takes(n, ks)
    BY <2>1, <2>2, <1>2, <1>3, <1>5 DEF Takes
  <2> QED BY <2>3, <1>1 DEF Step
<1> QED BY <1>3, <1>4, <1>5

\* A first poll is refused, joins the queues or gets free keys.
LEMMA FirstKind ==
    ASSUME QueueInv, NEW w \in Ids, PollFirst(w) PROVE Step
<1>0. TypeOK /\ pc[w] = "new" /\ UNCHANGED <<keysOf, promote>>
  BY DEF PollFirst, idVars, afterVars, QueueInv, OwnershipInv
<1>1. ~registered[w] /\ state[w] = "Waiting" /\ keysOf[w] # {} /\ IsFiniteSet(keysOf[w])
  BY <1>0 DEF QueueInv, Controlled, Control
<1>2. CASE Interrupted(w) \/ RegisterCheck(w) # "Ok"
  <2>1. UNCHANGED <<lockVars, registered>>
    BY <1>2 DEF PollFirst, Register
  <2>2. Still
    BY <2>1, <1>0 DEF Still, lockVars
  <2> QED BY <2>2 DEF Step
<1>3. CASE ~Interrupted(w) /\ RegisterCheck(w) = "Ok" /\ ~Eligible(w, holder, QueuesWith(w))
  <2>1. Joins(w)
    BY <1>0, <1>3 DEF PollFirst, Register, Joins
  <2> QED BY <2>1 DEF Step
<1>4. CASE ~Interrupted(w) /\ RegisterCheck(w) = "Ok" /\ Eligible(w, holder, QueuesWith(w))
  <2>1. /\ GrantLocked(w, QueuesWith(w), queuedWaiters + 1)
        /\ table' = table \cup keysOf[w]
        /\ registered' = [registered EXCEPT ![w] = TRUE]
    BY <1>4 DEF PollFirst, Register
  <2>2. ~TableFull(keysOf[w])
    BY <1>4 DEF RegisterCheck
  <2>3. ASSUME NEW k \in keysOf[w] PROVE holder[k] = None /\ waiters[k] = <<>>
    <3>1. k \in Keys /\ waiters[k] \in Seq(Ids)
      BY <1>0 DEF TypeOK
    <3>2. holder[k] = None /\ Head(Append(waiters[k], w)) = w
      BY <3>1, <1>4 DEF Eligible, QueuesWith
    <3>3. \A i \in 1..Len(waiters[k]) : waiters[k][i] # w
      BY <3>1, <1>1 DEF QueueInv, QueueIntegrity, Enqueued
    <3>4. waiters[k] # <<>> => Head(Append(waiters[k], w)) = waiters[k][1] /\ 1 \in 1..Len(waiters[k])
      BY <3>1
    <3> QED BY <3>2, <3>3, <3>4
  <2>4. waiters' = waiters
    <3>1. \A k \in keysOf[w] : Tail(QueuesWith(w)[k]) = <<>>
      <4>1. ASSUME NEW k \in keysOf[w] PROVE Tail(Append(waiters[k], w)) = <<>>
        <5>1. waiters[k] = <<>>
          BY <2>3
        <5>2. Append(waiters[k], w) = <<w>>
          BY <5>1
        <5> QED BY <5>2
      <4> QED BY <4>1, <1>0 DEF QueuesWith, TypeOK
    <3>2. \A k \in Keys : waiters'[k] = waiters[k]
      BY <3>1, <2>1, <2>3 DEF GrantLocked, QueuesWith
    <3> QED BY <3>2, <2>1, <1>0 DEF GrantLocked, TypeOK
  <2>5. queuedWaiters' = queuedWaiters /\ queued' = queued
    BY <2>1, <1>0, <1>1 DEF GrantLocked, TypeOK, QueueInv, Flagged, Enqueued
  <2>6. /\ state'[w] = "Granted"
        /\ \A v \in Ids \ {w} : state'[v] = state[v] /\ registered'[v] = registered[v]
    BY <2>1, <1>0 DEF GrantLocked, TypeOK
  <2>7. keysOf' = [keysOf EXCEPT ![w] = keysOf[w]]
    BY <1>0 DEF TypeOK
  <2>8. holder' = [k \in Keys |-> IF k \in keysOf[w] THEN w ELSE holder[k]]
    BY <2>1 DEF GrantLocked
  <2>9. Takes(w, keysOf[w])
    BY <2>1, <2>2, <2>3, <2>4, <2>5, <2>6, <2>7, <2>8, <1>0, <1>1 DEF Takes
  <2>10. keysOf[w] \in SUBSET Keys
    BY <1>0 DEF TypeOK
  <2> QED BY <2>9, <2>10 DEF Step
<1> QED BY <1>2, <1>3, <1>4

\* A candidate that can be granted is in its queues: it has keys.
LEMMA PromoteKind ==
    ASSUME QueueInv, NEW a \in Actors, Promote(a) PROVE Step
<1>0. TypeOK /\ UNCHANGED <<registered, keysOf>>
  BY DEF Promote, idVars, taskVars, QueueInv, OwnershipInv
<1>1. PICK c \in promote[a] :
          /\ promote' = [promote EXCEPT ![a] = @ \ {c}]
          /\ \/ /\ state[c] = "Waiting"
                /\ Eligible(c, holder, waiters)
                /\ GrantLocked(c, waiters, queuedWaiters)
                /\ UNCHANGED table
             \/ /\ ~(state[c] = "Waiting" /\ Eligible(c, holder, waiters))
                /\ UNCHANGED lockVars
  BY DEF Promote
<1>2. c \in Ids /\ pc[c] # "absent"
  BY <1>0 DEF TypeOK, QueueInv, OwnershipInv, UnusedIds
<1>3. CASE /\ state[c] = "Waiting"
           /\ Eligible(c, holder, waiters)
           /\ GrantLocked(c, waiters, queuedWaiters)
           /\ UNCHANGED table
  <2>1. PICK k \in keysOf[c] : TRUE
    BY <1>2 DEF QueueInv, Controlled, Control
  <2>2. k \in Keys /\ waiters[k] \in Seq(Ids) /\ waiters[k] # <<>> /\ Head(waiters[k]) = c
    BY <1>0, <1>2, <1>3, <2>1 DEF Eligible, TypeOK
  <2>3. 1 \in 1..Len(waiters[k]) /\ waiters[k][1] = c
    BY <2>2
  <2>4. Enqueued(c)
    BY <1>2, <2>2, <2>3 DEF QueueInv, QueueIntegrity
  <2>5. Serves(a, c)
    BY <1>0, <1>1, <1>3, <2>4 DEF Serves
  <2> QED BY <2>5, <1>2 DEF Step
<1>4. CASE /\ ~(state[c] = "Waiting" /\ Eligible(c, holder, waiters))
           /\ UNCHANGED lockVars
  <2>1. Skips(a, c)
    BY <1>0, <1>1, <1>4 DEF Skips, Enqueued
  <2> QED BY <2>1, <1>2 DEF Step
<1> QED BY <1>1, <1>3, <1>4

\* Every step of the manager is one of these.
LEMMA StepKinds == ASSUME QueueInv, [Next]_vars PROVE Step
<1> USE DEF idVars, envVars, timerVars, taskVars
<1>0. TypeOK /\ UnusedIds /\ Controlled /\ TimerIdle
  BY DEF QueueInv, OwnershipInv
<1>a. \A w \in Ids : w \in Actors
  BY DEF Actors
<1>b. /\ {"Cancelled", "TimedOut", "Abandoned"} \subseteq Ended
      /\ \A w \in Ids : InterruptedState(w) \in Ended
  BY DEF Ended, InterruptedState
<1>c. ASSUME UNCHANGED <<lockVars, registered, promote, keysOf>> PROVE Step
  <2>1. Still
    BY <1>c DEF Still, lockVars
  <2> QED BY <2>1 DEF Step
<1>d. \A w \in Ids, p \in PollPoints \cup {"parked"} : At(w, p) => registered[w] /\ promote[w] = {}
  BY <1>0 DEF Controlled, Control, At, Idle
<1>e. {"recheck", "observe", "consumed", "parked"} \subseteq PollPoints \cup {"parked"}
  BY DEF PollPoints
<1>1. ASSUME NEW ks \in SUBSET Keys, AcquireMut(ks) PROVE Step
  <2> DEFINE n == nextWaiterId
  <2>1. n \in Ids /\ pc[n] = "absent"
    BY <1>1, <1>0, FreshId DEF AcquireMut
  <2>2. keysOf' = [keysOf EXCEPT ![n] = ks] /\ UNCHANGED <<lockVars, registered, promote>>
    BY <1>1 DEF AcquireMut, afterVars
  <2> HIDE DEF n
  <2>3. \A v \in Ids : pc[v] # "absent" => keysOf'[v] = keysOf[v]
    BY <2>1, <2>2, <1>0 DEF TypeOK
  <2>4. Still
    BY <2>2, <2>3 DEF Still, lockVars
  <2> QED BY <2>4 DEF Step
<1>2. ASSUME NEW ks \in SUBSET Keys, TryAcquireMut(ks) PROVE Step
  BY <1>2, TryKind
<1>3. ASSUME NEW w \in Ids, PollFirst(w) PROVE Step
  BY <1>3, FirstKind
<1>4. ASSUME NEW w \in Ids, PollAgain(w) PROVE Step
  <2>1. registered[w] /\ promote[w] = {} /\ UNCHANGED <<registered, keysOf>>
    BY <1>4, <1>d, <1>e DEF PollAgain
  <2>2. Abort(w, w, InterruptedState(w)) \/ UNCHANGED <<lockVars, afterVars>>
    BY <1>4 DEF PollAgain
  <2> QED BY <2>1, <2>2, <1>a, <1>b, <1>c, AbortKind DEF afterVars
<1>5. ASSUME NEW w \in Ids,
             PollArm(w) \/ PollArmed(w) \/ PollObserve(w) \/ PollRegisterWaker(w) \/ PollFinal(w)
      PROVE  Step
  <2>1. UNCHANGED <<lockVars, registered, promote, keysOf>>
    BY <1>5 DEF PollArm, PollArmed, PollObserve, PollRegisterWaker, PollFinal, afterVars
  <2> QED BY <2>1, <1>c
<1>6. ASSUME NEW w \in Ids, PollRecheck(w) PROVE Step
  <2>1. registered[w] /\ promote[w] = {} /\ UNCHANGED <<registered, keysOf>>
    BY <1>6, <1>d, <1>e DEF PollRecheck
  <2>2. Abort(w, w, InterruptedState(w)) \/ UNCHANGED <<lockVars, afterVars>>
    BY <1>6 DEF PollRecheck
  <2> QED BY <2>1, <2>2, <1>a, <1>b, <1>c, AbortKind DEF afterVars
<1>7. ASSUME NEW w \in Ids, PollConsume(w) PROVE Step
  <2>1. UNCHANGED <<holder, waiters, table, queuedWaiters, queued, registered, promote, keysOf>>
    BY <1>7 DEF PollConsume, afterVars
  <2>2. \A v \in Ids : \/ state'[v] = state[v]
                       \/ state[v] = "Granted" /\ state'[v] = "Consumed"
    BY <1>7, <1>0 DEF PollConsume, TypeOK
  <2>3. Still
    BY <2>1, <2>2 DEF Still
  <2> QED BY <2>3 DEF Step
<1>8. ASSUME NEW w \in Ids, PollConsumed(w) PROVE Step
  <2>1. promote[w] = {} /\ UNCHANGED <<registered, keysOf>>
    BY <1>8 DEF PollConsumed, At, Idle
  <2>2. Release(w, w) \/ UNCHANGED <<lockVars, afterVars>>
    BY <1>8 DEF PollConsumed
  <2> QED BY <2>1, <2>2, <1>c, ReleaseKind DEF afterVars
<1>9. ASSUME NEW w \in Ids, PollRegisterCancellation(w) PROVE Step
  <2>1. registered[w] /\ promote[w] = {} /\ UNCHANGED <<registered, keysOf>>
    BY <1>9, <1>d, <1>e DEF PollRegisterCancellation
  <2>2. Abort(w, w, "Abandoned") \/ UNCHANGED <<lockVars, afterVars>>
    BY <1>9 DEF PollRegisterCancellation
  <2> QED BY <2>1, <2>2, <1>a, <1>b, <1>c, AbortKind DEF afterVars
<1>10. ASSUME NEW w \in Ids, DropAcquisition(w) PROVE Step
  <2>1. promote[w] = {} /\ UNCHANGED <<registered, keysOf>>
    BY <1>10 DEF DropAcquisition, Idle
  <2>2. (registered[w] /\ Abort(w, w, "Abandoned")) \/ UNCHANGED <<lockVars, afterVars>>
    BY <1>10 DEF DropAcquisition
  <2> QED BY <2>1, <2>2, <1>a, <1>b, <1>c, AbortKind DEF afterVars
<1>11. ASSUME NEW w \in Ids, ReleaseLease(w) PROVE Step
  <2>1. promote[w] = {} /\ Release(w, w) /\ UNCHANGED <<registered, keysOf>>
    BY <1>11 DEF ReleaseLease, At, Idle
  <2> QED BY <2>1, ReleaseKind
<1>12. ASSUME NEW w \in Ids, TimerTake(w) \/ CancelToken(w) \/ DeadlinePasses(w) PROVE Step
  <2>1. UNCHANGED <<lockVars, registered, promote, keysOf>>
    BY <1>12 DEF TimerTake, CancelToken, DeadlinePasses, afterVars
  <2> QED BY <2>1, <1>c
<1>13. ASSUME NEW a \in Actors, Settle(a) PROVE Step
  <2>1. UNCHANGED <<lockVars, registered, promote, keysOf>>
    BY <1>13 DEF Settle
  <2> QED BY <2>1, <1>c
<1>14. ASSUME NEW a \in Actors, Promote(a) PROVE Step
  BY <1>14, PromoteKind
<1>15. ASSUME TimerAbort PROVE Step
  <2>1. timerJob \in Ids /\ Timer \in Actors /\ Abort(timerJob, Timer, "TimedOut")
        /\ UNCHANGED <<registered, keysOf>>
    BY <1>15, <1>0 DEF TimerAbort, TypeOK, None, Actors
  <2>2. registered[timerJob] /\ promote[Timer] = {}
    BY <2>1, <1>15, <1>0 DEF TimerAbort, Controlled, Control, TimerIdle, Idle
  <2> QED BY <2>1, <2>2, <1>b, AbortKind
<1>16. CASE UNCHANGED vars
  BY <1>16, <1>c DEF vars, afterVars
<1> QED
  BY <1>1, <1>2, <1>3, <1>4, <1>5, <1>6, <1>7, <1>8, <1>9, <1>10, <1>11, <1>12, <1>13, <1>14,
     <1>15, <1>16 DEF Next, PollStep

\* Who waits and who owns after a step of each kind.
LEMMA StillEffect ==
    ASSUME QueueInv, Still, NEW v \in Ids
    PROVE  /\ (Enqueued(v)' <=> Enqueued(v)) /\ (Owning(v)' <=> Owning(v))
           /\ Enqueued(v) \/ Owning(v) => keysOf'[v] = keysOf[v]
<1>1. Enqueued(v) \/ Owning(v) => pc[v] # "absent"
  BY InUse
<1>2. (Enqueued(v)' <=> Enqueued(v)) /\ (Owning(v)' <=> Owning(v))
  BY DEF Still, Enqueued, Owning
<1> QED BY <1>1, <1>2 DEF Still

LEMMA JoinsEffect ==
    ASSUME QueueInv, NEW w \in Ids, Joins(w), NEW v \in Ids
    PROVE  /\ Enqueued(v)' <=> Enqueued(v) \/ v = w
           /\ Owning(v)' <=> Owning(v)
           /\ ~Enqueued(w) /\ state[w] = "Waiting" /\ keysOf[w] # {}
           /\ IsFiniteSet(keysOf[w])
<1>1. TypeOK /\ ~registered[w] /\ state[w] = "Waiting" /\ keysOf[w] # {} /\ IsFiniteSet(keysOf[w])
  BY DEF Joins, QueueInv, OwnershipInv, Controlled, Control
<1>2. Enqueued(v)' <=> Enqueued(v) \/ v = w
  BY <1>1 DEF Joins, Enqueued, TypeOK
<1> QED BY <1>1, <1>2 DEF Joins, Enqueued, Owning

LEMMA TakesEffect ==
    ASSUME QueueInv, NEW w \in Ids, NEW ks \in SUBSET Keys, Takes(w, ks), NEW v \in Ids
    PROVE  /\ Enqueued(v)' <=> Enqueued(v)
           /\ Owning(v)' <=> Owning(v) \/ v = w
           /\ ~Enqueued(w) /\ ~Owning(w)
           /\ keysOf'[v] = IF v = w THEN ks ELSE keysOf[v]
<1>1. TypeOK
  BY DEF QueueInv, OwnershipInv
<1>2. keysOf'[v] = IF v = w THEN ks ELSE keysOf[v]
  BY <1>1 DEF Takes, TypeOK
<1>3. ~Enqueued(w) /\ ~Owning(w) /\ ~Enqueued(w)' /\ Owning(w)'
  BY DEF Takes, Enqueued, Owning
<1>4. v # w => (Enqueued(v)' <=> Enqueued(v)) /\ (Owning(v)' <=> Owning(v))
  BY DEF Takes, Enqueued, Owning
<1> QED BY <1>2, <1>3, <1>4

LEMMA ServesEffect ==
    ASSUME QueueInv, NEW a \in Actors, NEW c \in Ids, Serves(a, c), NEW v \in Ids
    PROVE  /\ Enqueued(v)' <=> Enqueued(v) /\ v # c
           /\ Owning(v)' <=> Owning(v) \/ v = c
           /\ Enqueued(c) /\ ~Owning(c)
<1>1. TypeOK
  BY DEF QueueInv, OwnershipInv
<1>2. state'[v] = IF v = c THEN "Granted" ELSE state[v]
  BY <1>1 DEF Serves, GrantLocked, TypeOK
<1> QED BY <1>2 DEF Serves, Enqueued, Owning

LEMMA LeavesEffect ==
    ASSUME QueueInv, NEW w \in Ids, NEW a \in Actors, NEW target \in Ended,
           Leaves(w, a, target), NEW v \in Ids
    PROVE  /\ Enqueued(v)' <=> Enqueued(v) /\ v # w
           /\ Owning(v)' <=> Owning(v) /\ v # w
           /\ v = w => state'[v] = target
<1>1. TypeOK
  BY DEF QueueInv, OwnershipInv
<1>2. state'[v] = IF v = w THEN target ELSE state[v]
  BY <1>1 DEF Leaves, LeaveLocked, TypeOK
<1>3. target \notin {"Waiting", "Granted", "Consumed"}
  BY DEF Ended
<1> QED BY <1>2, <1>3 DEF Leaves, Enqueued, Owning

\* The queue of each key after a step of each kind.
LEMMA JoinsQueue ==
    ASSUME QueueInv, NEW w \in Ids, Joins(w), NEW k \in Keys
    PROVE  /\ k \notin keysOf[w] => waiters'[k] = waiters[k]
           /\ k \in keysOf[w] => /\ waiters'[k] = Append(waiters[k], w)
                                 /\ ~In(waiters[k], w)
                                 /\ Distinct(waiters[k]) /\ waiters[k] \in Seq(Ids)
<1>1. TypeOK /\ ~Enqueued(w)
  BY JoinsEffect DEF QueueInv, OwnershipInv
<1>2. Distinct(waiters[k]) /\ ~In(waiters[k], w)
  BY <1>1, QueueWords DEF QueueInv
<1> QED BY <1>1, <1>2 DEF Joins, QueuesWith, TypeOK

LEMMA ServesQueue ==
    ASSUME QueueInv, NEW a \in Actors, NEW c \in Ids, Serves(a, c), NEW k \in Keys
    PROVE  /\ k \notin keysOf[c] => waiters'[k] = waiters[k]
           /\ k \in keysOf[c] => waiters'[k] = Tail(waiters[k])
           /\ waiters[k] \in Seq(Ids)
           /\ Removed(waiters[k], waiters'[k], c)
<1>1. TypeOK
  BY DEF QueueInv, OwnershipInv
<1>2. /\ Distinct(waiters[k])
      /\ \A v \in Ids : Enqueued(v) /\ k \in keysOf[v] <=> In(waiters[k], v)
  BY QueueWords DEF QueueInv
<1>3. CASE k \in keysOf[c]
  <2>1. waiters[k] # <<>> /\ Head(waiters[k]) = c /\ waiters'[k] = Tail(waiters[k])
    BY <1>3 DEF Serves, GrantLocked, Eligible
  <2>2. waiters[k] \in Seq(Ids)
    BY <1>1 DEF TypeOK
  <2> QED BY <2>1, <2>2, <1>2, <1>3, TailRemoves
<1>4. CASE k \notin keysOf[c]
  <2>1. waiters'[k] = waiters[k] /\ ~In(waiters[k], c)
    BY <1>2, <1>4 DEF Serves, GrantLocked
  <2>2. waiters[k] \in Seq(Ids)
    BY <1>1 DEF TypeOK
  <2>3. \A u, v \in Ids : Before(waiters[k], u, v) => In(waiters[k], u) /\ In(waiters[k], v)
    BY DEF Before, In
  <2> QED BY <2>1, <2>2, <2>3, <1>2, <1>4 DEF Removed
<1> QED BY <1>3, <1>4

LEMMA LeavesQueue ==
    ASSUME QueueInv, NEW w \in Ids, NEW a \in Actors, NEW target, Leaves(w, a, target), NEW k \in Keys
    PROVE  /\ k \notin keysOf[w] => waiters'[k] = waiters[k]
           /\ waiters[k] \in Seq(Ids)
           /\ Removed(waiters[k], waiters'[k], w)
<1>1. TypeOK /\ waiters[k] \in Seq(Ids)
  BY DEF QueueInv, OwnershipInv, TypeOK
<1>2. /\ Distinct(waiters[k])
      /\ \A v \in Ids : Enqueued(v) /\ k \in keysOf[v] <=> In(waiters[k], v)
  BY QueueWords DEF QueueInv
<1>3. CASE state[w] = "Waiting" /\ k \in keysOf[w]
  <2>1. waiters'[k] = Without(waiters[k], w)
    BY <1>3 DEF Leaves, LeaveLocked, QueuesAfter
  <2> QED BY <2>1, <1>1, <1>2, <1>3, WithoutRemoves
<1>4. CASE ~(state[w] = "Waiting" /\ k \in keysOf[w])
  <2>1. waiters'[k] = waiters[k] /\ ~In(waiters[k], w)
    BY <1>2, <1>4 DEF Leaves, LeaveLocked, QueuesAfter, Enqueued
  <2>3. \A u, v \in Ids : Before(waiters[k], u, v) => In(waiters[k], u) /\ In(waiters[k], v)
    BY DEF Before, In
  <2> QED BY <2>1, <2>3, <1>1, <1>2, <1>4 DEF Removed
<1> QED BY <1>3, <1>4

\* Queues hold exactly the waiters after every step, each once.
LEMMA IntegrityStep == ASSUME QueueInv, Step PROVE QueueIntegrity'
<1>0. \A k \in Keys : /\ Distinct(waiters[k])
                      /\ \A v \in Ids : Enqueued(v) /\ k \in keysOf[v] <=> In(waiters[k], v)
  BY QueueWords DEF QueueInv
<1>a. SUFFICES ASSUME NEW k \in Keys
               PROVE  /\ Distinct(waiters'[k])
                      /\ \A v \in Ids : Enqueued(v)' /\ k \in keysOf'[v] <=> In(waiters'[k], v)
  BY DEF QueueIntegrity, Distinct, In
<1>1. CASE Still
  <2>1. waiters' = waiters
    BY <1>1 DEF Still
  <2> QED BY <2>1, <1>0, <1>1, StillEffect
<1>2. ASSUME NEW w \in Ids, Joins(w)
      PROVE  /\ Distinct(waiters'[k])
             /\ \A v \in Ids : Enqueued(v)' /\ k \in keysOf'[v] <=> In(waiters'[k], v)
  <2>1. \A v \in Ids : (Enqueued(v)' <=> Enqueued(v) \/ v = w) /\ keysOf'[v] = keysOf[v]
    BY <1>2, JoinsEffect DEF Joins
  <2>2. CASE k \in keysOf[w]
    <3>1. /\ waiters'[k] = Append(waiters[k], w) /\ ~In(waiters[k], w)
          /\ Distinct(waiters[k]) /\ waiters[k] \in Seq(Ids)
      BY <1>2, <2>2, JoinsQueue
    <3>2. /\ Distinct(waiters'[k])
          /\ \A v \in Ids : In(waiters'[k], v) <=> In(waiters[k], v) \/ v = w
      BY <3>1, AppendAdds
    <3>3. \A v \in Ids : Enqueued(v) /\ k \in keysOf[v] <=> In(waiters[k], v)
      BY <1>0
    <3> QED BY <3>2, <3>3, <2>1, <2>2
  <2>3. CASE k \notin keysOf[w]
    BY <1>0, <1>2, <2>1, <2>3, JoinsQueue
  <2> QED BY <2>2, <2>3
<1>3. ASSUME NEW w \in Ids, NEW ks \in SUBSET Keys, Takes(w, ks)
      PROVE  /\ Distinct(waiters'[k])
             /\ \A v \in Ids : Enqueued(v)' /\ k \in keysOf'[v] <=> In(waiters'[k], v)
  <2>1. waiters' = waiters
    BY <1>3 DEF Takes
  <2> QED BY <2>1, <1>0, <1>3, TakesEffect
<1>4. ASSUME NEW a \in Actors, NEW c \in Ids, Serves(a, c)
      PROVE  /\ Distinct(waiters'[k])
             /\ \A v \in Ids : Enqueued(v)' /\ k \in keysOf'[v] <=> In(waiters'[k], v)
  <2>1. \A v \in Ids : (Enqueued(v)' <=> Enqueued(v) /\ v # c) /\ keysOf'[v] = keysOf[v]
    BY <1>4, ServesEffect DEF Serves
  <2>2. Removed(waiters[k], waiters'[k], c)
    BY <1>4, ServesQueue
  <2> QED BY <2>1, <2>2, <1>0 DEF Removed
<1>5. ASSUME NEW a \in Actors, NEW c \in Ids, Skips(a, c)
      PROVE  /\ Distinct(waiters'[k])
             /\ \A v \in Ids : Enqueued(v)' /\ k \in keysOf'[v] <=> In(waiters'[k], v)
  <2>1. \A v \in Ids : (Enqueued(v)' <=> Enqueued(v)) /\ keysOf'[v] = keysOf[v]
    BY <1>5 DEF Skips, Enqueued, lockVars
  <2>2. waiters' = waiters
    BY <1>5 DEF Skips, lockVars
  <2> QED BY <2>1, <2>2, <1>0
<1>6. ASSUME NEW w \in Ids, NEW a \in Actors, NEW target \in Ended, Leaves(w, a, target)
      PROVE  /\ Distinct(waiters'[k])
             /\ \A v \in Ids : Enqueued(v)' /\ k \in keysOf'[v] <=> In(waiters'[k], v)
  <2>1. \A v \in Ids : (Enqueued(v)' <=> Enqueued(v) /\ v # w) /\ keysOf'[v] = keysOf[v]
    BY <1>6, LeavesEffect DEF Leaves
  <2>2. Removed(waiters[k], waiters'[k], w)
    BY <1>6, LeavesQueue
  <2> QED BY <2>1, <2>2, <1>0 DEF Removed
<1> QED BY <1>1, <1>2, <1>3, <1>4, <1>5, <1>6 DEF Step

\* The flag of a waiter is set while it is in the queues.
LEMMA FlaggedStep == ASSUME QueueInv, Step PROVE Flagged'
<1>0. TypeOK /\ \A v \in Ids : queued[v] <=> Enqueued(v)
  BY DEF QueueInv, OwnershipInv, Flagged
<1>1. CASE Still
  BY <1>0, <1>1, StillEffect DEF Still, Flagged
<1>2. ASSUME NEW w \in Ids, Joins(w) PROVE Flagged'
  <2>1. \A v \in Ids : queued'[v] = IF v = w THEN TRUE ELSE queued[v]
    BY <1>0, <1>2 DEF Joins, TypeOK
  <2> QED BY <1>0, <1>2, <2>1, JoinsEffect DEF Flagged
<1>3. ASSUME NEW w \in Ids, NEW ks \in SUBSET Keys, Takes(w, ks) PROVE Flagged'
  BY <1>0, <1>3, TakesEffect DEF Takes, Flagged
<1>4. ASSUME NEW a \in Actors, NEW c \in Ids, Serves(a, c) PROVE Flagged'
  <2>1. \A v \in Ids : queued'[v] = IF v = c THEN FALSE ELSE queued[v]
    BY <1>0, <1>4 DEF Serves, GrantLocked, TypeOK
  <2> QED BY <1>0, <1>4, <2>1, ServesEffect DEF Flagged
<1>5. ASSUME NEW a \in Actors, NEW c \in Ids, Skips(a, c) PROVE Flagged'
  BY <1>0, <1>5 DEF Skips, Flagged, Enqueued, lockVars
<1>6. ASSUME NEW w \in Ids, NEW a \in Actors, NEW target \in Ended, Leaves(w, a, target)
      PROVE  Flagged'
  <2>1. \A v \in Ids : queued'[v] = IF v = w THEN FALSE ELSE queued[v]
    BY <1>0, <1>6 DEF Leaves, LeaveLocked, TypeOK
  <2> QED BY <1>0, <1>6, <2>1, LeavesEffect DEF Flagged
<1> QED BY <1>1, <1>2, <1>3, <1>4, <1>5, <1>6 DEF Step

-----------------------------------------------------------------------------
(* Control.                                                                *)

\* A waiter whose task does not move keeps its part, although it may be granted
\* by a candidate's promotion or timed out by the deadline worker.
LEMMA ControlFrame ==
    ASSUME NEW v \in Ids, Control(v), pc'[v] = pc[v], registered'[v] = registered[v],
           pc[v] # "absent" => keysOf'[v] = keysOf[v],
           v \in deadlines' \/ timerJob' = v => v \in deadlines \/ timerJob = v,
           ~Idle(v)' => ~Idle(v),
           \/ state'[v] = state[v]
           \/ registered[v] /\ state[v] \in {"Waiting", "Granted"} /\ state'[v] = "TimedOut"
           \/ Enqueued(v) /\ state'[v] = "Granted"
    PROVE  Control(v)'
<1>1. /\ (pc[v] \in {"absent", "new"} => ~registered[v] /\ state[v] = "Waiting")'
      /\ (pc[v] \in PollPoints \cup {"parked"} => registered[v])'
  BY DEF Control, Enqueued, PollPoints
<1>2. (state[v] = "Consumed" <=> pc[v] \in {"consumed", "leased"})'
  BY DEF Control, Enqueued, PollPoints
<1>3. (pc[v] = "done" => ~Owning(v) /\ ~Enqueued(v))'
  BY DEF Control, Enqueued, Owning, PollPoints
<1>4. (pc[v] # "absent" => keysOf[v] # {} /\ IsFiniteSet(keysOf[v]))'
  BY DEF Control
<1>5. (v \in deadlines \/ timerJob = v => registered[v])'
  BY DEF Control
<1>6. (~Idle(v) => pc[v] \in {"observe", "done"})'
  BY DEF Control
<1> QED BY <1>1, <1>2, <1>3, <1>4, <1>5, <1>6, Zenon DEF Control

\* Aborting a waiter ends its wait or its grant, and leaves the others and the
\* other actors alone.
LEMMA AbortEffect ==
    ASSUME TypeOK, NEW w \in Ids, NEW a \in Actors, NEW target \in WaiterStates, Abort(w, a, target)
    PROVE  /\ \A v \in Ids \ {w} : state'[v] = state[v]
           /\ state'[w] = IF state[w] \in {"Waiting", "Granted"} THEN target ELSE state[w]
           /\ \A b \in Actors \ {a} : settle'[b] = settle[b] /\ promote'[b] = promote[b]
<1>1. CASE state[w] \in {"Waiting", "Granted"}
  <2>1. /\ state' = [state EXCEPT ![w] = target] /\ settle' = [settle EXCEPT ![a] = w]
        /\ promote' = [promote EXCEPT ![a] = Fronts(keysOf[w], QueuesAfter(w))]
    BY <1>1 DEF Abort, LeaveLocked
  <2> QED BY <2>1, <1>1 DEF TypeOK
<1>2. CASE state[w] \notin {"Waiting", "Granted"}
  BY <1>2 DEF Abort, lockVars, afterVars
<1> QED BY <1>1, <1>2

LEMMA ReleaseEffect ==
    ASSUME TypeOK, NEW w \in Ids, Release(w, w)
    PROVE  /\ \A v \in Ids \ {w} : state'[v] = state[v]
           /\ state'[w] = IF state[w] = "Consumed" THEN "Released" ELSE state[w]
           /\ \A b \in Actors \ {w} : settle'[b] = settle[b] /\ promote'[b] = promote[b]
<1>0. w \in Actors
  BY DEF Actors
<1>1. CASE state[w] = "Consumed"
  <2>1. /\ state' = [state EXCEPT ![w] = "Released"] /\ settle' = settle
        /\ promote' = [promote EXCEPT ![w] = Fronts(keysOf[w], QueuesAfter(w))]
    BY <1>1 DEF Release, LeaveLocked
  <2> QED BY <2>1, <1>0, <1>1 DEF TypeOK
<1>2. CASE state[w] # "Consumed"
  BY <1>2 DEF Release, lockVars, afterVars
<1> QED BY <1>1, <1>2

\* A step of one task that leaves the others, the timer and their actors alone.
Alone(w) ==
    /\ pc' = [pc EXCEPT ![w] = pc'[w]]
    /\ \A v \in Ids \ {w} : /\ registered'[v] = registered[v] /\ state'[v] = state[v]
                            /\ (pc[v] # "absent" => keysOf'[v] = keysOf[v])
                            /\ (v \in deadlines' => v \in deadlines)
    /\ timerJob' = timerJob
    /\ \A b \in Actors \ {w} : settle'[b] = settle[b] /\ promote'[b] = promote[b]

LEMMA AloneControl ==
    ASSUME QueueInv, NEW w \in Ids, Alone(w), Control(w)'
    PROVE  Controlled' /\ TimerIdle'
<1>1. TypeOK /\ Controlled /\ TimerIdle
  BY DEF QueueInv, OwnershipInv
<1>2. ASSUME NEW v \in Ids \ {w} PROVE Control(v)'
  <2>1. v \in Actors \ {w}
    BY DEF Actors
  <2>2. Control(v) /\ pc'[v] = pc[v]
    BY <1>1 DEF Alone, TypeOK, Controlled
  <2>3. Idle(v)' <=> Idle(v)
    BY <2>1 DEF Idle, Alone
  <2> QED BY <2>1, <2>2, <2>3, ControlFrame DEF Alone
<1>3. Timer \in Actors \ {w}
  BY DEF Timer, Actors, Ids
<1>4. TimerIdle'
  BY <1>1, <1>3 DEF TimerIdle, Idle, Alone
<1> QED BY <1>2, <1>4 DEF Controlled

\* A step of a task keeps its own part.
LEMMA PollControl ==
    ASSUME QueueInv, NEW w \in Ids, PollAgain(w) \/ PollStep(w) \/ DropAcquisition(w) \/ ReleaseLease(w)
    PROVE  Alone(w) /\ Control(w)'
<1> USE DEF idVars, envVars, timerVars, taskVars
<1>0. TypeOK /\ Control(w) /\ w \in Actors
  BY DEF QueueInv, OwnershipInv, Controlled, Actors
<1>a. {"Cancelled", "TimedOut", "Abandoned"} \subseteq WaiterStates
      /\ InterruptedState(w) \in {"Cancelled", "TimedOut"}
  BY DEF WaiterStates, InterruptedState
<1>b. ASSUME NEW p, Goto(w, p) PROVE pc'[w] = p /\ pc' = [pc EXCEPT ![w] = pc'[w]]
  BY <1>b, <1>0 DEF Goto, TypeOK
<1>c. ASSUME UNCHANGED <<lockVars, afterVars>>
      PROVE  /\ \A v \in Ids : state'[v] = state[v]
             /\ \A b \in Actors : settle'[b] = settle[b] /\ promote'[b] = promote[b]
             /\ Idle(w)' <=> Idle(w)
  BY <1>c, <1>0 DEF lockVars, afterVars, Idle
<1>1. ASSUME PollFirst(w) PROVE Alone(w) /\ Control(w)'
  <2>0. pc[w] = "new" /\ UNCHANGED <<keysOf, deadlines, timerJob, settle, promote>>
    BY <1>1 DEF PollFirst, afterVars
  <2>1. ~registered[w] /\ state[w] = "Waiting" /\ keysOf[w] # {} /\ IsFiniteSet(keysOf[w]) /\ Idle(w)
    BY <2>0, <1>0 DEF Control
  <2>2. CASE Interrupted(w) \/ RegisterCheck(w) # "Ok"
    <3>1. Goto(w, "done") /\ UNCHANGED <<lockVars, registered>>
      BY <1>1, <2>2 DEF PollFirst, Register, Finish
    <3> QED BY <3>1, <2>0, <2>1, <1>0, <1>b DEF Alone, Control, Owning, Enqueued, Idle, lockVars, PollPoints
  <2>3. CASE ~(Interrupted(w) \/ RegisterCheck(w) # "Ok")
    <3>1. Goto(w, "recheck") \/ Goto(w, "arm")
      BY <1>1, <2>3 DEF PollFirst, Register
    <3>2. registered'[w] /\ \A v \in Ids \ {w} : registered'[v] = registered[v]
      BY <1>1, <2>3, <1>0 DEF PollFirst, Register, TypeOK
    <3>3. state'[w] \in {"Waiting", "Granted"} /\ \A v \in Ids \ {w} : state'[v] = state[v]
      BY <1>1, <2>1, <2>3, <1>0 DEF PollFirst, Register, GrantLocked, TypeOK
    <3> QED BY <3>1, <3>2, <3>3, <2>0, <2>1, <1>0, <1>b DEF Alone, Control, Idle, PollPoints
  <2> QED BY <2>2, <2>3
<1>2. ASSUME PollAgain(w) PROVE Alone(w) /\ Control(w)'
  <2>0. pc[w] = "parked" /\ Idle(w) /\ UNCHANGED <<keysOf, deadlines, timerJob, registered>>
    BY <1>2 DEF PollAgain, At
  <2>1. registered[w] /\ state[w] # "Consumed" /\ keysOf[w] # {} /\ IsFiniteSet(keysOf[w])
    BY <2>0, <1>0 DEF Control
  <2>2. CASE Interrupted(w)
    <3>1. Goto(w, "done") /\ Abort(w, w, InterruptedState(w))
      BY <1>2, <2>2 DEF PollAgain, Finish
    <3>2. /\ \A v \in Ids \ {w} : state'[v] = state[v]
          /\ state'[w] \notin {"Waiting", "Granted", "Consumed"}
          /\ \A b \in Actors \ {w} : settle'[b] = settle[b] /\ promote'[b] = promote[b]
      BY <3>1, <2>1, <1>0, <1>a, AbortEffect
    <3> QED BY <3>1, <3>2, <2>0, <2>1, <1>b DEF Alone, Control, Owning, Enqueued, PollPoints
  <2>3. CASE ~Interrupted(w)
    <3>1. Goto(w, "recheck") /\ UNCHANGED <<lockVars, afterVars>>
      BY <1>2, <2>3 DEF PollAgain
    <3> QED BY <3>1, <2>0, <2>1, <1>b, <1>c DEF Alone, Control, PollPoints
  <2> QED BY <2>2, <2>3
<1>3. ASSUME PollArm(w) \/ PollArmed(w) PROVE Alone(w) /\ Control(w)'
  <2>0. /\ pc[w] \in {"arm", "armed"} /\ Idle(w) /\ (Goto(w, "armed") \/ Goto(w, "recheck"))
        /\ UNCHANGED <<keysOf, timerJob, registered, lockVars, afterVars>>
        /\ deadlines' \subseteq deadlines \cup {w}
    BY <1>3 DEF PollArm, PollArmed, At, afterVars
  <2>1. registered[w] /\ state[w] # "Consumed" /\ keysOf[w] # {} /\ IsFiniteSet(keysOf[w])
    BY <2>0, <1>0 DEF Control, PollPoints
  <2> QED BY <2>0, <2>1, <1>b, <1>c DEF Alone, Control, PollPoints
<1>4. ASSUME PollRecheck(w) PROVE Alone(w) /\ Control(w)'
  <2>0. /\ pc[w] = "recheck" /\ Idle(w) /\ Goto(w, "observe")
        /\ UNCHANGED <<keysOf, deadlines, timerJob, registered>>
    BY <1>4 DEF PollRecheck, At
  <2>1. registered[w] /\ state[w] # "Consumed" /\ keysOf[w] # {} /\ IsFiniteSet(keysOf[w])
    BY <2>0, <1>0 DEF Control, PollPoints
  <2>2. Abort(w, w, InterruptedState(w)) \/ UNCHANGED <<lockVars, afterVars>>
    BY <1>4 DEF PollRecheck
  <2>3. /\ \A v \in Ids \ {w} : state'[v] = state[v]
        /\ state'[w] # "Consumed"
        /\ \A b \in Actors \ {w} : settle'[b] = settle[b] /\ promote'[b] = promote[b]
    <3>1. CASE Abort(w, w, InterruptedState(w))
      BY <3>1, <2>1, <1>0, <1>a, AbortEffect
    <3>2. CASE UNCHANGED <<lockVars, afterVars>>
      BY <3>2, <2>1, <1>c
    <3> QED BY <2>2, <3>1, <3>2
  <2> QED BY <2>0, <2>1, <2>3, <1>b DEF Alone, Control, PollPoints
<1>5. ASSUME PollObserve(w) PROVE Alone(w) /\ Control(w)'
  <2>0. /\ pc[w] = "observe" /\ Idle(w)
        /\ \/ state[w] = "Granted" /\ Goto(w, "consume")
           \/ state[w] \in {"Cancelled", "Abandoned", "TimedOut"} /\ Goto(w, "done")
        /\ UNCHANGED <<keysOf, deadlines, timerJob, registered, lockVars, afterVars>>
    BY <1>5 DEF PollObserve, At, Finish
  <2>1. registered[w] /\ state[w] # "Consumed" /\ keysOf[w] # {} /\ IsFiniteSet(keysOf[w])
    BY <2>0, <1>0 DEF Control, PollPoints
  <2> QED BY <2>0, <2>1, <1>b, <1>c DEF Alone, Control, Owning, Enqueued, PollPoints
<1>6. ASSUME PollConsume(w) PROVE Alone(w) /\ Control(w)'
  <2>0. /\ pc[w] = "consume" /\ Idle(w)
        /\ \/ state' = [state EXCEPT ![w] = "Consumed"] /\ Goto(w, "consumed")
           \/ state' = state /\ Goto(w, "parked")
        /\ UNCHANGED <<keysOf, deadlines, timerJob, registered, settle, promote>>
    BY <1>6 DEF PollConsume, At, afterVars
  <2>1. registered[w] /\ state[w] # "Consumed" /\ keysOf[w] # {} /\ IsFiniteSet(keysOf[w])
    BY <2>0, <1>0 DEF Control, PollPoints
  <2>2. /\ \A v \in Ids \ {w} : state'[v] = state[v]
        /\ state'[w] = "Consumed" <=> pc'[w] = "consumed"
        /\ pc'[w] \in {"consumed", "parked"} /\ pc' = [pc EXCEPT ![w] = pc'[w]]
    BY <2>0, <2>1, <1>0, <1>b DEF TypeOK
  <2> QED BY <2>0, <2>1, <2>2, <1>0 DEF Alone, Control, Idle, PollPoints
<1>7. ASSUME PollConsumed(w) \/ ReleaseLease(w) PROVE Alone(w) /\ Control(w)'
  <2>0. /\ pc[w] \in {"consumed", "leased"} /\ Idle(w)
        /\ \/ Release(w, w) /\ Goto(w, "done")
           \/ Goto(w, "leased") /\ UNCHANGED <<lockVars, afterVars>>
        /\ UNCHANGED <<keysOf, deadlines, timerJob, registered>>
    BY <1>7 DEF PollConsumed, ReleaseLease, At, Finish
  <2>1. state[w] = "Consumed" /\ keysOf[w] # {} /\ IsFiniteSet(keysOf[w])
    BY <2>0, <1>0 DEF Control, PollPoints
  <2>2. CASE Release(w, w) /\ Goto(w, "done")
    <3>1. /\ \A v \in Ids \ {w} : state'[v] = state[v]
          /\ state'[w] = "Released"
          /\ \A b \in Actors \ {w} : settle'[b] = settle[b] /\ promote'[b] = promote[b]
      BY <2>1, <2>2, <1>0, ReleaseEffect
    <3> QED BY <3>1, <2>0, <2>1, <2>2, <1>0, <1>b DEF Alone, Control, Owning, Enqueued, PollPoints
  <2>3. CASE Goto(w, "leased") /\ UNCHANGED <<lockVars, afterVars>>
    BY <2>0, <2>1, <2>3, <1>0, <1>b, <1>c DEF Alone, Control, PollPoints
  <2> QED BY <2>0, <2>2, <2>3
<1>8. ASSUME PollRegisterCancellation(w) PROVE Alone(w) /\ Control(w)'
  <2>0. /\ pc[w] = "observe" /\ Idle(w)
        /\ \/ Abort(w, w, "Abandoned") /\ Goto(w, "done")
           \/ Goto(w, "regWaker") /\ UNCHANGED <<lockVars, afterVars>>
        /\ UNCHANGED <<keysOf, deadlines, timerJob, registered>>
    BY <1>8 DEF PollRegisterCancellation, At, Finish
  <2>1. registered[w] /\ state[w] # "Consumed" /\ keysOf[w] # {} /\ IsFiniteSet(keysOf[w])
    BY <2>0, <1>0 DEF Control, PollPoints
  <2>2. CASE Abort(w, w, "Abandoned") /\ Goto(w, "done")
    <3>1. /\ \A v \in Ids \ {w} : state'[v] = state[v]
          /\ state'[w] \notin {"Waiting", "Granted", "Consumed"}
          /\ \A b \in Actors \ {w} : settle'[b] = settle[b] /\ promote'[b] = promote[b]
      BY <2>1, <2>2, <1>0, <1>a, AbortEffect
    <3> QED BY <3>1, <2>0, <2>1, <2>2, <1>b DEF Alone, Control, Owning, Enqueued, PollPoints
  <2>3. CASE Goto(w, "regWaker") /\ UNCHANGED <<lockVars, afterVars>>
    BY <2>0, <2>1, <2>3, <1>b, <1>c DEF Alone, Control, PollPoints
  <2> QED BY <2>0, <2>2, <2>3
<1>9. ASSUME PollRegisterWaker(w) \/ PollFinal(w) PROVE Alone(w) /\ Control(w)'
  <2>0. /\ pc[w] \in {"regWaker", "final"} /\ Idle(w) /\ (Goto(w, "final") \/ Goto(w, "parked"))
        /\ UNCHANGED <<keysOf, deadlines, timerJob, registered, lockVars, afterVars>>
    BY <1>9 DEF PollRegisterWaker, PollFinal, At
  <2>1. registered[w] /\ state[w] # "Consumed" /\ keysOf[w] # {} /\ IsFiniteSet(keysOf[w])
    BY <2>0, <1>0 DEF Control, PollPoints
  <2> QED BY <2>0, <2>1, <1>b, <1>c DEF Alone, Control, PollPoints
<1>10. ASSUME DropAcquisition(w) PROVE Alone(w) /\ Control(w)'
  <2>0. /\ pc[w] \in {"new", "parked"} /\ Idle(w) /\ Goto(w, "done")
        /\ UNCHANGED <<keysOf, deadlines, timerJob, registered>>
    BY <1>10 DEF DropAcquisition, Finish
  <2>1. state[w] # "Consumed" /\ keysOf[w] # {} /\ IsFiniteSet(keysOf[w])
    BY <2>0, <1>0 DEF Control, PollPoints
  <2>2. CASE registered[w]
    <3>1. Abort(w, w, "Abandoned")
      BY <1>10, <2>2 DEF DropAcquisition
    <3>2. /\ \A v \in Ids \ {w} : state'[v] = state[v]
          /\ state'[w] \notin {"Waiting", "Granted", "Consumed"}
          /\ \A b \in Actors \ {w} : settle'[b] = settle[b] /\ promote'[b] = promote[b]
      BY <3>1, <2>1, <1>0, <1>a, AbortEffect
    <3> QED BY <3>2, <2>0, <2>1, <2>2, <1>b DEF Alone, Control, Owning, Enqueued, PollPoints
  <2>3. CASE ~registered[w]
    <3>1. UNCHANGED <<lockVars, afterVars>>
      BY <1>10, <2>3 DEF DropAcquisition
    <3>2. state[w] = "Waiting" /\ w \notin deadlines /\ timerJob # w
      BY <2>0, <2>3, <1>0 DEF Control
    <3> QED BY <3>1, <3>2, <2>0, <2>1, <2>3, <1>b, <1>c DEF Alone, Control, Owning, Enqueued, PollPoints
  <2> QED BY <2>2, <2>3
<1> QED BY <1>1, <1>2, <1>3, <1>4, <1>5, <1>6, <1>7, <1>8, <1>9, <1>10 DEF PollStep

\* So does the start of an acquisition.
LEMMA StartControl ==
    ASSUME QueueInv, NEW ks \in SUBSET Keys, AcquireMut(ks) \/ TryAcquireMut(ks)
    PROVE  Controlled' /\ TimerIdle'
<1> USE DEF idVars, envVars, timerVars, taskVars
<1>0. TypeOK /\ UnusedIds /\ Controlled
  BY DEF QueueInv, OwnershipInv
<1>a. nextWaiterId \in Ids /\ pc[nextWaiterId] = "absent"
  BY <1>0, FreshId DEF AcquireMut, TryAcquireMut
<1>1. PICK n \in Ids : n = nextWaiterId /\ pc[n] = "absent"
  BY <1>a
<1>2. /\ keysOf' = [keysOf EXCEPT ![n] = ks] /\ ks # {} /\ IsFiniteSet(ks)
      /\ UNCHANGED <<registered, settle, promote, deadlines, timerJob>>
      /\ \/ pc' = [pc EXCEPT ![n] = "new"] /\ UNCHANGED state
         \/ pc' = [pc EXCEPT ![n] = "done"] /\ UNCHANGED state
         \/ pc' = [pc EXCEPT ![n] = "leased"] /\ state' = [state EXCEPT ![n] = "Consumed"]
  BY <1>1 DEF AcquireMut, TryAcquireMut, ValidKeySet, lockVars, afterVars
<1>3. /\ Control(n) /\ ~registered[n] /\ state[n] = "Waiting" /\ Idle(n)
      /\ n \notin deadlines /\ timerJob # n
  BY <1>0, <1>1 DEF Controlled, Control
<1>4. keysOf'[n] = ks /\ \A v \in Ids \ {n} : keysOf'[v] = keysOf[v]
  BY <1>0, <1>1, <1>2 DEF TypeOK
<1>5. /\ \/ pc'[n] \in {"new", "done"} /\ state'[n] = "Waiting"
         \/ pc'[n] = "leased" /\ state'[n] = "Consumed"
      /\ \A v \in Ids \ {n} : state'[v] = state[v]
      /\ pc' = [pc EXCEPT ![n] = pc'[n]]
  BY <1>0, <1>1, <1>2, <1>3 DEF TypeOK
<1>6. Alone(n)
  BY <1>2, <1>4, <1>5 DEF Alone
<1>7. Control(n)'
  BY <1>2, <1>3, <1>4, <1>5 DEF Control, Owning, Enqueued, Idle, PollPoints
<1> QED BY <1>1, <1>6, <1>7, AloneControl

\* And the deadline worker, the environment and the steps after the locks.
LEMMA OtherControl ==
    ASSUME QueueInv,
           \/ \E w \in Ids : TimerTake(w) \/ CancelToken(w) \/ DeadlinePasses(w)
           \/ \E a \in Actors : Settle(a) \/ Promote(a)
           \/ TimerAbort
    PROVE  Controlled' /\ TimerIdle'
<1> USE DEF idVars, envVars, timerVars, taskVars
<1>0. TypeOK /\ Controlled /\ TimerIdle
  BY DEF QueueInv, OwnershipInv
<1>a. \A v \in Ids : v \in Actors
  BY DEF Actors
<1>1. ASSUME NEW w \in Ids, TimerTake(w) \/ CancelToken(w) \/ DeadlinePasses(w)
      PROVE  Controlled' /\ TimerIdle'
  <2>1. /\ UNCHANGED <<pc, registered, keysOf, state, settle, promote>>
        /\ \/ UNCHANGED <<timerJob, deadlines>>
           \/ /\ timerJob' = w /\ w \in deadlines /\ deadlines' = deadlines \ {w}
              /\ Idle(Timer)
    BY <1>1 DEF TimerTake, CancelToken, DeadlinePasses, afterVars, lockVars
  <2>2. ASSUME NEW v \in Ids PROVE Control(v)'
    <3>1. v \in deadlines' \/ timerJob' = v => v \in deadlines \/ timerJob = v
      BY <2>1
    <3>2. Control(v) /\ (Idle(v)' <=> Idle(v))
      BY <2>1, <1>0 DEF Controlled, Idle
    <3> QED BY <2>1, <3>1, <3>2, ControlFrame
  <2>3. TimerIdle'
    BY <2>1, <1>0 DEF TimerIdle, Idle
  <2> QED BY <2>2, <2>3 DEF Controlled
<1>2. ASSUME NEW a \in Actors, Settle(a) PROVE Controlled' /\ TimerIdle'
  <2>1. /\ UNCHANGED <<pc, registered, keysOf, state, promote, timerJob>>
        /\ deadlines' \subseteq deadlines
        /\ settle' = [settle EXCEPT ![a] = None]
    BY <1>2 DEF Settle, lockVars
  <2>2. \A b \in Actors : settle'[b] = settle[b] \/ settle'[b] = None
    BY <2>1, <1>0 DEF TypeOK
  <2>3. ASSUME NEW v \in Ids PROVE Control(v)'
    <3>1. Control(v) /\ (~Idle(v)' => ~Idle(v))
      BY <2>1, <2>2, <1>0, <1>a DEF Controlled, Idle
    <3> QED BY <2>1, <3>1, ControlFrame
  <2>4. TimerIdle'
    BY <2>1, <2>2, <1>0 DEF TimerIdle, Idle, Timer, Actors
  <2> QED BY <2>3, <2>4 DEF Controlled
<1>3. ASSUME NEW a \in Actors, Promote(a) PROVE Controlled' /\ TimerIdle'
  <2>1. /\ UNCHANGED <<pc, registered, keysOf, deadlines, timerJob>>
        /\ \A b \in Actors \ {a} : settle'[b] = settle[b] /\ promote'[b] = promote[b]
        /\ ~Idle(a)
    BY <1>3, <1>0 DEF Promote, TypeOK, Idle
  <2>2. ASSUME NEW v \in Ids
        PROVE  state'[v] = state[v] \/ (Enqueued(v) /\ state'[v] = "Granted")
    <3>1. PICK c \in promote[a] :
            \/ state[c] = "Waiting" /\ Eligible(c, holder, waiters)
               /\ GrantLocked(c, waiters, queuedWaiters)
            \/ UNCHANGED lockVars
      BY <1>3 DEF Promote
    <3>2. CASE UNCHANGED lockVars
      BY <3>2 DEF lockVars
    <3>3. CASE state[c] = "Waiting" /\ Eligible(c, holder, waiters)
               /\ GrantLocked(c, waiters, queuedWaiters)
      <4>1. c \in Ids /\ pc[c] # "absent"
        BY <1>0 DEF TypeOK, QueueInv, OwnershipInv, UnusedIds
      <4>2. PICK k \in keysOf[c] : TRUE
        BY <4>1, <1>0 DEF Controlled, Control
      <4>3. k \in Keys /\ waiters[k] \in Seq(Ids) /\ waiters[k] # <<>> /\ Head(waiters[k]) = c
        BY <1>0, <3>3, <4>1, <4>2 DEF Eligible, TypeOK
      <4>4. 1 \in 1..Len(waiters[k]) /\ waiters[k][1] = c
        BY <4>3
      <4>5. Enqueued(c)
        BY <4>1, <4>3, <4>4 DEF QueueInv, QueueIntegrity
      <4>6. state' = [state EXCEPT ![c] = "Granted"]
        BY <3>3 DEF GrantLocked
      <4> QED BY <4>5, <4>6, <1>0 DEF TypeOK
    <3> QED BY <3>1, <3>2, <3>3
  <2>3. ASSUME NEW v \in Ids PROVE Control(v)'
    <3>1. Control(v) /\ (~Idle(v)' => ~Idle(v))
      BY <2>1, <1>0, <1>a DEF Controlled, Idle
    <3> QED BY <2>1, <2>2, <3>1, ControlFrame
  <2>4. TimerIdle'
    BY <2>1, <1>0 DEF TimerIdle, Idle, Timer, Actors
  <2> QED BY <2>3, <2>4 DEF Controlled
<1>4. ASSUME TimerAbort PROVE Controlled' /\ TimerIdle'
  <2>1. /\ timerJob \in Ids /\ Timer \in Actors /\ Abort(timerJob, Timer, "TimedOut")
        /\ UNCHANGED <<pc, registered, keysOf, deadlines>> /\ timerJob' = None
    BY <1>4, <1>0 DEF TimerAbort, TypeOK, None, Actors
  <2>2. registered[timerJob] /\ "TimedOut" \in WaiterStates
    BY <2>1, <1>0 DEF Controlled, Control, WaiterStates
  <2>3. /\ \A v \in Ids \ {timerJob} : state'[v] = state[v]
        /\ state'[timerJob] = IF state[timerJob] \in {"Waiting", "Granted"}
                              THEN "TimedOut" ELSE state[timerJob]
        /\ \A b \in Actors \ {Timer} : settle'[b] = settle[b] /\ promote'[b] = promote[b]
    BY <2>1, <2>2, <1>0, AbortEffect
  <2>4. ASSUME NEW v \in Ids PROVE Control(v)'
    <3>1. v # None /\ v \in Actors \ {Timer}
      BY <1>a DEF None, Timer, Ids
    <3>2. Control(v) /\ (Idle(v)' <=> Idle(v))
      BY <3>1, <2>3, <1>0 DEF Controlled, Idle
    <3>3. \/ state'[v] = state[v]
          \/ registered[v] /\ state[v] \in {"Waiting", "Granted"} /\ state'[v] = "TimedOut"
      BY <2>2, <2>3
    <3> QED BY <2>1, <3>1, <3>2, <3>3, ControlFrame
  <2>5. TimerIdle'
    BY <2>1 DEF TimerIdle
  <2> QED BY <2>4, <2>5 DEF Controlled
<1> QED BY <1>1, <1>2, <1>3, <1>4

LEMMA ControlNext == ASSUME QueueInv, [Next]_vars PROVE Controlled' /\ TimerIdle'
<1>1. ASSUME NEW w \in Ids, PollAgain(w) \/ PollStep(w) \/ DropAcquisition(w) \/ ReleaseLease(w)
      PROVE  Controlled' /\ TimerIdle'
  BY <1>1, PollControl, AloneControl
<1>2. CASE UNCHANGED vars
  BY <1>2 DEF vars, QueueInv, Controlled, Control, TimerIdle, Idle, Owning, Enqueued, lockVars,
              timerVars, idVars, taskVars, afterVars
<1> QED BY <1>1, <1>2, StartControl, OtherControl DEF Next

\* The queues and the tasks agree in every reachable state.
LEMMA QueueInvariant == Spec => []QueueInv
<1>1. Init => QueueInv
  <2> SUFFICES ASSUME Init PROVE QueueInv
    OBVIOUS
  <2>1. OwnershipInv
    BY OwnershipInit
  <2>2. Controlled /\ TimerIdle
    BY DEF Init, Controlled, Control, TimerIdle, Idle, None, Ids, Actors, PollPoints, Timer
  <2>3. Flagged /\ QueueIntegrity
    BY DEF Init, Flagged, QueueIntegrity, Enqueued
  <2> QED BY <2>1, <2>2, <2>3 DEF QueueInv
<1>2. QueueInv /\ [Next]_vars => QueueInv'
  <2> SUFFICES ASSUME QueueInv, [Next]_vars PROVE QueueInv'
    OBVIOUS
  <2>1. OwnershipInv'
    BY OwnershipNext DEF QueueInv
  <2>2. Step
    BY StepKinds
  <2> QED BY <2>1, <2>2, ControlNext, IntegrityStep, FlaggedStep DEF QueueInv
<1> QED BY <1>1, <1>2, PTL DEF Spec

\* A queue holds every acquisition that waits for its key, once, and nobody else,
\* whatever registers, is granted, cancelled, timed out or dropped at once.
THEOREM QueuesAreExact == Spec => []QueueIntegrity
<1>1. QueueInv => QueueIntegrity
  BY DEF QueueInv
<1> QED BY <1>1, QueueInvariant, PTL

\* An acquisition that is over, by whatever race, owns and waits for nothing.
THEOREM NothingIsLeftBehind == Spec => []NothingLeftBehind
<1>1. QueueInv => NothingLeftBehind
  BY DEF QueueInv, Controlled, Control, NothingLeftBehind
<1> QED BY <1>1, QueueInvariant, PTL

-----------------------------------------------------------------------------
(* One order for all queues.                                               *)

LEMMA JoinsOrder ==
    ASSUME QueueInv, NEW w \in Ids, Joins(w), NEW k \in Keys, NEW u \in Ids, NEW v \in Ids
    PROVE  /\ ~Before(waiters'[k], w, v)
           /\ v # w => (Before(waiters'[k], u, v) <=> Before(waiters[k], u, v))
           /\ v = w => (Before(waiters'[k], u, v) <=> k \in keysOf[w] /\ In(waiters[k], u))
<1>1. ~In(waiters[k], w)
  BY JoinsEffect, QueueWords DEF QueueInv
<1>2. \A x, y \in Ids : Before(waiters[k], x, y) => In(waiters[k], x) /\ In(waiters[k], y)
  BY DEF Before, In
<1>3. CASE k \in keysOf[w]
  <2>1. \A x, y \in Ids : Before(waiters'[k], x, y)
                            <=> Before(waiters[k], x, y) \/ (In(waiters[k], x) /\ y = w)
    <3>1. waiters'[k] = Append(waiters[k], w)
      BY <1>3, JoinsQueue
    <3>2. waiters[k] \in Seq(Ids) /\ Distinct(waiters[k]) /\ ~In(waiters[k], w)
      BY <1>1, QueueWords DEF QueueInv, OwnershipInv, TypeOK
    <3> QED BY <3>1, <3>2, AppendAdds
  <2> QED BY <2>1, <1>1, <1>2, <1>3
<1>4. CASE k \notin keysOf[w]
  <2>1. waiters'[k] = waiters[k]
    BY <1>4, JoinsQueue
  <2> QED BY <2>1, <1>1, <1>2, <1>4
<1> QED BY <1>3, <1>4

\* Joining at the back of every queue and leaving them keeps one order.
LEMMA OrderStep == ASSUME QueueInv, ConsistentOrder, Step PROVE ConsistentOrder'
<1>0. \A u, v \in Ids : \A k, l \in Keys : ~(Before(waiters[k], u, v) /\ Before(waiters[l], v, u))
  BY QueueWords DEF ConsistentOrder
<1>a. SUFFICES ASSUME NEW u \in Ids, NEW v \in Ids, NEW k \in Keys, NEW l \in Keys,
                      Before(waiters'[k], u, v), Before(waiters'[l], v, u)
               PROVE  FALSE
  BY DEF ConsistentOrder, Ahead, Before
<1>1. CASE waiters' = waiters
  BY <1>0, <1>a, <1>1
<1>2. ASSUME NEW w \in Ids, Joins(w) PROVE FALSE
  BY <1>0, <1>a, <1>2, JoinsOrder
<1>3. ASSUME NEW a \in Actors, NEW c \in Ids, Serves(a, c) PROVE FALSE
  BY <1>0, <1>a, <1>3, ServesQueue DEF Removed
<1>4. ASSUME NEW w \in Ids, NEW a \in Actors, NEW target \in Ended, Leaves(w, a, target)
      PROVE  FALSE
  BY <1>0, <1>a, <1>4, LeavesQueue DEF Removed
<1> QED BY <1>1, <1>2, <1>3, <1>4 DEF Step, Still, Takes, Skips, lockVars

-----------------------------------------------------------------------------
(* No missed promotion.                                                    *)

\* A waiter that becomes eligible is at the front of a queue that was left, and
\* one that was eligible is still a candidate unless it has just been tried.
LEMMA StrandedStep == ASSUME QueueInv, NoStrandedWaiter, Step PROVE NoStrandedWaiter'
<1>0. TypeOK /\ HoldersAreOwners
  BY DEF QueueInv, OwnershipInv
<1>a. SUFFICES ASSUME NEW v \in Ids, Enqueued(v)', Eligible(v, holder, waiters)'
               PROVE  \E b \in Actors : v \in promote'[b]
  BY DEF NoStrandedWaiter
<1>b. \A k \in keysOf'[v] : holder'[k] = None /\ waiters'[k] # <<>> /\ Head(waiters'[k]) = v
  BY <1>a DEF Eligible
<1>c. Enqueued(v) /\ Eligible(v, holder, waiters) => \E b \in Actors : v \in promote[b]
  BY DEF NoStrandedWaiter
<1>d. keysOf[v] \subseteq Keys /\ \A k \in keysOf[v] : waiters[k] \in Seq(Ids)
  BY <1>0 DEF TypeOK
<1>1. CASE Still
  <2>1. Enqueued(v) /\ keysOf'[v] = keysOf[v]
    BY <1>a, <1>1, StillEffect
  <2>2. UNCHANGED <<holder, waiters, promote>>
    BY <1>1 DEF Still
  <2> QED BY <2>1, <2>2, <1>b, <1>c DEF Eligible
<1>2. ASSUME NEW w \in Ids, Joins(w) PROVE \E b \in Actors : v \in promote'[b]
  <2>1. UNCHANGED <<holder, keysOf, promote>> /\ waiters' = QueuesWith(w)
        /\ ~Eligible(w, holder, QueuesWith(w))
    BY <1>2 DEF Joins
  <2>2. v # w
    BY <2>1, <1>b DEF Eligible
  <2>3. Enqueued(v)
    BY <2>2, <1>a, <1>2, JoinsEffect
  <2>4. ASSUME NEW k \in keysOf[v] PROVE waiters[k] # <<>> /\ Head(waiters[k]) = v
    <3>1. k \in Keys /\ waiters[k] \in Seq(Ids)
      BY <1>d
    <3>2. In(waiters[k], v)
      BY <2>3, <3>1, QueueWords DEF QueueInv
    <3>3. waiters[k] # <<>>
      BY <3>1, <3>2 DEF In
    <3>4. waiters'[k] \in {waiters[k], Append(waiters[k], w)}
      BY <2>1, <3>1 DEF QueuesWith
    <3>5. Head(waiters'[k]) = Head(waiters[k])
      BY <3>1, <3>3, <3>4
    <3> QED BY <3>3, <3>5, <2>1, <1>b
  <2> QED BY <2>1, <2>3, <2>4, <1>b, <1>c DEF Eligible
<1>3. ASSUME NEW w \in Ids, NEW ks \in SUBSET Keys, Takes(w, ks)
      PROVE  \E b \in Actors : v \in promote'[b]
  <2>1. Enqueued(v) /\ v # w /\ keysOf'[v] = keysOf[v]
    BY <1>a, <1>3, TakesEffect
  <2>2. UNCHANGED <<waiters, promote>> /\ \A k \in Keys : holder'[k] = None => holder[k] = None
    BY <1>3 DEF Takes, None, Ids
  <2> QED BY <2>1, <2>2, <1>b, <1>c, <1>d DEF Eligible
<1>4. ASSUME NEW a \in Actors, NEW c \in Ids, Serves(a, c)
      PROVE  \E b \in Actors : v \in promote'[b]
  <2>1. Enqueued(v) /\ v # c /\ keysOf' = keysOf
    BY <1>a, <1>4, ServesEffect DEF Serves
  <2>2. \A k \in Keys : /\ k \in keysOf[c] => holder'[k] # None
                        /\ k \notin keysOf[c] => holder'[k] = holder[k] /\ waiters'[k] = waiters[k]
    BY <1>4 DEF Serves, GrantLocked, None, Ids
  <2>3. Eligible(v, holder, waiters)
    BY <2>1, <2>2, <1>b, <1>d DEF Eligible
  <2>4. \A b \in Actors : v \in promote[b] => v \in promote'[b]
    BY <2>1, <1>0, <1>4 DEF Serves, TypeOK
  <2> QED BY <2>1, <2>3, <2>4, <1>c
<1>5. ASSUME NEW a \in Actors, NEW c \in Ids, Skips(a, c)
      PROVE  \E b \in Actors : v \in promote'[b]
  <2>1. UNCHANGED <<holder, waiters, keysOf, registered, state>>
        /\ ~(Enqueued(c) /\ Eligible(c, holder, waiters))
    BY <1>5 DEF Skips, lockVars
  <2>2. Enqueued(v) /\ Eligible(v, holder, waiters)
    BY <2>1, <1>a, <1>b DEF Enqueued, Eligible
  <2>3. \A b \in Actors : v \in promote[b] => v \in promote'[b]
    BY <2>1, <2>2, <1>0, <1>5 DEF Skips, TypeOK
  <2> QED BY <2>2, <2>3, <1>c
<1>6. ASSUME NEW w \in Ids, NEW a \in Actors, NEW target \in Ended, Leaves(w, a, target)
      PROVE  \E b \in Actors : v \in promote'[b]
  <2>1. Enqueued(v) /\ v # w /\ keysOf' = keysOf
    BY <1>a, <1>6, LeavesEffect DEF Leaves
  <2>2. /\ holder' = HoldersAfter(w) /\ waiters' = QueuesAfter(w) /\ promote[a] = {}
        /\ promote' = [promote EXCEPT ![a] = Fronts(keysOf[w], QueuesAfter(w))]
    BY <1>6 DEF Leaves, LeaveLocked
  <2>3. CASE Eligible(v, holder, waiters)
    <3>1. PICK b \in Actors : v \in promote[b]
      BY <2>1, <2>3, <1>c
    <3>2. promote'[b] = promote[b]
      BY <3>1, <2>2, <1>0 DEF TypeOK
    <3> QED BY <3>1, <3>2
  <2>4. CASE ~Eligible(v, holder, waiters)
    <3>1. PICK k \in keysOf[v] : ~(holder[k] = None /\ waiters[k] # <<>> /\ Head(waiters[k]) = v)
      BY <2>4 DEF Eligible
    <3>2. k \in Keys /\ waiters'[k] # <<>> /\ Head(waiters'[k]) = v /\ holder'[k] = None
      BY <3>1, <2>1, <1>b, <1>d
    <3>3. k \in keysOf[w]
      <4>1. k \notin keysOf[w] => holder'[k] = holder[k] /\ waiters'[k] = waiters[k]
        BY <3>2, <2>2 DEF HoldersAfter, QueuesAfter
      <4> QED BY <4>1, <3>1, <3>2
    <3>4. v \in Fronts(keysOf[w], waiters')
      BY <3>2, <3>3 DEF Fronts
    <3>5. promote'[a] = Fronts(keysOf[w], waiters')
      BY <2>2, <1>0 DEF TypeOK
    <3> QED BY <3>4, <3>5
  <2> QED BY <2>3, <2>4
<1> QED BY <1>1, <1>2, <1>3, <1>4, <1>5, <1>6 DEF Step

-----------------------------------------------------------------------------
(* Capacities.                                                             *)

Waiting == {w \in Ids : Enqueued(w)}

Accounted == IsFiniteSet(table) /\ Accounting

LEMMA TableStep ==
    ASSUME QueueInv, Accounted, Step
    PROVE  table' = {k \in Keys : holder'[k] # None \/ waiters'[k] # <<>>}
<1>0. TypeOK /\ table = {k \in Keys : holder[k] # None \/ waiters[k] # <<>>}
  BY DEF QueueInv, OwnershipInv, Accounted, Accounting
<1>1. CASE UNCHANGED <<table, holder, waiters>>
  BY <1>0, <1>1
<1>2. ASSUME NEW w \in Ids, Joins(w)
      PROVE  table' = {k \in Keys : holder'[k] # None \/ waiters'[k] # <<>>}
  <2>1. keysOf[w] \subseteq Keys /\ table' = table \cup keysOf[w] /\ holder' = holder
    BY <1>0, <1>2 DEF Joins, TypeOK
  <2>2. \A k \in Keys : /\ k \in keysOf[w] => waiters'[k] # <<>>
                        /\ k \notin keysOf[w] => waiters'[k] = waiters[k]
    <3>1. ASSUME NEW k \in Keys, k \in keysOf[w] PROVE waiters'[k] # <<>>
      BY <1>2, <3>1, JoinsQueue
    <3> QED BY <3>1, <1>2, JoinsQueue
  <2> QED BY <2>1, <2>2, <1>0
<1>3. ASSUME NEW w \in Ids, NEW ks \in SUBSET Keys, Takes(w, ks)
      PROVE  table' = {k \in Keys : holder'[k] # None \/ waiters'[k] # <<>>}
  BY <1>0, <1>3 DEF Takes, None, Ids
<1>4. ASSUME NEW a \in Actors, NEW c \in Ids, Serves(a, c)
      PROVE  table' = {k \in Keys : holder'[k] # None \/ waiters'[k] # <<>>}
  <2>1. \A k \in Keys : /\ k \in keysOf[c] => holder'[k] # None /\ waiters[k] # <<>>
                        /\ k \notin keysOf[c] => holder'[k] = holder[k] /\ waiters'[k] = waiters[k]
    BY <1>4 DEF Serves, GrantLocked, Eligible, None, Ids
  <2> QED BY <2>1, <1>0, <1>4 DEF Serves
<1>5. ASSUME NEW w \in Ids, NEW a \in Actors, NEW target \in Ended, Leaves(w, a, target)
      PROVE  table' = {k \in Keys : holder'[k] # None \/ waiters'[k] # <<>>}
  <2>1. table' = table \ {k \in keysOf[w] : holder'[k] = None /\ waiters'[k] = <<>>}
        /\ holder' = HoldersAfter(w) /\ waiters' = QueuesAfter(w)
    BY <1>5 DEF Leaves, LeaveLocked, Emptied
  <2>2. \A k \in Keys : /\ holder'[k] # None => holder[k] # None
                        /\ k \notin keysOf[w] => holder'[k] = holder[k] /\ waiters'[k] = waiters[k]
    BY <2>1 DEF HoldersAfter, QueuesAfter
  <2>3. ASSUME NEW k \in Keys, waiters[k] = <<>> PROVE waiters'[k] = <<>>
    <3>1. waiters'[k] = Without(waiters[k], w) \/ waiters'[k] = waiters[k]
      BY <2>1 DEF QueuesAfter
    <3>2. Len(waiters[k]) = 0
      BY <2>3
    <3>3. Without(waiters[k], w) = waiters[k]
      BY <3>2 DEF Without
    <3> QED BY <3>1, <3>3, <2>3
  <2> QED BY <2>1, <2>2, <2>3, <1>0
<1> QED BY <1>1, <1>2, <1>3, <1>4, <1>5 DEF Step, Still, Skips, lockVars

\* New entries fit unless TableFull says so.
LEMMA EntriesFit ==
    ASSUME IsFiniteSet(table), NEW ks, IsFiniteSet(ks), ~TableFull(ks), NEW s \in Shards,
           Cardinality(EntriesIn(s)) <= MaxKeysPerShard
    PROVE  Cardinality({k \in table \cup ks : ShardOf[k] = s}) <= MaxKeysPerShard
<1> DEFINE new == {k \in ks \ table : ShardOf[k] = s}
           old == EntriesIn(s)
<1>1. IsFiniteSet(new) /\ IsFiniteSet(old)
  BY FS_Subset DEF EntriesIn
<1>2. {k \in table \cup ks : ShardOf[k] = s} = old \cup new
  BY DEF EntriesIn
<1>3. new = {} \/ Cardinality(old) + Cardinality(new) <= MaxKeysPerShard
  <2>1. new # {} => ~(Cardinality(old) + Cardinality(new) > MaxKeysPerShard)
    BY DEF TableFull
  <2>2. Cardinality(old) \in Nat /\ Cardinality(new) \in Nat /\ MaxKeysPerShard \in Nat
    BY <1>1, FS_CardinalityType, ConfigAssumption DEF ConfigAssumption
  <2> QED BY <2>1, <2>2
<1> HIDE DEF new, old
<1>4. CASE new = {}
  <2>1. old \cup new = old
    BY <1>4
  <2> QED BY <2>1, <1>2 DEF old
<1>5. CASE Cardinality(old) + Cardinality(new) <= MaxKeysPerShard
  <2>1. Cardinality(old \cup new)
          = Cardinality(old) + Cardinality(new) - Cardinality(old \cap new)
    BY <1>1, FS_Union
  <2>2. IsFiniteSet(old \cap new)
    BY <1>1, FS_Intersection
  <2>3. /\ Cardinality(old) \in Nat /\ Cardinality(new) \in Nat /\ MaxKeysPerShard \in Nat
        /\ Cardinality(old \cap new) \in Nat
    BY <1>1, <2>2, FS_CardinalityType, ConfigAssumption DEF ConfigAssumption
  <2>4. Cardinality(old \cup new) <= MaxKeysPerShard
    BY <2>1, <2>3, <1>5
  <2> QED BY <2>4, <1>2
<1> QED BY <1>3, <1>4, <1>5

\* Registration counts a waiter, a grant or an abort of a waiter uncounts it, and
\* nothing else touches the counter.
LEMMA CountStep ==
    ASSUME QueueInv, Accounted, Step
    PROVE  queuedWaiters' = Cardinality(Waiting') /\ queuedWaiters' <= MaxWaiters
<1>0. /\ TypeOK /\ Flagged
      /\ queuedWaiters = Cardinality(Waiting) /\ queuedWaiters <= MaxWaiters
      /\ MaxWaiters \in Nat
  BY ConfigAssumption DEF QueueInv, OwnershipInv, Accounted, Accounting, ConfigAssumption, Waiting
<1>1. IsFiniteSet(Waiting) /\ Cardinality(Waiting) \in Nat
  <2>1. IsFiniteSet(1..MaxWaiterId)
    BY FS_Interval, ConfigAssumption DEF ConfigAssumption
  <2>2. IsFiniteSet(Waiting)
    BY <2>1, FS_Subset DEF Waiting, Ids
  <2> QED BY <2>2, FS_CardinalityType
<1>2. ASSUME UNCHANGED queuedWaiters, \A v \in Ids : Enqueued(v)' <=> Enqueued(v)
      PROVE  queuedWaiters' = Cardinality(Waiting') /\ queuedWaiters' <= MaxWaiters
  <2>1. Waiting' = Waiting
    BY <1>2 DEF Waiting
  <2> QED BY <2>1, <1>0, <1>2
<1>3. ASSUME NEW w \in Ids, Enqueued(w), queuedWaiters' = queuedWaiters - 1,
             \A v \in Ids : Enqueued(v)' <=> Enqueued(v) /\ v # w
      PROVE  queuedWaiters' = Cardinality(Waiting') /\ queuedWaiters' <= MaxWaiters
  <2>1. Waiting' = Waiting \ {w} /\ w \in Waiting
    BY <1>3 DEF Waiting
  <2>2. Cardinality(Waiting \ {w}) = Cardinality(Waiting) - 1
    BY <2>1, <1>1, FS_RemoveElement
  <2> QED BY <2>1, <2>2, <1>0, <1>1, <1>3
<1>4. CASE Still
  BY <1>2, <1>4, StillEffect DEF Still
<1>5. ASSUME NEW w \in Ids, Joins(w)
      PROVE  queuedWaiters' = Cardinality(Waiting') /\ queuedWaiters' <= MaxWaiters
  <2>1. \A v \in Ids : Enqueued(v)' <=> Enqueued(v) \/ v = w
    BY <1>5, JoinsEffect
  <2>2. ~Enqueued(w) /\ queuedWaiters' = queuedWaiters + 1 /\ ~(queuedWaiters >= MaxWaiters)
    BY <1>5, JoinsEffect DEF Joins, RegisterCheck
  <2>3. Waiting' = Waiting \cup {w} /\ w \notin Waiting
    BY <2>1, <2>2 DEF Waiting
  <2>4. Cardinality(Waiting \cup {w}) = Cardinality(Waiting) + 1
    BY <2>3, <1>1, FS_AddElement
  <2> QED BY <2>2, <2>3, <2>4, <1>0, <1>1
<1>6. ASSUME NEW w \in Ids, NEW ks \in SUBSET Keys, Takes(w, ks)
      PROVE  queuedWaiters' = Cardinality(Waiting') /\ queuedWaiters' <= MaxWaiters
  BY <1>2, <1>6, TakesEffect DEF Takes
<1>7. ASSUME NEW a \in Actors, NEW c \in Ids, Serves(a, c)
      PROVE  queuedWaiters' = Cardinality(Waiting') /\ queuedWaiters' <= MaxWaiters
  BY <1>3, <1>7, ServesEffect DEF Serves, GrantLocked
<1>8. ASSUME NEW a \in Actors, NEW c \in Ids, Skips(a, c)
      PROVE  queuedWaiters' = Cardinality(Waiting') /\ queuedWaiters' <= MaxWaiters
  BY <1>2, <1>8 DEF Skips, Enqueued, lockVars
<1>9. ASSUME NEW w \in Ids, NEW a \in Actors, NEW target \in Ended, Leaves(w, a, target)
      PROVE  queuedWaiters' = Cardinality(Waiting') /\ queuedWaiters' <= MaxWaiters
  <2>1. \A v \in Ids : Enqueued(v)' <=> Enqueued(v) /\ v # w
    BY <1>9, LeavesEffect
  <2>2. queuedWaiters' = IF queued[w] THEN queuedWaiters - 1 ELSE queuedWaiters
    BY <1>9 DEF Leaves, LeaveLocked
  <2>3. CASE Enqueued(w)
    BY <2>1, <2>2, <2>3, <1>0, <1>3 DEF Flagged
  <2>4. CASE ~Enqueued(w)
    BY <2>1, <2>2, <2>4, <1>0, <1>2 DEF Flagged
  <2> QED BY <2>3, <2>4
<1> QED BY <1>4, <1>5, <1>6, <1>7, <1>8, <1>9 DEF Step

\* Registration checks the length of every queue it joins.
LEMMA LengthStep ==
    ASSUME QueueInv, Accounted, Step, NEW k \in Keys
    PROVE  Len(waiters'[k]) <= MaxWaitersPerKey
<1>0. /\ waiters[k] \in Seq(Ids) /\ Len(waiters[k]) \in Nat /\ Len(waiters[k]) <= MaxWaitersPerKey
      /\ MaxWaitersPerKey \in Nat \ {0}
  BY ConfigAssumption DEF QueueInv, OwnershipInv, TypeOK, Accounted, Accounting, ConfigAssumption
<1>1. CASE waiters' = waiters
  BY <1>0, <1>1
<1>2. ASSUME NEW w \in Ids, Joins(w) PROVE Len(waiters'[k]) <= MaxWaitersPerKey
  <2>1. CASE k \in keysOf[w]
    <3>1. waiters'[k] = Append(waiters[k], w)
      BY <1>2, <2>1, JoinsQueue
    <3>2. k \in table => ~(Len(waiters[k]) >= MaxWaitersPerKey)
      BY <1>2, <2>1 DEF Joins, RegisterCheck
    <3>3. k \notin table => waiters[k] = <<>>
      BY DEF QueueInv, OwnershipInv, TableCovers
    <3>4. Len(waiters'[k]) = Len(waiters[k]) + 1
      BY <3>1, <1>0
    <3>5. waiters[k] = <<>> => Len(waiters[k]) = 0
      OBVIOUS
    <3> QED BY <3>2, <3>3, <3>4, <3>5, <1>0
  <2>2. CASE k \notin keysOf[w]
    BY <1>0, <1>2, <2>2, JoinsQueue
  <2> QED BY <2>1, <2>2
<1>3. ASSUME NEW a \in Actors, NEW c \in Ids, Serves(a, c) PROVE Len(waiters'[k]) <= MaxWaitersPerKey
  <2>1. waiters'[k] = waiters[k] \/ (waiters[k] # <<>> /\ waiters'[k] = Tail(waiters[k]))
    BY <1>3, ServesQueue DEF Serves, Eligible
  <2>2. waiters[k] # <<>> => Len(Tail(waiters[k])) = Len(waiters[k]) - 1
    BY <1>0
  <2>3. CASE waiters'[k] = waiters[k]
    BY <2>3, <1>0
  <2>4. CASE waiters[k] # <<>> /\ waiters'[k] = Tail(waiters[k])
    <3>1. Len(waiters'[k]) = Len(waiters[k]) - 1
      BY <2>2, <2>4
    <3> QED BY <3>1, <1>0
  <2> QED BY <2>1, <2>3, <2>4
<1>4. ASSUME NEW w \in Ids, NEW a \in Actors, NEW target \in Ended, Leaves(w, a, target)
      PROVE  Len(waiters'[k]) <= MaxWaitersPerKey
  <2>1. waiters'[k] = waiters[k] \/ waiters'[k] = Without(waiters[k], w)
    BY <1>4 DEF Leaves, LeaveLocked, QueuesAfter
  <2>2. Without(waiters[k], w) \in Seq(Ids) /\ Len(Without(waiters[k], w)) <= Len(waiters[k])
    BY <1>0, QueueWords, WithoutRemoves DEF QueueInv, Removed
  <2>3. Len(Without(waiters[k], w)) \in Nat
    BY <2>2
  <2> QED BY <2>1, <2>2, <2>3, <1>0
<1> QED BY <1>1, <1>2, <1>3, <1>4 DEF Step, Still, Takes, Skips, lockVars

\* Registration and try_acquire_mut check the room of every shard they enter.
LEMMA ShardStep ==
    ASSUME QueueInv, Accounted, Step
    PROVE  /\ IsFiniteSet(table')
           /\ \A s \in Shards : Cardinality({k \in table' : ShardOf[k] = s}) <= MaxKeysPerShard
<1>0. IsFiniteSet(table) /\ \A s \in Shards : Cardinality(EntriesIn(s)) <= MaxKeysPerShard
  BY DEF Accounted, Accounting
<1>1. ASSUME NEW ks, IsFiniteSet(ks), ~TableFull(ks), table' = table \cup ks
      PROVE  /\ IsFiniteSet(table')
             /\ \A s \in Shards : Cardinality({k \in table' : ShardOf[k] = s}) <= MaxKeysPerShard
  BY <1>0, <1>1, EntriesFit, FS_Union
<1>2. ASSUME table' \subseteq table
      PROVE  /\ IsFiniteSet(table')
             /\ \A s \in Shards : Cardinality({k \in table' : ShardOf[k] = s}) <= MaxKeysPerShard
  <2>1. IsFiniteSet(table')
    BY <1>0, <1>2, FS_Subset
  <2>2. ASSUME NEW s \in Shards
        PROVE  Cardinality({k \in table' : ShardOf[k] = s}) <= MaxKeysPerShard
    <3> DEFINE S == {k \in table' : ShardOf[k] = s}
               T == EntriesIn(s)
    <3>1. S \subseteq T /\ T \subseteq table
      BY <1>2 DEF EntriesIn
    <3>2. Cardinality(T) <= MaxKeysPerShard
      BY <1>0
    <3> HIDE DEF S, T
    <3>3. IsFiniteSet(T)
      BY <3>1, <1>0, FS_Subset
    <3>4. IsFiniteSet(S) /\ Cardinality(S) <= Cardinality(T)
      BY <3>1, <3>3, FS_Subset
    <3>5. Cardinality(S) \in Nat /\ Cardinality(T) \in Nat /\ MaxKeysPerShard \in Nat
      BY <3>3, <3>4, FS_CardinalityType, ConfigAssumption DEF ConfigAssumption
    <3>6. Cardinality(S) <= MaxKeysPerShard
      BY <3>2, <3>4, <3>5
    <3> QED BY <3>6 DEF S
  <2> QED BY <2>1, <2>2
<1>3. ASSUME NEW w \in Ids, Joins(w) PROVE \E ks : IsFiniteSet(ks) /\ ~TableFull(ks) /\ table' = table \cup ks
  <2>1. IsFiniteSet(keysOf[w])
    BY <1>3, JoinsEffect
  <2>2. ~TableFull(keysOf[w]) /\ table' = table \cup keysOf[w]
    BY <1>3 DEF Joins, RegisterCheck
  <2> QED BY <2>1, <2>2
<1>4. ASSUME NEW w \in Ids, NEW ks \in SUBSET Keys, Takes(w, ks)
      PROVE  IsFiniteSet(ks) /\ ~TableFull(ks) /\ table' = table \cup ks
  BY <1>4 DEF Takes
<1>5. ASSUME \/ Still
             \/ \E a \in Actors, c \in Ids : Serves(a, c) \/ Skips(a, c)
             \/ \E w \in Ids, a \in Actors, target \in Ended : Leaves(w, a, target)
      PROVE  table' \subseteq table
  BY <1>5 DEF Still, Serves, Skips, Leaves, LeaveLocked, lockVars
<1> QED BY <1>1, <1>2, <1>3, <1>4, <1>5 DEF Step

LEMMA AccountedStep == ASSUME QueueInv, Accounted, Step PROVE Accounted'
<1>1. queuedWaiters' = Cardinality({w \in Ids : Enqueued(w)'}) /\ queuedWaiters' <= MaxWaiters
  BY CountStep DEF Waiting
<1> QED BY <1>1, TableStep, LengthStep, ShardStep DEF Accounted, Accounting, EntriesIn

\* One order for all queues, no missed promotion and exact counters are kept
\* together with the queues.
LEMMA ServiceInvariant == Spec => [](QueueInv /\ ConsistentOrder /\ NoStrandedWaiter /\ Accounted)
<1>1. Init => ConsistentOrder /\ NoStrandedWaiter /\ Accounted
  <2> SUFFICES ASSUME Init PROVE ConsistentOrder /\ NoStrandedWaiter /\ Accounted
    OBVIOUS
  <2>1. ConsistentOrder /\ NoStrandedWaiter
    BY DEF Init, ConsistentOrder, Ahead, NoStrandedWaiter, Enqueued
  <2>2. IsFiniteSet({}) /\ Cardinality({}) = 0
    BY FS_EmptySet
  <2>3. {w \in Ids : Enqueued(w)} = {} /\ \A s \in Shards : EntriesIn(s) = {}
    BY DEF Init, Enqueued, EntriesIn
  <2>4. table = {k \in Keys : holder[k] # None \/ waiters[k] # <<>>}
    BY DEF Init
  <2>5. queuedWaiters = 0 /\ table = {} /\ \A k \in Keys : Len(waiters[k]) = 0
    BY DEF Init
  <2>6. 0 <= MaxWaiters /\ 0 <= MaxWaitersPerKey /\ 0 <= MaxKeysPerShard
    BY ConfigAssumption DEF ConfigAssumption
  <2>7. Accounting
    BY <2>2, <2>3, <2>4, <2>5, <2>6 DEF Accounting
  <2> QED BY <2>1, <2>2, <2>5, <2>7 DEF Accounted
<1>2. QueueInv /\ ConsistentOrder /\ NoStrandedWaiter /\ Accounted /\ [Next]_vars
        => (ConsistentOrder /\ NoStrandedWaiter /\ Accounted)'
  BY StepKinds, OrderStep, StrandedStep, AccountedStep
<1> QED BY <1>1, <1>2, QueueInvariant, PTL DEF Spec

\* No two waiters are each ahead of the other in some queue, so multi-key
\* acquisition cannot deadlock.
THEOREM OneOrder == Spec => []ConsistentOrder
BY ServiceInvariant, PTL

\* A waiter that could be granted is always still a candidate of some actor: no
\* promotion is missed although candidates are tried after the locks are gone.
THEOREM NobodyStranded == Spec => []NoStrandedWaiter
BY ServiceInvariant, PTL

\* The key table and the waiter counter never leak and stay within every
\* configured capacity, for all capacities.
THEOREM CapacitiesHold == Spec => []Accounting
<1>1. Accounted => Accounting
  BY DEF Accounted
<1> QED BY <1>1, ServiceInvariant, PTL

-----------------------------------------------------------------------------
(* The lease service.                                                      *)

\* The refinement mapping, named.
Want == [w \in Ids |-> IF Enqueued(w) \/ Owning(w) THEN keysOf[w] ELSE {}]
Phase == [w \in Ids |-> LeasePhase(w)]
Prior == {p \in Ids \X Ids : \E k \in Keys : Ahead(p[1], p[2], k)}

LEMMA Phases ==
    ASSUME NEW v \in Ids
    PROVE  /\ Enqueued(v) => Phase[v] = "waiting"
           /\ Owning(v) => Phase[v] = "held"
           /\ ~Enqueued(v) /\ ~Owning(v) => Phase[v] = IF state[v] = "Waiting" THEN "idle" ELSE "over"
<1>1. Phase[v] = LeasePhase(v)
  BY DEF Phase
<1>2. CASE Enqueued(v)
  BY <1>1, <1>2 DEF LeasePhase, Enqueued, Owning
<1>3. CASE Owning(v)
  BY <1>1, <1>3 DEF LeasePhase, Enqueued, Owning
<1>4. CASE ~Enqueued(v) /\ ~Owning(v)
  BY <1>1, <1>4 DEF LeasePhase, Enqueued, Owning
<1> QED BY <1>2, <1>3, <1>4

LEMMA PhasesNext ==
    ASSUME NEW v \in Ids
    PROVE  /\ Enqueued(v)' => Phase'[v] = "waiting"
           /\ Owning(v)' => Phase'[v] = "held"
           /\ ~Enqueued(v)' /\ ~Owning(v)' =>
                Phase'[v] = IF state'[v] = "Waiting" THEN "idle" ELSE "over"
<1>1. Phase'[v] = LeasePhase(v)'
  BY DEF Phase
<1>2. CASE Enqueued(v)'
  BY <1>1, <1>2 DEF LeasePhase, Enqueued, Owning
<1>3. CASE Owning(v)'
  BY <1>1, <1>3 DEF LeasePhase, Enqueued, Owning
<1>4. CASE ~Enqueued(v)' /\ ~Owning(v)'
  BY <1>1, <1>4 DEF LeasePhase, Enqueued, Owning
<1> QED BY <1>2, <1>3, <1>4

\* Who competes with w for the keys ks.
LEMMA RivalWords ==
    ASSUME QueueInv, NEW w \in Ids, NEW ks \in SUBSET Keys
    PROVE  /\ Lease!Rivals(w, ks, {"waiting"})
                = {v \in Ids \ {w} : \E k \in ks : In(waiters[k], v)}
           /\ Lease!Rivals(w, ks, {"held"})
                = {v \in Ids \ {w} : \E k \in ks : holder[k] = v}
           /\ Lease!Rivals(w, ks, {"waiting", "held"})
                = {v \in Ids \ {w} : \E k \in ks : In(waiters[k], v) \/ holder[k] = v}
<1>1. \A v \in Ids : /\ Phase[v] = "waiting" <=> Enqueued(v)
                     /\ Phase[v] = "held" <=> Owning(v)
                     /\ Want[v] = IF Enqueued(v) \/ Owning(v) THEN keysOf[v] ELSE {}
  BY Phases DEF Want
<1>2. \A v \in Ids : \A k \in ks : /\ Enqueued(v) /\ k \in keysOf[v] <=> In(waiters[k], v)
                                   /\ Owning(v) /\ k \in keysOf[v] <=> holder[k] = v
  BY QueueWords DEF QueueInv, OwnershipInv, HoldersAreOwners
<1>3. \A ph : Lease!Rivals(w, ks, ph)
                = {v \in Ids \ {w} : Phase[v] \in ph /\ Want[v] \cap ks # {}}
  BY DEF Lease!Rivals, Phase, Want
<1>4. \A v \in Ids : Enqueued(v) => (Want[v] \cap ks # {} <=> \E k \in ks : In(waiters[k], v))
  BY <1>1, <1>2
<1>5. \A v \in Ids : Owning(v) => (Want[v] \cap ks # {} <=> \E k \in ks : holder[k] = v)
  BY <1>1, <1>2
<1>6. \A v \in Ids : /\ (\E k \in ks : In(waiters[k], v)) => Enqueued(v)
                     /\ (\E k \in ks : holder[k] = v) => Owning(v)
  BY <1>2
<1> QED BY <1>1, <1>3, <1>4, <1>5, <1>6

LEMMA PairsEqual ==
    ASSUME NEW S, NEW A \in SUBSET (S \X S), NEW B \in SUBSET (S \X S),
           \A u, v \in S : <<u, v>> \in A <=> <<u, v>> \in B
    PROVE  A = B
OBVIOUS

LEMMA PriorWords ==
    /\ \A u, v \in Ids : <<u, v>> \in Prior <=> \E k \in Keys : Before(waiters[k], u, v)
    /\ \A u, v \in Ids : <<u, v>> \in Prior' <=> \E k \in Keys : Before(waiters'[k], u, v)
    /\ Prior \subseteq Ids \X Ids /\ Prior' \subseteq Ids \X Ids
BY DEF Prior, Ahead, Before

LEMMA JoinsIsWait ==
    ASSUME QueueInv, NEW w \in Ids, Joins(w), NEW ks \in SUBSET Keys, ks = keysOf[w]
    PROVE  Lease!Wait(w, ks)
<1>0. TypeOK /\ keysOf[w] \in SUBSET Keys
  BY DEF QueueInv, OwnershipInv, TypeOK
<1>1. \A v \in Ids : /\ Enqueued(v)' <=> Enqueued(v) \/ v = w
                     /\ Owning(v)' <=> Owning(v)
                     /\ state'[v] = state[v] /\ keysOf'[v] = keysOf[v]
  BY JoinsEffect DEF Joins
<1>2. ~Enqueued(w) /\ ~Owning(w) /\ state[w] = "Waiting"
  BY JoinsEffect DEF Owning
<1>3. Phase[w] = "idle"
  BY <1>2, Phases
<1>4. Lease!Rivals(w, keysOf[w], {"waiting", "held"}) # {}
  <2>1. PICK k \in keysOf[w] : ~(/\ holder[k] = None
                                 /\ QueuesWith(w)[k] # <<>>
                                 /\ Head(QueuesWith(w)[k]) = w)
    BY DEF Joins, Eligible
  <2>2. /\ k \in Keys /\ waiters[k] \in Seq(Ids) /\ holder[k] \in Ids \cup {None}
        /\ QueuesWith(w)[k] = Append(waiters[k], w)
    BY <1>0 DEF TypeOK, QueuesWith
  <2>3. CASE holder[k] # None
    <3>1. holder[k] \in Ids
      BY <2>2, <2>3
    <3>2. holder[k] # w
      BY <3>1, <2>2, <1>2 DEF QueueInv, OwnershipInv, HoldersAreOwners
    <3> QED BY <3>1, <3>2, <1>0, RivalWords
  <2>4. CASE waiters[k] # <<>>
    <3>1. waiters[k][1] \in Ids /\ 1 \in 1..Len(waiters[k])
      BY <2>2, <2>4
    <3>2. In(waiters[k], waiters[k][1])
      BY <3>1 DEF In
    <3>3. waiters[k][1] # w
      BY <3>1, <3>2, <2>2, <1>2, QueueWords DEF QueueInv
    <3> QED BY <3>1, <3>2, <3>3, <1>0, RivalWords
  <2>5. CASE holder[k] = None /\ waiters[k] = <<>>
    <3>1. Append(waiters[k], w) = <<w>>
      BY <2>5
    <3>2. Append(waiters[k], w) # <<>> /\ Head(Append(waiters[k], w)) = w
      BY <3>1
    <3> QED BY <3>2, <2>1, <2>2, <2>5
  <2> QED BY <2>3, <2>4, <2>5
<1>5. Want' = [Want EXCEPT ![w] = keysOf[w]]
  BY <1>1, <1>2 DEF Want
<1>6. Phase' = [Phase EXCEPT ![w] = "waiting"]
  <2>1. \A v \in Ids : Phase'[v] = IF v = w THEN "waiting" ELSE Phase[v]
    BY <1>1, <1>2, Phases, PhasesNext
  <2> QED BY <2>1 DEF Phase
<1>7. Prior' = Prior \cup {<<v, w>> : v \in Lease!Rivals(w, keysOf[w], {"waiting"})}
  <2>1. \A u \in Ids : <<u, w>> \notin Prior
    <3>1. \A u \in Ids : \A k \in Keys : Before(waiters[k], u, w) => In(waiters[k], w)
      BY DEF Before, In
    <3> QED BY <3>1, <1>2, PriorWords, QueueWords DEF QueueInv
  <2>2. \A u, v \in Ids : v # w => (<<u, v>> \in Prior' <=> <<u, v>> \in Prior)
    BY JoinsOrder, PriorWords
  <2>3. \A u \in Ids : <<u, w>> \in Prior' <=> \E k \in keysOf[w] : In(waiters[k], u)
    BY <1>0, JoinsOrder, PriorWords
  <2>4. \A u \in Ids : (\E k \in keysOf[w] : In(waiters[k], u))
                          <=> u \in Lease!Rivals(w, keysOf[w], {"waiting"})
    <3>1. \A k \in keysOf[w] : ~In(waiters[k], w)
      BY <1>0, <1>2, QueueWords DEF QueueInv
    <3> QED BY <3>1, <1>0, RivalWords
  <2> DEFINE rivals == Lease!Rivals(w, keysOf[w], {"waiting"})
  <2>5. rivals \subseteq Ids
    BY DEF Lease!Rivals
  <2> HIDE DEF rivals
  <2>6. \A u, v \in Ids : <<u, v>> \in Prior' <=> <<u, v>> \in Prior \cup {<<x, w>> : x \in rivals}
    BY <2>1, <2>2, <2>3, <2>4, <2>5 DEF rivals
  <2>7. Prior \cup {<<x, w>> : x \in rivals} \subseteq Ids \X Ids
    BY <2>5, PriorWords
  <2> QED BY <2>6, <2>7, PriorWords, PairsEqual DEF rivals
<1> QED BY <1>3, <1>4, <1>5, <1>6, <1>7 DEF Lease!Wait, Want, Phase, Prior

LEMMA TakesIsTakeFree ==
    ASSUME QueueInv, NEW w \in Ids, NEW ks \in SUBSET Keys, Takes(w, ks)
    PROVE  Lease!TakeFree(w, ks)
<1>1. \A v \in Ids : /\ Enqueued(v)' <=> Enqueued(v)
                     /\ Owning(v)' <=> Owning(v) \/ v = w
                     /\ keysOf'[v] = IF v = w THEN ks ELSE keysOf[v]
  BY TakesEffect
<1>2. ~Enqueued(w) /\ ~Owning(w) /\ state[w] = "Waiting"
  BY TakesEffect DEF Takes
<1>3. Phase[w] = "idle"
  BY <1>2, Phases
<1>4. Lease!Rivals(w, ks, {"waiting", "held"}) = {}
  <2>1. \A k \in ks : holder[k] = None /\ waiters[k] = <<>>
    BY DEF Takes
  <2>2. \A v \in Ids : \A k \in ks : ~In(waiters[k], v)
    BY <2>1 DEF In
  <2>3. None \notin Ids
    BY DEF None, Ids
  <2> QED BY <2>1, <2>2, <2>3, RivalWords
<1>5. Want' = [Want EXCEPT ![w] = ks]
  BY <1>1, <1>2 DEF Want
<1>6. Phase' = [Phase EXCEPT ![w] = "held"]
  <2>1. \A v \in Ids \ {w} : state'[v] = state[v]
    BY DEF Takes
  <2>2. \A v \in Ids : Phase'[v] = IF v = w THEN "held" ELSE Phase[v]
    BY <1>1, <1>2, <2>1, Phases, PhasesNext
  <2> QED BY <2>2 DEF Phase
<1>7. Prior' = Prior
  BY DEF Takes, Prior, Ahead
<1> QED BY <1>3, <1>4, <1>5, <1>6, <1>7 DEF Lease!TakeFree, Want, Phase, Prior

\* Leaving the queues takes a waiter out of the order and nobody else.
LEMMA PriorRemoved ==
    ASSUME NEW w \in Ids, \A k \in Keys : Removed(waiters[k], waiters'[k], w)
    PROVE  Prior' = Prior \ Lease!Involving(w)
<1>1. \A u, v \in Ids : <<u, v>> \in Prior' <=> <<u, v>> \in Prior /\ u # w /\ v # w
  BY PriorWords DEF Removed
<1>2. Lease!Involving(w) = {p \in Prior : w \in {p[1], p[2]}}
  BY DEF Lease!Involving, Prior
<1>3. \A u, v \in Ids : <<u, v>> \in Prior' <=> <<u, v>> \in Prior \ Lease!Involving(w)
  BY <1>1, <1>2
<1>4. Prior' \subseteq Ids \X Ids /\ Prior \ Lease!Involving(w) \subseteq Ids \X Ids
  BY PriorWords
<1> QED BY <1>3, <1>4, PairsEqual

LEMMA ServesIsServe ==
    ASSUME QueueInv, NEW a \in Actors, NEW c \in Ids, Serves(a, c) PROVE Lease!Serve(c)
<1>0. TypeOK /\ keysOf[c] \in SUBSET Keys
  BY DEF QueueInv, OwnershipInv, TypeOK
<1>1. \A v \in Ids : /\ Enqueued(v)' <=> Enqueued(v) /\ v # c
                     /\ Owning(v)' <=> Owning(v) \/ v = c
                     /\ keysOf'[v] = keysOf[v]
  BY ServesEffect DEF Serves
<1>2. Enqueued(c) /\ ~Owning(c)
  BY ServesEffect
<1>3. Phase[c] = "waiting" /\ Want[c] = keysOf[c]
  BY <1>2, Phases DEF Want
<1>4. Lease!Rivals(c, keysOf[c], {"held"}) = {}
  <2>1. \A k \in keysOf[c] : holder[k] = None
    BY DEF Serves, Eligible
  <2>2. None \notin Ids
    BY DEF None, Ids
  <2> QED BY <1>0, <2>1, <2>2, RivalWords
<1>5. \A v \in Ids : <<v, c>> \notin Prior
  <2>1. SUFFICES ASSUME NEW v \in Ids, NEW k \in Keys, Before(waiters[k], v, c) PROVE FALSE
    BY PriorWords
  <2>2. PICK i \in 1..Len(waiters[k]), j \in 1..Len(waiters[k]) : i < j /\ waiters[k][j] = c
    BY <2>1 DEF Before
  <2>3. k \in keysOf[c] /\ Distinct(waiters[k])
    BY <2>2, QueueWords DEF QueueInv, In
  <2>4. waiters[k] \in Seq(Ids) /\ waiters[k] # <<>> /\ Head(waiters[k]) = c
    BY <1>0, <2>3 DEF TypeOK, Serves, Eligible
  <2>5. 1 \in 1..Len(waiters[k]) /\ waiters[k][1] = c
    BY <2>4
  <2>6. j = 1
    BY <2>2, <2>3, <2>5 DEF Distinct
  <2> QED BY <2>2, <2>6
<1>6. Phase' = [Phase EXCEPT ![c] = "held"]
  <2>1. \A v \in Ids \ {c} : state'[v] = state[v]
    BY <1>0 DEF Serves, GrantLocked, TypeOK
  <2>2. \A v \in Ids : Phase'[v] = IF v = c THEN "held" ELSE Phase[v]
    BY <1>1, <1>2, <2>1, Phases, PhasesNext
  <2> QED BY <2>2 DEF Phase
<1>7. Prior' = Prior \ Lease!Involving(c)
  BY ServesQueue, PriorRemoved
<1>8. Want' = Want
  BY <1>1, <1>2 DEF Want
<1> QED BY <1>3, <1>4, <1>5, <1>6, <1>7, <1>8 DEF Lease!Serve, Want, Phase, Prior

LEMMA LeavesIsLeave ==
    ASSUME QueueInv, NEW w \in Ids, NEW a \in Actors, NEW target \in Ended, Leaves(w, a, target)
    PROVE  Lease!Leave(w)
<1>0. TypeOK
  BY DEF QueueInv, OwnershipInv
<1>1. \A v \in Ids : /\ Enqueued(v)' <=> Enqueued(v) /\ v # w
                     /\ Owning(v)' <=> Owning(v) /\ v # w
                     /\ keysOf'[v] = keysOf[v]
  BY LeavesEffect DEF Leaves
<1>2. Phase[w] \in {"waiting", "held"}
  BY Phases DEF Leaves
<1>3. Want' = [Want EXCEPT ![w] = {}]
  BY <1>1 DEF Want
<1>4. Phase' = [Phase EXCEPT ![w] = "over"]
  <2>1. /\ \A v \in Ids \ {w} : state'[v] = state[v]
        /\ state'[w] # "Waiting"
    BY <1>0 DEF Leaves, LeaveLocked, TypeOK, Ended
  <2>2. \A v \in Ids : Phase'[v] = IF v = w THEN "over" ELSE Phase[v]
    BY <1>1, <2>1, Phases, PhasesNext
  <2> QED BY <2>2 DEF Phase
<1>5. Prior' = Prior \ Lease!Involving(w)
  BY LeavesQueue, PriorRemoved
<1> QED BY <1>2, <1>3, <1>4, <1>5 DEF Lease!Leave, Want, Phase, Prior

\* Ids handed out, grants taken and candidates passed over are invisible.
LEMMA StillIsHidden ==
    ASSUME QueueInv, Still \/ \E a \in Actors, c \in Ids : Skips(a, c)
    PROVE  UNCHANGED Lease!leaseVars
<1>1. \A v \in Ids : /\ Enqueued(v)' <=> Enqueued(v)
                     /\ Owning(v)' <=> Owning(v)
                     /\ Enqueued(v) \/ Owning(v) => keysOf'[v] = keysOf[v]
  BY StillEffect DEF Skips, Enqueued, Owning, lockVars
<1>2. /\ waiters' = waiters
      /\ \A v \in Ids : ~Owning(v) => state'[v] = state[v]
  BY DEF Still, Skips, Owning, lockVars
<1>3. Want' = Want
  BY <1>1 DEF Want
<1>4. Phase' = Phase
  <2>1. \A v \in Ids : Phase'[v] = Phase[v]
    BY <1>1, <1>2, Phases, PhasesNext
  <2> QED BY <2>1 DEF Phase
<1>5. Prior' = Prior
  BY <1>2 DEF Prior, Ahead
<1> QED BY <1>3, <1>4, <1>5 DEF Lease!leaseVars, Want, Phase, Prior

\* The queues, the late promotions and the racing aborts implement the lease
\* service: a registration that has to queue is a wait, a registration or a
\* try_acquire_mut that finds its keys free takes them, a promotion serves the
\* first waiter, an abort or a release leaves, and every other step is invisible.
THEOREM LeaseRefinement == Spec => ImplementsLeaseService
<1>1. Init => Lease!LSInit
  <2> SUFFICES ASSUME Init PROVE Lease!LSInit
    OBVIOUS
  <2>1. \A v \in Ids : ~Enqueued(v) /\ ~Owning(v) /\ state[v] = "Waiting"
    BY DEF Init, Enqueued, Owning
  <2>2. Want = [w \in Ids |-> {}]
    BY <2>1 DEF Want
  <2>3. Phase = [w \in Ids |-> "idle"]
    <3>1. \A v \in Ids : Phase[v] = "idle"
      BY <2>1, Phases
    <3> QED BY <3>1 DEF Phase
  <2>4. Prior = {}
    <3>1. \A k \in Keys : Len(waiters[k]) = 0
      BY DEF Init
    <3>2. \A u, v \in Ids : \A k \in Keys : ~Ahead(u, v, k)
      BY <3>1 DEF Ahead
    <3> QED BY <3>2 DEF Prior
  <2> QED BY <2>2, <2>3, <2>4 DEF Lease!LSInit, Want, Phase, Prior
<1>2. QueueInv /\ [Next]_vars => [Lease!LSNext]_Lease!leaseVars
  <2> SUFFICES ASSUME QueueInv, [Next]_vars PROVE Lease!LSNext \/ UNCHANGED Lease!leaseVars
    OBVIOUS
  <2>0. TypeOK
    BY DEF QueueInv, OwnershipInv
  <2>1. ASSUME NEW w \in Ids, Joins(w) PROVE Lease!LSNext
    <3>1. keysOf[w] \in SUBSET Keys
      BY <2>0 DEF TypeOK
    <3>2. PICK ks \in SUBSET Keys : ks = keysOf[w]
      BY <3>1
    <3>3. Lease!Wait(w, ks)
      BY <3>2, <2>1, JoinsIsWait
    <3> QED BY <3>3 DEF Lease!LSNext
  <2>2. ASSUME NEW w \in Ids, NEW ks \in SUBSET Keys, Takes(w, ks) PROVE Lease!LSNext
    BY <2>2, TakesIsTakeFree DEF Lease!LSNext
  <2>3. ASSUME NEW a \in Actors, NEW c \in Ids, Serves(a, c) PROVE Lease!LSNext
    BY <2>3, ServesIsServe DEF Lease!LSNext
  <2>4. ASSUME NEW w \in Ids, NEW a \in Actors, NEW target \in Ended, Leaves(w, a, target)
        PROVE  Lease!LSNext
    BY <2>4, LeavesIsLeave DEF Lease!LSNext
  <2>5. CASE Still \/ \E a \in Actors, c \in Ids : Skips(a, c)
    BY <2>5, StillIsHidden
  <2> QED BY <2>1, <2>2, <2>3, <2>4, <2>5, StepKinds DEF Step
<1> QED BY <1>1, <1>2, QueueInvariant, PTL DEF Spec, ImplementsLeaseService, Lease!LSSpec

-----------------------------------------------------------------------------
(* Wake-ups and deadlines.                                                 *)

\* Some actor has yet to remove the deadline of w and to wake it.
Pending(w) == \E a \in Actors : settle[a] = w

\* What a task relies on when it parks: whoever ends its wait still has to
\* settle it; behind the insertion of its deadline a waiter has one, or the
\* deadline worker holds it; the waker is in place before the last look at the
\* state; from the registration with the token on, a cancellation wakes it; and
\* a deadline is taken back by whoever ended the wait or by the task itself.
Wake(w) ==
    /\ Pending(w) => state[w] # "Waiting"
    /\ pc[w] = "consume" => state[w] # "Waiting"
    /\ Enqueued(w) /\ pc[w] # "arm" => w \in deadlines \/ timerJob = w
    /\ pc[w] \in {"final", "parked"} /\ state[w] = "Waiting" => waker[w]
    /\ pc[w] = "parked" /\ ~woken[w] => waker[w] /\ (state[w] = "Waiting" \/ Pending(w))
    /\ pc[w] \in {"regWaker", "final", "parked"} /\ ~woken[w] => ~cancelled[w] /\ cancelReg[w]
    /\ w \in deadlines => state[w] = "Waiting" \/ pc[w] = "armed" \/ Pending(w)

Wakeful == \A w \in Ids : Wake(w)

\* A step that does not concern v.
Quiet(v) ==
    /\ pc'[v] = pc[v] /\ state'[v] = state[v] /\ registered'[v] = registered[v]
    /\ waker'[v] = waker[v] /\ woken'[v] = woken[v]
    /\ cancelled'[v] = cancelled[v] /\ cancelReg'[v] = cancelReg[v]
    /\ (v \in deadlines' <=> v \in deadlines) /\ (timerJob' = v <=> timerJob = v)
    /\ (Pending(v)' <=> Pending(v))

LEMMA OneWakes ==
    ASSUME Wakeful, NEW x \in Ids, \A v \in Ids \ {x} : Quiet(v), Wake(x)'
    PROVE  Wakeful'
<1>1. ASSUME NEW v \in Ids \ {x} PROVE Wake(v)'
  <2>1. Wake(v) /\ Quiet(v)
    BY DEF Wakeful
  <2> QED BY <2>1 DEF Wake, Quiet, Enqueued
<1> QED BY <1>1 DEF Wakeful

\* An actor that takes on or finishes the settling of x leaves the others'.
LEMMA PendingFrame ==
    ASSUME TypeOK, NEW x \in Ids, NEW a \in Actors, NEW y \in {None, x},
           settle[a] \in {None, x}, settle' = [settle EXCEPT ![a] = y]
    PROVE  /\ \A v \in Ids \ {x} : Pending(v)' <=> Pending(v)
           /\ y = x => Pending(x)'
<1>1. \A b \in Actors : settle'[b] = IF b = a THEN y ELSE settle[b]
  BY DEF TypeOK
<1>2. None \notin Ids
  BY DEF None, Ids
<1> QED BY <1>1, <1>2 DEF Pending

\* Aborting a waiter leaves its wake-up to the actor, and the others alone.
LEMMA AbortWakes ==
    ASSUME TypeOK, NEW w \in Ids, NEW a \in Actors, NEW target \in Ended,
           settle[a] = None, Abort(w, a, target)
    PROVE  /\ \A v \in Ids \ {w} : state'[v] = state[v] /\ (Pending(v)' <=> Pending(v))
           /\ \/ state'[w] = target /\ Pending(w)'
              \/ /\ state[w] \notin {"Waiting", "Granted"}
                 /\ state'[w] = state[w] /\ (Pending(w)' <=> Pending(w))
<1>1. CASE state[w] \in {"Waiting", "Granted"}
  <2>1. state' = [state EXCEPT ![w] = target] /\ settle' = [settle EXCEPT ![a] = w]
    BY <1>1 DEF Abort, LeaveLocked
  <2>2. (\A v \in Ids \ {w} : Pending(v)' <=> Pending(v)) /\ Pending(w)'
    BY <2>1, PendingFrame
  <2> QED BY <2>1, <2>2 DEF TypeOK
<1>2. CASE state[w] \notin {"Waiting", "Granted"}
  <2>1. UNCHANGED <<state, settle>>
    BY <1>2 DEF Abort, lockVars, afterVars
  <2> QED BY <2>1, <1>2 DEF Pending
<1> QED BY <1>1, <1>2

\* Every step of a task keeps the agreement for itself and leaves the others'.
LEMMA PollWakes ==
    ASSUME QueueInv, Wakeful, NEW w \in Ids,
           PollAgain(w) \/ PollStep(w) \/ DropAcquisition(w) \/ ReleaseLease(w)
    PROVE  Wakeful'
<1> USE DEF idVars, envVars, timerVars
<1>0. TypeOK /\ Control(w) /\ Wake(w) /\ w \in Actors
  BY DEF QueueInv, OwnershipInv, Controlled, Wakeful, Actors
<1>a. {"Cancelled", "TimedOut", "Abandoned", "Released"} \subseteq Ended /\ InterruptedState(w) \in Ended
  BY DEF Ended, InterruptedState
<1>b. \A p : Goto(w, p) => pc'[w] = p /\ \A v \in Ids \ {w} : pc'[v] = pc[v]
  BY <1>0 DEF Goto, TypeOK
<1>c. UNCHANGED <<lockVars, afterVars>> => /\ state' = state
                                           /\ \A v \in Ids : Pending(v)' <=> Pending(v)
  BY DEF lockVars, afterVars, Pending
<1>d. Idle(w) => settle[w] = None
  BY DEF Idle
<1>e. \A target \in Ended : target \notin {"Waiting", "Granted", "Consumed"}
  BY DEF Ended
<1>1. ASSUME PollFirst(w) PROVE Wakeful'
  <2>1. /\ UNCHANGED <<deadlines, timerJob, cancelled, settle, woken, waker>>
        /\ pc[w] = "new"
    BY <1>1 DEF PollFirst, afterVars
  <2>2. /\ ~registered[w] /\ state[w] = "Waiting" /\ w \notin deadlines /\ ~Pending(w)
    BY <2>1, <1>0 DEF Control, Wake
  <2>3. \/ Goto(w, "done") /\ UNCHANGED <<state, registered>>
        \/ Goto(w, "recheck") /\ state' = [state EXCEPT ![w] = "Granted"]
           /\ registered' = [registered EXCEPT ![w] = TRUE]
        \/ Goto(w, "arm") /\ UNCHANGED state
           /\ registered' = [registered EXCEPT ![w] = TRUE]
    BY <1>1 DEF PollFirst, Register, GrantLocked, Finish, lockVars
  <2>4. cancelReg' = [cancelReg EXCEPT ![w] = FALSE] \/ cancelReg' = cancelReg
    BY <1>1 DEF PollFirst, Register, Finish
  <2>5. \A v \in Ids : Pending(v)' <=> Pending(v)
    BY <2>1 DEF Pending
  <2>6. ASSUME NEW v \in Ids \ {w} PROVE Quiet(v)
    <3>1. state'[v] = state[v] /\ registered'[v] = registered[v] /\ pc'[v] = pc[v]
      BY <2>3, <1>0, <1>b DEF TypeOK
    <3>2. cancelReg'[v] = cancelReg[v]
      BY <2>4, <1>0 DEF TypeOK
    <3> QED BY <3>1, <3>2, <2>1, <2>5 DEF Quiet
  <2>7. \/ pc'[w] = "done" /\ ~registered'[w]
        \/ pc'[w] = "recheck" /\ state'[w] = "Granted"
        \/ pc'[w] = "arm"
    BY <2>2, <2>3, <1>0, <1>b DEF TypeOK
  <2>8. Wake(w)'
    BY <2>1, <2>2, <2>5, <2>7 DEF Wake, Enqueued
  <2> QED BY <2>6, <2>8, OneWakes
<1>2. ASSUME PollAgain(w) PROVE Wakeful'
  <2>1. /\ UNCHANGED <<deadlines, timerJob, cancelled, registered, waker>>
        /\ woken' = [woken EXCEPT ![w] = FALSE] /\ pc[w] = "parked" /\ Idle(w)
        /\ (cancelReg' = [cancelReg EXCEPT ![w] = FALSE] \/ cancelReg' = cancelReg)
        /\ \/ Abort(w, w, InterruptedState(w)) /\ Goto(w, "done")
           \/ UNCHANGED <<lockVars, afterVars>> /\ Goto(w, "recheck")
    BY <1>2 DEF PollAgain, At, Finish
  <2>2. registered[w] /\ state[w] # "Consumed"
    BY <2>1, <1>0 DEF Control, PollPoints
  <2>3. /\ \A v \in Ids \ {w} : state'[v] = state[v] /\ (Pending(v)' <=> Pending(v)) /\ pc'[v] = pc[v]
        /\ \/ pc'[w] = "done" /\ state'[w] # "Waiting" /\ (Pending(w) => Pending(w)')
              /\ (state[w] = "Waiting" => Pending(w)')
           \/ pc'[w] = "recheck" /\ state'[w] = state[w] /\ (Pending(w)' <=> Pending(w))
    <3>1. CASE Abort(w, w, InterruptedState(w)) /\ Goto(w, "done")
      BY <3>1, <2>1, <1>0, <1>a, <1>b, <1>d, <1>e, AbortWakes
    <3>2. CASE UNCHANGED <<lockVars, afterVars>> /\ Goto(w, "recheck")
      BY <3>2, <1>b, <1>c
    <3> QED BY <2>1, <3>1, <3>2
  <2>4. ASSUME NEW v \in Ids \ {w} PROVE Quiet(v)
    <3>1. woken'[v] = woken[v] /\ cancelReg'[v] = cancelReg[v]
      BY <2>1, <1>0 DEF TypeOK
    <3> QED BY <3>1, <2>1, <2>3 DEF Quiet
  <2>5. Wake(w)'
    BY <2>1, <2>2, <2>3, <1>0 DEF Wake, Enqueued
  <2> QED BY <2>4, <2>5, OneWakes
<1>3. ASSUME PollArm(w) \/ PollArmed(w) PROVE Wakeful'
  <2>1. /\ UNCHANGED <<timerJob, cancelled, registered, waker, woken, cancelReg>>
        /\ UNCHANGED <<lockVars, afterVars>>
        /\ \/ deadlines' = deadlines \cup {w} /\ Goto(w, "armed")
           \/ /\ deadlines' = IF state[w] # "Waiting" THEN deadlines \ {w} ELSE deadlines
              /\ Goto(w, "recheck") /\ pc[w] = "armed"
    BY <1>3 DEF PollArm, PollArmed, At
  <2>2. \A v \in Ids \ {w} : /\ pc'[v] = pc[v] /\ state'[v] = state[v]
                             /\ (v \in deadlines' <=> v \in deadlines)
                             /\ (Pending(v)' <=> Pending(v))
    BY <2>1, <1>b, <1>c
  <2>3. /\ state'[w] = state[w] /\ (Pending(w)' <=> Pending(w))
        /\ \/ w \in deadlines' /\ pc'[w] = "armed"
           \/ /\ pc'[w] = "recheck" /\ pc[w] = "armed"
              /\ (w \in deadlines' <=> w \in deadlines /\ state[w] = "Waiting")
    BY <2>1, <1>b, <1>c
  <2>4. ASSUME NEW v \in Ids \ {w} PROVE Quiet(v)
    BY <2>1, <2>2 DEF Quiet
  <2>5. Wake(w)'
    BY <2>1, <2>3, <1>0 DEF Wake, Enqueued
  <2> QED BY <2>4, <2>5, OneWakes
<1>4. ASSUME PollRecheck(w) PROVE Wakeful'
  <2>1. /\ UNCHANGED <<deadlines, timerJob, cancelled, registered, waker, woken, cancelReg>>
        /\ pc[w] = "recheck" /\ Idle(w) /\ Goto(w, "observe")
        /\ Abort(w, w, InterruptedState(w)) \/ UNCHANGED <<lockVars, afterVars>>
    BY <1>4 DEF PollRecheck, At
  <2>2. /\ \A v \in Ids \ {w} : state'[v] = state[v] /\ (Pending(v)' <=> Pending(v))
        /\ \/ state'[w] # "Waiting" /\ Pending(w)'
           \/ state'[w] = state[w] /\ (Pending(w)' <=> Pending(w))
    <3>1. CASE Abort(w, w, InterruptedState(w))
      BY <3>1, <2>1, <1>0, <1>a, <1>d, <1>e, AbortWakes
    <3>2. CASE UNCHANGED <<lockVars, afterVars>>
      BY <3>2, <1>c
    <3> QED BY <2>1, <3>1, <3>2
  <2>3. ASSUME NEW v \in Ids \ {w} PROVE Quiet(v)
    BY <2>1, <2>2, <1>b DEF Quiet
  <2>4. pc'[w] = "observe"
    BY <2>1, <1>b
  <2>5. Wake(w)'
    BY <2>1, <2>2, <2>4, <1>0 DEF Wake, Enqueued
  <2> QED BY <2>3, <2>5, OneWakes
<1>5. ASSUME PollObserve(w) PROVE Wakeful'
  <2>1. /\ UNCHANGED <<deadlines, timerJob, cancelled, registered, waker, woken>>
        /\ UNCHANGED <<lockVars, afterVars>>
        /\ pc[w] = "observe" /\ state[w] # "Waiting"
        /\ (cancelReg' = [cancelReg EXCEPT ![w] = FALSE] \/ cancelReg' = cancelReg)
        /\ Goto(w, "consume") \/ Goto(w, "done")
    BY <1>5 DEF PollObserve, At, Finish
  <2>2. ASSUME NEW v \in Ids \ {w} PROVE Quiet(v)
    <3>1. cancelReg'[v] = cancelReg[v]
      BY <2>1, <1>0 DEF TypeOK
    <3>2. pc'[v] = pc[v] /\ state'[v] = state[v] /\ (Pending(v)' <=> Pending(v))
      BY <2>1, <1>b, <1>c
    <3> QED BY <3>1, <3>2, <2>1 DEF Quiet
  <2>3. pc'[w] \in {"consume", "done"} /\ state'[w] = state[w] /\ (Pending(w)' <=> Pending(w))
    BY <2>1, <1>b, <1>c
  <2>4. Wake(w)'
    BY <2>1, <2>3, <1>0 DEF Wake, Enqueued
  <2> QED BY <2>2, <2>4, OneWakes
<1>6. ASSUME PollConsume(w) PROVE Wakeful'
  <2>1. /\ UNCHANGED <<deadlines, timerJob, cancelled, registered, waker, cancelReg, settle>>
        /\ pc[w] = "consume"
        /\ \/ /\ state' = [state EXCEPT ![w] = "Consumed"] /\ UNCHANGED woken
              /\ Goto(w, "consumed")
           \/ /\ UNCHANGED state /\ woken' = [woken EXCEPT ![w] = TRUE]
              /\ Goto(w, "parked")
    BY <1>6 DEF PollConsume, At, afterVars
  <2>2. \A v \in Ids : Pending(v)' <=> Pending(v)
    BY <2>1 DEF Pending
  <2>3. ASSUME NEW v \in Ids \ {w} PROVE Quiet(v)
    <3>1. state'[v] = state[v] /\ woken'[v] = woken[v] /\ pc'[v] = pc[v]
      BY <2>1, <1>0, <1>b DEF TypeOK
    <3> QED BY <3>1, <2>1, <2>2 DEF Quiet
  <2>4. /\ state'[w] # "Waiting"
        /\ pc'[w] = "consumed" \/ (pc'[w] = "parked" /\ woken'[w])
    BY <2>1, <1>0, <1>b DEF TypeOK, Wake
  <2>5. w \in deadlines => Pending(w)
    BY <2>1, <1>0 DEF Wake
  <2>6. Wake(w)'
    BY <2>1, <2>2, <2>4, <2>5 DEF Wake, Enqueued
  <2> QED BY <2>3, <2>6, OneWakes
<1>7. ASSUME PollConsumed(w) \/ ReleaseLease(w) PROVE Wakeful'
  <2>1. /\ UNCHANGED <<deadlines, timerJob, cancelled, registered, waker, woken>>
        /\ pc[w] \in {"consumed", "leased"}
        /\ (cancelReg' = [cancelReg EXCEPT ![w] = FALSE] \/ cancelReg' = cancelReg)
        /\ Goto(w, "leased") \/ Goto(w, "done")
        /\ Release(w, w) \/ UNCHANGED <<lockVars, afterVars>>
    BY <1>7 DEF PollConsumed, ReleaseLease, At, Finish
  <2>2. state[w] = "Consumed"
    BY <2>1, <1>0 DEF Control
  <2>3. settle' = settle /\ (state' = [state EXCEPT ![w] = "Released"] \/ state' = state)
    BY <2>1, <2>2 DEF Release, LeaveLocked, lockVars, afterVars
  <2>4. \A v \in Ids : Pending(v)' <=> Pending(v)
    BY <2>3 DEF Pending
  <2>5. ASSUME NEW v \in Ids \ {w} PROVE Quiet(v)
    <3>1. state'[v] = state[v] /\ cancelReg'[v] = cancelReg[v] /\ pc'[v] = pc[v]
      BY <2>1, <2>3, <1>0, <1>b DEF TypeOK
    <3> QED BY <3>1, <2>1, <2>4 DEF Quiet
  <2>6. state'[w] # "Waiting" /\ pc'[w] \in {"leased", "done"}
    BY <2>1, <2>2, <2>3, <1>0, <1>b DEF TypeOK
  <2>7. w \in deadlines => Pending(w)
    BY <2>1, <2>2, <1>0 DEF Wake
  <2>8. Wake(w)'
    BY <2>1, <2>4, <2>6, <2>7 DEF Wake, Enqueued
  <2> QED BY <2>5, <2>8, OneWakes
<1>8. ASSUME PollRegisterCancellation(w) PROVE Wakeful'
  <2>1. /\ UNCHANGED <<deadlines, timerJob, cancelled, registered, waker>>
        /\ pc[w] = "observe" /\ Idle(w) /\ state[w] = "Waiting"
        /\ \/ /\ woken' = [woken EXCEPT ![w] = TRUE] /\ cancelReg' = cancelReg
              /\ Goto(w, "regWaker") /\ UNCHANGED <<lockVars, afterVars>>
           \/ /\ ~cancelled[w] /\ cancelReg' = [cancelReg EXCEPT ![w] = TRUE] /\ woken' = woken
              /\ Goto(w, "regWaker") /\ UNCHANGED <<lockVars, afterVars>>
           \/ /\ cancelReg' = [cancelReg EXCEPT ![w] = FALSE] /\ woken' = woken
              /\ Goto(w, "done") /\ Abort(w, w, "Abandoned")
    BY <1>8 DEF PollRegisterCancellation, At, Finish
  <2>2. /\ \A v \in Ids \ {w} : state'[v] = state[v] /\ (Pending(v)' <=> Pending(v))
        /\ \/ pc'[w] = "done" /\ state'[w] # "Waiting" /\ Pending(w)'
           \/ /\ pc'[w] = "regWaker" /\ state'[w] = state[w] /\ (Pending(w)' <=> Pending(w))
              /\ woken'[w] \/ (~cancelled[w] /\ cancelReg'[w])
    <3>1. CASE Abort(w, w, "Abandoned") /\ Goto(w, "done")
      BY <3>1, <2>1, <1>0, <1>a, <1>b, <1>d, <1>e, AbortWakes
    <3>2. CASE /\ UNCHANGED <<lockVars, afterVars>> /\ Goto(w, "regWaker")
               /\ \/ woken' = [woken EXCEPT ![w] = TRUE]
                  \/ ~cancelled[w] /\ cancelReg' = [cancelReg EXCEPT ![w] = TRUE]
      BY <3>2, <1>0, <1>b, <1>c DEF TypeOK
    <3> QED BY <2>1, <3>1, <3>2
  <2>3. ASSUME NEW v \in Ids \ {w} PROVE Quiet(v)
    <3>1. woken'[v] = woken[v] /\ cancelReg'[v] = cancelReg[v] /\ pc'[v] = pc[v]
      BY <2>1, <1>0, <1>b DEF TypeOK
    <3> QED BY <3>1, <2>1, <2>2 DEF Quiet
  <2>4. Wake(w)'
    BY <2>1, <2>2, <1>0 DEF Wake, Enqueued
  <2> QED BY <2>3, <2>4, OneWakes
<1>9. ASSUME PollRegisterWaker(w) PROVE Wakeful'
  <2>1. /\ UNCHANGED <<deadlines, timerJob, cancelled, registered, cancelReg, woken>>
        /\ UNCHANGED <<lockVars, afterVars>>
        /\ pc[w] = "regWaker" /\ waker' = [waker EXCEPT ![w] = TRUE] /\ Goto(w, "final")
    BY <1>9 DEF PollRegisterWaker, At
  <2>2. /\ pc'[w] = "final" /\ waker'[w]
        /\ \A v \in Ids \ {w} : pc'[v] = pc[v] /\ waker'[v] = waker[v]
        /\ \A v \in Ids : state'[v] = state[v] /\ (Pending(v)' <=> Pending(v))
    BY <2>1, <1>0, <1>b, <1>c DEF TypeOK
  <2>3. ASSUME NEW v \in Ids \ {w} PROVE Quiet(v)
    BY <2>1, <2>2 DEF Quiet
  <2>4. Wake(w)'
    BY <2>1, <2>2, <1>0 DEF Wake, Enqueued
  <2> QED BY <2>3, <2>4, OneWakes
<1>10. ASSUME PollFinal(w) PROVE Wakeful'
  <2>1. /\ UNCHANGED <<deadlines, timerJob, cancelled, registered, cancelReg, waker>>
        /\ UNCHANGED <<lockVars, afterVars>>
        /\ woken' = [woken EXCEPT ![w] = @ \/ Interrupted(w) \/ state[w] # "Waiting"]
        /\ pc[w] = "final" /\ Goto(w, "parked")
    BY <1>10 DEF PollFinal, At
  <2>2. woken'[w] = (woken[w] \/ Interrupted(w) \/ state[w] # "Waiting")
    BY <2>1, <1>0 DEF TypeOK
  <2>3. /\ pc'[w] = "parked"
        /\ \A v \in Ids \ {w} : pc'[v] = pc[v] /\ woken'[v] = woken[v]
        /\ \A v \in Ids : state'[v] = state[v] /\ (Pending(v)' <=> Pending(v))
    BY <2>1, <1>0, <1>b, <1>c DEF TypeOK
  <2>4. ASSUME NEW v \in Ids \ {w} PROVE Quiet(v)
    BY <2>1, <2>3 DEF Quiet
  <2>5. ~woken'[w] => ~woken[w] /\ state[w] = "Waiting"
    BY <2>2
  <2>6. Wake(w)'
    BY <2>1, <2>3, <2>5, <1>0 DEF Wake, Enqueued
  <2> QED BY <2>4, <2>6, OneWakes
<1>11. ASSUME DropAcquisition(w) PROVE Wakeful'
  <2>1. /\ UNCHANGED <<deadlines, timerJob, cancelled, registered, waker, woken>>
        /\ pc[w] \in {"new", "parked"} /\ Idle(w) /\ Goto(w, "done")
        /\ cancelReg' = [cancelReg EXCEPT ![w] = FALSE]
        /\ IF registered[w] THEN Abort(w, w, "Abandoned") ELSE UNCHANGED <<lockVars, afterVars>>
    BY <1>11 DEF DropAcquisition, Finish
  <2>2. pc[w] = "new" => ~registered[w]
    BY <1>0 DEF Control
  <2>3. /\ \A v \in Ids \ {w} : state'[v] = state[v] /\ (Pending(v)' <=> Pending(v))
        /\ \/ state'[w] # "Waiting" /\ (Pending(w) => Pending(w)')
              /\ (state[w] = "Waiting" => Pending(w)')
           \/ ~registered[w] /\ state'[w] = state[w] /\ (Pending(w)' <=> Pending(w))
    <3>1. CASE registered[w]
      BY <3>1, <2>1, <1>0, <1>a, <1>d, <1>e, AbortWakes
    <3>2. CASE ~registered[w]
      BY <3>2, <2>1, <1>c
    <3> QED BY <3>1, <3>2
  <2>4. ASSUME NEW v \in Ids \ {w} PROVE Quiet(v)
    <3>1. cancelReg'[v] = cancelReg[v] /\ pc'[v] = pc[v]
      BY <2>1, <1>0, <1>b DEF TypeOK
    <3> QED BY <3>1, <2>1, <2>3 DEF Quiet
  <2>5. pc'[w] = "done"
    BY <2>1, <1>b
  <2>6. Wake(w)'
    BY <2>1, <2>3, <2>5, <1>0 DEF Wake, Enqueued
  <2> QED BY <2>4, <2>6, OneWakes
<1> QED
  BY <1>1, <1>2, <1>3, <1>4, <1>5, <1>6, <1>7, <1>8, <1>9, <1>10, <1>11 DEF PollStep

\* A new acquisition is unknown to everybody else.
LEMMA StartWakes ==
    ASSUME QueueInv, Wakeful, NEW ks \in SUBSET Keys, AcquireMut(ks) \/ TryAcquireMut(ks)
    PROVE  Wakeful'
<1> USE DEF idVars, envVars, timerVars
<1>0. TypeOK /\ UnusedIds /\ Controlled
  BY DEF QueueInv, OwnershipInv
<1>a. nextWaiterId \in Ids /\ pc[nextWaiterId] = "absent"
  BY <1>0, FreshId DEF AcquireMut, TryAcquireMut
<1>1. PICK n \in Ids : n = nextWaiterId /\ pc[n] = "absent"
  BY <1>a
<1>2. /\ UNCHANGED <<registered, settle, deadlines, timerJob, cancelled, cancelReg, woken, waker>>
      /\ \/ pc' = [pc EXCEPT ![n] = "new"] /\ UNCHANGED state
         \/ pc' = [pc EXCEPT ![n] = "done"] /\ UNCHANGED state
         \/ pc' = [pc EXCEPT ![n] = "leased"] /\ state' = [state EXCEPT ![n] = "Consumed"]
  BY <1>1 DEF AcquireMut, TryAcquireMut, lockVars, afterVars
<1>3. ~registered[n] /\ state[n] = "Waiting" /\ n \notin deadlines /\ timerJob # n /\ Wake(n)
  BY <1>0, <1>1 DEF Controlled, Control, Wakeful
<1>4. \A v \in Ids : Pending(v)' <=> Pending(v)
  BY <1>2 DEF Pending
<1>5. \A v \in Ids \ {n} : state'[v] = state[v] /\ pc'[v] = pc[v]
  BY <1>0, <1>1, <1>2 DEF TypeOK
<1>6. pc'[n] \in {"new", "done", "leased"}
  BY <1>0, <1>1, <1>2 DEF TypeOK
<1>7. \A v \in Ids \ {n} : Quiet(v)
  BY <1>2, <1>4, <1>5 DEF Quiet
<1>8. Wake(n)'
  BY <1>2, <1>3, <1>4, <1>6 DEF Wake, Enqueued
<1> QED BY <1>7, <1>8, OneWakes

\* The deadline worker, the environment and the steps after the locks.
LEMMA OtherWakes ==
    ASSUME QueueInv, Wakeful,
           \/ \E w \in Ids : TimerTake(w) \/ CancelToken(w) \/ DeadlinePasses(w)
           \/ \E a \in Actors : Settle(a) \/ Promote(a)
           \/ TimerAbort
    PROVE  Wakeful'
<1> USE DEF idVars, envVars, timerVars, taskVars
<1>0. TypeOK /\ Controlled /\ TimerIdle /\ None \notin Ids /\ Timer \in Actors
  BY DEF QueueInv, OwnershipInv, None, Ids, Timer, Actors
<1>1. ASSUME NEW w \in Ids, TimerTake(w) PROVE Wakeful'
  <2>1. /\ UNCHANGED <<pc, state, registered, waker, woken, cancelled, cancelReg, settle>>
        /\ timerJob = None /\ w \in deadlines /\ deadlines' = deadlines \ {w} /\ timerJob' = w
    BY <1>1 DEF TimerTake, lockVars, afterVars
  <2>2. \A v \in Ids : Pending(v)' <=> Pending(v)
    BY <2>1 DEF Pending
  <2>3. \A v \in Ids \ {w} : Quiet(v)
    BY <2>1, <2>2, <1>0 DEF Quiet
  <2>4. Wake(w)'
    BY <2>1, <2>2 DEF Wakeful, Wake, Enqueued
  <2> QED BY <2>3, <2>4, OneWakes
<1>2. ASSUME NEW w \in Ids, CancelToken(w) PROVE Wakeful'
  <2>1. /\ UNCHANGED <<pc, state, registered, waker, cancelReg, settle, deadlines, timerJob>>
        /\ cancelled' = [cancelled EXCEPT ![w] = TRUE]
        /\ woken' = [woken EXCEPT ![w] = @ \/ cancelReg[w]]
    BY <1>2 DEF CancelToken, lockVars, afterVars
  <2>2. \A v \in Ids : Pending(v)' <=> Pending(v)
    BY <2>1 DEF Pending
  <2>3. woken'[w] = (woken[w] \/ cancelReg[w])
    BY <2>1, <1>0 DEF TypeOK
  <2>4. \A v \in Ids \ {w} : cancelled'[v] = cancelled[v] /\ woken'[v] = woken[v]
    BY <2>1, <1>0 DEF TypeOK
  <2>5. \A v \in Ids \ {w} : Quiet(v)
    BY <2>1, <2>2, <2>4 DEF Quiet
  <2>6. ~woken'[w] => ~woken[w] /\ ~cancelReg[w]
    BY <2>3
  <2>7. Wake(w)'
    BY <2>1, <2>2, <2>6 DEF Wakeful, Wake, Enqueued
  <2> QED BY <2>5, <2>7, OneWakes
<1>3. ASSUME NEW w \in Ids, DeadlinePasses(w) PROVE Wakeful'
  <2>1. UNCHANGED <<pc, state, registered, waker, woken, cancelled, cancelReg, settle,
                    deadlines, timerJob>>
    BY <1>3 DEF DeadlinePasses, lockVars, afterVars
  <2> QED BY <2>1 DEF Wakeful, Wake, Enqueued, Pending
<1>4. ASSUME NEW a \in Actors, Settle(a) PROVE Wakeful'
  <2>1. PICK w \in Ids : w = settle[a]
    BY <1>0, <1>4 DEF Settle, TypeOK
  <2>2. /\ UNCHANGED <<pc, state, registered, cancelled, cancelReg, timerJob>>
        /\ deadlines' = deadlines \ {w}
        /\ waker' = [waker EXCEPT ![w] = FALSE]
        /\ woken' = [woken EXCEPT ![w] = @ \/ waker[w]]
        /\ settle' = [settle EXCEPT ![a] = None]
    BY <1>4, <2>1 DEF Settle, lockVars
  <2>3. \A v \in Ids \ {w} : Pending(v)' <=> Pending(v)
    BY <2>1, <2>2, <1>0, PendingFrame
  <2>4. \A v \in Ids \ {w} : waker'[v] = waker[v] /\ woken'[v] = woken[v]
    BY <2>2, <1>0 DEF TypeOK
  <2>5. woken'[w] = (woken[w] \/ waker[w])
    BY <2>2, <1>0 DEF TypeOK
  <2>6. \A v \in Ids \ {w} : Quiet(v)
    BY <2>2, <2>3, <2>4 DEF Quiet
  <2>7. Wake(w) /\ state[w] # "Waiting"
    BY <2>1 DEF Wakeful, Wake, Pending
  <2>8. ~woken'[w] => ~woken[w] /\ ~waker[w]
    BY <2>5
  <2>9. Wake(w)'
    BY <2>2, <2>7, <2>8 DEF Wake, Enqueued
  <2> QED BY <2>6, <2>9, OneWakes
<1>5. ASSUME NEW a \in Actors, Promote(a) PROVE Wakeful'
  <2>1. /\ UNCHANGED <<pc, registered, waker, woken, cancelled, cancelReg, deadlines, timerJob>>
        /\ settle[a] = None
    BY <1>5 DEF Promote
  <2>2. PICK c \in promote[a] :
            \/ state' = [state EXCEPT ![c] = "Granted"] /\ settle' = [settle EXCEPT ![a] = c]
            \/ UNCHANGED <<state, settle>>
    BY <1>5 DEF Promote, GrantLocked, lockVars
  <2>3. c \in Ids
    BY <1>0 DEF TypeOK
  <2>4. CASE UNCHANGED <<state, settle>>
    BY <2>1, <2>4 DEF Wakeful, Wake, Enqueued, Pending
  <2>5. CASE state' = [state EXCEPT ![c] = "Granted"] /\ settle' = [settle EXCEPT ![a] = c]
    <3>1. (\A v \in Ids \ {c} : Pending(v)' <=> Pending(v)) /\ Pending(c)'
      BY <2>1, <2>3, <2>5, <1>0, PendingFrame
    <3>2. state'[c] = "Granted" /\ \A v \in Ids \ {c} : state'[v] = state[v]
      BY <2>3, <2>5, <1>0 DEF TypeOK
    <3>3. \A v \in Ids \ {c} : Quiet(v)
      BY <2>1, <3>1, <3>2 DEF Quiet
    <3>4. Wake(c)'
      BY <2>1, <2>3, <3>1, <3>2 DEF Wakeful, Wake, Enqueued
    <3> QED BY <2>3, <3>3, <3>4, OneWakes
  <2> QED BY <2>2, <2>4, <2>5
<1>6. ASSUME TimerAbort PROVE Wakeful'
  <2>1. PICK w \in Ids : w = timerJob
    BY <1>0, <1>6 DEF TimerAbort, TypeOK
  <2>2. /\ UNCHANGED <<pc, registered, waker, woken, cancelled, cancelReg, deadlines>>
        /\ timerJob' = None /\ Abort(w, Timer, "TimedOut")
    BY <1>6, <2>1 DEF TimerAbort
  <2>3. settle[Timer] = None /\ "TimedOut" \in Ended
    BY <2>1, <1>0 DEF TimerIdle, Idle, Ended
  <2>4. /\ \A v \in Ids \ {w} : state'[v] = state[v] /\ (Pending(v)' <=> Pending(v))
        /\ \/ state'[w] = "TimedOut" /\ Pending(w)'
           \/ /\ state[w] # "Waiting"
              /\ state'[w] = state[w] /\ (Pending(w)' <=> Pending(w))
    BY <2>2, <2>3, <1>0, AbortWakes
  <2>5. \A v \in Ids \ {w} : Quiet(v)
    BY <2>1, <2>2, <2>4, <1>0 DEF Quiet
  <2>6. Wake(w)'
    BY <2>2, <2>4 DEF Wakeful, Wake, Enqueued
  <2> QED BY <2>5, <2>6, OneWakes
<1> QED BY <1>1, <1>2, <1>3, <1>4, <1>5, <1>6

\* Tasks, wakers, tokens and deadlines agree in every reachable state.
LEMMA WakeInvariant == Spec => [](QueueInv /\ Wakeful)
<1>1. Init => Wakeful
  <2> SUFFICES ASSUME Init PROVE Wakeful
    OBVIOUS
  <2>1. \A w \in Ids : ~Pending(w)
    BY DEF Init, Pending, None, Ids
  <2> QED BY <2>1 DEF Init, Wakeful, Wake, Enqueued
<1>2. QueueInv /\ Wakeful /\ [Next]_vars => Wakeful'
  <2>1. ASSUME QueueInv, Wakeful, UNCHANGED vars PROVE Wakeful'
    BY <2>1 DEF vars, Wakeful, Wake, Enqueued, Pending, lockVars, timerVars, envVars, taskVars,
                afterVars
  <2> QED BY <2>1, PollWakes, StartWakes, OtherWakes DEF Next
<1> QED BY <1>1, <1>2, QueueInvariant, PTL DEF Spec

\* No wake-up is lost: whichever of the grant, the abort, the deadline worker and
\* the token's cancel runs before, between or after the steps with which a task
\* parks, a task that nobody has woken is still waiting with waker and deadline in
\* place, or its wake-up is on its way.
THEOREM NoWakeupIsLost == Spec => []NoLostWakeup
<1>1. QueueInv /\ Wakeful => NoLostWakeup
  <2> SUFFICES ASSUME QueueInv, Wakeful, NEW w \in Ids, pc[w] = "parked", ~woken[w]
               PROVE  /\ ~cancelled[w] /\ waker[w]
                      /\ \/ state[w] = "Waiting" /\ (w \in deadlines \/ timerJob = w)
                         \/ Pending(w)
    BY DEF NoLostWakeup, Pending
  <2>1. Wake(w) /\ registered[w]
    BY DEF QueueInv, Controlled, Control, Wakeful
  <2> QED BY <2>1 DEF Wake, Enqueued
<1> QED BY <1>1, WakeInvariant, PTL

\* A deadline outlives its wait only while the task or the actor that ended the
\* wait is about to remove it.
THEOREM DeadlinesAreTakenBack == Spec => []DeadlinesDoNotLeak
<1>1. QueueInv /\ Wakeful => DeadlinesDoNotLeak
  BY DEF QueueInv, OwnershipInv, TypeOK, Wakeful, Wake, Pending, DeadlinesDoNotLeak
<1> QED BY <1>1, WakeInvariant, PTL
=============================================================================
