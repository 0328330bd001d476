------------------------ MODULE PipelineIntakeProofs ------------------------
(***************************************************************************)
(* Proofs about the intake of CommitPipeline: the accepted backlog is      *)
(* bounded, and the intake actor leaves no accepted submission behind.     *)
(***************************************************************************)
EXTENDS CommitPipelineProofs

-----------------------------------------------------------------------------
(* The inductive invariant.                                                *)

\* A permit is a slot of the channel.  Without a shutdown the intake actor
\* keeps pending within the capacity; the collection of a shutdown adds what
\* was in the channel, and nothing new.
Limits ==
    /\ IsFiniteSet(PermitsOut)
    /\ Cardinality(PermitsOut) + Queued <= WorkloadCapacity
    /\ intake = "run" => Len(pending) <= WorkloadCapacity
    /\ intake = "rejecting" => pending = <<>>
    /\ BacklogBounded

\* The shutdown message comes after the gate was closed, and the intake actor
\* leaves its loop for good only with it.
Closing ==
    /\ shutdown # "sent" => Shutdown \notin Members(channel) \cup Members(pending)
    /\ shutdown = "sent" => gateClosed
    /\ intake # "run" => gateClosed
    /\ intake \in {"closing", "draining", "done"} => shutdown = "sent"
    /\ intake \in {"draining", "done"} => channel = <<>> /\ PermitsOut = {}
    /\ intake = "done" => pending = <<>>

IntakeInv == StoreInv /\ Limits /\ Closing

-----------------------------------------------------------------------------
(* The messages of workload permits in a channel.                          *)

QueuedIn(s) == Len(s) - IF Shutdown \in Members(s) THEN 1 ELSE 0

LEMMA MembersMoved ==
    ASSUME NEW S, NEW s \in Seq(S)
    PROVE  /\ Members(<<>>) = {}
           /\ \A x \in S : Members(Append(s, x)) = Members(s) \cup {x}
           /\ s # <<>> => Members(Tail(s)) \subseteq Members(s) /\ Head(s) \in Members(s)
           /\ \A n \in 0 .. Len(s) : Members(Drop(s, n)) \subseteq Members(s)
<1>1. Members(<<>>) = {}
  BY DEF Members
<1>2. ASSUME NEW x \in S PROVE Members(Append(s, x)) = Members(s) \cup {x}
  <2> DEFINE t == Append(s, x)
  <2>1. /\ DOMAIN t = 1 .. Len(s) + 1 /\ DOMAIN s = 1 .. Len(s) /\ Len(s) \in Nat
        /\ \A i \in DOMAIN s : t[i] = s[i]
        /\ t[Len(s) + 1] = x
    OBVIOUS
  <2> HIDE DEF t
  <2>2. \A i \in DOMAIN t : i \in DOMAIN s \/ i = Len(s) + 1
    BY <2>1
  <2>3. Members(t) \subseteq Members(s) \cup {x}
    BY <2>1, <2>2 DEF Members
  <2>4. Len(s) + 1 \in DOMAIN t /\ \A i \in DOMAIN s : i \in DOMAIN t
    BY <2>1
  <2>5. Members(s) \cup {x} \subseteq Members(t)
    BY <2>1, <2>4 DEF Members
  <2> QED BY <2>3, <2>5 DEF t
<1>3. s # <<>> => Members(Tail(s)) \subseteq Members(s) /\ Head(s) \in Members(s)
  <2> HAVE s # <<>>
  <2>1. /\ Head(s) = s[1] /\ 1 \in DOMAIN s
        /\ \A i \in DOMAIN Tail(s) : i + 1 \in DOMAIN s /\ Tail(s)[i] = s[i + 1]
    BY TailFacts
  <2> QED BY <2>1 DEF Members
<1>4. ASSUME NEW n \in 0 .. Len(s) PROVE Members(Drop(s, n)) \subseteq Members(s)
  <2>1. \A i \in DOMAIN Drop(s, n) : n + i \in DOMAIN s /\ Drop(s, n)[i] = s[n + i]
    BY DropFacts
  <2> QED BY <2>1 DEF Members
<1> QED BY <1>1, <1>2, <1>3, <1>4

LEMMA QueuedFacts ==
    ASSUME PipelineAssumption, NEW s \in Seq(Messages)
    PROVE  /\ QueuedIn(s) \in Nat /\ QueuedIn(s) <= Len(s) /\ Len(s) <= QueuedIn(s) + 1
           /\ Shutdown \notin Members(s) => QueuedIn(s) = Len(s)
           /\ \A c \in Commands : QueuedIn(Append(s, c)) = QueuedIn(s) + 1
           /\ Shutdown \notin Members(s) => QueuedIn(Append(s, Shutdown)) = QueuedIn(s)
           /\ s # <<>> => QueuedIn(Tail(s)) <= QueuedIn(s)
           /\ QueuedIn(<<>>) = 0
<1>1. Len(s) \in Nat /\ (Shutdown \in Members(s) => Len(s) > 0)
  BY DEF Members
<1>2. /\ QueuedIn(s) \in Nat /\ QueuedIn(s) <= Len(s) /\ Len(s) <= QueuedIn(s) + 1
      /\ Shutdown \notin Members(s) => QueuedIn(s) = Len(s)
  BY <1>1 DEF QueuedIn
<1>3. ASSUME NEW c \in Commands PROVE QueuedIn(Append(s, c)) = QueuedIn(s) + 1
  <2>1. c \in Messages /\ c # Shutdown
    BY DEF Messages, PipelineAssumption
  <2>2. Members(Append(s, c)) = Members(s) \cup {c} /\ Len(Append(s, c)) = Len(s) + 1
    BY <2>1, MembersMoved
  <2>3. Shutdown \in Members(Append(s, c)) <=> Shutdown \in Members(s)
    BY <2>1, <2>2
  <2> QED BY <1>1, <2>2, <2>3 DEF QueuedIn
<1>4. ASSUME Shutdown \notin Members(s) PROVE QueuedIn(Append(s, Shutdown)) = QueuedIn(s)
  <2>1. Shutdown \in Messages
    BY DEF Messages
  <2>2. Members(Append(s, Shutdown)) = Members(s) \cup {Shutdown}
        /\ Len(Append(s, Shutdown)) = Len(s) + 1
    BY <2>1, MembersMoved
  <2>3. Shutdown \in Members(Append(s, Shutdown))
    BY <2>2
  <2> QED BY <1>1, <1>4, <2>2, <2>3 DEF QueuedIn
<1>5. ASSUME s # <<>> PROVE QueuedIn(Tail(s)) <= QueuedIn(s)
  <2>1. Len(Tail(s)) = Len(s) - 1 /\ Members(Tail(s)) \subseteq Members(s)
    BY <1>5, MembersMoved, TailFacts
  <2>2. CASE Shutdown \in Members(s)
    <3>1. QueuedIn(s) = Len(s) - 1
      BY <2>2 DEF QueuedIn
    <3>2. QueuedIn(Tail(s)) = Len(s) - 1 \/ QueuedIn(Tail(s)) = (Len(s) - 1) - 1
      BY <1>1, <2>1 DEF QueuedIn
    <3> QED BY <1>1, <3>1, <3>2
  <2>3. CASE Shutdown \notin Members(s)
    <3>1. QueuedIn(s) = Len(s) /\ QueuedIn(Tail(s)) = Len(s) - 1
      BY <1>1, <2>1, <2>3 DEF QueuedIn
    <3> QED BY <1>1, <3>1
  <2> QED BY <2>2, <2>3
<1>6. QueuedIn(<<>>) = 0
  BY MembersMoved DEF QueuedIn
<1> QED BY <1>2, <1>3, <1>4, <1>5, <1>6

-----------------------------------------------------------------------------
(* Permits.                                                                *)

LEMMA PermitsShrink ==
    ASSUME StoreInv, \A c \in Commands : client'[c] = client[c] \/ client'[c] = "done"
    PROVE  PermitsOut' \subseteq PermitsOut
<1> SUFFICES ASSUME NEW c \in PermitsOut' PROVE c \in PermitsOut
  OBVIOUS
<1>1. c \in Commands /\ client'[c] \in {"reserved", "active"}
  BY DEF PermitsOut, HoldsPermit
<1> QED BY <1>1 DEF PermitsOut, HoldsPermit

\* Neither the channel nor pending nor the intake actor changes, and permits
\* are at most given back.
Steady ==
    /\ UNCHANGED <<channel, pending, intake>>
    /\ PermitsOut' \subseteq PermitsOut
    /\ shutdown' = shutdown \/ (shutdown = "no" /\ shutdown' = "closing")

LEMMA SteadySteps ==
    ASSUME StoreInv,
           \/ UNCHANGED vars \/ InitiateShutdown \/ StoppedLifecycle
           \/ Writer \/ Journal \/ Completion
           \/ \E c \in Commands : BeginSubmission(c) \/ Refuse(c)
    PROVE  Steady
<1> USE DEF StoreInv, Types, CallerTypes
<1>1. ASSUME UNCHANGED <<client, shutdown, channel, pending, intake>> PROVE Steady
  BY <1>1, PermitsShrink DEF Steady
<1>2. ASSUME UNCHANGED <<shutdown, channel, pending, intake>>, NEW S,
             client' = [c \in Commands |-> IF c \in S THEN "done" ELSE client[c]]
      PROVE  Steady
  BY <1>2, PermitsShrink DEF Steady
<1>3. CASE UNCHANGED vars
  BY <1>1, <1>3 DEF vars, callerVars, gateVars, intakeVars
<1>4. CASE InitiateShutdown
  <2>1. UNCHANGED <<client, channel, pending, intake>> /\ shutdown = "no" /\ shutdown' = "closing"
    BY <1>4 DEF InitiateShutdown, callerVars, intakeVars
  <2> QED BY <2>1, PermitsShrink DEF Steady
<1>5. CASE StoppedLifecycle
  BY <1>1, <1>5 DEF StoppedLifecycle, callerVars, intakeVars
<1>6. CASE \/ Journal \/ CompletionFence \/ PublicationFails \/ JournalErrorFences
           \/ CompletionFails
  <2>1. UNCHANGED <<client, shutdown, channel, pending, intake>>
    BY <1>6 DEF Journal, JournalFlush, JournalFails, JournalEnds, CompletionFence,
       PublicationFails, JournalErrorFences, CompletionFails, callerVars, gateVars, intakeVars
  <2> QED BY <1>1, <2>1
<1>7. CASE CompletionRelease
  <2>1. UNCHANGED <<shutdown, intakeVars>> /\ FinishCommandGroup(Head(lane).cmds, Head(lane).results)
    BY <1>7, Zenon DEF CompletionRelease
  <2>2. client' = [c \in Commands |-> IF c \in Members(Head(lane).cmds) THEN "done" ELSE client[c]]
    BY <2>1 DEF FinishCommandGroup, Reply
  <2> QED BY <1>2, <2>1, <2>2 DEF intakeVars
<1>8. CASE DrainReady \/ ReceiveUnit \/ DrainOne \/ AdmitGroup \/ SubmitUnit \/ SendFeedback
  BY <1>1, <1>8 DEF DrainReady, ReceiveUnit, DrainOne, AdmitGroup, SubmitUnit,
     SendFeedback, callerVars, gateVars, intakeVars
<1>9. CASE Stage
  BY <1>1, <1>9 DEF Stage, StageIneligible, StageFenced, StageReplay, StageBegin, StageSeal,
     StageSealFails, StagePeerMismatch, StageDirect, callerVars, gateVars, intakeVars
<1>10. CASE Direct
  BY <1>1, <1>10 DEF Direct, DirectReplay, DirectFenced, DirectPrefixFails, DirectCommit,
     DirectAbort, DirectUnknown, DirectStep, callerVars, intakeVars
<1>11. CASE RejectWorkUnit
  <2>1. UNCHANGED <<gateVars, intakeVars>> /\ Reply(Members(work), LAMBDA c : Says("Rejected"))
    BY <1>11, Zenon DEF RejectWorkUnit
  <2>2. client' = [c \in Commands |-> IF c \in Members(work) THEN "done" ELSE client[c]]
    BY <2>1 DEF Reply
  <2> QED BY <1>2, <2>1, <2>2 DEF gateVars, intakeVars
<1>12. CASE CompleteGroup
  <2>1. UNCHANGED <<shutdown, intakeVars>>
    BY <1>12 DEF CompleteGroup
  <2>2. CASE frontier = "WriterPrivate"
    BY <1>1, <1>12, <2>1, <2>2, BehindFacts DEF callerVars, intakeVars
  <2>3. CASE frontier # "WriterPrivate"
    <3>1. FinishCommandGroup(work, results)
      BY <1>12, <2>3 DEF CompleteGroup
    <3>2. client' = [c \in Commands |-> IF c \in Members(work) THEN "done" ELSE client[c]]
      BY <3>1 DEF FinishCommandGroup, Reply
    <3> QED BY <1>2, <2>1, <3>2 DEF intakeVars
  <2> QED BY <2>2, <2>3
<1>13. ASSUME NEW c \in Commands, BeginSubmission(c) PROVE Steady
  <2>1. /\ client[c] = "reserved" /\ client' = [client EXCEPT ![c] = "active"]
        /\ UNCHANGED <<shutdown, channel, pending, intake>>
    BY <1>13 DEF BeginSubmission, gateVars, intakeVars
  <2>2. PermitsOut' \subseteq PermitsOut
    BY <2>1 DEF PermitsOut, HoldsPermit
  <2> QED BY <2>1, <2>2 DEF Steady
<1>14. ASSUME NEW c \in Commands, Refuse(c) PROVE Steady
  <2>1. UNCHANGED <<gateVars, intakeVars>> /\ Reply({c}, LAMBDA d : Says("Refused"))
    BY <1>14, Zenon DEF Refuse
  <2>2. client' = [d \in Commands |-> IF d \in {c} THEN "done" ELSE client[d]]
    BY <2>1 DEF Reply
  <2> QED BY <1>2, <2>1, <2>2 DEF gateVars, intakeVars
<1> QED BY <1>3, <1>4, <1>5, <1>6, <1>7, <1>8, <1>9, <1>10, <1>11, <1>12, <1>13, <1>14
        DEF Writer, Completion

-----------------------------------------------------------------------------
(* Every step keeps the invariant.                                         *)

LEMMA Counts ==
    ASSUME PipelineAssumption, IntakeInv
    PROVE  /\ WorkloadCapacity \in Nat \ {0}
           /\ Cardinality(PermitsOut) \in Nat /\ Len(pending) \in Nat /\ Len(channel) \in Nat
           /\ Queued \in Nat /\ Queued = QueuedIn(channel)
           /\ Queued <= Len(channel) /\ Len(channel) <= Queued + 1
           /\ Cardinality(PermitsOut) + Queued <= WorkloadCapacity
           /\ Len(pending) + Len(channel) + Cardinality(PermitsOut) <= 2 * WorkloadCapacity + 1
<1>1. channel \in Seq(Messages) /\ pending \in Seq(Messages)
  BY DEF IntakeInv, StoreInv, Types, IntakeTypes
<1>2. Queued = QueuedIn(channel)
  BY DEF Queued, QueuedIn
<1>3. IsFiniteSet(PermitsOut) /\ Cardinality(PermitsOut) \in Nat
  BY FS_CardinalityType DEF IntakeInv, Limits
<1>4. /\ QueuedIn(channel) \in Nat /\ QueuedIn(channel) <= Len(channel)
      /\ Len(channel) <= QueuedIn(channel) + 1
  BY <1>1, QueuedFacts
<1>5. Len(channel) \in Nat /\ Len(pending) \in Nat
  BY <1>1
<1>6. /\ Cardinality(PermitsOut) + Queued <= WorkloadCapacity
      /\ Len(pending) + Len(channel) + Cardinality(PermitsOut) <= 2 * WorkloadCapacity + 1
  BY DEF IntakeInv, Limits, BacklogBounded
<1>7. WorkloadCapacity \in Nat \ {0}
  BY DEF PipelineAssumption
<1> QED BY <1>2, <1>3, <1>4, <1>5, <1>6, <1>7

LEMMA FewerPermits ==
    ASSUME IntakeInv, NEW P \in SUBSET PermitsOut
    PROVE  IsFiniteSet(P) /\ Cardinality(P) \in Nat /\ Cardinality(P) <= Cardinality(PermitsOut)
BY FS_Subset, FS_CardinalityType DEF IntakeInv, Limits

\* The limits hold when no permit is given, no message of one is added and the
\* backlog does not grow.
LEMMA LimitsShrink ==
    ASSUME PipelineAssumption, IntakeInv, PermitsOut' \subseteq PermitsOut,
           channel' \in Seq(Messages), pending' \in Seq(Messages),
           QueuedIn(channel') <= Queued,
           Len(pending') + Len(channel') <= Len(pending) + Len(channel),
           intake' = "run" => Len(pending') <= WorkloadCapacity,
           intake' = "rejecting" => pending' = <<>>
    PROVE  Limits'
<1> DEFINE P == PermitsOut'
           p == Cardinality(PermitsOut)
           n == Cardinality(P)
           q == QueuedIn(channel')
           a == Len(pending') + Len(channel')
           b == Len(pending) + Len(channel)
<1>1. /\ WorkloadCapacity \in Nat /\ p \in Nat /\ Queued \in Nat /\ b \in Nat
      /\ p + Queued <= WorkloadCapacity /\ b + p <= 2 * WorkloadCapacity + 1
  BY Counts
<1>2. P \in SUBSET PermitsOut
  OBVIOUS
<1> HIDE DEF P
<1>3. IsFiniteSet(P) /\ n \in Nat /\ n <= p
  BY <1>2, FewerPermits
<1>4. q \in Nat /\ q <= Queued
  BY QueuedFacts
<1>5. a \in Nat /\ a <= b
  OBVIOUS
<1> HIDE DEF p, n, q, a, b
<1>6. n + q <= WorkloadCapacity
  BY <1>1, <1>3, <1>4
<1>7. a + n <= 2 * WorkloadCapacity + 1
  BY <1>1, <1>3, <1>5
<1>8. Queued' = q
  BY DEF Queued, QueuedIn, q
<1>9. Cardinality(PermitsOut)' = n
  BY DEF n, P
<1>10. Cardinality(PermitsOut)' + Queued' <= WorkloadCapacity
  BY <1>6, <1>8, <1>9
<1>11. BacklogBounded'
  BY <1>7, <1>9 DEF BacklogBounded, a
<1>12. IsFiniteSet(PermitsOut')
  BY <1>3 DEF P
<1> QED BY <1>10, <1>11, <1>12 DEF Limits

LEMMA GateStays ==
    ASSUME PipelineAssumption, StoreInv, [Next]_vars
    PROVE  (gateClosed => gateClosed') \/ CrashAndRecover
<1>1. ASSUME LifecycleMoves, gateClosed PROVE gateClosed'
  <2>1. gateClosed' = TRUE \/ gateClosed' = gateClosed
    BY <1>1 DEF LifecycleMoves, Fence, Stop
  <2> QED BY <1>1, <2>1
<1> QED BY <1>1, LifecycleSteps

LEMMA SteadyKeeps ==
    ASSUME PipelineAssumption, IntakeInv, Steady, gateClosed => gateClosed'
    PROVE  Limits' /\ Closing'
<1>1. channel \in Seq(Messages) /\ pending \in Seq(Messages) /\ Queued = QueuedIn(channel)
  BY Counts DEF IntakeInv, StoreInv, Types, IntakeTypes
<1>2. UNCHANGED <<channel, pending, intake>> /\ PermitsOut' \subseteq PermitsOut
  BY DEF Steady
<1>3. Queued \in Nat /\ Len(pending) + Len(channel) \in Nat
  BY Counts
<1>4. Limits'
  <2>1. /\ intake = "run" => Len(pending) <= WorkloadCapacity
        /\ intake = "rejecting" => pending = <<>>
    BY DEF IntakeInv, Limits
  <2> QED BY <1>1, <1>2, <1>3, <2>1, LimitsShrink
<1>5. Closing'
  <2>1. shutdown' = "sent" <=> shutdown = "sent"
    BY DEF Steady
  <2>2. PermitsOut = {} => PermitsOut' = {}
    BY <1>2
  <2> QED BY <1>2, <2>1, <2>2 DEF IntakeInv, Closing
<1> QED BY <1>4, <1>5

\* A permit is given: the gate is open, so the intake actor is in its loop.
LEMMA ReserveKeeps ==
    ASSUME PipelineAssumption, IntakeInv, NEW c \in Commands, ReserveCapacity(c)
    PROVE  Limits' /\ Closing'
<1> DEFINE p == Cardinality(PermitsOut)
<1>1. /\ client[c] = "idle" /\ ~gateClosed /\ p + Queued < WorkloadCapacity
      /\ client' = [client EXCEPT ![c] = "reserved"]
      /\ UNCHANGED <<shutdown, channel, pending, intake, gateClosed>>
  BY DEF ReserveCapacity, gateVars, intakeVars
<1>2. intake = "run" /\ Len(pending) <= WorkloadCapacity
  BY <1>1 DEF IntakeInv, Closing, Limits
<1>3. /\ WorkloadCapacity \in Nat /\ p \in Nat /\ Queued \in Nat /\ Len(pending) \in Nat
      /\ Len(channel) \in Nat /\ Len(channel) <= Queued + 1
  BY Counts
<1>4. client \in [Commands -> {"idle", "reserved", "active", "queued", "done"}]
  BY DEF IntakeInv, StoreInv, Types, CallerTypes
<1>5. PermitsOut' = PermitsOut \cup {c} /\ c \notin PermitsOut
  BY <1>1, <1>4 DEF PermitsOut, HoldsPermit
<1>6. IsFiniteSet(PermitsOut) /\ IsFiniteSet(PermitsOut \cup {c})
      /\ Cardinality(PermitsOut \cup {c}) = p + 1
  BY <1>5, FS_AddElement DEF IntakeInv, Limits
<1>7. Cardinality(PermitsOut)' = p + 1 /\ IsFiniteSet(PermitsOut)'
  BY <1>5, <1>6
<1>8. Queued' = Queued
  BY <1>1 DEF Queued
<1> HIDE DEF p
<1>9. (p + 1) + Queued <= WorkloadCapacity
  BY <1>1, <1>3
<1>10. Len(pending) + Len(channel) + (p + 1) <= 2 * WorkloadCapacity + 1
  BY <1>2, <1>3, <1>9
<1>11. BacklogBounded'
  BY <1>1, <1>7, <1>10 DEF BacklogBounded
<1>12. Limits'
  BY <1>1, <1>2, <1>7, <1>8, <1>9, <1>11 DEF Limits
<1>13. Closing'
  BY <1>1, <1>2 DEF IntakeInv, Closing
<1> QED BY <1>12, <1>13

\* The permit becomes a message.
LEMMA SubmitKeeps ==
    ASSUME PipelineAssumption, IntakeInv, NEW c \in Commands, Submit(c)
    PROVE  Limits' /\ Closing'
<1> DEFINE p == Cardinality(PermitsOut)
<1>1. /\ client[c] = "active" /\ client' = [client EXCEPT ![c] = "queued"]
      /\ channel' = Append(channel, c)
      /\ UNCHANGED <<shutdown, pending, intake, gateClosed>>
  BY DEF Submit, gateVars
<1>2. /\ WorkloadCapacity \in Nat /\ p \in Nat /\ Queued \in Nat /\ Len(pending) \in Nat
      /\ Len(channel) \in Nat /\ Queued = QueuedIn(channel)
      /\ p + Queued <= WorkloadCapacity
      /\ Len(pending) + Len(channel) + p <= 2 * WorkloadCapacity + 1
  BY Counts
<1>3. /\ client \in [Commands -> {"idle", "reserved", "active", "queued", "done"}]
      /\ channel \in Seq(Messages) /\ c \in Messages /\ c # Shutdown
  BY DEF IntakeInv, StoreInv, Types, CallerTypes, IntakeTypes, Messages, PipelineAssumption
<1>4. PermitsOut' = PermitsOut \ {c} /\ c \in PermitsOut
  BY <1>1, <1>3 DEF PermitsOut, HoldsPermit
<1>5. IsFiniteSet(PermitsOut \ {c}) /\ Cardinality(PermitsOut \ {c}) = p - 1
  BY <1>4, FS_RemoveElement DEF IntakeInv, Limits
<1>6. Cardinality(PermitsOut)' = p - 1 /\ IsFiniteSet(PermitsOut)'
  BY <1>4, <1>5
<1>7. QueuedIn(channel') = Queued + 1 /\ Len(channel') = Len(channel) + 1
  BY <1>1, <1>2, <1>3, QueuedFacts
<1>8. Queued' = Queued + 1
  BY <1>7 DEF Queued, QueuedIn
<1> HIDE DEF p
<1>9. (p - 1) + (Queued + 1) <= WorkloadCapacity
  BY <1>2
<1>10. Len(pending) + (Len(channel) + 1) + (p - 1) <= 2 * WorkloadCapacity + 1
  BY <1>2
<1>11. BacklogBounded'
  BY <1>1, <1>6, <1>7, <1>10 DEF BacklogBounded
<1>12. Limits'
  BY <1>1, <1>6, <1>8, <1>9, <1>11 DEF Limits, IntakeInv
<1>13. intake \notin {"draining", "done"}
  BY <1>4 DEF IntakeInv, Closing
<1>14. Members(channel') = Members(channel) \cup {c}
  BY <1>1, <1>3, MembersMoved
<1>15. Closing'
  BY <1>1, <1>3, <1>13, <1>14 DEF IntakeInv, Closing
<1> QED BY <1>12, <1>15

\* The shutdown message has a slot of its own.
LEMMA SendShutdownKeeps ==
    ASSUME PipelineAssumption, IntakeInv, SendShutdown
    PROVE  Limits' /\ Closing'
<1> DEFINE p == Cardinality(PermitsOut)
<1>1. /\ shutdown = "closing" /\ shutdown' = "sent" /\ gateClosed' = TRUE
      /\ channel' = Append(channel, Shutdown)
      /\ UNCHANGED <<client, pending, intake>>
  BY DEF SendShutdown, callerVars
<1>2. Shutdown \notin Members(channel)
  BY <1>1 DEF IntakeInv, Closing
<1>3. intake \in {"run", "rejecting"}
  BY <1>1 DEF IntakeInv, Closing, StoreInv, Types, IntakeTypes
<1>4. channel \in Seq(Messages) /\ Shutdown \in Messages
  BY DEF IntakeInv, StoreInv, Types, IntakeTypes, Messages
<1>5. /\ WorkloadCapacity \in Nat /\ p \in Nat /\ Queued \in Nat /\ Len(pending) \in Nat
      /\ Len(channel) \in Nat /\ Queued = QueuedIn(channel) /\ p + Queued <= WorkloadCapacity
  BY Counts
<1>6. Queued = Len(channel) /\ QueuedIn(channel') = Queued
  BY <1>1, <1>2, <1>4, <1>5, QueuedFacts
<1>7. Queued' = Queued
  BY <1>6 DEF Queued, QueuedIn
<1>8. PermitsOut' = PermitsOut
  BY <1>1 DEF PermitsOut, HoldsPermit
<1>9. Cardinality(PermitsOut)' = p /\ IsFiniteSet(PermitsOut)'
  BY <1>8 DEF IntakeInv, Limits
<1>10. Len(pending) <= WorkloadCapacity
  <2>1. CASE intake = "run"
    BY <2>1 DEF IntakeInv, Limits
  <2>2. CASE intake = "rejecting"
    <3>1. pending = <<>>
      BY <2>2 DEF IntakeInv, Limits
    <3> QED BY <1>5, <3>1
  <2> QED BY <1>3, <2>1, <2>2
<1> HIDE DEF p
<1>11. Len(channel') = Len(channel) + 1
  BY <1>1, <1>4
<1>12. Len(pending) + (Len(channel) + 1) + p <= 2 * WorkloadCapacity + 1
  BY <1>5, <1>6, <1>10
<1>13. BacklogBounded'
  BY <1>1, <1>9, <1>11, <1>12 DEF BacklogBounded
<1>14. Limits'
  BY <1>1, <1>5, <1>7, <1>9, <1>13 DEF Limits, IntakeInv
<1>15. Closing'
  BY <1>1, <1>3 DEF Closing
<1> QED BY <1>14, <1>15

\* A message goes from the channel to pending.
LEMMA AcceptKeeps ==
    ASSUME PipelineAssumption, IntakeInv, IntakeAccept \/ IntakeCollect
    PROVE  Limits' /\ Closing'
<1>1. /\ channel # <<>> /\ pending' = Append(pending, Head(channel)) /\ channel' = Tail(channel)
      /\ UNCHANGED <<client, shutdown, gateClosed, intake>>
      /\ intake \in {"run", "closing"}
      /\ intake = "run" => Len(pending) < WorkloadCapacity
  BY DEF IntakeAccept, IntakeCollect, callerVars, gateVars
<1>2. channel \in Seq(Messages) /\ pending \in Seq(Messages)
  BY DEF IntakeInv, StoreInv, Types, IntakeTypes
<1>3. Head(channel) \in Messages /\ Tail(channel) \in Seq(Messages) /\ Len(Tail(channel)) = Len(channel) - 1
  BY <1>1, <1>2
<1>4. /\ pending' \in Seq(Messages) /\ Len(pending') = Len(pending) + 1
      /\ channel' \in Seq(Messages) /\ Len(channel') = Len(channel) - 1
  BY <1>1, <1>2, <1>3
<1>5. /\ WorkloadCapacity \in Nat /\ Len(pending) \in Nat /\ Len(channel) \in Nat
      /\ Queued = QueuedIn(channel)
  BY Counts
<1>6. QueuedIn(channel') <= Queued
  BY <1>1, <1>2, <1>5, QueuedFacts
<1>7. PermitsOut' \subseteq PermitsOut
  BY <1>1 DEF PermitsOut, HoldsPermit
<1>8. Len(pending') + Len(channel') <= Len(pending) + Len(channel)
  BY <1>4, <1>5
<1>9. intake' = "run" => Len(pending') <= WorkloadCapacity
  BY <1>1, <1>4, <1>5
<1>10. Limits'
  BY <1>1, <1>4, <1>6, <1>7, <1>8, <1>9, LimitsShrink
<1>11. Members(channel') \cup Members(pending') \subseteq Members(channel) \cup Members(pending)
  <2>1. Members(pending') = Members(pending) \cup {Head(channel)}
    BY <1>1, <1>2, <1>3, MembersMoved
  <2>2. Members(channel') \subseteq Members(channel) /\ Head(channel) \in Members(channel)
    BY <1>1, <1>2, MembersMoved
  <2> QED BY <2>1, <2>2
<1>12. Closing'
  BY <1>1, <1>11 DEF IntakeInv, Closing
<1> QED BY <1>10, <1>12

\* Pending loses its first messages: a unit for the writer, the shutdown.
LEMMA TakeKeeps ==
    ASSUME PipelineAssumption, IntakeInv, FormNextUnit \/ IntakeShutdown
    PROVE  Limits' /\ Closing'
<1>1. channel \in Seq(Messages) /\ pending \in Seq(Messages)
  BY DEF IntakeInv, StoreInv, Types, IntakeTypes
<1>2. UNCHANGED <<client, shutdown, gateClosed, channel>>
  BY DEF FormNextUnit, IntakeShutdown, callerVars, gateVars
<1>3. \E n \in 0 .. Len(pending) : pending' = Drop(pending, n)
  <2>1. CASE FormNextUnit
    <3>1. PICK n \in 1 .. Len(pending) : pending' = Drop(pending, n)
      BY <2>1 DEF FormNextUnit
    <3>2. n \in 0 .. Len(pending)
      BY <1>1
    <3> QED BY <3>1, <3>2
  <2>2. CASE IntakeShutdown
    <3>1. pending # <<>> /\ pending' = Tail(pending)
      BY <2>2 DEF IntakeShutdown
    <3>2. Tail(pending) = SubSeq(pending, 2, Len(pending)) /\ 1 \in 0 .. Len(pending)
      BY <1>1, <3>1
    <3> QED BY <3>1, <3>2 DEF Drop
  <2> QED BY <2>1, <2>2
<1>4. PICK n \in 0 .. Len(pending) : pending' = Drop(pending, n)
  BY <1>3
<1>5. pending' \in Seq(Messages) /\ Len(pending') = Len(pending) - n
  BY <1>1, <1>4, DropFacts
<1>6. Members(pending') \subseteq Members(pending)
  BY <1>1, <1>4, MembersMoved
<1>7. /\ WorkloadCapacity \in Nat /\ Len(pending) \in Nat /\ Len(channel) \in Nat
      /\ Queued \in Nat /\ Queued = QueuedIn(channel)
  BY Counts
<1>8. Len(pending') <= Len(pending)
  BY <1>5, <1>7
<1>9. Len(pending') + Len(channel') <= Len(pending) + Len(channel) /\ QueuedIn(channel') <= Queued
  BY <1>2, <1>5, <1>7
<1>10. PermitsOut' = PermitsOut
  BY <1>2 DEF PermitsOut, HoldsPermit
<1>11. CASE FormNextUnit
  <2>1. intake \in {"run", "draining"} /\ UNCHANGED intake
    BY <1>11 DEF FormNextUnit
  <2>2. intake' = "run" => Len(pending') <= WorkloadCapacity
    BY <1>5, <1>7, <1>8, <2>1 DEF IntakeInv, Limits
  <2>3. Limits'
    BY <1>1, <1>2, <1>5, <1>9, <1>10, <2>1, <2>2, LimitsShrink
  <2>4. Closing'
    BY <1>2, <1>6, <1>10, <2>1 DEF IntakeInv, Closing
  <2> QED BY <2>3, <2>4
<1>12. CASE IntakeShutdown
  <2>1. intake = "run" /\ pending # <<>> /\ Head(pending) = Shutdown /\ intake' = "closing"
    BY <1>12 DEF IntakeShutdown
  <2>2. Shutdown \in Members(pending)
    BY <1>1, <2>1, MembersMoved
  <2>3. shutdown = "sent" /\ gateClosed
    BY <2>2 DEF IntakeInv, Closing
  <2>4. Limits'
    BY <1>1, <1>2, <1>5, <1>9, <1>10, <2>1, LimitsShrink
  <2>5. Closing'
    BY <1>2, <2>1, <2>3 DEF Closing
  <2> QED BY <2>4, <2>5
<1> QED BY <1>11, <1>12

\* A halted coordinator rejects what is pending, then what is in the channel.
LEMMA RejectKeeps ==
    ASSUME PipelineAssumption, IntakeInv, IntakeFeedback \/ DrainReject
    PROVE  Limits' /\ Closing'
<1>1. channel \in Seq(Messages) /\ pending \in Seq(Messages)
  BY DEF IntakeInv, StoreInv, Types, IntakeTypes
<1>2. /\ WorkloadCapacity \in Nat /\ Len(pending) \in Nat /\ Len(channel) \in Nat
      /\ Queued \in Nat /\ Queued = QueuedIn(channel)
  BY Counts
<1>3. UNCHANGED <<shutdown, gateClosed>>
  BY Zenon DEF IntakeFeedback, DrainReject, gateVars
<1>4. CASE IntakeFeedback
  <2>1. UNCHANGED channel
    BY <1>4, Zenon DEF IntakeFeedback
  <2>2. CASE Halted
    <3>1. /\ pending' = <<>> /\ intake' = "rejecting"
          /\ Reply(Members(pending), LAMBDA c : Says("Rejected"))
      BY <1>4, <2>2, Zenon DEF IntakeFeedback
    <3>2. PermitsOut' \subseteq PermitsOut
      BY <3>1, PermitsShrink DEF Reply, IntakeInv
    <3>3. gateClosed
      BY <2>2 DEF IntakeInv, StoreInv, Halting
    <3>4. Len(pending') = 0 /\ pending' \in Seq(Messages)
      BY <3>1
    <3>5. Len(pending') + Len(channel') <= Len(pending) + Len(channel) /\ QueuedIn(channel') <= Queued
      BY <1>2, <2>1, <3>4
    <3>6. Limits'
      BY <1>1, <2>1, <3>1, <3>2, <3>4, <3>5, LimitsShrink
    <3>7. Members(pending') = {}
      BY <3>1 DEF Members
    <3>8. Closing'
      BY <1>3, <2>1, <3>1, <3>3, <3>7 DEF IntakeInv, Closing
    <3> QED BY <3>6, <3>8
  <2>3. CASE ~Halted
    <3>1. UNCHANGED <<client, pending, intake>>
      BY <1>4, <2>3, Zenon DEF IntakeFeedback, callerVars
    <3>2. Steady
      BY <1>3, <2>1, <3>1, PermitsShrink DEF Steady, IntakeInv
    <3> QED BY <1>3, <3>2, SteadyKeeps
  <2> QED BY <2>2, <2>3
<1>5. CASE DrainReject
  <2>1. /\ intake = "rejecting" /\ channel # <<>> /\ channel' = Tail(channel)
        /\ UNCHANGED <<pending, intake>>
        /\ Reply({Head(channel)}, LAMBDA c : Says("Rejected"))
    BY <1>5, Zenon DEF DrainReject
  <2>2. PermitsOut' \subseteq PermitsOut
    BY <2>1, PermitsShrink DEF Reply, IntakeInv
  <2>3. Tail(channel) \in Seq(Messages) /\ Len(Tail(channel)) = Len(channel) - 1
    BY <1>1, <2>1
  <2>4. Len(pending') + Len(channel') <= Len(pending) + Len(channel)
    BY <1>2, <2>1, <2>3
  <2>5. QueuedIn(channel') <= Queued
    BY <1>1, <1>2, <2>1, QueuedFacts
  <2>6. Limits'
    <3>1. pending = <<>> /\ channel' \in Seq(Messages) /\ pending' \in Seq(Messages)
      BY <1>1, <2>1, <2>3 DEF IntakeInv, Limits
    <3> QED BY <2>1, <2>2, <2>4, <2>5, <3>1, LimitsShrink
  <2>7. Members(channel') \subseteq Members(channel)
    BY <1>1, <2>1, MembersMoved
  <2>8. Closing'
    BY <1>3, <2>1, <2>7 DEF IntakeInv, Closing
  <2> QED BY <2>6, <2>8
<1> QED BY <1>4, <1>5

\* The intake actor moves on.
LEMMA ReturnKeeps ==
    ASSUME PipelineAssumption, IntakeInv, IntakeCollected \/ IntakeReturn
    PROVE  Limits' /\ Closing'
<1>1. UNCHANGED <<client, shutdown, gateClosed, channel, pending>>
  BY DEF IntakeCollected, IntakeReturn, callerVars, gateVars
<1>2. PermitsOut' = PermitsOut
  BY <1>1 DEF PermitsOut, HoldsPermit
<1>3. /\ channel \in Seq(Messages) /\ pending \in Seq(Messages) /\ Queued = QueuedIn(channel)
      /\ Queued \in Nat /\ Len(pending) + Len(channel) \in Nat
  BY Counts DEF IntakeInv, StoreInv, Types, IntakeTypes
<1>4. intake' \in {"draining", "done"}
  BY DEF IntakeCollected, IntakeReturn
<1>5. Limits'
  BY <1>1, <1>2, <1>3, <1>4, LimitsShrink
<1>6. CASE IntakeCollected
  <2>1. intake = "closing" /\ channel = <<>> /\ PermitsOut = {} /\ intake' = "draining"
    BY <1>6 DEF IntakeCollected
  <2> QED BY <1>1, <1>2, <1>5, <2>1 DEF IntakeInv, Closing
<1>7. CASE IntakeReturn
  <2>1. intake' = "done"
    BY <1>7 DEF IntakeReturn
  <2>2. CASE intake = "draining" /\ pending = <<>>
    BY <1>1, <1>2, <1>5, <2>1, <2>2 DEF IntakeInv, Closing
  <2>3. CASE intake = "rejecting" /\ channel = <<>> /\ PermitsOut = {} /\ shutdown = "sent"
    BY <1>1, <1>2, <1>5, <2>1, <2>3 DEF IntakeInv, Closing, Limits
  <2> QED BY <1>7, <2>2, <2>3 DEF IntakeReturn
<1> QED BY <1>6, <1>7

LEMMA RestartKeeps ==
    ASSUME PipelineAssumption, IntakeInv, CrashAndRecover
    PROVE  Limits' /\ Closing'
<1>1. /\ channel' = <<>> /\ pending' = <<>> /\ intake' = "run" /\ shutdown' = "no"
      /\ Reply({c \in Commands : client[c] \in {"reserved", "active", "queued"}},
               LAMBDA c : Says("Lost"))
  BY Zenon DEF CrashAndRecover
<1>2. PermitsOut' = {}
  BY <1>1 DEF Reply, PermitsOut, HoldsPermit
<1>3. /\ WorkloadCapacity \in Nat /\ Len(pending) \in Nat /\ Len(channel) \in Nat /\ Queued \in Nat
  BY Counts
<1>4. <<>> \in Seq(Messages) /\ Len(<<>>) = 0 /\ QueuedIn(<<>>) = 0 /\ Members(<<>>) = {}
  <2>1. <<>> \in Seq(Messages) /\ Len(<<>>) = 0
    OBVIOUS
  <2> QED BY <2>1, QueuedFacts, MembersMoved
<1>5. Limits'
  <2>1. Len(pending') + Len(channel') <= Len(pending) + Len(channel)
    BY <1>1, <1>3, <1>4
  <2>2. QueuedIn(channel') <= Queued /\ Len(pending') <= WorkloadCapacity
    BY <1>1, <1>3, <1>4
  <2> QED BY <1>1, <1>2, <1>4, <2>1, <2>2, LimitsShrink
<1>6. Closing'
  BY <1>1, <1>4 DEF Closing
<1> QED BY <1>5, <1>6

LEMMA IntakeInvKept ==
    ASSUME PipelineAssumption, IntakeInv, [Next]_vars
    PROVE  IntakeInv'
<1>1. StoreInv
  BY DEF IntakeInv
<1>2. StoreInv'
  BY <1>1, StoreInvKept
<1>3. Limits' /\ Closing'
  <2>1. CASE CrashAndRecover
    BY <2>1, RestartKeeps
  <2>2. CASE /\ \/ UNCHANGED vars \/ InitiateShutdown \/ StoppedLifecycle
                \/ Writer \/ Journal \/ Completion
                \/ \E c \in Commands : BeginSubmission(c) \/ Refuse(c)
             /\ ~CrashAndRecover
    BY <1>1, <2>2, GateStays, SteadySteps, SteadyKeeps
  <2>3. CASE \E c \in Commands : ReserveCapacity(c) \/ Submit(c)
    BY <2>3, ReserveKeeps, SubmitKeeps
  <2>4. CASE SendShutdown
    BY <2>4, SendShutdownKeeps
  <2>5. CASE Intake /\ ~StoppedLifecycle
    BY <2>5, AcceptKeeps, TakeKeeps, RejectKeeps, ReturnKeeps DEF Intake
  <2> QED BY <2>1, <2>2, <2>3, <2>4, <2>5 DEF Next, Caller, Intake
<1> QED BY <1>2, <1>3 DEF IntakeInv

LEMMA InitIntakeInv ==
    ASSUME PipelineAssumption, Init
    PROVE  IntakeInv
<1>1. StoreInv
  BY InitStoreInv
<1>2. /\ client = [c \in Commands |-> "idle"] /\ channel = <<>> /\ pending = <<>>
      /\ intake = "run" /\ shutdown = "no"
  BY Zenon DEF Init
<1>3. PermitsOut = {}
  BY <1>2 DEF PermitsOut, HoldsPermit
<1>4. IsFiniteSet(PermitsOut) /\ Cardinality(PermitsOut) = 0
  BY <1>3, FS_EmptySet
<1>5. Members(<<>>) = {} /\ Len(<<>>) = 0
  BY DEF Members
<1>6. Queued = 0
  BY <1>2, <1>5 DEF Queued
<1>7. Limits
  BY <1>2, <1>4, <1>5, <1>6 DEF Limits, BacklogBounded, PipelineAssumption
<1>8. Closing
  BY <1>2, <1>5 DEF Closing
<1> QED BY <1>1, <1>7, <1>8 DEF IntakeInv

-----------------------------------------------------------------------------
(* The theorems.                                                           *)

\* The limits of the intake and the order of its shutdown hold in every
\* reachable state.
THEOREM IntakeInvariant == Spec => []IntakeInv
<1>1. Init => IntakeInv
  BY PipelineAssumption, InitIntakeInv
<1>2. IntakeInv /\ [Next]_vars => IntakeInv'
  BY PipelineAssumption, IntakeInvKept
<1> QED BY <1>1, <1>2, PTL DEF Spec

\* The accepted backlog is at most twice the capacity and the shutdown message,
\* outstanding permits included, however submissions race a shutdown.
THEOREM BacklogIsBounded == Spec => []BacklogBounded
<1>1. IntakeInv => BacklogBounded
  BY DEF IntakeInv, Limits
<1> QED BY <1>1, IntakeInvariant, PTL

\* When the intake actor has returned nothing is queued and no caller can
\* still send.
THEOREM NothingLeftQueued == Spec => []ReturnLeavesNothing
<1>1. IntakeInv => ReturnLeavesNothing
  BY DEF IntakeInv, Closing, ReturnLeavesNothing
<1> QED BY <1>1, IntakeInvariant, PTL
=============================================================================
