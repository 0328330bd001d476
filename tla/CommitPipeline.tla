--------------------------- MODULE CommitPipeline ---------------------------
(***************************************************************************)
(* The path of a command through the commit coordinator of riffdb-commit   *)
(* and the journal of riffdb-storage-redb:                                 *)
(*                                                                         *)
(*   caller --permit--> bounded channel --> intake actor (pending)         *)
(*     --one unit--> writer thread --frame--> journal thread               *)
(*                        |                       |  fence                 *)
(*                        +--submitted unit--> completion thread --> answer*)
(*                                                                         *)
(* The writer applies a unit to a private successor of the database and    *)
(* goes on with the next unit while the journal makes the first durable;   *)
(* the completion thread publishes units in FIFO order and answers their   *)
(* callers.  A failed journal write or a failed publication fences the     *)
(* store and the coordinator, while the writer may be in the middle of a   *)
(* unit; a restart recovers what the journal holds.                        *)
(*                                                                         *)
(* A command is one submission.  Two commands with the same idempotency    *)
(* key are two attempts of a caller at the same command.  What a command   *)
(* computes is left out: a record of the log is the command that was first *)
(* committed under its key, its index is its CommitSequence.  Which of the *)
(* ways through a command group is taken (one deferred epoch, or one       *)
(* direct transaction per command) depends on contents the model leaves    *)
(* out, so where the code may take either the model takes both.            *)
(***************************************************************************)
EXTENDS Naturals, Sequences, FiniteSets

CONSTANTS
    Commands,           \* submissions
    KeyOf,              \* the idempotency identity of each
    InputOf,            \* the canonical input of each
    Audited,            \* commands with an audited lifecycle
    Proven,             \* commands with a deferred pipeline footprint
    WorkloadCapacity,   \* C: workload permits, and the bound on pending
    MaxGroup,           \* MAX_GROUPED_WRITE_TRANSITIONS
    MaxCrashes,         \* bound on crashes
    MaxFaults,          \* bound on I/O and notification failures
    AllowShutdown       \* whether the owner may shut the coordinator down

\* CoordinatorMessage::Shutdown, among the commands of the channel.
Shutdown == "Shutdown"

ASSUME PipelineAssumption ==
    /\ Shutdown \notin Commands
    /\ Proven \subseteq Audited
    /\ Audited \subseteq Commands
    /\ WorkloadCapacity \in Nat \ {0}
    /\ MaxGroup \in Nat \ {0}
    /\ MaxCrashes \in Nat
    /\ MaxFaults \in Nat
    /\ AllowShutdown \in BOOLEAN

VARIABLES
    client,       \* where each submission is
    answer,       \* what its caller was told
    lifecycle,    \* the coordinator lifecycle byte
    gateClosed,   \* the closed bit of the SubmissionGate
    shutdown,     \* progress of initiate_shutdown
    channel,      \* the bounded coordinator channel
    recvClosed,   \* the receiver was closed
    pending,      \* the intake actor's queue
    intake,       \* what the intake actor is doing
    busy,         \* writer_busy of the intake actor
    feedback,     \* a UnitCompleted is waiting for the intake actor
    work,         \* the unit given to the writer
    writer,       \* where the writer is in its loop
    frontier,     \* CommandEvaluationFrontier of the unit
    results,      \* results of the unit's commands so far
    todo,         \* commands of the unit still to be driven
    unit,         \* the SubmittedWriterUnit about to enter the lane
    inFlight,     \* in_flight of the writer
    suffix,       \* journal_suffix_transitions of the writer
    lane,         \* the completion lane
    released,     \* the completion thread has the results of its unit
    tokens,       \* CompletionPublished messages the writer has not taken
    log,          \* the private frontier: records in commit order
    durable,      \* how many records are known durable
    published,    \* how many records ordinary readers see
    frames,       \* journal frames not yet durable, by their last record
    torn,         \* last record a failed journal write may have left, or 0
    journalClosed, \* the journal thread has ended
    pubFailed,    \* a publication failed, and with it every later one
    writeFenced,  \* write_fenced of the store
    fencedAt,     \* length of the log when it was set (history)
    notified,     \* first-commit notifications of this run, in order
    crashes, faults

callerVars == <<client, answer>>
gateVars == <<lifecycle, gateClosed, shutdown>>
intakeVars == <<channel, recvClosed, pending, intake, busy>>
unitVars == <<frontier, results, todo, unit>>
writerVars == <<writer, unitVars, inFlight, suffix>>
laneVars == <<lane, released>>
fenceVars == <<pubFailed, writeFenced, fencedAt>>
storeVars == <<log, durable, published, frames, torn, journalClosed, fenceVars>>
boundVars == <<crashes, faults>>
vars == <<callerVars, gateVars, intakeVars, feedback, work, writerVars,
          laneVars, tokens, storeVars, notified, boundVars>>

Frontiers == {"Published", "WriterPrivate"}

\* The answers a caller can get.  "Failed" stands for every error that proves
\* that nothing was written (storage unavailable, cancelled, deadline, retry
\* budget), "Rejected" for coordinator_fenced and coordinator_stopped,
\* "Refused" for a submission that was never accepted, "Lost" for a connection
\* that ended with the process.
AnswerKinds == {"None", "Vacant", "FirstCommit", "Replay", "InputMismatch",
                "OutcomeUncertain", "Failed", "InternalDefect", "Rejected",
                "Refused", "Lost"}

Says(kind) == [kind |-> kind, seq |-> 0]
Unanswered == Says("None")
Vacant == Says("Vacant")

Answers == [kind : AnswerKinds, seq : Nat]

LastOf(s) == IF s = <<>> THEN 0 ELSE s[Len(s)]
Members(s) == {s[i] : i \in DOMAIN s}
Drop(s, n) == SubSeq(s, n + 1, Len(s))

\* The elements of s at the positions in I, in their order.
Sublist(s, I) ==
    [j \in 1 .. Cardinality(I) |->
        s[CHOOSE i \in I : Cardinality({k \in I : k <= i}) = j]]

\* Distinct idempotency identities in a sequence of commands.
DistinctKeys(s) ==
    \A i, j \in DOMAIN s : KeyOf[s[i]] = KeyOf[s[j]] => i = j

-----------------------------------------------------------------------------
(* Lookup of an idempotency identity in a frontier.                        *)

Matches(c, records) == {i \in DOMAIN records : KeyOf[records[i]] = KeyOf[c]}

\* Mutant: the stored input is not compared.
RecheckAdmissionKeyOnly(c, records) ==
    IF Matches(c, records) = {} THEN Vacant
    ELSE [kind |-> "Replay",
          seq |-> CHOOSE i \in Matches(c, records) : TRUE]

\* The stored outcome of c's key decides an attempt without executing it.
RecheckAdmission(c, records) ==
    IF Matches(c, records) = {} THEN Vacant
    ELSE LET i == CHOOSE i \in Matches(c, records) : TRUE
         IN  IF InputOf[records[i]] = InputOf[c]
             THEN [kind |-> "Replay", seq |-> i]
             ELSE Says("InputMismatch")

PublishedRecords == SubSeq(log, 1, published)

-----------------------------------------------------------------------------
Init ==
    /\ client = [c \in Commands |-> "idle"]
    /\ answer = [c \in Commands |-> Unanswered]
    /\ lifecycle = "Accepting"
    /\ gateClosed = FALSE
    /\ shutdown = "no"
    /\ channel = <<>> /\ recvClosed = FALSE
    /\ pending = <<>> /\ intake = "run" /\ busy = FALSE
    /\ feedback = FALSE /\ work = <<>>
    /\ writer = "top" /\ frontier = "Published"
    /\ results = [c \in {} |-> Vacant] /\ todo = <<>> /\ unit = <<>>
    /\ inFlight = <<>> /\ suffix = 0
    /\ lane = <<>> /\ released = FALSE /\ tokens = 0
    /\ log = <<>> /\ durable = 0 /\ published = 0
    /\ frames = <<>> /\ torn = 0 /\ journalClosed = FALSE
    /\ pubFailed = FALSE /\ writeFenced = FALSE /\ fencedAt = 0
    /\ notified = <<>> /\ crashes = 0 /\ faults = 0

Halted == lifecycle \in {"Fenced", "Stopped"}

\* fence() wins over every state, stop() does not overwrite a fence; both
\* close the submission gate.
Fence == lifecycle' = "Fenced" /\ gateClosed' = TRUE
Stop == /\ lifecycle' = IF Halted THEN lifecycle ELSE "Stopped"
        /\ gateClosed' = TRUE

\* fence_writes: the store takes no further transaction.
FenceStore(n) ==
    /\ writeFenced' = TRUE
    /\ fencedAt' = IF writeFenced THEN fencedAt ELSE n

\* Answer the callers of the commands in S.
Reply(S, reply(_)) ==
    /\ client' = [c \in Commands |-> IF c \in S THEN "done" ELSE client[c]]
    /\ answer' = [c \in Commands |-> IF c \in S THEN reply(c) ELSE answer[c]]

-----------------------------------------------------------------------------
(* Callers: a permit is a slot of the channel; the shutdown permit is      *)
(* reserved at start and has a slot of its own.                            *)

HoldsPermit(c) == client[c] \in {"reserved", "active"}
PermitsOut == {c \in Commands : HoldsPermit(c)}
Queued == Len(channel) - IF Shutdown \in Members(channel) THEN 1 ELSE 0

ReserveCapacity(c) ==
    /\ client[c] = "idle"
    /\ lifecycle = "Accepting" /\ ~gateClosed
    /\ Cardinality(PermitsOut) + Queued < WorkloadCapacity
    /\ client' = [client EXCEPT ![c] = "reserved"]
    /\ UNCHANGED <<answer, gateVars, intakeVars, feedback, work, writerVars,
                   laneVars, tokens, storeVars, notified, boundVars>>

\* The gate counts the submission before the permit is used, so a submission
\* that passed it may still send after initiate_shutdown closed the gate.
BeginSubmission(c) ==
    /\ client[c] = "reserved"
    /\ ~gateClosed /\ lifecycle = "Accepting"
    /\ client' = [client EXCEPT ![c] = "active"]
    /\ UNCHANGED <<answer, gateVars, intakeVars, feedback, work, writerVars,
                   laneVars, tokens, storeVars, notified, boundVars>>

Submit(c) ==
    /\ client[c] = "active"
    /\ client' = [client EXCEPT ![c] = "queued"]
    /\ channel' = Append(channel, c)
    /\ UNCHANGED <<answer, gateVars, recvClosed, pending, intake, busy,
                   feedback, work, writerVars, laneVars, tokens, storeVars,
                   notified, boundVars>>

\* Refused by the lifecycle at any of the checks, or the permit is dropped.
Refuse(c) ==
    /\ \/ client[c] = "idle" /\ lifecycle # "Accepting"
       \/ client[c] = "reserved"
    /\ Reply({c}, LAMBDA d : Says("Refused"))
    /\ UNCHANGED <<gateVars, intakeVars, feedback, work, writerVars, laneVars,
                   tokens, storeVars, notified, boundVars>>

\* Mutant: Draining is stored whatever the lifecycle was.
InitiateShutdownStore ==
    /\ AllowShutdown /\ shutdown = "no"
    /\ shutdown' = "closing"
    /\ lifecycle' = "Draining"
    /\ UNCHANGED <<callerVars, gateClosed, intakeVars, feedback, work,
                   writerVars, laneVars, tokens, storeVars, notified,
                   boundVars>>

InitiateShutdown ==
    /\ AllowShutdown /\ shutdown = "no"
    /\ shutdown' = "closing"
    /\ lifecycle' = IF lifecycle = "Accepting" THEN "Draining" ELSE lifecycle
    /\ UNCHANGED <<callerVars, gateClosed, intakeVars, feedback, work,
                   writerVars, laneVars, tokens, storeVars, notified,
                   boundVars>>

SendShutdown ==
    /\ shutdown = "closing"
    /\ shutdown' = "sent"
    /\ gateClosed' = TRUE
    /\ channel' = Append(channel, Shutdown)
    /\ UNCHANGED <<callerVars, lifecycle, recvClosed, pending, intake, busy,
                   feedback, work, writerVars, laneVars, tokens, storeVars,
                   notified, boundVars>>

-----------------------------------------------------------------------------
(* The intake actor.                                                       *)

\* Mutant: pending has no bound.
IntakeAcceptUnbounded ==
    /\ intake = "run"
    /\ channel # <<>>
    /\ busy => ~feedback
    /\ pending' = Append(pending, Head(channel))
    /\ channel' = Tail(channel)
    /\ UNCHANGED <<callerVars, gateVars, recvClosed, intake, busy, feedback,
                   work, writerVars, laneVars, tokens, storeVars, notified,
                   boundVars>>

\* Take one message while pending has room; writer feedback goes first.
IntakeAccept ==
    /\ intake = "run"
    /\ channel # <<>>
    /\ Len(pending) < WorkloadCapacity
    /\ busy => ~feedback
    /\ pending' = Append(pending, Head(channel))
    /\ channel' = Tail(channel)
    /\ UNCHANGED <<callerVars, gateVars, recvClosed, intake, busy, feedback,
                   work, writerVars, laneVars, tokens, storeVars, notified,
                   boundVars>>

\* Mutant: no unit is formed once shutdown was seen.
FormNextUnitRunning ==
    /\ intake = "run" /\ ~busy
    /\ \E n \in 1 .. Len(pending) :
          /\ n <= MaxGroup
          /\ Shutdown \notin Members(SubSeq(pending, 1, n))
          /\ work' = SubSeq(pending, 1, n)
          /\ pending' = Drop(pending, n)
    /\ busy' = TRUE
    /\ UNCHANGED <<callerVars, gateVars, channel, recvClosed, intake, feedback,
                   writerVars, laneVars, tokens, storeVars, notified,
                   boundVars>>

\* A unit is a prefix of the pending commands; it ends at a barrier, at the
\* group bound, or at the byte bound, which the model does not measure.
FormNextUnit ==
    /\ intake \in {"run", "draining"} /\ ~busy
    /\ \E n \in 1 .. Len(pending) :
          /\ n <= MaxGroup
          /\ Shutdown \notin Members(SubSeq(pending, 1, n))
          /\ work' = SubSeq(pending, 1, n)
          /\ pending' = Drop(pending, n)
    /\ busy' = TRUE
    /\ UNCHANGED <<callerVars, gateVars, channel, recvClosed, intake, feedback,
                   writerVars, laneVars, tokens, storeVars, notified,
                   boundVars>>

\* Shutdown reached the front: close the receiver and collect what is left.
IntakeShutdown ==
    /\ intake = "run" /\ ~busy
    /\ pending # <<>> /\ Head(pending) = Shutdown
    /\ pending' = Tail(pending)
    /\ recvClosed' = TRUE
    /\ intake' = "closing"
    /\ UNCHANGED <<callerVars, gateVars, channel, busy, feedback, work,
                   writerVars, laneVars, tokens, storeVars, notified,
                   boundVars>>

IntakeCollect ==
    /\ intake = "closing" /\ channel # <<>>
    /\ pending' = Append(pending, Head(channel))
    /\ channel' = Tail(channel)
    /\ UNCHANGED <<callerVars, gateVars, recvClosed, intake, busy, feedback,
                   work, writerVars, laneVars, tokens, storeVars, notified,
                   boundVars>>

\* Mutant: an empty channel ends the collection.
IntakeCollectedEarly ==
    /\ intake = "closing" /\ channel = <<>>
    /\ intake' = "draining"
    /\ UNCHANGED <<callerVars, gateVars, channel, recvClosed, pending, busy,
                   feedback, work, writerVars, laneVars, tokens, storeVars,
                   notified, boundVars>>

\* recv() on a closed receiver ends once no permit is outstanding.
IntakeCollected ==
    /\ intake = "closing" /\ channel = <<>> /\ PermitsOut = {}
    /\ intake' = "draining"
    /\ UNCHANGED <<callerVars, gateVars, channel, recvClosed, pending, busy,
                   feedback, work, writerVars, laneVars, tokens, storeVars,
                   notified, boundVars>>

\* Mutant: pending messages are dropped, not rejected.
IntakeFeedbackSilent ==
    /\ intake \in {"run", "draining"} /\ busy /\ feedback
    /\ busy' = FALSE /\ feedback' = FALSE
    /\ IF Halted
       THEN /\ UNCHANGED callerVars
            /\ pending' = <<>>
            /\ recvClosed' = TRUE
            /\ intake' = "rejecting"
       ELSE UNCHANGED <<callerVars, pending, recvClosed, intake>>
    /\ UNCHANGED <<gateVars, channel, work, writerVars, laneVars, tokens,
                   storeVars, notified, boundVars>>

\* At the completion edge a halted coordinator rejects its pending messages
\* and closes the receiver.
IntakeFeedback ==
    /\ intake \in {"run", "draining"} /\ busy /\ feedback
    /\ busy' = FALSE /\ feedback' = FALSE
    /\ IF Halted
       THEN /\ Reply(Members(pending), LAMBDA c : Says("Rejected"))
            /\ pending' = <<>>
            /\ recvClosed' = TRUE
            /\ intake' = "rejecting"
       ELSE UNCHANGED <<callerVars, pending, recvClosed, intake>>
    /\ UNCHANGED <<gateVars, channel, work, writerVars, laneVars, tokens,
                   storeVars, notified, boundVars>>

DrainReject ==
    /\ intake = "rejecting" /\ channel # <<>>
    /\ Reply({Head(channel)}, LAMBDA c : Says("Rejected"))
    /\ channel' = Tail(channel)
    /\ UNCHANGED <<gateVars, recvClosed, pending, intake, busy, feedback, work,
                   writerVars, laneVars, tokens, storeVars, notified,
                   boundVars>>

\* After a rejection the actor returns once every permit is gone, the owner's
\* shutdown permit included.
IntakeReturn ==
    /\ \/ intake = "draining" /\ ~busy /\ pending = <<>>
       \/ /\ intake = "rejecting" /\ channel = <<>>
          /\ PermitsOut = {} /\ shutdown = "sent"
    /\ intake' = "done"
    /\ UNCHANGED <<callerVars, gateVars, channel, recvClosed, pending, busy,
                   feedback, work, writerVars, laneVars, tokens, storeVars,
                   notified, boundVars>>

\* The work channel is gone: the writer leaves its loop, joins the completion
\* thread, and the lifecycle becomes Stopped.
StoppedLifecycle ==
    /\ intake = "done" /\ writer = "recv" /\ work = <<>> /\ lane = <<>>
    /\ ~(Halted /\ gateClosed)
    /\ Stop
    /\ UNCHANGED <<callerVars, shutdown, intakeVars, feedback, work,
                   writerVars, laneVars, tokens, storeVars, notified,
                   boundVars>>

-----------------------------------------------------------------------------
(* The writer thread: one unit at a time.                                  *)

\* Mutant: every completion empties the suffix.
AfterAcceptingReset(k) ==
    /\ inFlight' = Drop(inFlight, k)
    /\ tokens' = tokens - k
    /\ suffix' = IF k > 0 THEN 0 ELSE suffix

\* accept_published_completion, k times: the suffix is counted until the writer
\* has seen every unit published.
AfterAccepting(k) ==
    /\ inFlight' = Drop(inFlight, k)
    /\ tokens' = tokens - k
    /\ suffix' = IF Drop(inFlight, k) = <<>> THEN 0 ELSE suffix

\* drain_ready_completions at the top of the loop.
DrainReady ==
    /\ writer = "top"
    /\ AfterAccepting(tokens)
    /\ writer' = "recv"
    /\ UNCHANGED <<callerVars, gateVars, intakeVars, feedback, work, unitVars,
                   laneVars, storeVars, notified, boundVars>>

\* While earlier units are in flight a unit may be evaluated on the private
\* frontier only if it and all of them have a pipeline footprint.
PipelineEligible ==
    \/ inFlight = <<>>
    \/ /\ Members(work) \subseteq Proven
       /\ \A i \in DOMAIN inFlight : inFlight[i].proof

\* Mutant: the journal suffix is not counted.
MustDrainNoSuffix == ~PipelineEligible

MustDrain == ~PipelineEligible \/ suffix + Len(work) > MaxGroup

ReceiveUnit ==
    /\ writer = "recv" /\ work # <<>>
    /\ writer' = IF MustDrain THEN "drain" ELSE "admit"
    /\ frontier' = IF MustDrain \/ inFlight = <<>>
                   THEN "Published" ELSE "WriterPrivate"
    /\ UNCHANGED <<callerVars, gateVars, intakeVars, feedback, work, results,
                   todo, unit, inFlight, suffix, laneVars, tokens, storeVars,
                   notified, boundVars>>

\* Mutant: one completion is enough to leave the drain.
DrainOneOnly ==
    /\ \/ writer \in {"drain", "postdrain"}
       \/ writer = "submit" /\ Len(inFlight) >= MaxGroup
    /\ tokens > 0
    /\ AfterAccepting(1)
    /\ writer' = CASE writer = "drain" -> "admit"
                   [] writer = "postdrain" /\ Len(inFlight) = 1 -> "feedback"
                   [] OTHER -> writer
    /\ UNCHANGED <<callerVars, gateVars, intakeVars, feedback, work, unitVars,
                   laneVars, storeVars, notified, boundVars>>

\* drain_one_completion: before a unit that may not overlap, when the lane is
\* full, and after a unit that asks for a drained pipeline.
DrainOne ==
    /\ \/ writer \in {"drain", "postdrain"}
       \/ writer = "submit" /\ Len(inFlight) >= MaxGroup
    /\ tokens > 0
    /\ AfterAccepting(1)
    /\ writer' = CASE writer = "drain" /\ Len(inFlight) = 1 -> "admit"
                   [] writer = "postdrain" /\ Len(inFlight) = 1 -> "feedback"
                   [] OTHER -> writer
    /\ UNCHANGED <<callerVars, gateVars, intakeVars, feedback, work, unitVars,
                   laneVars, storeVars, notified, boundVars>>

\* A fence or a stop takes effect between units: no storage access.
RejectWorkUnit ==
    /\ writer = "admit" /\ Halted
    /\ Reply(Members(work), LAMBDA c : Says("Rejected"))
    /\ writer' = "feedback"
    /\ UNCHANGED <<gateVars, intakeVars, feedback, work, unitVars, inFlight,
                   suffix, laneVars, tokens, storeVars, notified, boundVars>>

\* Admission looks every identity up in the published root.
AdmitGroup ==
    /\ writer = "admit" /\ ~Halted
    /\ results' = [c \in Members(work) |-> RecheckAdmission(c, PublishedRecords)]
    /\ todo' = Sublist(work, {i \in DOMAIN work :
                                  Matches(work[i], PublishedRecords) = {}})
    /\ writer' = IF todo' = <<>> THEN "complete" ELSE "stage"
    /\ UNCHANGED <<callerVars, gateVars, intakeVars, feedback, work, frontier,
                   unit, inFlight, suffix, laneVars, tokens, storeVars,
                   notified, boundVars>>

With(S, kind) == [c \in DOMAIN results |-> IF c \in S THEN Says(kind)
                                                      ELSE results[c]]

\* A private-frontier unit that lost its FIFO proof, here through two members
\* with the same identity, stops the coordinator.
StageIneligible ==
    /\ writer = "stage"
    /\ frontier = "WriterPrivate" /\ ~DistinctKeys(todo)
    /\ Stop
    /\ results' = With(Members(todo), "InternalDefect")
    /\ todo' = <<>>
    /\ writer' = "complete"
    /\ UNCHANGED <<callerVars, shutdown, intakeVars, feedback, work, frontier,
                   unit, inFlight, suffix, laneVars, tokens, storeVars,
                   notified, boundVars>>

\* May the whole group go into one deferred epoch?
Deferrable == Members(todo) \subseteq Audited /\ DistinctKeys(todo)

\* begin_deferred_epoch on a fenced store: the first member fails, and the
\* others are driven one by one.
StageFenced ==
    /\ writer = "stage" /\ Deferrable /\ writeFenced
    /\ results' = With({Head(todo)}, "Failed")
    /\ todo' = Tail(todo)
    /\ writer' = IF Tail(todo) = <<>> THEN "complete" ELSE "direct"
    /\ UNCHANGED <<callerVars, gateVars, intakeVars, feedback, work, frontier,
                   unit, inFlight, suffix, laneVars, tokens, storeVars,
                   notified, boundVars>>

\* Mutant: the recheck looks at the published root.
ResolvedPublished ==
    {i \in DOMAIN todo : Matches(todo[i], PublishedRecords) # {}}

\* The recheck inside the epoch finds an identity in the private frontier: the
\* epoch is rolled back, that member is answered from the record found, and
\* the others are driven one by one.
Resolved == {i \in DOMAIN todo : Matches(todo[i], log) # {}}

StageReplay ==
    /\ writer = "stage" /\ Deferrable /\ ~writeFenced
    /\ Resolved # {}
    /\ LET i == CHOOSE i \in Resolved : \A j \in Resolved : i <= j
       IN  /\ results' = [results EXCEPT ![todo[i]] =
                                              RecheckAdmission(todo[i], log)]
           /\ todo' = SubSeq(todo, 1, i - 1) \o Drop(todo, i)
    /\ writer' = IF todo' = <<>> THEN "complete" ELSE "direct"
    /\ UNCHANGED <<callerVars, gateVars, intakeVars, feedback, work, frontier,
                   unit, inFlight, suffix, laneVars, tokens, storeVars,
                   notified, boundVars>>

\* The epoch has begun on a store that is not fenced, and its members are
\* evaluated and applied to it.  The fence is not read again in this epoch.
StageBegin ==
    /\ writer = "stage" /\ Deferrable /\ ~writeFenced
    /\ Resolved = {}
    /\ writer' = "seal"
    /\ UNCHANGED <<callerVars, gateVars, intakeVars, feedback, work, unitVars,
                   inFlight, suffix, laneVars, tokens, storeVars, notified,
                   boundVars>>

\* Mutant: the members answered at admission are forgotten.
FirstCommitsOnly(cmds, base) ==
    [c \in Members(cmds) |-> [kind |-> "FirstCommit",
              seq |-> base + CHOOSE i \in DOMAIN cmds : cmds[i] = c]]

\* The sequence numbers follow the order of the group.
FirstCommits(cmds, base) ==
    [c \in DOMAIN results |->
        IF c \in Members(cmds)
        THEN [kind |-> "FirstCommit",
              seq |-> base + CHOOSE i \in DOMAIN cmds : cmds[i] = c]
        ELSE results[c]]

\* Sealed: the frame goes to the journal thread, the private frontier advances
\* and the publication is registered, whether or not the store was fenced
\* since the epoch began.
StageSeal ==
    /\ writer = "seal" /\ ~journalClosed
    /\ log' = log \o todo
    /\ frames' = Append(frames, Len(log'))
    /\ unit' = [kind |-> "Fence", cmds |-> work, upto |-> Len(log'),
                proof |-> Members(work) \subseteq Proven,
                results |-> FirstCommits(todo, Len(log))]
    /\ writer' = "submit"
    /\ UNCHANGED <<callerVars, gateVars, intakeVars, feedback, work, frontier,
                   results, todo, inFlight, suffix, laneVars, tokens, durable,
                   published, torn, journalClosed, fenceVars, notified,
                   boundVars>>

\* The seal fails before or at the submission of the frame (the journal thread
\* is gone, or the frame cannot be made): an unknown commit status.  The dropped
\* epoch fences the store, the coordinator is fenced, and every identity is
\* looked up once: all absent is a proven failure, all failing leaves the
\* outcome uncertain, a mixture is an integrity failure.
StageSealFails ==
    /\ writer = "seal"
    /\ \/ journalClosed /\ UNCHANGED faults
       \/ faults < MaxFaults /\ faults' = faults + 1
    /\ FenceStore(Len(log))
    /\ Fence
    /\ \E kind \in {"Failed", "OutcomeUncertain", "InternalDefect"} :
          /\ kind = "InternalDefect" => Len(todo) > 1
          /\ results' = With(Members(todo), kind)
    /\ todo' = <<>>
    /\ writer' = "complete"
    /\ UNCHANGED <<callerVars, shutdown, intakeVars, feedback, work, frontier,
                   unit, inFlight, suffix, laneVars, tokens, log, durable,
                   published, frames, torn, journalClosed, pubFailed, notified,
                   crashes>>

\* A compatible group on the published frontier holds an identity twice, with
\* different inputs (equal inputs write the same rows and are never compatible).
\* The second is answered from the record the first has staged; the batch is
\* rolled back all the same, and the others are driven one by one.
StagePeerMismatch ==
    /\ writer = "stage" /\ frontier = "Published" /\ ~writeFenced
    /\ \E i \in DOMAIN todo :
          /\ DistinctKeys(SubSeq(todo, 1, i - 1))
          /\ RecheckAdmission(todo[i], SubSeq(todo, 1, i - 1)).kind
                = "InputMismatch"
          /\ results' = [results EXCEPT ![todo[i]] = Says("InputMismatch")]
          /\ todo' = SubSeq(todo, 1, i - 1) \o Drop(todo, i)
    /\ writer' = "direct"
    /\ UNCHANGED <<callerVars, gateVars, intakeVars, feedback, work, frontier,
                   unit, inFlight, suffix, laneVars, tokens, storeVars,
                   notified, boundVars>>

\* Split groups, evaluation faults and changed dependencies are driven one
\* command at a time in direct transactions.
StageDirect ==
    /\ writer = "stage"
    /\ frontier = "Published" \/ DistinctKeys(todo)
    /\ writer' = "direct"
    /\ UNCHANGED <<callerVars, gateVars, intakeVars, feedback, work, unitVars,
                   inFlight, suffix, laneVars, tokens, storeVars, notified,
                   boundVars>>

\* One command is resolved in the direct path.
DirectStep(result) ==
    /\ results' = [results EXCEPT ![Head(todo)] = result]
    /\ todo' = Tail(todo)
    /\ writer' = IF Tail(todo) = <<>> THEN "complete" ELSE "direct"
    /\ UNCHANGED <<callerVars, shutdown, intakeVars, feedback, work, frontier,
                   unit, inFlight, suffix, laneVars, tokens, notified, crashes>>

\* The lookup under the lease meets a published outcome.  One of the same
\* input is replayed; one of another input is not what the attempt expects at
\* this point, an integrity failure that stops the coordinator.
DirectReplay ==
    /\ writer = "direct"
    /\ Matches(Head(todo), PublishedRecords) # {}
    /\ LET found == RecheckAdmission(Head(todo), PublishedRecords)
       IN  \/ /\ found.kind = "Replay"
              /\ DirectStep(found)
              /\ UNCHANGED <<lifecycle, gateClosed>>
           \/ /\ found.kind = "InputMismatch"
              /\ Stop
              /\ DirectStep(Says("InternalDefect"))
    /\ UNCHANGED <<storeVars, faults>>

\* The direct transaction does not begin on a fenced store.
DirectFenced ==
    /\ writer = "direct"
    /\ Matches(Head(todo), PublishedRecords) = {}
    /\ writeFenced
    /\ DirectStep(Says("Failed"))
    /\ UNCHANGED <<lifecycle, gateClosed, storeVars, faults>>

\* Mutant: the whole prefix is published before it is known durable.
PrefixPublishedAll == {Len(log)}

\* Where the publication of the journal prefix can come to a halt: at the first
\* frame whose write failed, or at a durable frame whose publication fails.
PrefixPublished ==
    {n \in {published} \cup {lane[i].upto : i \in DOMAIN lane} :
        published <= n /\ n < durable}

\* The direct transaction begins by publishing the journal prefix, for which
\* it waits.  A failure fences the store and fails every publication that is
\* queued; the error is not one that proves an abort, so the coordinator stops.
DirectPrefixFails ==
    /\ writer = "direct"
    /\ Matches(Head(todo), PublishedRecords) = {}
    /\ ~writeFenced
    /\ \/ torn # 0 /\ published' = durable /\ UNCHANGED faults
       \/ /\ faults < MaxFaults /\ faults' = faults + 1
          /\ \E n \in PrefixPublished : published' = n
    /\ pubFailed' = TRUE
    /\ FenceStore(Len(log))
    /\ Stop
    /\ DirectStep(Says("InternalDefect"))
    /\ UNCHANGED <<log, durable, frames, torn, journalClosed>>

DirectReady ==
    /\ writer = "direct"
    /\ Matches(Head(todo), PublishedRecords) = {}
    /\ ~writeFenced /\ frames = <<>>

\* The prefix is published; the transaction rechecks the identity and commits,
\* or aborts with nothing written.
DirectCommit ==
    /\ DirectReady
    /\ LET found == RecheckAdmission(Head(todo), log)
       IN  IF found # Vacant
           THEN /\ DirectStep(found)
                /\ published' = Len(log)
                /\ UNCHANGED <<log, durable>>
           ELSE /\ DirectStep([kind |-> "FirstCommit", seq |-> Len(log) + 1])
                /\ log' = Append(log, Head(todo))
                /\ durable' = Len(log) + 1
                /\ published' = Len(log) + 1
    /\ UNCHANGED <<lifecycle, gateClosed, frames, torn, journalClosed,
                   fenceVars, faults>>

\* A proven abort (storage unavailable, cancelled, deadline, retry budget), or
\* a storage error of any other kind, which stops the coordinator.
DirectAbort ==
    /\ DirectReady
    /\ published' = Len(log)
    /\ \/ /\ DirectStep(Says("Failed"))
          /\ UNCHANGED <<lifecycle, gateClosed, faults>>
       \/ /\ faults < MaxFaults /\ faults' = faults + 1
          /\ Stop
          /\ DirectStep(Says("InternalDefect"))
    /\ UNCHANGED <<log, durable, frames, torn, journalClosed, fenceVars>>

\* The commit call returns an unknown status: the coordinator is fenced and
\* the identity is looked up once.  Found is a first commit, absent a proven
\* failure; when the lookup fails too the record may or may not be on disk.
DirectUnknown ==
    /\ DirectReady
    /\ Matches(Head(todo), log) = {}
    /\ faults < MaxFaults /\ faults' = faults + 1
    /\ Fence
    /\ log' \in {log, Append(log, Head(todo))}
    /\ durable' = Len(log')
    /\ FenceStore(Len(log'))
    /\ \/ /\ log' # log
          /\ DirectStep([kind |-> "FirstCommit", seq |-> Len(log')])
          /\ published' = Len(log')
       \/ /\ log' = log
          /\ DirectStep(Says("Failed"))
          /\ published' = Len(log)
       \/ /\ DirectStep(Says("OutcomeUncertain"))
          /\ published' = Len(log)
    /\ UNCHANGED <<frames, torn, journalClosed, pubFailed>>

-----------------------------------------------------------------------------
(* Releasing results: first-commit notifications in group order, then the  *)
(* answers.  A failed notification stops the coordinator.                  *)

NewCommits(cmds, res) ==
    LET first == Sublist(cmds, {i \in DOMAIN cmds :
                                    res[cmds[i]].kind = "FirstCommit"})
    IN  [i \in DOMAIN first |-> res[first[i]].seq]

FinishCommandGroup(cmds, res) ==
    /\ Reply(Members(cmds), LAMBDA c : res[c])
    /\ \/ /\ notified' = notified \o NewCommits(cmds, res)
          /\ UNCHANGED <<lifecycle, gateClosed, faults>>
       \/ /\ NewCommits(cmds, res) # <<>>
          /\ faults < MaxFaults /\ faults' = faults + 1
          /\ Stop
          /\ UNCHANGED notified

\* Mutant: results of the private frontier are released at once.
CompleteGroupNow ==
    /\ writer = "complete"
    /\ FinishCommandGroup(work, results)
    /\ writer' = "feedback"
    /\ UNCHANGED <<shutdown, intakeVars, feedback, work, unitVars, inFlight,
                   suffix, laneVars, tokens, storeVars, crashes>>

\* A unit without durability work of its own: on the published frontier its
\* results are released at once, on the private frontier they go through the
\* lane behind the units they may depend on.
CompleteGroup ==
    /\ writer = "complete"
    /\ IF frontier = "WriterPrivate"
       THEN /\ unit' = [kind |-> "AfterPredecessor", cmds |-> work, upto |-> 0,
                        proof |-> Members(work) \subseteq Proven,
                        results |-> results]
            /\ writer' = "submit"
            /\ UNCHANGED <<callerVars, lifecycle, gateClosed, notified, faults>>
       ELSE /\ FinishCommandGroup(work, results)
            /\ writer' = "feedback"
            /\ UNCHANGED unit
    /\ UNCHANGED <<shutdown, intakeVars, feedback, work, frontier, results,
                   todo, inFlight, suffix, laneVars, tokens, storeVars,
                   crashes>>

\* The unit enters the completion lane.  A fence may ask for a drained
\* pipeline (a checkpoint is being installed).
SubmitUnit ==
    /\ writer = "submit" /\ Len(inFlight) < MaxGroup
    /\ LET n == IF unit.kind = "Fence" THEN Len(unit.cmds) ELSE 0
       IN  /\ inFlight' = Append(inFlight, [n |-> n, proof |-> unit.proof])
           /\ suffix' = suffix + n
    /\ lane' = Append(lane, unit)
    /\ unit' = <<>>
    /\ \/ writer' = "feedback"
       \/ unit.kind = "Fence" /\ writer' = "postdrain"
    /\ UNCHANGED <<callerVars, gateVars, intakeVars, feedback, work, frontier,
                   results, todo, released, tokens, storeVars, notified,
                   boundVars>>

SendFeedback ==
    /\ writer = "feedback"
    /\ feedback' = TRUE
    /\ work' = <<>>
    /\ results' = [c \in {} |-> Vacant] /\ todo' = <<>>
    /\ frontier' = "Published"
    /\ writer' = "top"
    /\ UNCHANGED <<callerVars, gateVars, intakeVars, unit, inFlight, suffix,
                   laneVars, tokens, storeVars, notified, boundVars>>

-----------------------------------------------------------------------------
(* The journal thread and the completion thread.                           *)

\* One write and sync covers any number of queued frames.
JournalFlush ==
    /\ frames # <<>> /\ torn = 0
    /\ \E k \in DOMAIN frames :
          /\ durable' = frames[k]
          /\ frames' = Drop(frames, k)
    /\ UNCHANGED <<callerVars, gateVars, intakeVars, feedback, work,
                   writerVars, laneVars, tokens, log, published, torn,
                   journalClosed, fenceVars, notified, boundVars>>

\* A failed write or sync fails the frames of its batch, which may be on disk
\* all the same.
JournalFails ==
    /\ frames # <<>> /\ torn = 0
    /\ faults < MaxFaults /\ faults' = faults + 1
    /\ \E k \in DOMAIN frames : torn' = frames[k]
    /\ UNCHANGED <<callerVars, gateVars, intakeVars, feedback, work,
                   writerVars, laneVars, tokens, log, durable, published,
                   frames, journalClosed, fenceVars, notified, crashes>>

\* Then the thread fails what was queued in the meantime and ends.
JournalEnds ==
    /\ torn # 0 /\ ~journalClosed
    /\ journalClosed' = TRUE
    /\ UNCHANGED <<callerVars, gateVars, intakeVars, feedback, work,
                   writerVars, laneVars, tokens, log, durable, published,
                   frames, torn, fenceVars, notified, boundVars>>

\* Mutant: a failed fence still reports first commits.
FailingUnchanged(u) == u

Failing(u) == [u EXCEPT !.results =
    [c \in DOMAIN u.results |->
        IF u.results[c].kind = "FirstCommit" THEN Says("OutcomeUncertain")
                                             ELSE u.results[c]]]

\* SubmittedCommandGroup::wait on the oldest unit.
AtFence == lane # <<>> /\ ~released /\ Head(lane).kind = "Fence"

\* The journal has answered the unit's ticket with an error.
JournalFailed(u) ==
    torn # 0 /\ u.upto > durable /\ (u.upto <= torn \/ journalClosed)

\* Mutant: a publication does not ask for its predecessor.
PublishableUnchained(u) == u.upto <= durable

\* Published already, by a direct transaction, or durable behind a published
\* predecessor.
Publishable(u) == u.upto <= published \/ (u.upto <= durable /\ ~pubFailed)

\* The unit is durable and is published through its ticket.
CompletionFence ==
    /\ AtFence /\ Publishable(Head(lane))
    /\ published' = IF Head(lane).upto > published THEN Head(lane).upto
                                                   ELSE published
    /\ released' = TRUE
    /\ UNCHANGED <<callerVars, gateVars, intakeVars, feedback, work,
                   writerVars, lane, tokens, log, durable, frames, torn,
                   journalClosed, fenceVars, notified, boundVars>>

\* The publication of a durable unit fails: the store is fenced, and every
\* publication queued behind it fails with it.
PublicationFails ==
    /\ AtFence /\ Publishable(Head(lane)) /\ Head(lane).upto > published
    /\ faults < MaxFaults /\ faults' = faults + 1
    /\ pubFailed' = TRUE
    /\ FenceStore(Len(log))
    /\ UNCHANGED <<callerVars, gateVars, intakeVars, feedback, work,
                   writerVars, laneVars, tokens, log, durable, published,
                   frames, torn, journalClosed, notified, crashes>>

\* The journal's error drops the unit's ticket, which fences the store.
JournalErrorFences ==
    /\ AtFence /\ JournalFailed(Head(lane)) /\ ~writeFenced
    /\ FenceStore(Len(log))
    /\ UNCHANGED <<callerVars, gateVars, intakeVars, feedback, work,
                   writerVars, laneVars, tokens, log, durable, published,
                   frames, torn, journalClosed, pubFailed, notified,
                   boundVars>>

\* The error reaches the coordinator behind the store's fence: it is fenced,
\* and nothing of the unit is reported as committed.
CompletionFails ==
    /\ AtFence /\ writeFenced
    /\ \/ JournalFailed(Head(lane))
       \/ Head(lane).upto <= durable /\ ~Publishable(Head(lane))
    /\ Fence
    /\ lane' = <<Failing(Head(lane))>> \o Tail(lane)
    /\ released' = TRUE
    /\ UNCHANGED <<callerVars, shutdown, intakeVars, feedback, work,
                   writerVars, tokens, storeVars, notified, boundVars>>

\* Release the oldest unit and tell the writer.
CompletionRelease ==
    /\ lane # <<>>
    /\ released \/ Head(lane).kind = "AfterPredecessor"
    /\ FinishCommandGroup(Head(lane).cmds, Head(lane).results)
    /\ lane' = Tail(lane)
    /\ released' = FALSE
    /\ tokens' = tokens + 1
    /\ UNCHANGED <<shutdown, intakeVars, feedback, work, writerVars, storeVars,
                   crashes>>

-----------------------------------------------------------------------------
(* The process ends at any point and is started again; the journal gives   *)
(* back a prefix of whole frames that holds at least the durable ones.     *)

Recoverable ==
    {durable} \cup {frames[i] : i \in {j \in DOMAIN frames :
                                          torn = 0 \/ frames[j] <= torn}}

CrashAndRecover ==
    /\ crashes < MaxCrashes /\ crashes' = crashes + 1
    /\ \E n \in Recoverable :
          /\ log' = SubSeq(log, 1, n)
          /\ durable' = n /\ published' = n
    /\ Reply({c \in Commands : client[c] \in {"reserved", "active", "queued"}},
             LAMBDA c : Says("Lost"))
    /\ lifecycle' = "Accepting" /\ gateClosed' = FALSE /\ shutdown' = "no"
    /\ channel' = <<>> /\ recvClosed' = FALSE
    /\ pending' = <<>> /\ intake' = "run" /\ busy' = FALSE
    /\ feedback' = FALSE /\ work' = <<>>
    /\ writer' = "top" /\ frontier' = "Published"
    /\ results' = [c \in {} |-> Vacant] /\ todo' = <<>> /\ unit' = <<>>
    /\ inFlight' = <<>> /\ suffix' = 0
    /\ lane' = <<>> /\ released' = FALSE /\ tokens' = 0
    /\ frames' = <<>> /\ torn' = 0 /\ journalClosed' = FALSE
    /\ pubFailed' = FALSE /\ writeFenced' = FALSE /\ fencedAt' = 0
    /\ notified' = <<>>
    /\ UNCHANGED faults

-----------------------------------------------------------------------------
Caller(c) == \/ ReserveCapacity(c) \/ BeginSubmission(c) \/ Submit(c)
             \/ Refuse(c)

Intake == \/ IntakeAccept \/ FormNextUnit \/ IntakeShutdown \/ IntakeCollect
          \/ IntakeCollected \/ IntakeFeedback \/ DrainReject \/ IntakeReturn
          \/ StoppedLifecycle

Stage == \/ StageIneligible \/ StageFenced \/ StageReplay \/ StageBegin
         \/ StageSeal \/ StageSealFails \/ StagePeerMismatch \/ StageDirect

Direct == \/ DirectReplay \/ DirectFenced \/ DirectPrefixFails
          \/ DirectCommit \/ DirectAbort \/ DirectUnknown

Writer == \/ DrainReady \/ ReceiveUnit \/ DrainOne \/ RejectWorkUnit
          \/ AdmitGroup \/ Stage \/ Direct \/ CompleteGroup \/ SubmitUnit
          \/ SendFeedback

Journal == JournalFlush \/ JournalFails \/ JournalEnds
Completion == \/ CompletionFence \/ PublicationFails \/ JournalErrorFences
              \/ CompletionFails \/ CompletionRelease

Next == \/ \E c \in Commands : Caller(c)
        \/ InitiateShutdown \/ SendShutdown
        \/ Intake \/ Writer \/ Journal \/ Completion
        \/ CrashAndRecover

Spec == Init /\ [][Next]_vars

\* Every thread keeps running, and a caller that holds a permit submits or
\* drops it (what shutdown() asks of its callers).  The owner's second step of
\* a shutdown follows its first.
Fairness ==
    /\ WF_vars(Intake) /\ WF_vars(Writer) /\ WF_vars(Journal)
    /\ WF_vars(Completion) /\ WF_vars(SendShutdown)
    /\ \A c \in Commands : WF_vars(HoldsPermit(c) /\ Caller(c))

FairSpec == Spec /\ Fairness

-----------------------------------------------------------------------------
(* Properties.                                                             *)

Messages == Commands \cup {Shutdown}
UnitKinds == {"Fence", "AfterPredecessor"}

IsUnit(u) ==
    /\ u.kind \in UnitKinds
    /\ u.cmds \in Seq(Commands) /\ u.cmds # <<>>
    /\ u.upto \in 0 .. Len(log)
    /\ u.proof \in BOOLEAN
    /\ DOMAIN u.results = Members(u.cmds)
    /\ \A c \in DOMAIN u.results : u.results[c] \in Answers

\* Every variable keeps its shape.
TypeOK ==
    /\ client \in [Commands -> {"idle", "reserved", "active", "queued", "done"}]
    /\ answer \in [Commands -> Answers]
    /\ lifecycle \in {"Accepting", "Draining", "Fenced", "Stopped"}
    /\ gateClosed \in BOOLEAN
    /\ shutdown \in {"no", "closing", "sent"}
    /\ channel \in Seq(Messages) /\ pending \in Seq(Messages)
    /\ recvClosed \in BOOLEAN /\ busy \in BOOLEAN /\ feedback \in BOOLEAN
    /\ intake \in {"run", "closing", "draining", "rejecting", "done"}
    /\ work \in Seq(Commands) /\ todo \in Seq(Commands)
    /\ writer \in {"top", "recv", "drain", "admit", "stage", "seal", "direct",
                   "complete", "submit", "postdrain", "feedback"}
    /\ frontier \in Frontiers
    /\ DOMAIN results \subseteq Commands
    /\ \A c \in DOMAIN results : results[c] \in Answers
    /\ unit # <<>> => IsUnit(unit)
    /\ inFlight \in Seq([n : 0 .. MaxGroup, proof : BOOLEAN])
    /\ suffix \in Nat /\ tokens \in Nat
    /\ \A i \in DOMAIN lane : IsUnit(lane[i])
    /\ released \in BOOLEAN /\ journalClosed \in BOOLEAN
    /\ pubFailed \in BOOLEAN /\ writeFenced \in BOOLEAN
    /\ log \in Seq(Commands)
    /\ durable \in 0 .. Len(log) /\ published \in 0 .. Len(log)
    /\ frames \in Seq(1 .. Len(log)) /\ torn \in 0 .. Len(log)
    /\ fencedAt \in 0 .. Len(log)
    /\ notified \in Seq(Nat \ {0})
    /\ crashes \in 0 .. MaxCrashes /\ faults \in 0 .. MaxFaults

\* The private frontier never holds two records for one idempotency key, even
\* when attempts with that key are admitted against a published root that does
\* not show the first of them yet (recheck_admission in the epoch).
OneRecordPerKey == DistinctKeys(log)

\* A caller that was told FirstCommit finds its own record at that sequence,
\* durable and visible, at every later time and across restarts.
FirstCommitsSurvive ==
    \A c \in Commands : answer[c].kind = "FirstCommit" =>
        /\ answer[c].seq <= durable /\ answer[c].seq <= published
        /\ log[answer[c].seq] = c

\* What ordinary readers see is durable, and the unpublished rest ends exactly
\* where the frames that were handed to the journal end.
PublishedIsDurable ==
    /\ published <= durable
    /\ frames # <<>> => LastOf(frames) = Len(log)
    /\ frames = <<>> => durable = Len(log)

\* Ordinary snapshot evaluation never runs behind a private successor: when a
\* unit is staged on the published frontier nothing is unpublished.
FrontierIsFaithful ==
    writer = "stage" /\ frontier = "Published" => published = Len(log)

\* Publication follows commit order: first-commit notifications of a run carry
\* increasing sequences, and only of records that readers can see.
NotifiedInOrder ==
    /\ \A i, j \in DOMAIN notified : i < j => notified[i] < notified[j]
    /\ \A i \in DOMAIN notified : notified[i] <= published

\* The unpublished suffix stays within the bound the writer accounts for, so
\* the store's own bound cannot fail a seal after the apply.
UnpublishedBounded == Len(log) - published <= MaxGroup

\* The writer's view of the lane is exact although it learns of completions
\* late: one in-flight entry for every unit in the lane or announced as
\* published, and a suffix that covers them, so that neither of the integrity
\* checks of accept_published_completion can stop the coordinator.
LaneAccounted ==
    /\ Len(inFlight) = Len(lane) + tokens
    /\ \A i \in DOMAIN inFlight : inFlight[i].n <= suffix
    /\ suffix <= MaxGroup

\* The accepted backlog is at most 2C + 1: C pending and C + 1 in the channel,
\* outstanding permits included.
BacklogBounded ==
    Len(pending) + Len(channel) + Cardinality(PermitsOut)
        <= 2 * WorkloadCapacity + 1

\* The store's fence is final although the writer reads it only when an epoch
\* begins and may seal one after it was raised: until a restart no record that
\* was appended since is visible, so none is acknowledged or notified, and a
\* fenced coordinator stands on a fenced store.
FenceIsFinal ==
    /\ lifecycle = "Fenced" => writeFenced
    /\ writeFenced => published <= fencedAt

\* The intake actor returns only when no accepted submission is left behind:
\* nothing is queued, and no caller can still send (submit is infallible once
\* the gate let it pass, so a message sent later would never be answered).
ReturnLeavesNothing ==
    intake = "done" => pending = <<>> /\ channel = <<>> /\ PermitsOut = {}

\* The lifecycle only descends, whichever of the owner, the writer and the
\* completion thread writes it: a shutdown or a stop never hides a fence, and
\* nothing but a restart accepts submissions again.
LifecycleOrder == <<"Accepting", "Draining", "Stopped", "Fenced">>

LifecycleDescends ==
    [][crashes' = crashes =>
          \E i, j \in DOMAIN LifecycleOrder :
              /\ i <= j
              /\ LifecycleOrder[i] = lifecycle
              /\ LifecycleOrder[j] = lifecycle']_vars

\* A command that submit() accepted is answered, whatever fails meanwhile and
\* however its submission raced a shutdown or a fence.
AcceptedIsAnswered ==
    \A c \in Commands : client[c] = "queued" ~> client[c] = "done"

\* A shutdown that was announced is followed by the actor's return and a
\* lifecycle that is no longer draining (or by the end of the process).
ShutdownEnds ==
    shutdown = "sent" ~> ((intake = "done" /\ Halted) \/ shutdown = "no")

\* A replay, too, is released only once the record it names is published
\* (the comment on PendingCommandPublication::AfterPredecessor).
ReplaysArePublished ==
    \A c \in Commands : answer[c].kind = "Replay" =>
        /\ answer[c].seq <= published
        /\ KeyOf[log[answer[c].seq]] = KeyOf[c]
        /\ InputOf[log[answer[c].seq]] = InputOf[c]

\* Attempts with the same identity that were all accepted, and of which none
\* met a failing store or a halted coordinator, have exactly one winner.
Decided == {"FirstCommit", "Replay", "InputMismatch", "InternalDefect"}

ExactlyOneWinner ==
    \A k \in {KeyOf[c] : c \in Commands} :
        LET attempts == {c \in Commands : KeyOf[c] = k}
        IN  (\A c \in attempts : answer[c].kind \in Decided) =>
                Cardinality({c \in attempts : answer[c].kind = "FirstCommit"}) = 1

\* A command whose identity was taken by a published record of another input is
\* told so: reuse of a key is the caller's error and never an internal one.
KeyReuseIsReported ==
    \A c \in Commands : answer[c].kind = "InternalDefect" =>
        RecheckAdmission(c, PublishedRecords).kind # "InputMismatch"

\* The ledger the callers can rely on is what is published; a restart adds
\* what the journal kept beyond that.
Ledger == INSTANCE CommandLedger WITH
    ledger <- PublishedRecords, told <- answer,
    asked <- {c \in Commands : client[c] # "idle"}

\* Without I/O failures the pipeline implements the exactly-once ledger.
ImplementsLedger == Ledger!LedgerSpec

=============================================================================
