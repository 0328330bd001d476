------------------------ MODULE PipelineLedgerProofs ------------------------
(***************************************************************************)
(* Proof that, as long as no write fails, the pipeline implements the      *)
(* ledger that callers may rely on: every command is answered at most once *)
(* and every answer that names a commit names one that is published when   *)
(* the answer is given, answers taken from the private frontier included.  *)
(***************************************************************************)
EXTENDS PipelineOrderProofs

-----------------------------------------------------------------------------
(* The inductive invariant.                                                *)

\* Without faults the journal does not fail and the store is not fenced.
Calm == torn = 0 /\ ~journalClosed /\ ~writeFenced

\* The commands of the unit in the writer that are not answered yet and not in
\* the lane.
Active == IF writer \in {"postdrain", "feedback"} THEN {} ELSE Members(work)

Intaken == Members(channel) \cup Members(pending)

\* A command that waits for its answer is in one place: in the intake, in the
\* writer, or in one unit of the lane.
Spread ==
    /\ \A c \in Commands : c \in Intaken \cup Active => client[c] = "queued"
    /\ \A c \in Active : c \notin Intaken
    /\ \A i \in DOMAIN lane : \A c \in Members(lane[i].cmds) :
          client[c] = "queued" /\ c \notin Intaken \cup Active
    /\ \A i, j \in DOMAIN lane : \A c \in Members(lane[i].cmds) :
          i # j => c \notin Members(lane[j].cmds)

Unsaid == \A c \in Commands : client[c] # "done" => answer[c] = Unanswered

Asked == {c \in Commands : client[c] # "idle"}

\* Only commands that somebody asked for are recorded.
Known == \A i \in DOMAIN log : log[i] \in Asked

\* What an answer says of the records and of the commands asked for.
SameCommand(c, d) == KeyOf[d] = KeyOf[c] /\ InputOf[d] = InputOf[c]
OtherInput(c, d) == KeyOf[d] = KeyOf[c] /\ InputOf[d] # InputOf[c]

Supported(c, r, n, records, known) ==
    /\ r.kind = "Replay" => r.seq \in 1 .. n /\ SameCommand(c, records[r.seq])
    /\ r.kind = "InputMismatch" => \E d \in known : OtherInput(c, d)

Honest(res, records, known) ==
    \A c \in DOMAIN res : Supported(c, res[c], Len(records), records, known)

\* A replay is published, or a fence among the first k units publishes it.
Reaches(res, units, k, n) ==
    \A c \in DOMAIN res : res[c].kind = "Replay" =>
        \/ res[c].seq <= n
        \/ \E j \in 1 .. k : units[j].kind = "Fence" /\ res[c].seq <= units[j].upto

Replays ==
    /\ Honest(results, log, Asked)
    /\ writer = "submit" =>
          /\ Honest(unit.results, log, Asked)
          /\ unit.kind = "AfterPredecessor" => Reaches(unit.results, lane, Len(lane), published)
    /\ \A i \in DOMAIN lane :
          Honest(lane[i].results, log, Asked) /\ Reaches(lane[i].results, lane, i, published)

LedgerInv == OrderInv /\ Calm /\ Spread /\ Unsaid /\ Known /\ Replays

-----------------------------------------------------------------------------
(* Faults.                                                                 *)

\* The completion thread settles the oldest unit and answers nobody yet.
Settling == CompletionFence \/ PublicationFails \/ JournalErrorFences \/ CompletionFails

LEMMA CalmKept ==
    ASSUME PipelineAssumption, MaxFaults = 0, StoreInv, Calm, [Next]_vars
    PROVE  Calm'
<1>1. ~(faults < MaxFaults)
  BY DEF StoreInv, Types, StoreTypes
<1>2. ASSUME UNCHANGED <<torn, journalClosed, writeFenced>> PROVE Calm'
  BY <1>2 DEF Calm
<1>3. CASE UNCHANGED vars \/ InitiateShutdown \/ SendShutdown \/ \E c \in Commands : Caller(c)
  <2>1. ASSUME NEW c \in Commands, Caller(c) PROVE UNCHANGED storeVars
    BY <2>1, Zenon DEF Caller, ReserveCapacity, BeginSubmission, Submit, Refuse
  <2> QED BY <1>2, <1>3, <2>1 DEF vars, InitiateShutdown, SendShutdown, storeVars, fenceVars
<1>4. CASE Intake
  <2>1. UNCHANGED storeVars
    BY <1>4, Zenon DEF Intake, IntakeAccept, FormNextUnit, IntakeShutdown, IntakeCollect,
       IntakeCollected, IntakeFeedback, DrainReject, IntakeReturn, StoppedLifecycle
  <2> QED BY <1>2, <2>1 DEF storeVars, fenceVars
<1>5. CASE \/ DrainReady \/ ReceiveUnit \/ DrainOne \/ RejectWorkUnit \/ AdmitGroup
           \/ CompleteGroup \/ SubmitUnit \/ SendFeedback \/ CompletionRelease
  <2>1. UNCHANGED storeVars
    BY <1>5, Zenon DEF DrainReady, ReceiveUnit, DrainOne, RejectWorkUnit, AdmitGroup,
       CompleteGroup, SubmitUnit, SendFeedback, CompletionRelease
  <2> QED BY <1>2, <2>1 DEF storeVars, fenceVars
<1>6. CASE Stage
  BY <1>1, <1>2, <1>6 DEF Stage, StageIneligible, StageFenced, StageReplay, StageBegin, StageSeal,
     StageSealFails, StagePeerMismatch, StageDirect, storeVars, fenceVars, Calm
<1>7. CASE Direct
  BY <1>1, <1>2, <1>7 DEF Direct, DirectReplay, DirectFenced, DirectPrefixFails, DirectCommit,
     DirectAbort, DirectUnknown, storeVars, fenceVars, Calm
<1>8. CASE Journal \/ Settling
  BY <1>1, <1>2, <1>8 DEF Journal, JournalFlush, JournalFails, JournalEnds, Settling,
     CompletionFence, PublicationFails, JournalErrorFences, JournalFailed, CompletionFails,
     storeVars, fenceVars, Calm
<1>9. CASE CrashAndRecover
  <2>1. torn' = 0 /\ journalClosed' = FALSE /\ writeFenced' = FALSE
    BY <1>9, Zenon DEF CrashAndRecover
  <2> QED BY <2>1 DEF Calm
<1> QED BY <1>3, <1>4, <1>5, <1>6, <1>7, <1>8, <1>9 DEF Next, Writer, Completion, Settling

-----------------------------------------------------------------------------
(* Every command is in one place.                                          *)

\* The commands in S are answered and leave, and no other comes.
LEMMA SpreadShrink ==
    ASSUME Spread, NEW S, NEW d \in {0, 1},
           \A c \in Commands : c \notin S /\ client[c] = "queued" => client'[c] = "queued",
           Intaken' \subseteq Intaken, Active' \subseteq Active,
           \A c \in Commands : c \in S => c \notin Intaken' \cup Active',
           \A i \in DOMAIN lane' : /\ i \in Nat /\ i + d \in DOMAIN lane
                                   /\ lane'[i].cmds = lane[i + d].cmds
                                   /\ Members(lane'[i].cmds) \subseteq Commands
                                   /\ \A c \in Members(lane'[i].cmds) : c \notin S
    PROVE  Spread'
<1>1. \A c \in Commands : c \in Intaken' \cup Active' => client'[c] = "queued"
  BY DEF Spread
<1>2. \A c \in Active' : c \notin Intaken'
  BY DEF Spread
<1>3. ASSUME NEW i \in DOMAIN lane', NEW c \in Members(lane'[i].cmds)
      PROVE  client'[c] = "queued" /\ c \notin Intaken' \cup Active'
  <2>1. /\ i + d \in DOMAIN lane /\ c \in Members(lane[i + d].cmds)
        /\ c \in Commands /\ c \notin S
    OBVIOUS
  <2>2. client[c] = "queued" /\ c \notin Intaken \cup Active
    BY <2>1 DEF Spread
  <2> QED BY <2>1, <2>2
<1>4. ASSUME NEW i \in DOMAIN lane', NEW j \in DOMAIN lane', NEW c \in Members(lane'[i].cmds), i # j
      PROVE  c \notin Members(lane'[j].cmds)
  <2>1. /\ i + d \in DOMAIN lane /\ j + d \in DOMAIN lane /\ i + d # j + d
        /\ c \in Members(lane[i + d].cmds)
    BY <1>4
  <2> QED BY <2>1 DEF Spread
<1> QED BY <1>1, <1>2, <1>3, <1>4 DEF Spread

LEMMA LaneMembers ==
    ASSUME StoreInv
    PROVE  \A i \in DOMAIN lane : Members(lane[i].cmds) \subseteq Commands /\ i \in Nat
<1> SUFFICES ASSUME NEW i \in DOMAIN lane
             PROVE  Members(lane[i].cmds) \subseteq Commands /\ i \in Nat
  OBVIOUS
<1>1. lane[i] \in Units /\ i \in Nat
  BY DEF StoreInv, Types, WriterTypes
<1>2. lane[i].cmds \in Seq(Commands)
  BY <1>1 DEF Units
<1> QED BY <1>1, <1>2, MembersFacts

\* The unit in the writer stays or is given up.
Held ==
    \/ work' = <<>>
    \/ writer' \in {"postdrain", "feedback"}
    \/ work' = work /\ writer \notin {"postdrain", "feedback"}
    \/ UNCHANGED <<work, writer>>

LEMMA HeldActive ==
    ASSUME Held
    PROVE  Active' \subseteq Active
<1>1. CASE work' = <<>>
  <2>1. Members(work') = {}
    BY <1>1 DEF Members
  <2> QED BY <2>1 DEF Active
<1>2. CASE writer' \in {"postdrain", "feedback"}
  BY <1>2 DEF Active
<1>3. CASE \/ work' = work /\ writer \notin {"postdrain", "feedback"}
           \/ UNCHANGED <<work, writer>>
  BY <1>3 DEF Active
<1> QED BY <1>1, <1>2, <1>3 DEF Held

\* Nobody is answered, and the places stay as they are.
LEMMA SpreadQuiet ==
    ASSUME StoreInv, Spread, Held,
           \A c \in Commands : client[c] = "queued" => client'[c] = "queued",
           Intaken' \subseteq Intaken,
           UNCHANGED lane \/ CompletionFails
    PROVE  Spread'
<1>1. Active' \subseteq Active
  BY HeldActive
<1>2. \A i \in DOMAIN lane' : i \in DOMAIN lane /\ lane'[i].cmds = lane[i].cmds
  <2>1. CASE UNCHANGED lane
    BY <2>1
  <2>2. CASE CompletionFails
    <3>1. lane # <<>> /\ lane' = <<Failing(Head(lane))>> \o Tail(lane)
      BY <2>2, Zenon DEF CompletionFails, AtFence
    <3>2. /\ lane[1] \in Units /\ DOMAIN lane' = DOMAIN lane
          /\ lane'[1] = Failing(lane[1])
          /\ \A i \in DOMAIN lane : i # 1 => lane'[i] = lane[i]
      BY <3>1, FailedHead
    <3>3. lane'[1].cmds = lane[1].cmds
      BY <3>2, FailingFacts
    <3> QED BY <3>2, <3>3
  <2> QED BY <2>1, <2>2
<1>3. \A i \in DOMAIN lane' : /\ i \in Nat /\ i + 0 \in DOMAIN lane
                              /\ lane'[i].cmds = lane[i + 0].cmds
                              /\ Members(lane'[i].cmds) \subseteq Commands
  BY <1>2, LaneMembers
<1> DEFINE S == {}
<1>4. \A i \in DOMAIN lane' : /\ i \in Nat /\ i + 0 \in DOMAIN lane
                              /\ lane'[i].cmds = lane[i + 0].cmds
                              /\ Members(lane'[i].cmds) \subseteq Commands
                              /\ \A c \in Members(lane'[i].cmds) : c \notin S
  BY <1>3
<1>5. 0 \in {0, 1} /\ \A c \in Commands : c \notin S
  OBVIOUS
<1> HIDE DEF S
<1> QED BY <1>1, <1>4, <1>5, SpreadShrink

\* The steps that answer nobody.
LEMMA QuietSteps ==
    ASSUME PipelineAssumption, OrderInv, Spread, [Next]_vars,
           \/ UNCHANGED vars \/ InitiateShutdown \/ Journal \/ Settling
           \/ IntakeCollected \/ IntakeReturn \/ StoppedLifecycle \/ IntakeShutdown
           \/ DrainReady \/ ReceiveUnit \/ DrainOne \/ AdmitGroup \/ Stage \/ Direct
           \/ SendFeedback \/ (CompleteGroup /\ frontier = "WriterPrivate")
    PROVE  /\ Spread' /\ UNCHANGED callerVars
<1> USE DEF OrderInv
<1>1. UNCHANGED callerVars
  <2>1. CASE UNCHANGED vars \/ InitiateShutdown \/ Journal \/ Settling
             \/ IntakeCollected \/ IntakeReturn \/ StoppedLifecycle \/ IntakeShutdown
    BY <2>1 DEF vars, InitiateShutdown, Journal, JournalFlush, JournalFails, JournalEnds, Settling,
       CompletionFence, PublicationFails, JournalErrorFences, CompletionFails,
       IntakeCollected, IntakeReturn, StoppedLifecycle, IntakeShutdown
  <2>2. CASE DrainReady \/ ReceiveUnit \/ DrainOne \/ AdmitGroup \/ SendFeedback
    BY <2>2 DEF DrainReady, ReceiveUnit, DrainOne, AdmitGroup, SendFeedback
  <2>3. CASE Stage
    BY <2>3 DEF Stage, StageIneligible, StageFenced, StageReplay, StageBegin, StageSeal,
       StageSealFails, StagePeerMismatch, StageDirect
  <2>4. CASE Direct
    BY <2>4 DEF Direct, DirectReplay, DirectFenced, DirectPrefixFails, DirectCommit,
       DirectAbort, DirectUnknown, DirectStep
  <2>5. CASE CompleteGroup /\ frontier = "WriterPrivate"
    BY <2>5, BehindFacts
  <2> QED BY <2>1, <2>2, <2>3, <2>4, <2>5
<1>2. Held
  <2>1. CASE UNCHANGED vars \/ InitiateShutdown \/ Journal \/ Settling
             \/ IntakeCollected \/ IntakeReturn \/ StoppedLifecycle \/ IntakeShutdown
    BY <2>1 DEF vars, InitiateShutdown, Journal, JournalFlush, JournalFails, JournalEnds, Settling,
       CompletionFence, PublicationFails, JournalErrorFences, CompletionFails,
       IntakeCollected, IntakeReturn, StoppedLifecycle, IntakeShutdown, writerVars, Held
  <2>2. CASE DrainReady
    BY <2>2 DEF DrainReady, Held
  <2>3. CASE ReceiveUnit
    BY <2>3 DEF ReceiveUnit, Held
  <2>4. CASE DrainOne
    BY <2>4 DEF DrainOne, Held
  <2>5. CASE AdmitGroup
    BY <2>5 DEF AdmitGroup, Held
  <2>6. CASE SendFeedback
    BY <2>6 DEF SendFeedback, Held
  <2>7. CASE Stage
    BY <2>7 DEF Stage, StageIneligible, StageFenced, StageReplay, StageBegin, StageSeal,
       StageSealFails, StagePeerMismatch, StageDirect, Held
  <2>8. CASE Direct
    BY <2>8 DEF Direct, DirectReplay, DirectFenced, DirectPrefixFails, DirectCommit,
       DirectAbort, DirectUnknown, DirectReady, DirectStep, Held
  <2>9. CASE CompleteGroup /\ frontier = "WriterPrivate"
    BY <2>9 DEF CompleteGroup, Held
  <2> QED BY <2>1, <2>2, <2>3, <2>4, <2>5, <2>6, <2>7, <2>8, <2>9
<1>3. UNCHANGED lane \/ CompletionFails
  <2>1. CASE UNCHANGED vars \/ InitiateShutdown \/ Journal
             \/ IntakeCollected \/ IntakeReturn \/ StoppedLifecycle \/ IntakeShutdown
    BY <2>1 DEF vars, InitiateShutdown, Journal, JournalFlush, JournalFails, JournalEnds,
       IntakeCollected, IntakeReturn, StoppedLifecycle, IntakeShutdown, laneVars
  <2>2. CASE DrainReady \/ ReceiveUnit \/ DrainOne \/ AdmitGroup \/ SendFeedback \/ CompleteGroup
    BY <2>2 DEF DrainReady, ReceiveUnit, DrainOne, AdmitGroup, SendFeedback, CompleteGroup, laneVars
  <2>3. CASE Stage
    BY <2>3 DEF Stage, StageIneligible, StageFenced, StageReplay, StageBegin, StageSeal,
       StageSealFails, StagePeerMismatch, StageDirect, laneVars
  <2>4. CASE Direct
    BY <2>4 DEF Direct, DirectReplay, DirectFenced, DirectPrefixFails, DirectCommit,
       DirectAbort, DirectUnknown, DirectStep, laneVars
  <2>5. CASE Settling
    BY <2>5 DEF Settling, CompletionFence, PublicationFails, JournalErrorFences, laneVars
  <2> QED BY <2>1, <2>2, <2>3, <2>4, <2>5
<1>4. Intaken' \subseteq Intaken
  <2>1. CASE IntakeCollected \/ IntakeReturn
    BY <2>1 DEF IntakeCollected, IntakeReturn, Intaken
  <2>2. CASE IntakeShutdown
    <3>1. pending # <<>> /\ pending' = Tail(pending) /\ UNCHANGED channel
      BY <2>2 DEF IntakeShutdown
    <3>2. pending \in Seq(Messages)
      BY DEF StoreInv, Types, IntakeTypes
    <3>3. Members(pending') \subseteq Members(pending)
      BY <3>1, <3>2, MembersMoved
    <3> QED BY <3>1, <3>3 DEF Intaken
  <2>3. CASE \/ UNCHANGED vars \/ InitiateShutdown \/ Journal \/ Settling
             \/ StoppedLifecycle \/ Writer
    <3>1. UNCHANGED <<channel, pending>>
      BY <2>3, SteadySteps DEF Steady, Completion, Settling
    <3> QED BY <3>1 DEF Intaken
  <2> QED BY <2>1, <2>2, <2>3 DEF Writer
<1>5. \A c \in Commands : client[c] = "queued" => client'[c] = "queued"
  BY <1>1 DEF callerVars
<1> QED BY <1>1, <1>2, <1>3, <1>4, <1>5, SpreadQuiet

\* The callers of the commands in S are answered, for the first time.
Told(S) ==
    /\ \A c \in Commands : c \in S => client[c] # "done"
    /\ \A c \in Commands : client'[c] = IF c \in S THEN "done" ELSE client[c]
    /\ \A c \in Commands : c \notin S => answer'[c] = answer[c]

Claims == {"FirstCommit", "Replay", "InputMismatch"}

LEMMA ReplyTold ==
    ASSUME NEW S, NEW kind, kind \notin Claims,
           client' = [c \in Commands |-> IF c \in S THEN "done" ELSE client[c]],
           answer' = [c \in Commands |-> IF c \in S THEN Says(kind) ELSE answer[c]],
           \A c \in Commands : c \in S => client[c] # "done"
    PROVE  Told(S) /\ \A c \in Commands : c \in S => answer'[c].kind \notin Claims
<1>1. Says(kind).kind = kind
  BY DEF Says
<1> QED BY <1>1 DEF Told

\* The steps that answer with an error that claims nothing.
LEMMA RefuseTells ==
    ASSUME PipelineAssumption, OrderInv, Spread, NEW c \in Commands, Refuse(c)
    PROVE  /\ Spread'
           /\ Told({c}) /\ \A d \in Commands : d \in {c} => answer'[d].kind \notin Claims
<1> USE DEF OrderInv
<1>1. /\ client[c] = "idle" \/ client[c] = "reserved"
      /\ Reply({c}, LAMBDA d : Says("Refused"))
      /\ UNCHANGED <<intakeVars, work, writerVars, laneVars>>
  BY Zenon DEF Refuse
<1>2. /\ client' = [d \in Commands |-> IF d \in {c} THEN "done" ELSE client[d]]
      /\ answer' = [d \in Commands |-> IF d \in {c} THEN Says("Refused") ELSE answer[d]]
  BY <1>1 DEF Reply
<1>3. Told({c}) /\ \A d \in Commands : d \in {c} => answer'[d].kind \notin Claims
  <2>1. "Refused" \notin Claims /\ \A d \in Commands : d \in {c} => client[d] # "done"
    BY <1>1 DEF Claims
  <2> QED BY <1>2, <2>1, ReplyTold
<1>4. UNCHANGED <<channel, pending, work, writer, lane>>
  BY <1>1 DEF intakeVars, writerVars, laneVars
<1>5. Held /\ Intaken' \subseteq Intaken
  BY <1>4 DEF Held, Intaken
<1>6. \A d \in Commands : client[d] = "queued" => client'[d] = "queued"
  BY <1>1, <1>2
<1> QED BY <1>3, <1>4, <1>5, <1>6, SpreadQuiet

LEMMA FeedbackTells ==
    ASSUME PipelineAssumption, OrderInv, Spread, IntakeFeedback
    PROVE  /\ Spread'
           /\ \/ UNCHANGED callerVars
              \/ /\ Told(Members(pending))
                 /\ \A c \in Commands : c \in Members(pending) => answer'[c].kind \notin Claims
<1> USE DEF OrderInv
<1>1. /\ feedback /\ UNCHANGED <<channel, work, writerVars, laneVars>>
      /\ \/ /\ Reply(Members(pending), LAMBDA c : Says("Rejected")) /\ pending' = <<>>
         \/ UNCHANGED <<callerVars, pending>>
  BY Zenon DEF IntakeFeedback
<1>2. UNCHANGED <<channel, work, writer, lane>>
  BY <1>1 DEF writerVars, laneVars
<1>3. Held
  BY <1>2 DEF Held
<1>4. CASE UNCHANGED <<callerVars, pending>>
  <2>1. Intaken' \subseteq Intaken /\ UNCHANGED client
    BY <1>2, <1>4 DEF Intaken, callerVars
  <2>2. Spread'
    BY <1>2, <1>3, <2>1, SpreadQuiet
  <2> QED BY <1>4, <2>2
<1>5. CASE Reply(Members(pending), LAMBDA c : Says("Rejected")) /\ pending' = <<>>
  <2> DEFINE S == Members(pending)
  <2>1. /\ client' = [c \in Commands |-> IF c \in S THEN "done" ELSE client[c]]
        /\ answer' = [c \in Commands |-> IF c \in S THEN Says("Rejected") ELSE answer[c]]
    BY <1>5 DEF Reply
  <2>2. \A c \in Commands : c \in S => client[c] # "done"
    BY DEF Spread, Intaken
  <2>3. "Rejected" \notin Claims
    BY DEF Claims
  <2>4. Told(S) /\ \A c \in Commands : c \in S => answer'[c].kind \notin Claims
    BY <2>1, <2>2, <2>3, ReplyTold
  <2>5. Members(pending') = {} /\ Members(<<>>) = {}
    BY <1>5 DEF Members
  <2>6. work = <<>> /\ Active = {}
    BY <1>1, <2>5 DEF StoreInv, Handed, Active
  <2>7. Active' = {} /\ Intaken' = Members(channel)
    BY <1>2, <2>5, <2>6 DEF Active, Intaken
  <2>8. \A c \in Commands : c \in S => c \notin Intaken' \cup Active'
    BY <2>7 DEF Placed
  <2>9. \A c \in Commands : c \notin S /\ client[c] = "queued" => client'[c] = "queued"
    BY <2>1
  <2>10. \A i \in DOMAIN lane' : /\ i \in Nat /\ i + 0 \in DOMAIN lane
                                 /\ lane'[i].cmds = lane[i + 0].cmds
                                 /\ Members(lane'[i].cmds) \subseteq Commands
                                 /\ \A c \in Members(lane'[i].cmds) : c \notin S
    BY <1>2, LaneMembers DEF Spread, Intaken
  <2>11. Intaken' \subseteq Intaken /\ Active' \subseteq Active /\ 0 \in {0, 1}
    BY <2>6, <2>7 DEF Intaken
  <2> HIDE DEF S
  <2>12. Spread'
    BY <2>8, <2>9, <2>10, <2>11, SpreadShrink
  <2> QED BY <2>4, <2>12 DEF S
<1> QED BY <1>1, <1>4, <1>5

LEMMA RejectTells ==
    ASSUME PipelineAssumption, OrderInv, Spread, DrainReject
    PROVE  /\ Spread' /\ Told({Head(channel)})
           /\ \A c \in Commands : c \in {Head(channel)} => answer'[c].kind \notin Claims
<1> USE DEF OrderInv
<1> DEFINE x == Head(channel)
           S == {x}
<1>1. /\ channel # <<>> /\ Reply({Head(channel)}, LAMBDA c : Says("Rejected"))
      /\ channel' = Tail(channel) /\ UNCHANGED <<pending, work, writerVars, laneVars>>
  BY Zenon DEF DrainReject
<1>2. UNCHANGED <<pending, work, writer, lane>>
  BY <1>1 DEF writerVars, laneVars
<1>3. /\ client' = [c \in Commands |-> IF c \in S THEN "done" ELSE client[c]]
      /\ answer' = [c \in Commands |-> IF c \in S THEN Says("Rejected") ELSE answer[c]]
  BY <1>1 DEF Reply
<1>4. channel \in Seq(Messages) /\ Once(channel)
  BY DEF StoreInv, Types, IntakeTypes, Placed
<1>5. /\ x \in Members(channel) /\ Members(channel') \subseteq Members(channel)
      /\ x \in Commands => x \notin Members(channel')
  BY <1>1, <1>4, OnceMoved, MembersMoved
<1>6. x \in Commands => /\ client[x] = "queued" /\ x \notin Members(pending) /\ x \notin Active
  BY <1>5 DEF Spread, Intaken, Placed
<1>7. Told(S) /\ \A c \in Commands : c \in S => answer'[c].kind \notin Claims
  <2>1. "Rejected" \notin Claims /\ \A c \in Commands : c \in S => client[c] # "done"
    BY <1>6 DEF Claims
  <2> QED BY <1>3, <2>1, ReplyTold
<1>8. Active' = Active /\ Intaken' = Members(channel') \cup Members(pending)
  BY <1>2 DEF Active, Intaken
<1>9. Intaken' \subseteq Intaken /\ Active' \subseteq Active /\ 0 \in {0, 1}
  BY <1>5, <1>8 DEF Intaken
<1>10. \A c \in Commands : c \in S => c \notin Intaken' \cup Active'
  BY <1>5, <1>6, <1>8
<1>11. \A c \in Commands : c \notin S /\ client[c] = "queued" => client'[c] = "queued"
  BY <1>3
<1>12. \A i \in DOMAIN lane' : /\ i \in Nat /\ i + 0 \in DOMAIN lane
                               /\ lane'[i].cmds = lane[i + 0].cmds
                               /\ Members(lane'[i].cmds) \subseteq Commands
                               /\ \A c \in Members(lane'[i].cmds) : c \notin S
  BY <1>2, <1>5, LaneMembers DEF Spread, Intaken
<1> HIDE DEF S
<1>13. Spread'
  BY <1>9, <1>10, <1>11, <1>12, SpreadShrink
<1> QED BY <1>7, <1>13 DEF S

\* The whole unit in the writer is answered.
LEMMA UnitAnswered ==
    ASSUME OrderInv, Spread, writer \notin {"postdrain", "feedback"}, writer' = "feedback",
           UNCHANGED <<channel, pending, work, lane>>,
           client' = [c \in Commands |-> IF c \in Members(work) THEN "done" ELSE client[c]],
           \A c \in Commands : c \notin Members(work) => answer'[c] = answer[c]
    PROVE  Spread' /\ Told(Members(work))
<1> USE DEF OrderInv
<1> DEFINE S == Members(work)
<1>1. Active = S /\ Active' = {} /\ Intaken' = Intaken
  BY DEF Active, Intaken
<1>2. S \subseteq Commands
  BY MembersFacts DEF StoreInv, Types, WriterTypes
<1>3. \A c \in Commands : c \in S => client[c] = "queued" /\ c \notin Intaken
  BY <1>1 DEF Spread
<1>4. Told(S)
  BY <1>3 DEF Told
<1>5. \A c \in Commands : c \notin S /\ client[c] = "queued" => client'[c] = "queued"
  OBVIOUS
<1>6. \A i \in DOMAIN lane' : /\ i \in Nat /\ i + 0 \in DOMAIN lane
                              /\ lane'[i].cmds = lane[i + 0].cmds
                              /\ Members(lane'[i].cmds) \subseteq Commands
                              /\ \A c \in Members(lane'[i].cmds) : c \notin S
  BY <1>1, LaneMembers DEF Spread
<1>7. /\ Intaken' \subseteq Intaken /\ Active' \subseteq Active /\ 0 \in {0, 1}
      /\ \A c \in Commands : c \in S => c \notin Intaken' \cup Active'
  BY <1>1, <1>3
<1> HIDE DEF S
<1>8. Spread'
  BY <1>5, <1>6, <1>7, SpreadShrink
<1> QED BY <1>4, <1>8 DEF S

LEMMA WorkTells ==
    ASSUME PipelineAssumption, OrderInv, Spread, RejectWorkUnit
    PROVE  /\ Spread' /\ Told(Members(work))
           /\ \A c \in Commands : c \in Members(work) => answer'[c].kind \notin Claims
<1>1. /\ Reply(Members(work), LAMBDA c : Says("Rejected")) /\ writer = "admit" /\ writer' = "feedback"
      /\ UNCHANGED <<intakeVars, work, laneVars>>
  BY Zenon DEF RejectWorkUnit
<1>2. /\ client' = [c \in Commands |-> IF c \in Members(work) THEN "done" ELSE client[c]]
      /\ answer' = [c \in Commands |-> IF c \in Members(work) THEN Says("Rejected") ELSE answer[c]]
  BY <1>1 DEF Reply
<1>3. UNCHANGED <<channel, pending, work, lane>>
  BY <1>1 DEF intakeVars, laneVars
<1>4. \A c \in Commands : c \notin Members(work) => answer'[c] = answer[c]
  BY <1>2
<1>5. Spread' /\ Told(Members(work))
  BY <1>1, <1>2, <1>3, <1>4, UnitAnswered
<1>6. \A c \in Commands : c \in Members(work) => answer'[c].kind = "Rejected"
  BY <1>2 DEF Says
<1> QED BY <1>5, <1>6 DEF Claims

\* The steps that answer with results.
LEMMA CompleteTells ==
    ASSUME PipelineAssumption, OrderInv, Spread, CompleteGroup, frontier # "WriterPrivate"
    PROVE  /\ Spread' /\ Told(Members(work))
           /\ \A c \in Commands : c \in Members(work) => answer'[c] = results[c]
<1>1. /\ FinishCommandGroup(work, results) /\ writer = "complete" /\ writer' = "feedback"
      /\ UNCHANGED <<intakeVars, work, laneVars>>
  BY DEF CompleteGroup
<1>2. /\ client' = [c \in Commands |-> IF c \in Members(work) THEN "done" ELSE client[c]]
      /\ answer' = [c \in Commands |-> IF c \in Members(work) THEN results[c] ELSE answer[c]]
  BY <1>1 DEF FinishCommandGroup, Reply
<1>3. UNCHANGED <<channel, pending, work, lane>>
  BY <1>1 DEF intakeVars, laneVars
<1>4. \A c \in Commands : c \notin Members(work) => answer'[c] = answer[c]
  BY <1>2
<1>5. Spread' /\ Told(Members(work))
  BY <1>1, <1>2, <1>3, <1>4, UnitAnswered
<1> QED BY <1>2, <1>5

LEMMA ReleaseTells ==
    ASSUME PipelineAssumption, OrderInv, Spread, CompletionRelease
    PROVE  /\ Spread' /\ Told(Members(lane[1].cmds))
           /\ \A c \in Commands : c \in Members(lane[1].cmds) => answer'[c] = lane[1].results[c]
<1> USE DEF OrderInv
<1> DEFINE S == Members(lane[1].cmds)
<1>1. /\ lane # <<>> /\ FinishCommandGroup(Head(lane).cmds, Head(lane).results)
      /\ lane' = Tail(lane) /\ UNCHANGED <<intakeVars, work, writerVars>>
  BY Zenon DEF CompletionRelease
<1>2. lane \in Seq(Units)
  BY DEF StoreInv, Types, WriterTypes
<1>3. Head(lane) = lane[1] /\ 1 \in DOMAIN lane
  BY <1>1, <1>2
<1>4. FinishCommandGroup(lane[1].cmds, lane[1].results)
  BY <1>1, <1>3
<1>5. /\ client' = [c \in Commands |-> IF c \in S THEN "done" ELSE client[c]]
      /\ answer' = [c \in Commands |-> IF c \in S THEN lane[1].results[c] ELSE answer[c]]
  BY <1>4 DEF FinishCommandGroup, Reply
<1>6. UNCHANGED <<channel, pending, work, writer>>
  BY <1>1 DEF intakeVars, writerVars
<1>7. Active' = Active /\ Intaken' = Intaken
  BY <1>6 DEF Active, Intaken
<1>8. \A c \in S : client[c] = "queued" /\ c \notin Intaken \cup Active
  BY <1>3 DEF Spread
<1>9. Told(S)
  BY <1>5, <1>8 DEF Told
<1>10. ASSUME NEW i \in DOMAIN lane'
       PROVE  /\ i \in Nat /\ i + 1 \in DOMAIN lane /\ lane'[i].cmds = lane[i + 1].cmds
              /\ Members(lane'[i].cmds) \subseteq Commands
              /\ \A c \in Members(lane'[i].cmds) : c \notin S
  <2>1. /\ Tail(lane) \in Seq(Units)
        /\ \A k \in DOMAIN Tail(lane) : k + 1 \in DOMAIN lane /\ Tail(lane)[k] = lane[k + 1]
    BY <1>1, <1>2, TailFacts
  <2>2. i \in Nat \ {0} /\ i + 1 \in DOMAIN lane /\ lane'[i] = lane[i + 1]
    BY <1>1, <2>1
  <2>3. Members(lane[i + 1].cmds) \subseteq Commands
    BY <2>2, LaneMembers
  <2>4. i + 1 # 1
    BY <2>2
  <2>5. \A c \in Members(lane[i + 1].cmds) : c \notin S
    BY <1>3, <2>2, <2>4 DEF Spread
  <2> QED BY <2>2, <2>3, <2>5
<1>11. /\ Intaken' \subseteq Intaken /\ Active' \subseteq Active /\ 1 \in {0, 1}
       /\ \A c \in Commands : c \in S => c \notin Intaken' \cup Active'
       /\ \A c \in Commands : c \notin S /\ client[c] = "queued" => client'[c] = "queued"
  BY <1>5, <1>7, <1>8
<1> HIDE DEF S
<1>12. Spread'
  BY <1>10, <1>11, SpreadShrink
<1>13. \A c \in Commands : c \in S => answer'[c] = lane[1].results[c]
  BY <1>5
<1> QED BY <1>9, <1>12, <1>13 DEF S

LEMMA RestartTells ==
    ASSUME PipelineAssumption, OrderInv, CrashAndRecover
    PROVE  /\ Spread'
           /\ \E S : Told(S) /\ \A c \in Commands : c \in S => answer'[c].kind \notin Claims
<1> DEFINE S == {c \in Commands : client[c] \in {"reserved", "active", "queued"}}
<1>1. /\ Reply(S, LAMBDA c : Says("Lost"))
      /\ channel' = <<>> /\ pending' = <<>> /\ work' = <<>> /\ lane' = <<>>
  BY Zenon DEF CrashAndRecover
<1>2. Members(<<>>) = {}
  BY DEF Members
<1>3. Intaken' = {} /\ Active' = {}
  BY <1>1, <1>2 DEF Intaken, Active
<1>4. Spread'
  BY <1>1, <1>3 DEF Spread
<1>5. "Lost" \notin Claims /\ \A c \in Commands : c \in S => client[c] # "done"
  BY DEF Claims
<1> HIDE DEF S
<1>6. /\ client' = [c \in Commands |-> IF c \in S THEN "done" ELSE client[c]]
      /\ answer' = [c \in Commands |-> IF c \in S THEN Says("Lost") ELSE answer[c]]
  BY <1>1 DEF Reply
<1>7. Told(S) /\ \A c \in Commands : c \in S => answer'[c].kind \notin Claims
  BY <1>5, <1>6, ReplyTold
<1> QED BY <1>4, <1>7

\* A caller goes on without an answer.
Goes(c) ==
    /\ client[c] # "done" /\ client'[c] \in {"reserved", "active", "queued"}
    /\ \A d \in Commands : d # c => client'[d] = client[d]
    /\ UNCHANGED answer

LEMMA SendSteps ==
    ASSUME PipelineAssumption, OrderInv, Spread, NEW c \in Commands,
           ReserveCapacity(c) \/ BeginSubmission(c) \/ Submit(c)
    PROVE  Spread' /\ Goes(c)
<1> USE DEF OrderInv
<1>1. client \in [Commands -> {"idle", "reserved", "active", "queued", "done"}]
  BY DEF StoreInv, Types, CallerTypes
<1>2. UNCHANGED <<answer, pending, work, writerVars, laneVars>>
  BY DEF ReserveCapacity, BeginSubmission, Submit, intakeVars
<1>3. UNCHANGED <<pending, work, writer, lane>>
  BY <1>2 DEF writerVars, laneVars
<1>4. Goes(c)
  BY <1>1, <1>2 DEF ReserveCapacity, BeginSubmission, Submit, Goes
<1>5. client[c] # "queued"
  BY DEF ReserveCapacity, BeginSubmission, Submit
<1>6. \A d \in Commands : client[d] = "queued" => client'[d] = "queued"
  BY <1>4, <1>5 DEF Goes
<1>7. Active' = Active
  BY <1>3 DEF Active
<1>8. CASE ReserveCapacity(c) \/ BeginSubmission(c)
  <2>1. UNCHANGED channel
    BY <1>8 DEF ReserveCapacity, BeginSubmission, intakeVars
  <2>2. Intaken' \subseteq Intaken /\ Held
    BY <1>3, <2>1 DEF Intaken, Held
  <2>3. Spread'
    BY <1>3, <1>6, <2>2, SpreadQuiet
  <2> QED BY <1>4, <2>3
<1>9. CASE Submit(c)
  <2>1. channel' = Append(channel, c) /\ client' = [client EXCEPT ![c] = "queued"]
    BY <1>9 DEF Submit
  <2>2. channel \in Seq(Messages) /\ c \in Messages
    BY DEF StoreInv, Types, IntakeTypes, Messages
  <2>3. Members(channel') = Members(channel) \cup {c}
    BY <2>1, <2>2, MembersMoved
  <2>4. Intaken' = Intaken \cup {c}
    BY <1>3, <2>3 DEF Intaken
  <2>5. client'[c] = "queued"
    BY <1>1, <2>1
  <2>6. c \notin Active
    BY <1>5 DEF Spread
  <2>7. \A i \in DOMAIN lane : \A d \in Members(lane[i].cmds) : d # c /\ d \in Commands
    BY <1>5, LaneMembers DEF Spread
  <2>8. \A d \in Commands : d \in Intaken' \cup Active' => client'[d] = "queued"
    BY <1>6, <1>7, <2>4, <2>5 DEF Spread
  <2>9. \A d \in Active' : d \notin Intaken'
    BY <1>7, <2>4, <2>6 DEF Spread
  <2>10. \A i \in DOMAIN lane' : \A d \in Members(lane'[i].cmds) :
            client'[d] = "queued" /\ d \notin Intaken' \cup Active'
    BY <1>3, <1>6, <1>7, <2>4, <2>7 DEF Spread
  <2>11. \A i, j \in DOMAIN lane' : \A d \in Members(lane'[i].cmds) :
            i # j => d \notin Members(lane'[j].cmds)
    BY <1>3 DEF Spread
  <2>12. Spread'
    BY <2>8, <2>9, <2>10, <2>11 DEF Spread
  <2> QED BY <1>4, <2>12
<1> QED BY <1>8, <1>9

\* Commands go from one place to the next.
LEMMA MoveSteps ==
    ASSUME PipelineAssumption, OrderInv, Spread,
           SendShutdown \/ IntakeAccept \/ IntakeCollect \/ FormNextUnit \/ SubmitUnit
    PROVE  Spread' /\ UNCHANGED callerVars
<1> USE DEF OrderInv
<1>1. UNCHANGED callerVars
  BY DEF SendShutdown, IntakeAccept, IntakeCollect, FormNextUnit, SubmitUnit
<1>2. UNCHANGED client
  BY <1>1 DEF callerVars
<1>3. channel \in Seq(Messages) /\ pending \in Seq(Messages)
  BY DEF StoreInv, Types, IntakeTypes
<1>4. ASSUME UNCHANGED <<work, writer, lane>>,
             \A c \in Commands : c \in Intaken' => c \in Intaken
      PROVE  Spread'
  <2>1. Active' = Active /\ Active \subseteq Commands
    BY <1>4, MembersFacts DEF Active, StoreInv, Types, WriterTypes
  <2>2. \A c \in Commands : c \in Intaken' \cup Active' => client'[c] = "queued"
    BY <1>2, <1>4, <2>1 DEF Spread
  <2>3. \A c \in Active' : c \notin Intaken'
    BY <1>4, <2>1 DEF Spread
  <2>4. \A i \in DOMAIN lane' : \A c \in Members(lane'[i].cmds) :
            client'[c] = "queued" /\ c \notin Intaken' \cup Active'
    BY <1>2, <1>4, <2>1, LaneMembers DEF Spread
  <2>5. \A i, j \in DOMAIN lane' : \A c \in Members(lane'[i].cmds) :
            i # j => c \notin Members(lane'[j].cmds)
    BY <1>4 DEF Spread
  <2> QED BY <2>2, <2>3, <2>4, <2>5 DEF Spread
<1>5. CASE SendShutdown
  <2>1. channel' = Append(channel, Shutdown) /\ UNCHANGED <<pending, work, writerVars, laneVars>>
    BY <1>5 DEF SendShutdown
  <2>2. Shutdown \in Messages /\ Shutdown \notin Commands
    BY DEF Messages, PipelineAssumption
  <2>3. Members(channel') = Members(channel) \cup {Shutdown}
    BY <1>3, <2>1, <2>2, MembersMoved
  <2>4. \A c \in Commands : c \in Intaken' => c \in Intaken
    BY <2>1, <2>2, <2>3 DEF Intaken
  <2> QED BY <1>1, <1>4, <2>1, <2>4 DEF writerVars, laneVars
<1>6. CASE IntakeAccept \/ IntakeCollect
  <2>1. /\ channel # <<>> /\ pending' = Append(pending, Head(channel)) /\ channel' = Tail(channel)
        /\ UNCHANGED <<work, writerVars, laneVars>>
    BY <1>6 DEF IntakeAccept, IntakeCollect
  <2>2. Head(channel) \in Messages /\ Head(channel) \in Members(channel)
        /\ Members(channel') \subseteq Members(channel)
    BY <1>3, <2>1, TailFacts, MembersMoved
  <2>3. Members(pending') = Members(pending) \cup {Head(channel)}
    BY <1>3, <2>1, <2>2, MembersMoved
  <2>4. \A c \in Commands : c \in Intaken' => c \in Intaken
    BY <2>2, <2>3 DEF Intaken
  <2> QED BY <1>1, <1>4, <2>1, <2>4 DEF writerVars, laneVars
<1>7. CASE FormNextUnit
  <2>1. PICK n \in 1 .. Len(pending) : work' = SubSeq(pending, 1, n) /\ pending' = Drop(pending, n)
    BY <1>7 DEF FormNextUnit
  <2>2. UNCHANGED <<channel, writer, lane>> /\ ~busy
    BY <1>7 DEF FormNextUnit, writerVars, laneVars
  <2>3. n \in 0 .. Len(pending) /\ Once(pending)
    BY <1>3 DEF Placed
  <2>4. Members(pending') \subseteq Members(pending)
    BY <1>3, <2>1, <2>3, MembersMoved
  <2>5. \A i \in DOMAIN work' : i \in DOMAIN pending /\ work'[i] = pending[i] /\ i \in Nat /\ i <= n
    BY <1>3, <2>1
  <2>6. Members(work') \subseteq Members(pending)
    BY <2>5 DEF Members
  <2>7. ASSUME NEW c \in Commands, c \in Members(work'), c \in Members(pending') PROVE FALSE
    <3>1. PICK i \in DOMAIN work' : work'[i] = c
      BY <2>7 DEF Members
    <3>2. PICK k \in DOMAIN pending' : pending'[k] = c
      BY <2>7 DEF Members
    <3>3. k \in Nat \ {0} /\ n + k \in DOMAIN pending /\ pending[n + k] = c
      <4>1. Drop(pending, n) \in Seq(Messages)
            /\ \A m \in DOMAIN Drop(pending, n) : n + m \in DOMAIN pending /\ Drop(pending, n)[m] = pending[n + m]
        BY <1>3, <2>3, DropFacts
      <4> QED BY <2>1, <3>2, <4>1
    <3>4. i = n + k
      BY <2>3, <2>5, <2>7, <3>1, <3>3 DEF Once
    <3> QED BY <2>3, <2>5, <3>3, <3>4
  <2>8. /\ Active' \subseteq Members(work')
        /\ Intaken' = Members(channel) \cup Members(pending') /\ Intaken' \subseteq Intaken
        /\ Active' \subseteq Intaken
    BY <2>2, <2>4, <2>6 DEF Active, Intaken
  <2>9. Active' \subseteq Commands
    <3>1. work' \in Seq(Commands)
      <4>1. Shutdown \notin Members(work')
        <5>1. \A m \in 1 .. Len(pending) : work' = SubSeq(pending, 1, m) => m = n
          BY <1>3, <2>1
        <5> QED BY <1>7, <5>1 DEF FormNextUnit
      <4>2. work' \in Seq(Messages) /\ \A i \in DOMAIN work' : work'[i] \in Commands
        BY <1>3, <2>1, <4>1 DEF Members, Messages
      <4> QED BY <4>2, SeqNarrowed
    <3> QED BY <2>8, <3>1, MembersFacts
  <2>10. \A c \in Commands : c \in Intaken' \cup Active' => client'[c] = "queued"
    BY <1>2, <2>8 DEF Spread
  <2>11. \A c \in Active' : c \notin Intaken'
    <3> SUFFICES ASSUME NEW c \in Active' PROVE c \notin Intaken'
      OBVIOUS
    <3>1. c \in Commands /\ c \in Members(work') /\ c \in Members(pending)
      BY <2>6, <2>8, <2>9
    <3>2. c \notin Members(channel)
      BY <3>1 DEF Placed
    <3> QED BY <2>7, <2>8, <3>1, <3>2
  <2>12. \A i \in DOMAIN lane' : \A c \in Members(lane'[i].cmds) :
            client'[c] = "queued" /\ c \notin Intaken' \cup Active'
    BY <1>2, <2>2, <2>8 DEF Spread
  <2>13. \A i, j \in DOMAIN lane' : \A c \in Members(lane'[i].cmds) :
            i # j => c \notin Members(lane'[j].cmds)
    BY <2>2 DEF Spread
  <2>14. Spread'
    BY <2>10, <2>11, <2>12, <2>13 DEF Spread
  <2> QED BY <1>1, <2>14
<1>8. CASE SubmitUnit
  <2>1. /\ writer = "submit" /\ lane' = Append(lane, unit) /\ writer' \in {"feedback", "postdrain"}
        /\ UNCHANGED <<channel, pending>>
    BY <1>8 DEF SubmitUnit, intakeVars
  <2>2. lane \in Seq(Units) /\ unit \in Units /\ unit.cmds = work /\ Active = Members(work)
    BY <2>1 DEF StoreInv, Types, WriterTypes, Handed, Active
  <2>3. Active' = {} /\ Intaken' = Intaken
    BY <2>1 DEF Active, Intaken
  <2>4. /\ DOMAIN lane' = 1 .. Len(lane) + 1 /\ DOMAIN lane = 1 .. Len(lane) /\ Len(lane) \in Nat
        /\ \A i \in DOMAIN lane : lane'[i] = lane[i]
        /\ lane'[Len(lane) + 1] = unit
    BY <2>1, <2>2
  <2>5. \A i \in DOMAIN lane' : (i \in DOMAIN lane /\ lane'[i] = lane[i])
                                \/ (i = Len(lane) + 1 /\ Members(lane'[i].cmds) = Active)
    BY <2>2, <2>4
  <2>6. Active \subseteq Commands
    BY <2>2, MembersFacts DEF Units
  <2>7. \A i \in DOMAIN lane' : \A c \in Members(lane'[i].cmds) :
            client'[c] = "queued" /\ c \notin Intaken' \cup Active'
    <3> SUFFICES ASSUME NEW i \in DOMAIN lane', NEW c \in Members(lane'[i].cmds)
                 PROVE  client'[c] = "queued" /\ c \notin Intaken' \cup Active'
      OBVIOUS
    <3>1. CASE i \in DOMAIN lane /\ lane'[i] = lane[i]
      BY <1>2, <2>3, <3>1 DEF Spread
    <3>2. CASE Members(lane'[i].cmds) = Active
      BY <1>2, <2>3, <2>6, <3>2 DEF Spread
    <3> QED BY <2>5, <3>1, <3>2
  <2>8. ASSUME NEW i \in DOMAIN lane', NEW j \in DOMAIN lane', NEW c \in Members(lane'[i].cmds), i # j
        PROVE  c \notin Members(lane'[j].cmds)
    <3>1. CASE i \in DOMAIN lane /\ lane'[i] = lane[i] /\ j \in DOMAIN lane /\ lane'[j] = lane[j]
      BY <2>8, <3>1 DEF Spread
    <3>2. CASE i \in DOMAIN lane /\ lane'[i] = lane[i] /\ Members(lane'[j].cmds) = Active
      BY <3>2 DEF Spread
    <3>3. CASE j \in DOMAIN lane /\ lane'[j] = lane[j] /\ Members(lane'[i].cmds) = Active
      BY <3>3 DEF Spread
    <3> QED BY <2>5, <2>8, <3>1, <3>2, <3>3
  <2>9. \A c \in Commands : c \in Intaken' \cup Active' => client'[c] = "queued"
    BY <1>2, <2>3 DEF Spread
  <2>10. \A c \in Active' : c \notin Intaken'
    BY <2>3
  <2>11. Spread'
    BY <2>7, <2>8, <2>9, <2>10 DEF Spread
  <2> QED BY <1>1, <2>11
<1> QED BY <1>5, <1>6, <1>7, <1>8

\* The answers that a step gives: errors that claim nothing, or results.
Errs == \E S : Told(S) /\ \A c \in Commands : c \in S => answer'[c].kind \notin Claims
Gives(S, res) == Told(S) /\ \A c \in Commands : c \in S => answer'[c] = res[c]

LEMMA TellingSteps ==
    ASSUME PipelineAssumption, OrderInv, Spread, [Next]_vars
    PROVE  /\ Spread'
           /\ \/ UNCHANGED callerVars \/ (\E c \in Commands : Goes(c)) \/ Errs
              \/ /\ CompleteGroup /\ frontier # "WriterPrivate"
                 /\ Gives(Members(work), results)
              \/ CompletionRelease /\ Gives(Members(lane[1].cmds), lane[1].results)
<1>1. CASE \/ UNCHANGED vars \/ InitiateShutdown \/ Journal \/ Settling
           \/ IntakeCollected \/ IntakeReturn \/ StoppedLifecycle \/ IntakeShutdown
           \/ DrainReady \/ ReceiveUnit \/ DrainOne \/ AdmitGroup \/ Stage \/ Direct
           \/ SendFeedback \/ (CompleteGroup /\ frontier = "WriterPrivate")
  BY <1>1, QuietSteps
<1>2. CASE SendShutdown \/ IntakeAccept \/ IntakeCollect \/ FormNextUnit \/ SubmitUnit
  BY <1>2, MoveSteps
<1>3. ASSUME NEW c \in Commands, Caller(c)
      PROVE  Spread' /\ (Errs \/ Goes(c))
  <2>1. CASE Refuse(c)
    <3>1. Spread' /\ Told({c}) /\ \A d \in Commands : d \in {c} => answer'[d].kind \notin Claims
      BY <2>1, RefuseTells
    <3> QED BY <3>1 DEF Errs
  <2>2. CASE ReserveCapacity(c) \/ BeginSubmission(c) \/ Submit(c)
    BY <2>2, SendSteps
  <2> QED BY <1>3, <2>1, <2>2 DEF Caller
<1>4. CASE IntakeFeedback
  BY <1>4, FeedbackTells DEF Errs
<1>5. CASE DrainReject
  BY <1>5, RejectTells DEF Errs
<1>6. CASE RejectWorkUnit
  BY <1>6, WorkTells DEF Errs
<1>7. CASE CompleteGroup /\ frontier # "WriterPrivate"
  BY <1>7, CompleteTells DEF Gives
<1>8. CASE CompletionRelease
  BY <1>8, ReleaseTells DEF Gives
<1>9. CASE CrashAndRecover
  BY <1>9, RestartTells DEF Errs
<1> QED BY <1>1, <1>2, <1>3, <1>4, <1>5, <1>6, <1>7, <1>8, <1>9
        DEF Next, Intake, Writer, Completion, Settling

\* Nobody is answered twice, and what was asked for stays asked for.
LEMMA UnsaidKept ==
    ASSUME PipelineAssumption, OrderInv, Spread, Unsaid, [Next]_vars
    PROVE  /\ Unsaid' /\ Asked \subseteq Asked'
           /\ \A c \in Commands : answer'[c] # answer[c] => answer[c] = Unanswered
<1>1. ASSUME NEW S, Told(S)
      PROVE  /\ \A c \in Commands : client'[c] # "done" => client[c] # "done" /\ answer'[c] = answer[c]
             /\ \A c \in Commands : client[c] # "idle" => client'[c] # "idle"
             /\ \A c \in Commands : answer'[c] # answer[c] => client[c] # "done"
  BY <1>1 DEF Told
<1>2. ASSUME NEW c \in Commands, Goes(c)
      PROVE  /\ \A d \in Commands : client'[d] # "done" => client[d] # "done" /\ answer'[d] = answer[d]
             /\ \A d \in Commands : client[d] # "idle" => client'[d] # "idle"
             /\ \A d \in Commands : answer'[d] # answer[d] => client[d] # "done"
  BY <1>2 DEF Goes
<1>3. CASE UNCHANGED callerVars
  BY <1>3 DEF callerVars, Unsaid, Asked
<1>4. ASSUME \A c \in Commands : client'[c] # "done" => client[c] # "done" /\ answer'[c] = answer[c],
             \A c \in Commands : client[c] # "idle" => client'[c] # "idle",
             \A c \in Commands : answer'[c] # answer[c] => client[c] # "done"
      PROVE  /\ Unsaid' /\ Asked \subseteq Asked'
             /\ \A c \in Commands : answer'[c] # answer[c] => answer[c] = Unanswered
  BY <1>4 DEF Unsaid, Asked, Unanswered, Says
<1>5. CASE \E S : Told(S)
  BY <1>1, <1>4, <1>5
<1>6. CASE \E c \in Commands : Goes(c)
  BY <1>2, <1>4, <1>6
<1> QED BY <1>3, <1>5, <1>6, TellingSteps DEF Errs, Gives

-----------------------------------------------------------------------------
(* Records and the commands asked for.                                     *)

LEMMA DrivenAsked ==
    ASSUME StoreInv, Spread, writer \in {"stage", "seal", "direct", "complete", "submit"}
    PROVE  Members(work) \subseteq Asked /\ Members(todo) \subseteq Asked
<1>1. Members(work) \subseteq Commands
  BY MembersFacts DEF StoreInv, Types, WriterTypes
<1>2. Active = Members(work) /\ Members(todo) \subseteq Members(work)
  BY DEF Active, StoreInv, Handed
<1>3. \A c \in Members(work) : c \in Commands /\ client[c] = "queued"
  BY <1>1, <1>2 DEF Spread
<1> QED BY <1>2, <1>3 DEF Asked

LEMMA KnownKept ==
    ASSUME PipelineAssumption, OrderInv, Spread, Known, [Next]_vars, Asked \subseteq Asked'
    PROVE  Known'
<1> USE DEF OrderInv
<1>0. /\ log \in Seq(Commands) /\ todo \in Seq(Commands) /\ Len(log) \in Nat
      /\ durable \in Nat /\ durable <= Len(log)
  BY DEF StoreInv, Types, WriterTypes, StoreTypes, Sealed
<1>1. SUFFICES \A i \in DOMAIN log' : log'[i] \in Asked
  BY DEF Known
<1>2. ASSUME log' = log PROVE \A i \in DOMAIN log' : log'[i] \in Asked
  BY <1>2 DEF Known
<1>3. CASE Aside \/ AdmitGroup \/ RejectWorkUnit
  BY <1>2, <1>3 DEF Aside, AdmitGroup, RejectWorkUnit, storeVars, fenceVars
<1>4. CASE \/ StageResolves \/ StageBegin \/ DrainReady \/ ReceiveUnit \/ DrainOne
           \/ CompleteGroup \/ SubmitUnit \/ SendFeedback
           \/ JournalFlush \/ Marks
           \/ CompletionFence \/ CompletionFails
  BY <1>2, <1>4 DEF StageResolves, StageBegin, DrainReady, ReceiveUnit, DrainOne,
     CompleteGroup, SubmitUnit, SendFeedback, JournalFlush, Marks,
     CompletionFence, CompletionFails, storeVars, fenceVars
<1>5. CASE CompletionRelease
  BY <1>2, <1>5 DEF CompletionRelease, storeVars, fenceVars
<1>6. CASE StageSeal
  <2>1. log' = log \o todo /\ writer = "seal"
    BY <1>6, DeferredFacts
  <2>2. \A i \in DOMAIN todo : todo[i] \in Asked
    BY <2>1, DrivenAsked DEF Members
  <2>3. \A i \in DOMAIN log' : log'[i] = IF i <= Len(log) THEN log[i] ELSE todo[i - Len(log)]
    BY <1>0, <2>1
  <2>4. \A i \in DOMAIN log' : i \in DOMAIN log \/ (i - Len(log) \in DOMAIN todo /\ ~(i <= Len(log)))
    <3>1. /\ DOMAIN log = 1 .. Len(log) /\ DOMAIN todo = 1 .. Len(todo) /\ Len(todo) \in Nat
          /\ DOMAIN log' = 1 .. Len(log) + Len(todo)
      BY <1>0, <2>1
    <3> QED BY <1>0, <3>1
  <2>5. \A i \in DOMAIN log : i <= Len(log)
    BY <1>0
  <2> QED BY <2>2, <2>3, <2>4, <2>5 DEF Known
<1>7. ASSUME NEW r \in Answers, DirectMoves(r), DirectKeeps(r) \/ DirectWins(r) \/ DirectRisks(r)
      PROVE  \A i \in DOMAIN log' : log'[i] \in Asked
  <2>1. CASE DirectKeeps(r)
    BY <1>2, <2>1 DEF DirectKeeps
  <2>2. CASE DirectWins(r) \/ DirectRisks(r)
    <3>1. log' = Append(log, Head(todo)) /\ writer = "direct" /\ todo # <<>>
      BY <1>7, <2>2 DEF DirectMoves, DirectWins, DirectRisks
    <3>2. Head(todo) \in Members(todo)
      BY <1>0, <3>1, MembersMoved
    <3>3. Head(todo) \in Asked /\ Head(todo) \in Commands
      BY <3>1, <3>2, DrivenAsked DEF Asked
    <3>4. \A i \in DOMAIN log' : (i \in DOMAIN log /\ log'[i] = log[i]) \/ log'[i] = Head(todo)
      BY <1>0, <3>1, <3>3
    <3> QED BY <3>3, <3>4 DEF Known
  <2> QED BY <1>7, <2>1, <2>2
<1>8. CASE CrashAndRecover
  <2>1. PICK n \in Recoverable : log' = SubSeq(log, 1, n)
    BY <1>8, Zenon DEF CrashAndRecover
  <2>2. n \in Nat /\ n <= Len(log)
    BY <1>0 DEF Recoverable, StoreInv, Types, StoreTypes, Sealed
  <2>3. \A i \in DOMAIN log' : i \in DOMAIN log /\ log'[i] = log[i]
    BY <1>0, <2>1, <2>2
  <2> QED BY <2>3 DEF Known
<1> QED BY <1>3, <1>4, <1>5, <1>6, <1>7, <1>8, StepKinds

-----------------------------------------------------------------------------
(* Replays and mismatches among the results.                               *)

\* A lookup finds what it says.
LEMMA RecheckTruth ==
    ASSUME NEW c, NEW s \in Seq(Commands)
    PROVE  /\ RecheckAdmission(c, s).kind = "Replay" =>
                 /\ RecheckAdmission(c, s).seq \in 1 .. Len(s)
                 /\ SameCommand(c, s[RecheckAdmission(c, s).seq])
           /\ RecheckAdmission(c, s).kind = "InputMismatch" =>
                 \E i \in DOMAIN s : OtherInput(c, s[i])
<1>1. CASE Matches(c, s) = {}
  <2>1. RecheckAdmission(c, s).kind = "Vacant"
    BY <1>1, RecheckFacts
  <2> QED BY <2>1
<1>2. CASE Matches(c, s) # {}
  <2> DEFINE i == CHOOSE i \in Matches(c, s) : TRUE
  <2>1. i \in Matches(c, s)
    BY <1>2
  <2>2. i \in DOMAIN s /\ KeyOf[s[i]] = KeyOf[c] /\ i \in 1 .. Len(s)
    BY <2>1 DEF Matches
  <2>3. RecheckAdmission(c, s) = IF InputOf[s[i]] = InputOf[c]
                                 THEN [kind |-> "Replay", seq |-> i] ELSE Says("InputMismatch")
    BY <1>2 DEF RecheckAdmission
  <2> HIDE DEF i
  <2>4. CASE InputOf[s[i]] = InputOf[c]
    <3>1. RecheckAdmission(c, s).kind = "Replay" /\ RecheckAdmission(c, s).seq = i
      BY <2>3, <2>4
    <3> QED BY <2>2, <2>4, <3>1 DEF SameCommand
  <2>5. CASE InputOf[s[i]] # InputOf[c]
    <3>1. RecheckAdmission(c, s).kind = "InputMismatch"
      BY <2>3, <2>5 DEF Says
    <3> QED BY <2>2, <2>5, <3>1 DEF OtherInput
  <2> QED BY <2>4, <2>5
<1> QED BY <1>1, <1>2

\* So a result of a lookup in a prefix of the records is supported by them.
LEMMA LookupSupported ==
    ASSUME NEW c, NEW s \in Seq(Commands), NEW n \in 0 .. Len(s), NEW known,
           \A i \in DOMAIN s : s[i] \in known
    PROVE  Supported(c, RecheckAdmission(c, SubSeq(s, 1, n)), Len(s), s, known)
<1> DEFINE t == SubSeq(s, 1, n)
<1>1. /\ t \in Seq(Commands) /\ Len(t) = n /\ n \in Nat /\ n <= Len(s)
      /\ \A i \in DOMAIN t : i \in DOMAIN s /\ t[i] = s[i]
  OBVIOUS
<1>2. DOMAIN t = 1 .. n
  BY <1>1
<1> HIDE DEF t
<1> DEFINE r == RecheckAdmission(c, t)
<1>3. r.kind = "Replay" => r.seq \in 1 .. n /\ SameCommand(c, t[r.seq])
  BY <1>1, RecheckTruth
<1>4. r.kind = "InputMismatch" => \E i \in DOMAIN t : OtherInput(c, t[i])
  BY <1>1, RecheckTruth
<1> HIDE DEF r
<1>5. Supported(c, r, Len(s), s, known)
  BY <1>1, <1>2, <1>3, <1>4 DEF Supported
<1> QED BY <1>5 DEF r, t

LEMMA Plain ==
    ASSUME NEW c, NEW r, r.kind \notin {"Replay", "InputMismatch"}, NEW n, NEW records, NEW known
    PROVE  Supported(c, r, n, records, known)
BY DEF Supported

LEMMA HonestChanged ==
    ASSUME NEW res \in Outcomes, NEW records, NEW known, Honest(res, records, known), NEW x, NEW r,
           Supported(x, r, Len(records), records, known)
    PROVE  Honest([res EXCEPT ![x] = r], records, known)
BY OutcomeFacts DEF Honest

LEMMA HonestWith ==
    ASSUME NEW S, NEW k \in AnswerKinds, k \notin {"Replay", "InputMismatch"},
           results \in Outcomes, Honest(results, log, Asked)
    PROVE  Honest(With(S, k), log, Asked)
<1> SUFFICES ASSUME NEW c \in DOMAIN With(S, k)
             PROVE  Supported(c, With(S, k)[c], Len(log), log, Asked)
  BY DEF Honest
<1>1. c \in DOMAIN results /\ With(S, k)[c] = IF c \in S THEN Says(k) ELSE results[c]
  BY WithFacts
<1>2. Says(k).kind \notin {"Replay", "InputMismatch"}
  BY SaysFacts
<1>3. CASE c \in S
  BY <1>1, <1>2, <1>3, Plain
<1>4. CASE c \notin S
  BY <1>1, <1>4 DEF Honest
<1> QED BY <1>3, <1>4

\* Records are added and commands are asked for.
LEMMA HonestKept ==
    ASSUME NEW res, NEW s \in Seq(Commands), NEW t \in Seq(Commands), NEW K, NEW L,
           Len(s) <= Len(t), \A i \in 1 .. Len(s) : t[i] = s[i], K \subseteq L, Honest(res, s, K)
    PROVE  Honest(res, t, L)
<1> SUFFICES ASSUME NEW c \in DOMAIN res PROVE Supported(c, res[c], Len(t), t, L)
  BY DEF Honest
<1>1. Supported(c, res[c], Len(s), s, K)
  BY DEF Honest
<1>2. Len(s) \in Nat /\ Len(t) \in Nat
  OBVIOUS
<1> QED BY <1>1, <1>2 DEF Supported

\* The lookups of the writer.
LEMMA FrontierLookups ==
    ASSUME StoreInv, Known, NEW c
    PROVE  /\ Supported(c, RecheckAdmission(c, PublishedRecords), Len(log), log, Asked)
           /\ Supported(c, RecheckAdmission(c, log), Len(log), log, Asked)
<1>1. /\ log \in Seq(Commands) /\ published \in 0 .. Len(log) /\ Len(log) \in 0 .. Len(log)
      /\ \A i \in DOMAIN log : log[i] \in Asked
  BY DEF StoreInv, Types, StoreTypes, Sealed, Known
<1>2. SubSeq(log, 1, Len(log)) = log
  BY <1>1
<1>3. Supported(c, RecheckAdmission(c, SubSeq(log, 1, published)), Len(log), log, Asked)
  BY <1>1, LookupSupported
<1>4. Supported(c, RecheckAdmission(c, SubSeq(log, 1, Len(log))), Len(log), log, Asked)
  BY <1>1, LookupSupported
<1> QED BY <1>2, <1>3, <1>4 DEF PublishedRecords

LEMMA DirectHonest ==
    ASSUME StoreInv, Known, Honest(results, log, Asked), Direct
    PROVE  Honest(results', log, Asked)
<1>1. results \in Outcomes
  BY DEF StoreInv, Types, WriterTypes
<1> DEFINE x == Head(todo)
<1>2. /\ Supported(x, RecheckAdmission(x, PublishedRecords), Len(log), log, Asked)
      /\ Supported(x, RecheckAdmission(x, log), Len(log), log, Asked)
  BY FrontierLookups
<1>3. ASSUME NEW r, DirectStep(r), Supported(x, r, Len(log), log, Asked)
      PROVE  Honest(results', log, Asked)
  <2>1. results' = [results EXCEPT ![x] = r]
    BY <1>3 DEF DirectStep
  <2> QED BY <1>1, <1>3, <2>1, HonestChanged
<1>4. ASSUME NEW r, DirectStep(r), r.kind \notin {"Replay", "InputMismatch"}
      PROVE  Honest(results', log, Asked)
  BY <1>3, <1>4, Plain
<1>5. /\ Says("InternalDefect").kind \notin {"Replay", "InputMismatch"}
      /\ Says("Failed").kind \notin {"Replay", "InputMismatch"}
      /\ Says("OutcomeUncertain").kind \notin {"Replay", "InputMismatch"}
      /\ [kind |-> "FirstCommit", seq |-> Len(log) + 1].kind \notin {"Replay", "InputMismatch"}
  BY DEF Says
<1>6. CASE DirectReplay
  <2>1. \/ DirectStep(RecheckAdmission(x, PublishedRecords))
        \/ DirectStep(Says("InternalDefect"))
    BY <1>6 DEF DirectReplay
  <2> QED BY <1>2, <1>3, <1>4, <1>5, <2>1
<1>7. CASE DirectFenced \/ DirectPrefixFails
  <2>1. DirectStep(Says("Failed")) \/ DirectStep(Says("InternalDefect"))
    BY <1>7 DEF DirectFenced, DirectPrefixFails
  <2> QED BY <1>4, <1>5, <2>1
<1>8. CASE DirectCommit
  <2>1. \/ DirectStep(RecheckAdmission(x, log))
        \/ DirectStep([kind |-> "FirstCommit", seq |-> Len(log) + 1])
    BY <1>8 DEF DirectCommit
  <2> QED BY <1>2, <1>3, <1>4, <1>5, <2>1
<1>9. CASE DirectAbort
  <2>1. DirectStep(Says("Failed")) \/ DirectStep(Says("InternalDefect"))
    BY <1>9 DEF DirectAbort
  <2> QED BY <1>4, <1>5, <2>1
<1>10. CASE DirectUnknown
  <2>1. \/ DirectStep([kind |-> "FirstCommit", seq |-> Len(log) + 1])
        \/ DirectStep(Says("Failed")) \/ DirectStep(Says("OutcomeUncertain"))
    BY <1>10 DEF DirectUnknown
  <2> QED BY <1>4, <1>5, <2>1
<1> QED BY <1>6, <1>7, <1>8, <1>9, <1>10 DEF Direct

LEMMA StageHonest ==
    ASSUME StoreInv, Spread, Known, Honest(results, log, Asked), Stage
    PROVE  Honest(results', log, Asked)
<1>1. results \in Outcomes /\ todo \in Seq(Commands)
  BY DEF StoreInv, Types, WriterTypes
<1>2. CASE StageIneligible \/ StageFenced \/ StageSealFails
  <2>1. PICK k \in {"InternalDefect", "Failed", "OutcomeUncertain"} :
           \E S : results' = With(S, k)
    BY <1>2, Zenon DEF StageIneligible, StageFenced, StageSealFails
  <2>2. k \in AnswerKinds /\ k \notin {"Replay", "InputMismatch"}
    BY DEF AnswerKinds
  <2> QED BY <1>1, <2>1, <2>2, HonestWith
<1>3. CASE StageReplay
  <2> DEFINE i == CHOOSE i \in Resolved : \A j \in Resolved : i <= j
             x == todo[i]
  <2>1. results' = [results EXCEPT ![x] = RecheckAdmission(x, log)]
    BY <1>3 DEF StageReplay
  <2> HIDE DEF x
  <2>2. Supported(x, RecheckAdmission(x, log), Len(log), log, Asked)
    BY FrontierLookups
  <2> QED BY <1>1, <2>1, <2>2, HonestChanged
<1>4. CASE StageBegin \/ StageSeal \/ StageDirect
  BY <1>4 DEF StageBegin, StageSeal, StageDirect, unitVars
<1>5. CASE StagePeerMismatch
  <2>1. PICK i \in DOMAIN todo :
          /\ RecheckAdmission(todo[i], SubSeq(todo, 1, i - 1)).kind = "InputMismatch"
          /\ results' = [results EXCEPT ![todo[i]] = Says("InputMismatch")]
    BY <1>5 DEF StagePeerMismatch
  <2> DEFINE t == SubSeq(todo, 1, i - 1)
             x == todo[i]
  <2>2. t \in Seq(Commands) /\ \A j \in DOMAIN t : j \in DOMAIN todo /\ t[j] = todo[j]
    BY <1>1
  <2>3. Members(todo) \subseteq Asked
    BY <1>5, DrivenAsked DEF StagePeerMismatch
  <2> HIDE DEF t, x
  <2>4. \E j \in DOMAIN t : OtherInput(x, t[j])
    BY <2>1, <2>2, RecheckTruth DEF t, x
  <2>5. \E d \in Asked : OtherInput(x, d)
    BY <2>2, <2>3, <2>4 DEF Members
  <2>6. Supported(x, Says("InputMismatch"), Len(log), log, Asked)
    BY <2>5 DEF Supported, Says
  <2>7. results' = [results EXCEPT ![x] = Says("InputMismatch")]
    BY <2>1 DEF x
  <2> QED BY <1>1, <2>6, <2>7, HonestChanged
<1> QED BY <1>2, <1>3, <1>4, <1>5 DEF Stage

LEMMA ResultsHonest ==
    ASSUME PipelineAssumption, OrderInv, Spread, Known, Honest(results, log, Asked), [Next]_vars,
           Asked \subseteq Asked'
    PROVE  Honest(results', log', Asked')
<1> USE DEF OrderInv
<1>1. ASSUME \A c : c \notin DOMAIN results' PROVE Honest(results', log', Asked')
  BY <1>1 DEF Honest
<1>2. CASE CrashAndRecover \/ SendFeedback
  <2>1. results' = [c \in {} |-> Vacant]
    BY <1>2, Zenon DEF CrashAndRecover, SendFeedback
  <2> QED BY <1>1, <2>1
<1>3. ASSUME Honest(results', log, Asked), ~CrashAndRecover PROVE Honest(results', log', Asked')
  <2>1. log \in Seq(Commands) /\ log' \in Seq(Commands)
    BY TypesKept DEF StoreInv, Types, StoreTypes
  <2>2. Len(log) <= Len(log') /\ \A i \in 1 .. Len(log) : log'[i] = log[i]
    BY <1>3, GrowSteps DEF Grows
  <2> QED BY <1>3, <2>1, <2>2, HonestKept
<1>4. CASE Stage
  BY <1>2, <1>3, <1>4, StageHonest
<1>5. CASE Direct
  BY <1>2, <1>3, <1>5, DirectHonest
<1>6. CASE AdmitGroup
  <2>1. results' = [c \in Members(work) |-> RecheckAdmission(c, PublishedRecords)]
    BY <1>6 DEF AdmitGroup
  <2>2. Honest(results', log, Asked)
    BY <2>1, FrontierLookups DEF Honest
  <2> QED BY <1>2, <1>3, <2>2
<1>7. CASE UNCHANGED results
  BY <1>2, <1>3, <1>7
<1>8. CASE \/ InitiateShutdown \/ SendShutdown \/ Intake
           \/ \E c \in Commands : Caller(c)
  BY <1>7, <1>8, AsideSteps DEF Aside, writerVars, unitVars
<1>9. CASE \/ UNCHANGED vars \/ DrainReady \/ ReceiveUnit \/ DrainOne \/ RejectWorkUnit
           \/ CompleteGroup \/ SubmitUnit \/ Journal \/ Completion
  <2>1. UNCHANGED results
    BY <1>9 DEF vars, DrainReady, ReceiveUnit, DrainOne, RejectWorkUnit, CompleteGroup, SubmitUnit,
       Journal, JournalFlush, JournalFails, JournalEnds, Completion, CompletionFence,
       PublicationFails, JournalErrorFences, CompletionFails, CompletionRelease,
       writerVars, unitVars
  <2> QED BY <1>7, <2>1
<1> QED BY <1>2, <1>4, <1>5, <1>6, <1>8, <1>9 DEF Next, Writer

-----------------------------------------------------------------------------
(* Replays in the lane.                                                    *)

\* Where the unit of the writer comes from.
LEMMA UnitSteps ==
    ASSUME PipelineAssumption, StoreInv, [Next]_vars, writer' = "submit"
    PROVE  \/ StageSeal \/ (CompleteGroup /\ frontier = "WriterPrivate")
           \/ (writer = "submit" /\ UNCHANGED unit)
<1>1. CASE CompleteGroup
  BY <1>1 DEF CompleteGroup
<1>2. CASE DrainOne
  BY <1>2 DEF DrainOne, unitVars
<1>3. CASE \/ Aside \/ JournalFlush \/ Marks
           \/ CompletionFence \/ CompletionFails \/ CompletionRelease
  <2>1. UNCHANGED <<writer, unit>>
    BY <1>3 DEF Aside, JournalFlush, Marks, CompletionFence, CompletionFails, CompletionRelease,
       writerVars, unitVars
  <2> QED BY <2>1
<1>4. ~CrashAndRecover
  <2>1. CrashAndRecover => writer' = "top"
    BY Zenon DEF CrashAndRecover
  <2> QED BY <2>1
<1>5. ~AdmitGroup
  BY AdmitFacts
<1>6. /\ ~StageResolves /\ ~StageBegin /\ ~DrainReady /\ ~ReceiveUnit /\ ~RejectWorkUnit
      /\ ~SubmitUnit /\ ~SendFeedback /\ \A r \in Answers : ~DirectMoves(r)
  BY DEF StageResolves, StageBegin, DrainReady, ReceiveUnit, RejectWorkUnit, SubmitUnit, SendFeedback,
     DirectMoves
<1> QED BY <1>1, <1>2, <1>3, <1>4, <1>5, <1>6, StepKinds

LEMMA CalmLane ==
    ASSUME PipelineAssumption, StoreInv, Calm, [Next]_vars
    PROVE  UNCHANGED lane \/ SubmitUnit \/ CompletionRelease \/ CrashAndRecover
<1>1. ~CompletionFails
  BY DEF CompletionFails, Calm
<1>2. CASE \/ Aside \/ AdmitGroup \/ StageResolves \/ StageBegin \/ StageSeal \/ DrainReady
           \/ ReceiveUnit \/ DrainOne \/ RejectWorkUnit \/ CompleteGroup
           \/ SendFeedback \/ JournalFlush \/ Marks \/ CompletionFence
  BY <1>2 DEF Aside, AdmitGroup, StageResolves, StageBegin, StageSeal, DrainReady, ReceiveUnit,
     DrainOne, RejectWorkUnit, CompleteGroup, SendFeedback, JournalFlush, Marks,
     CompletionFence, laneVars
<1>3. ASSUME NEW r \in Answers, DirectMoves(r) PROVE UNCHANGED lane
  BY <1>3 DEF DirectMoves, laneVars
<1> QED BY <1>1, <1>2, <1>3, StepKinds

\* More is published and units come behind.
LEMMA ReachesMore ==
    ASSUME NEW res \in Outcomes, NEW units, NEW more, NEW k \in Nat, NEW m \in Nat, k <= m,
           NEW n \in Nat, NEW p \in Nat, n <= p,
           \A j \in 1 .. k : more[j] = units[j], Reaches(res, units, k, n)
    PROVE  Reaches(res, more, m, p)
<1> SUFFICES ASSUME NEW c \in DOMAIN res, res[c].kind = "Replay"
             PROVE  \/ res[c].seq <= p
                    \/ \E j \in 1 .. m : more[j].kind = "Fence" /\ res[c].seq <= more[j].upto
  BY DEF Reaches
<1>1. res[c].seq \in Nat
  <2>1. res[c] \in Answers
    BY OutcomeFacts
  <2> QED BY <2>1 DEF Answers
<1>2. CASE res[c].seq <= n
  BY <1>1, <1>2
<1>3. CASE \E j \in 1 .. k : units[j].kind = "Fence" /\ res[c].seq <= units[j].upto
  BY <1>3
<1> QED BY <1>2, <1>3 DEF Reaches

\* The first unit leaves, and if it is a fence it is published.
LEMMA ReachesTail ==
    ASSUME StoreInv, Calm, CompletionRelease, NEW res \in Outcomes, NEW k \in 1 .. Len(lane),
           Reaches(res, lane, k, published)
    PROVE  Reaches(res, lane', k - 1, published')
<1>1. /\ lane # <<>> /\ lane' = Tail(lane) /\ (released \/ Head(lane).kind = "AfterPredecessor")
      /\ UNCHANGED storeVars
  BY Zenon DEF CompletionRelease
<1>2. published' = published
  BY <1>1 DEF storeVars, fenceVars
<1>3. lane \in Seq(Units) /\ published \in Nat
  BY DEF StoreInv, Types, WriterTypes, StoreTypes
<1>4. /\ Head(lane) = lane[1] /\ lane[1] \in Units
      /\ \A i \in DOMAIN Tail(lane) : Tail(lane)[i] = lane[i + 1]
      /\ DOMAIN Tail(lane) = 1 .. Len(lane) - 1
  BY <1>1, <1>3, TailFacts
<1>5. lane[1].kind = "Fence" => lane[1].upto <= published
  BY <1>1, <1>4 DEF StoreInv, Carried, Calm
<1>6. lane[1].upto \in Nat
  BY <1>4 DEF Units
<1> SUFFICES ASSUME NEW c \in DOMAIN res, res[c].kind = "Replay"
             PROVE  \/ res[c].seq <= published'
                    \/ \E j \in 1 .. k - 1 : lane'[j].kind = "Fence" /\ res[c].seq <= lane'[j].upto
  BY DEF Reaches
<1>7. res[c].seq \in Nat
  <2>1. res[c] \in Answers
    BY OutcomeFacts
  <2> QED BY <2>1 DEF Answers
<1>8. CASE res[c].seq <= published
  BY <1>2, <1>8
<1>9. ASSUME NEW j \in 1 .. k, lane[j].kind = "Fence", res[c].seq <= lane[j].upto
      PROVE  \/ res[c].seq <= published'
             \/ \E i \in 1 .. k - 1 : lane'[i].kind = "Fence" /\ res[c].seq <= lane'[i].upto
  <2>1. CASE j = 1
    BY <1>2, <1>3, <1>5, <1>6, <1>7, <1>9, <2>1
  <2>2. CASE j # 1
    <3>1. j - 1 \in 1 .. k - 1 /\ j - 1 \in 1 .. Len(lane) - 1 /\ (j - 1) + 1 = j
      BY <1>3, <2>2
    <3>2. lane'[j - 1] = lane[j]
      BY <1>1, <1>4, <3>1
    <3> QED BY <1>9, <3>1, <3>2
  <2> QED BY <2>1, <2>2
<1> QED BY <1>8, <1>9 DEF Reaches

\* What is not published is behind a fence of the lane.
LEMMA ResultsReach ==
    ASSUME StoreInv, Calm, Honest(results, log, Asked), writer = "complete"
    PROVE  Reaches(results, lane, Len(lane), published)
<1>1. /\ lane \in Seq(Units) /\ published \in Nat /\ Len(log) \in Nat
      /\ DOMAIN lane = 1 .. Len(lane)
  BY DEF StoreInv, Types, WriterTypes, StoreTypes
<1> SUFFICES ASSUME NEW c \in DOMAIN results, results[c].kind = "Replay", ~(results[c].seq <= published)
             PROVE  \E j \in 1 .. Len(lane) : lane[j].kind = "Fence" /\ results[c].seq <= lane[j].upto
  BY DEF Reaches
<1>2. results[c].seq \in 1 .. Len(log)
  BY DEF Honest, Supported
<1>3. Base = Len(log)
  BY DEF Base
<1>4. published < Base
  BY <1>1, <1>2, <1>3
<1>5. \E i \in DOMAIN lane : lane[i].kind = "Fence" /\ lane[i].upto = Base
  BY <1>4 DEF StoreInv, Covered, Calm
<1> QED BY <1>1, <1>2, <1>3, <1>5

\* What was supported stays so, except over a restart.
LEMMA StaysHonest ==
    ASSUME PipelineAssumption, StoreInv, [Next]_vars, ~CrashAndRecover, Asked \subseteq Asked',
           NEW res, Honest(res, log, Asked)
    PROVE  Honest(res, log', Asked')
<1>1. log \in Seq(Commands) /\ log' \in Seq(Commands)
  BY TypesKept DEF StoreInv, Types, StoreTypes
<1>2. Len(log) <= Len(log') /\ \A i \in 1 .. Len(log) : log'[i] = log[i]
  BY GrowSteps DEF Grows
<1> QED BY <1>1, <1>2, HonestKept

LEMMA UnitReplays ==
    ASSUME PipelineAssumption, OrderInv, Calm, Replays, [Next]_vars, Asked \subseteq Asked',
           writer' = "submit"
    PROVE  /\ Honest(unit'.results, log', Asked')
           /\ unit'.kind = "AfterPredecessor" =>
                 Reaches(unit'.results, lane', Len(lane'), published')
<1> USE DEF OrderInv
<1>1. /\ lane \in Seq(Units) /\ Len(lane) \in Nat /\ published \in Nat /\ published' \in Nat
      /\ results \in Outcomes /\ todo \in Seq(Commands) /\ Len(log) \in Nat
  <2>1. Types /\ Types'
    BY TypesKept DEF StoreInv
  <2>2. lane \in Seq(Units) /\ results \in Outcomes /\ todo \in Seq(Commands)
    BY <2>1, Zenon DEF Types, WriterTypes
  <2>3. log \in Seq(Commands) /\ published \in Nat /\ published' \in Nat
    BY <2>1, Zenon DEF Types, StoreTypes
  <2>4. Len(lane) \in Nat /\ Len(log) \in Nat
    BY <2>2, <2>3
  <2> QED BY <2>2, <2>3, <2>4
<1>2. ~CrashAndRecover
  <2>1. CrashAndRecover => writer' = "top"
    BY Zenon DEF CrashAndRecover
  <2> QED BY <2>1
<1>3. published <= published'
  BY <1>2, GrowSteps DEF Grows
<1>4. CASE StageSeal
  <2>1. unit'.kind = "Fence" /\ unit'.results = FirstCommits(todo, Len(log))
    BY <1>4, DeferredFacts
  <2> DEFINE f == FirstCommits(todo, Len(log))
  <2>2. \A c \in DOMAIN f : c \in DOMAIN results /\ (f[c].kind = "FirstCommit" \/ f[c] = results[c])
    <3>1. /\ DOMAIN f = DOMAIN results
          /\ \A c \in DOMAIN results :
                 IF c \in Members(todo)
                 THEN \E i \in DOMAIN todo : /\ todo[i] = c
                         /\ f[c] = [kind |-> "FirstCommit", seq |-> Len(log) + i]
                 ELSE f[c] = results[c]
      BY <1>1, FirstCommitsFacts
    <3> HIDE DEF f
    <3> QED BY <3>1
  <2> HIDE DEF f
  <2>3. Honest(f, log, Asked)
    <3> SUFFICES ASSUME NEW c \in DOMAIN f PROVE Supported(c, f[c], Len(log), log, Asked)
      BY DEF Honest
    <3>1. CASE f[c].kind = "FirstCommit"
      BY <3>1, Plain
    <3>2. CASE f[c] = results[c]
      BY <2>2, <3>2 DEF Replays, Honest
    <3> QED BY <2>2, <3>1, <3>2
  <2>4. Honest(f, log', Asked')
    BY <1>2, <2>3, StaysHonest
  <2> QED BY <2>1, <2>4 DEF f
<1>5. CASE CompleteGroup /\ frontier = "WriterPrivate"
  <2>1. unit'.results = results /\ writer = "complete"
    BY <1>5, BehindFacts DEF CompleteGroup
  <2>2. UNCHANGED <<lane, published>>
    BY <1>5 DEF CompleteGroup, laneVars, storeVars, fenceVars
  <2>3. Reaches(results, lane, Len(lane), published)
    BY <2>1, ResultsReach DEF Replays
  <2>4. Honest(results, log', Asked')
    BY <1>2, StaysHonest DEF Replays
  <2> QED BY <2>1, <2>2, <2>3, <2>4
<1>6. CASE writer = "submit" /\ UNCHANGED unit
  <2>1. Honest(unit.results, log', Asked')
    BY <1>2, <1>6, StaysHonest DEF Replays
  <2>2. unit.results \in Outcomes
    BY <1>6 DEF StoreInv, Handed, Units
  <2>3. ASSUME unit.kind = "AfterPredecessor"
        PROVE  Reaches(unit.results, lane', Len(lane'), published')
    <3>1. Reaches(unit.results, lane, Len(lane), published)
      BY <1>6, <2>3 DEF Replays
    <3>2. CASE UNCHANGED lane
      BY <1>1, <1>3, <2>2, <3>1, <3>2, ReachesMore
    <3>3. CASE CompletionRelease
      <4>1. lane # <<>> /\ lane' = Tail(lane)
        BY <3>3, Zenon DEF CompletionRelease
      <4>2. Len(lane) \in 1 .. Len(lane) /\ Len(lane') = Len(lane) - 1
        BY <1>1, <4>1
      <4>3. Reaches(unit.results, lane', Len(lane) - 1, published')
        BY <2>2, <3>1, <3>3, <4>2, ReachesTail
      <4> QED BY <4>2, <4>3
    <3>4. ~SubmitUnit
      BY DEF SubmitUnit
    <3> QED BY <1>2, <3>2, <3>3, <3>4, CalmLane
  <2> QED BY <1>6, <2>1, <2>3
<1> QED BY <1>4, <1>5, <1>6, UnitSteps

LEMMA LaneReplays ==
    ASSUME PipelineAssumption, OrderInv, Calm, Replays, [Next]_vars, Asked \subseteq Asked',
           NEW i \in DOMAIN lane'
    PROVE  Honest(lane'[i].results, log', Asked') /\ Reaches(lane'[i].results, lane', i, published')
<1> USE DEF OrderInv
<1>1. /\ lane \in Seq(Units) /\ Len(lane) \in Nat /\ published \in Nat /\ published' \in Nat
      /\ DOMAIN lane = 1 .. Len(lane) /\ lane' \in Seq(Units) /\ DOMAIN lane' = 1 .. Len(lane')
      /\ Len(log) \in Nat
  <2>1. Types /\ Types'
    BY TypesKept DEF StoreInv
  <2>2. /\ lane \in Seq(Units) /\ lane' \in Seq(Units) /\ log \in Seq(Commands)
        /\ published \in Nat /\ published' \in Nat
    BY <2>1 DEF Types, WriterTypes, StoreTypes
  <2> QED BY <2>2
<1>2. ~CrashAndRecover
  <2>1. CrashAndRecover => lane' = <<>>
    BY Zenon DEF CrashAndRecover
  <2> QED BY <2>1
<1>3. published <= published'
  BY <1>2, GrowSteps DEF Grows
<1>4. \A j \in DOMAIN lane : lane[j].results \in Outcomes /\ j \in Nat
  <2>1. \A j \in DOMAIN lane : lane[j] \in Units /\ j \in Nat
    BY <1>1
  <2> QED BY <2>1 DEF Units
<1>5. ASSUME NEW j \in DOMAIN lane
      PROVE  /\ Honest(lane[j].results, log', Asked')
             /\ Reaches(lane[j].results, lane, j, published)
  BY <1>2, StaysHonest DEF Replays
<1>6. CASE UNCHANGED lane
  <2>1. i \in DOMAIN lane
    BY <1>6
  <2>2. Reaches(lane[i].results, lane', i, published')
    BY <1>1, <1>3, <1>4, <1>5, <1>6, <2>1, ReachesMore
  <2> QED BY <1>5, <1>6, <2>1, <2>2
<1>7. CASE SubmitUnit
  <2>1. lane' = Append(lane, unit) /\ writer = "submit"
    BY <1>7 DEF SubmitUnit
  <2>2. unit \in Units /\ unit.results \in Outcomes /\ (unit.kind = "Fence" => unit.upto = Len(log))
        /\ unit.kind \in UnitKinds
    BY <2>1 DEF StoreInv, Handed, Units
  <2>3. /\ \A j \in 1 .. Len(lane) : lane'[j] = lane[j]
        /\ lane'[Len(lane) + 1] = unit /\ i \in 1 .. Len(lane) + 1 /\ Len(lane) + 1 \in Nat
    BY <1>1, <2>1, <2>2
  <2>4. CASE i \in 1 .. Len(lane)
    <3>1. \A j \in 1 .. i : lane'[j] = lane[j]
      BY <1>1, <2>3, <2>4
    <3>2. /\ i \in Nat /\ i <= i /\ lane[i].results \in Outcomes
          /\ Reaches(lane[i].results, lane, i, published)
      BY <1>1, <1>4, <1>5, <2>4
    <3>3. Reaches(lane[i].results, lane', i, published')
      <4>1. published \in Nat /\ published' \in Nat
        BY <1>1
      <4> HIDE <1>1, <2>4
      <4> QED BY <1>3, <3>1, <3>2, <4>1, ReachesMore
    <3> QED BY <1>1, <1>5, <2>3, <2>4, <3>3
  <2>5. CASE i = Len(lane) + 1
    <3>1. lane'[i] = unit
      BY <2>3, <2>5
    <3>2. Honest(unit.results, log', Asked')
      BY <1>2, <2>1, StaysHonest DEF Replays
    <3>3. CASE unit.kind = "AfterPredecessor"
      <4>1. Reaches(unit.results, lane, Len(lane), published)
        BY <2>1, <3>3 DEF Replays
      <4>2. Len(lane) <= i /\ i \in Nat
        BY <1>1, <2>5
      <4>3. Reaches(unit.results, lane', i, published')
        <5>1. Len(lane) \in Nat /\ published \in Nat /\ published' \in Nat
          BY <1>1
        <5>2. \A j \in 1 .. Len(lane) : lane'[j] = lane[j]
          BY <2>3
        <5> HIDE <1>1, <2>5, <3>1
        <5> QED BY <1>3, <2>2, <4>1, <4>2, <5>1, <5>2, ReachesMore
      <4> QED BY <3>1, <3>2, <4>3
    <3>4. CASE unit.kind = "Fence"
      <4>1. \A c \in DOMAIN unit.results : unit.results[c].kind = "Replay" =>
                unit.results[c].seq \in 1 .. Len(log)
        BY <2>1 DEF Replays, Honest, Supported
      <4>2. i \in 1 .. i
        BY <1>1, <2>5
      <4>3. Reaches(unit.results, lane', i, published')
        BY <1>1, <2>2, <3>1, <3>4, <4>1, <4>2 DEF Reaches
      <4> QED BY <3>1, <3>2, <4>3
    <3> QED BY <2>2, <3>3, <3>4 DEF UnitKinds
  <2> QED BY <1>1, <2>3, <2>4, <2>5
<1>8. CASE CompletionRelease
  <2>1. lane # <<>> /\ lane' = Tail(lane)
    BY <1>8, Zenon DEF CompletionRelease
  <2>2. i + 1 \in 1 .. Len(lane) /\ lane'[i] = lane[i + 1] /\ (i + 1) - 1 = i
    BY <1>1, <2>1, TailFacts
  <2>3. lane[i + 1].results \in Outcomes /\ Reaches(lane[i + 1].results, lane, i + 1, published)
        /\ Honest(lane[i + 1].results, log', Asked')
    BY <1>1, <1>4, <1>5, <2>2
  <2>4. Reaches(lane[i + 1].results, lane', (i + 1) - 1, published')
    BY <1>8, <2>2, <2>3, ReachesTail
  <2> QED BY <2>2, <2>3, <2>4
<1> QED BY <1>2, <1>6, <1>7, <1>8, CalmLane

LEMMA ReplaysKept ==
    ASSUME PipelineAssumption, OrderInv, Calm, Spread, Known, Replays, [Next]_vars,
           Asked \subseteq Asked'
    PROVE  Replays'
<1>1. Honest(results', log', Asked')
  BY ResultsHonest DEF Replays
<1>2. writer' = "submit" =>
        /\ Honest(unit'.results, log', Asked')
        /\ unit'.kind = "AfterPredecessor" => Reaches(unit'.results, lane', Len(lane'), published')
  BY UnitReplays
<1>3. \A i \in DOMAIN lane' :
        Honest(lane'[i].results, log', Asked') /\ Reaches(lane'[i].results, lane', i, published')
  BY LaneReplays
<1> QED BY <1>1, <1>2, <1>3 DEF Replays

-----------------------------------------------------------------------------
(* The invariant.                                                          *)

LEMMA LedgerInvKept ==
    ASSUME PipelineAssumption, MaxFaults = 0, LedgerInv, [Next]_vars
    PROVE  LedgerInv'
<1> USE DEF LedgerInv
<1>1. OrderInv'
  <2>1. StoreInv'
    BY StoreInvKept DEF OrderInv
  <2>2. Placed' /\ Ordered'
    BY PlacedKept, OrderedKept
  <2> QED BY <2>1, <2>2 DEF OrderInv
<1>2. Calm'
  BY CalmKept DEF OrderInv
<1>3. Spread'
  BY TellingSteps
<1>4. Unsaid' /\ Asked \subseteq Asked'
  BY UnsaidKept
<1>5. Known'
  BY <1>4, KnownKept
<1>6. Replays'
  BY <1>4, ReplaysKept
<1> QED BY <1>1, <1>2, <1>3, <1>4, <1>5, <1>6

LEMMA InitLedgerInv ==
    ASSUME PipelineAssumption, Init
    PROVE  LedgerInv
<1>1. OrderInv
  BY InitOrderInv
<1>2. /\ channel = <<>> /\ pending = <<>> /\ work = <<>> /\ lane = <<>> /\ writer = "top"
      /\ log = <<>> /\ torn = 0 /\ ~journalClosed /\ ~writeFenced /\ results = [c \in {} |-> Vacant]
      /\ answer = [c \in Commands |-> Unanswered]
  BY DEF Init
<1>3. Members(<<>>) = {}
  BY DEF Members
<1>4. Intaken = {} /\ Active = {}
  BY <1>2, <1>3 DEF Intaken, Active
<1>5. Calm /\ Spread /\ Unsaid /\ Known
  BY <1>2, <1>4 DEF Calm, Spread, Unsaid, Known
<1>6. Replays
  BY <1>2 DEF Replays, Honest
<1> QED BY <1>1, <1>5, <1>6 DEF LedgerInv

-----------------------------------------------------------------------------
(* The steps of the ledger.                                                *)

LEMMA PublishedFacts ==
    ASSUME StoreInv
    PROVE  /\ PublishedRecords \in Seq(Commands) /\ Len(PublishedRecords) = published
           /\ DOMAIN PublishedRecords = 1 .. published
           /\ \A i \in 1 .. published : PublishedRecords[i] = log[i] /\ i \in 1 .. Len(log)
<1>1. log \in Seq(Commands) /\ published \in Nat /\ published <= Len(log)
  BY DEF StoreInv, Types, StoreTypes, Sealed
<1> QED BY <1>1 DEF PublishedRecords

\* Published records stay where they are, over a restart too.
LEMMA LedgerGrows ==
    ASSUME PipelineAssumption, StoreInv, [Next]_vars
    PROVE  /\ SubSeq(PublishedRecords', 1, Len(PublishedRecords)) = PublishedRecords
           /\ Len(PublishedRecords') >= Len(PublishedRecords)
           /\ Ledger!Single(PublishedRecords')
<1>1. /\ log \in Seq(Commands) /\ published \in Nat /\ published <= Len(log) /\ durable \in Nat
      /\ published <= durable /\ durable <= Len(log)
  BY DEF StoreInv, Types, StoreTypes, Sealed
<1>2. StoreInv'
  BY StoreInvKept
<1>3. log' \in Seq(Commands) /\ published' \in Nat /\ published' <= Len(log') /\ DistinctKeys(log')
  BY <1>2 DEF StoreInv, Types, StoreTypes, Sealed
<1>4. published <= published' /\ \A i \in 1 .. published : log'[i] = log[i]
  <2>1. CASE Grows
    <3>1. \A i \in 1 .. published : i \in 1 .. Len(log)
      BY <1>1
    <3> QED BY <2>1, <3>1 DEF Grows
  <2>2. CASE CrashAndRecover
    <3>1. PICK n \in Recoverable : log' = SubSeq(log, 1, n) /\ published' = n
      BY <2>2, Zenon DEF CrashAndRecover
    <3>2. n \in Nat /\ n <= Len(log) /\ durable <= n
      BY DEF Recoverable, StoreInv, Types, StoreTypes, Sealed
    <3> QED BY <1>1, <3>1, <3>2
  <2> QED BY <2>1, <2>2, GrowSteps
<1> DEFINE new == SubSeq(log', 1, published')
<1>5. new \in Seq(Commands) /\ Len(new) = published' /\ \A i \in 1 .. published' : new[i] = log'[i]
  <2>1. ASSUME NEW s \in Seq(Commands), NEW n \in Nat, n <= Len(s)
        PROVE  /\ SubSeq(s, 1, n) \in Seq(Commands) /\ Len(SubSeq(s, 1, n)) = n
               /\ \A i \in 1 .. n : SubSeq(s, 1, n)[i] = s[i]
    BY <2>1
  <2> QED BY <1>3, <2>1
<1>6. SubSeq(SubSeq(log', 1, published'), 1, published) = SubSeq(log, 1, published)
  <2> DEFINE s == SubSeq(new, 1, published)
             t == SubSeq(log, 1, published)
  <2>1. s \in Seq(Commands) /\ Len(s) = published /\ \A i \in 1 .. published : s[i] = log'[i]
    <3> HIDE DEF new
    <3>1. s \in Seq(Commands) /\ Len(s) = published /\ \A i \in 1 .. published : s[i] = new[i]
      BY <1>1, <1>3, <1>4, <1>5
    <3>2. \A i \in 1 .. published : i \in 1 .. published'
      BY <1>1, <1>3, <1>4
    <3> QED BY <1>5, <3>1, <3>2
  <2>2. t \in Seq(Commands) /\ Len(t) = published /\ \A i \in 1 .. published : t[i] = log[i]
    BY <1>1
  <2> HIDE DEF s, t
  <2>3. s = t
    BY <1>4, <2>1, <2>2
  <2> QED BY <2>3 DEF s, t
<1>7. Len(SubSeq(log, 1, published)) = published
  BY <1>1
<1>8. DistinctKeys(SubSeq(log', 1, published'))
  BY <1>3, KeysStayDistinct
<1>9. Ledger!Single(SubSeq(log', 1, published'))
  BY <1>8 DEF DistinctKeys, Ledger!Single
<1> QED BY <1>1, <1>3, <1>4, <1>5, <1>6, <1>7, <1>9 DEF PublishedRecords

\* What it takes for an answer to agree with what is published.
LEMMA AnswerAgrees ==
    ASSUME StoreInv, NEW c, NEW r,
           r.kind = "FirstCommit" => r.seq \in 1 .. published /\ log[r.seq] = c,
           r.kind = "Replay" => r.seq \in 1 .. published /\ SameCommand(c, log[r.seq]),
           r.kind = "InputMismatch" => \E d \in Asked : OtherInput(c, d)
    PROVE  Ledger!Agrees(c, r, PublishedRecords)
<1>1. /\ DOMAIN PublishedRecords = 1 .. published
      /\ \A i \in 1 .. published : PublishedRecords[i] = log[i]
  BY PublishedFacts
<1>2. CASE r.kind = "FirstCommit"
  BY <1>1, <1>2 DEF Ledger!Agrees
<1>3. CASE r.kind = "Replay"
  BY <1>1, <1>3 DEF Ledger!Agrees, SameCommand
<1>4. CASE r.kind = "InputMismatch"
  BY <1>4 DEF Ledger!Agrees, OtherInput, Asked
<1>5. CASE r.kind \notin {"FirstCommit", "Replay", "InputMismatch"}
  BY <1>5 DEF Ledger!Agrees
<1> QED BY <1>2, <1>3, <1>4, <1>5

LEMMA ErrorAgrees ==
    ASSUME NEW c, NEW r, r.kind \notin Claims, NEW records
    PROVE  Ledger!Agrees(c, r, records)
BY DEF Ledger!Agrees, Claims

\* A unit on the published frontier is answered with an empty lane, so that
\* everything it may replay is published.
LEMMA CompleteAgrees ==
    ASSUME LedgerInv, CompleteGroup, frontier # "WriterPrivate", NEW c \in Members(work)
    PROVE  Ledger!Agrees(c, results[c], PublishedRecords)
<1> USE DEF LedgerInv, OrderInv
<1>1. writer = "complete" /\ frontier = "Published"
  BY DEF CompleteGroup, StoreInv, Types, WriterTypes, Frontiers
<1>2. lane = <<>>
  BY <1>1 DEF Ordered, Driving
<1>3. published = Len(log)
  BY <1>1, <1>2, EmptyLanePublished DEF Calm
<1>4. c \in DOMAIN results
  BY <1>1 DEF StoreInv, Handed
<1>5. results[c].kind = "FirstCommit" => results[c].seq \in 1 .. published /\ log[results[c].seq] = c
  BY <1>4 DEF StoreInv, Carried, Truthful
<1>6. Supported(c, results[c], Len(log), log, Asked)
  BY <1>4 DEF Replays, Honest
<1> QED BY <1>3, <1>5, <1>6, AnswerAgrees DEF Supported

\* The first unit of the lane is answered behind every fence it may depend on.
LEMMA ReleaseAgrees ==
    ASSUME LedgerInv, CompletionRelease, NEW c \in Members(lane[1].cmds)
    PROVE  Ledger!Agrees(c, lane[1].results[c], PublishedRecords)
<1> USE DEF LedgerInv, OrderInv
<1> DEFINE res == lane[1].results
<1>1. lane # <<>> /\ (released \/ Head(lane).kind = "AfterPredecessor")
  BY Zenon DEF CompletionRelease
<1>2. lane \in Seq(Units) /\ published \in Nat /\ Len(log) \in Nat
  BY DEF StoreInv, Types, WriterTypes, StoreTypes
<1>3. 1 \in DOMAIN lane /\ Head(lane) = lane[1] /\ lane[1] \in Units
  BY <1>1, <1>2, TailFacts
<1>4. Faithful(lane[1], published, log)
  BY <1>3 DEF StoreInv, Carried
<1>5. c \in DOMAIN res /\ res \in Outcomes /\ lane[1].upto \in Nat
  BY <1>3, <1>4 DEF Faithful, Units
<1>6. Truthful(res, published, log)
  <2>1. CASE released
    BY <2>1 DEF StoreInv, Carried
  <2>2. CASE lane[1].kind = "AfterPredecessor"
    BY <1>4, <2>2 DEF Faithful
  <2> QED BY <1>1, <1>3, <2>1, <2>2
<1>7. lane[1].kind = "Fence" => lane[1].upto <= published
  BY <1>1, <1>3 DEF StoreInv, Carried, Calm
<1>8. Supported(c, res[c], Len(log), log, Asked) /\ Reaches(res, lane, 1, published)
  BY <1>3, <1>5 DEF Replays, Honest
<1>9. res[c].seq \in Nat
  <2>1. res[c] \in Answers
    BY <1>5, OutcomeFacts
  <2> QED BY <2>1 DEF Answers
<1>10. res[c].kind = "Replay" => res[c].seq \in 1 .. published /\ SameCommand(c, log[res[c].seq])
  <2> SUFFICES ASSUME res[c].kind = "Replay"
               PROVE  res[c].seq \in 1 .. published /\ SameCommand(c, log[res[c].seq])
    OBVIOUS
  <2>1. res[c].seq \in 1 .. Len(log) /\ SameCommand(c, log[res[c].seq])
    BY <1>8 DEF Supported
  <2>2. res[c].seq <= published \/ (lane[1].kind = "Fence" /\ res[c].seq <= lane[1].upto)
    <3>1. \A j \in 1 .. 1 : j = 1
      OBVIOUS
    <3> QED BY <1>5, <1>8, <3>1 DEF Reaches
  <2>3. res[c].seq <= published
    BY <1>2, <1>5, <1>7, <1>9, <2>2
  <2> QED BY <1>2, <1>9, <2>1, <2>3
<1>11. res[c].kind = "FirstCommit" => res[c].seq \in 1 .. published /\ log[res[c].seq] = c
  BY <1>5, <1>6 DEF Truthful
<1>12. res[c].kind = "InputMismatch" => \E d \in Asked : OtherInput(c, d)
  BY <1>8 DEF Supported
<1> HIDE DEF res
<1>13. Ledger!Agrees(c, res[c], PublishedRecords)
  BY <1>10, <1>11, <1>12, AnswerAgrees
<1> QED BY <1>13 DEF res

LEMMA LedgerInitMaps ==
    ASSUME Init
    PROVE  Ledger!LedgerInit
<1>1. log = <<>> /\ published = 0 /\ answer = [c \in Commands |-> Unanswered]
      /\ client = [c \in Commands |-> "idle"]
  BY DEF Init
<1>2. PublishedRecords = <<>>
  BY <1>1 DEF PublishedRecords
<1>3. {c \in Commands : client[c] # "idle"} = {}
  BY <1>1
<1>4. Unanswered = Ledger!Nothing
  BY DEF Unanswered, Says, Ledger!Nothing
<1> QED BY <1>1, <1>2, <1>3, <1>4 DEF Ledger!LedgerInit

LEMMA LedgerNextMaps ==
    ASSUME PipelineAssumption, MaxFaults = 0, LedgerInv, [Next]_vars
    PROVE  Ledger!LedgerNext
<1> USE DEF LedgerInv, OrderInv
<1>1. /\ SubSeq(PublishedRecords', 1, Len(PublishedRecords)) = PublishedRecords
      /\ Len(PublishedRecords') >= Len(PublishedRecords)
      /\ Ledger!Single(PublishedRecords')
  BY LedgerGrows
<1>2. {c \in Commands : client[c] # "idle"} \subseteq {c \in Commands : client'[c] # "idle"}
  BY UnsaidKept DEF Asked
<1>3. ASSUME NEW c \in Commands, answer'[c] # answer[c]
      PROVE  answer[c] = Ledger!Nothing /\ Ledger!Agrees(c, answer'[c], PublishedRecords')
  <2>1. answer[c] = Ledger!Nothing
    BY <1>3, UnsaidKept DEF Unanswered, Says, Ledger!Nothing
  <2>2. CASE UNCHANGED callerVars \/ \E d \in Commands : Goes(d)
    BY <1>3, <2>2 DEF callerVars, Goes
  <2>3. CASE Errs
    <3>1. answer'[c].kind \notin Claims
      BY <1>3, <2>3 DEF Errs, Told
    <3> QED BY <2>1, <3>1, ErrorAgrees
  <2>4. CASE CompleteGroup /\ frontier # "WriterPrivate" /\ Gives(Members(work), results)
    <3>1. c \in Members(work) /\ answer'[c] = results[c]
      BY <1>3, <2>4 DEF Gives, Told
    <3>2. UNCHANGED PublishedRecords
      BY <2>4 DEF CompleteGroup, storeVars, fenceVars, PublishedRecords
    <3>3. Ledger!Agrees(c, results[c], PublishedRecords)
      BY <2>4, <3>1, CompleteAgrees
    <3> QED BY <2>1, <3>1, <3>2, <3>3
  <2>5. CASE CompletionRelease /\ Gives(Members(lane[1].cmds), lane[1].results)
    <3>1. c \in Members(lane[1].cmds) /\ answer'[c] = lane[1].results[c]
      BY <1>3, <2>5 DEF Gives, Told
    <3>2. UNCHANGED PublishedRecords
      BY <2>5 DEF CompletionRelease, storeVars, fenceVars, PublishedRecords
    <3>3. Ledger!Agrees(c, lane[1].results[c], PublishedRecords)
      BY <2>5, <3>1, ReleaseAgrees
    <3> QED BY <2>1, <3>1, <3>2, <3>3
  <2> QED BY <2>2, <2>3, <2>4, <2>5, TellingSteps
<1> QED BY <1>1, <1>2, <1>3 DEF Ledger!LedgerNext

-----------------------------------------------------------------------------
(* The theorems.                                                           *)

\* Without faults a command that waits for its answer is in one place, nobody
\* is answered twice, and every replay on its way is published or behind a
\* fence that publishes it, in every reachable state.
THEOREM LedgerInvariant ==
    ASSUME MaxFaults = 0
    PROVE  Spec => []LedgerInv
<1>1. Init => LedgerInv
  BY PipelineAssumption, InitLedgerInv
<1>2. LedgerInv /\ [Next]_vars => LedgerInv'
  BY PipelineAssumption, LedgerInvKept
<1> QED BY <1>1, <1>2, PTL DEF Spec

\* As long as no write fails the pipeline implements the exactly-once ledger,
\* over any number of restarts, and for any depth of the pipeline and any race
\* of attempts with one key: the published records only grow and have one
\* record for a key, every caller is answered at most once, and a first commit,
\* a replay or a mismatch is true of what is published when it is answered.
THEOREM LedgerRefinement ==
    ASSUME MaxFaults = 0
    PROVE  Spec => ImplementsLedger
<1>1. Init => Ledger!LedgerInit
  BY LedgerInitMaps
<1>2. LedgerInv /\ [Next]_vars => [Ledger!LedgerNext]_Ledger!ledgerVars
  BY PipelineAssumption, LedgerNextMaps
<1> QED BY <1>1, <1>2, LedgerInvariant, PTL DEF Spec, ImplementsLedger, Ledger!LedgerSpec
=============================================================================
