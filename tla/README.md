# TLA+ models of RiffDB

RiffDB is a contract-first database: callers submit typed commands with an
idempotency key, a single commit coordinator evaluates and commits them, and
everything else (queries, projections, the outbox) follows the committed
sequence. These modules model the concurrent core of that path and two of the
services that follow it (the outbox and the durable event consumers), check them
with TLC on small instances, and prove their safety properties and their refinements
with TLAPS for all instances.

Paths below are relative to the repository; `commit/`, `conflict/` and `redb/`
abbreviate `src/crates/riffdb-commit/src`, `src/crates/riffdb-conflict/src` and
`src/crates/riffdb-storage-redb/src`; `api/`, `service/`, `server/` and `outbox/`
the `src` directories of `riffdb-storage-api`, `riffdb-service`, `riffdb-server` and
`riffdb-outbox`.

## 1. The system

| Component | State | Operations | What is hard |
|---|---|---|---|
| Conflict manager (`conflict/manager.rs`) | per-key holder and FIFO queue in shards, waiter states, deadline heap | `acquire_mut` (a future), `try_acquire_mut`, release, drop, cancel, deadline worker | grant, timeout, cancellation and drop of one waiter race; promotions happen after the locks are dropped; lost wake-ups |
| Commit coordinator (`commit/audit_executor.rs`, `commit/command_execution.rs`) | lifecycle byte, submission gate, bounded channel, pending queue, unit in the writer, units in flight | reserve, submit, shutdown; intake actor, writer thread, completion thread | four threads; the writer works on an unpublished successor; a fence may come at any point; FIFO release; drain and shutdown |
| Admission, validation, records (`commit/command_*.rs`) | none of their own | lookup of an identity, recheck in the transaction, group commit result, resolution of an unknown status | decisions taken on an older root than the one written to |
| Journal and publication (`redb/journal.rs`, `redb/store.rs`) | frames, publication queue, published root, write fence | seal, flush, fence, publish, recover | torn and failed batches; two threads publish; crash between any two steps |
| Primary admission and fencing (`commit/primary_*`) | gate counter and flags | begin, pause, seal | drain against late submissions |
| Outbox (`outbox/worker.rs`, `outbox/recovery.rs`, `server/outbox_worker.rs`) | one delivery status row per event; the worker's page, cursor, claimed run and buffered successes; connector health | start-up recovery, scan, claim a run, deliver, renew, record success, retry or dead letter, report readiness | the destination's answer, the durable row and the worker's view of it can part at any error; interrupted runs hide from the pending scan |
| Event consumers (`api/consumer.rs`, `redb/consumer.rs`, `service/consumer_operations.rs`) | revision, checkpoint, sparse resolutions, one delivery row per event | pull, acknowledge, return, seek, retire, lease expiry, start-up recovery | reads and the transition based on them are separate; late and stale tokens; a policy that hides events; limits met during recovery |
| Scheduler (`riffdb-scheduler`) | claims held through an application adapter | claim, renew, complete | lease expiry against completion |
| Projections (`riffdb-projection`, `riffdb-columnar`) | derived rows and frontiers | notify, catch up, rebuild | frontier against commit sequence |
| Service, policy, auth, adapters, compilers, query execution | per request | | sequential |

Calls go down: adapter, service, policy, coordinator, storage. Shared state is
the lifecycle byte, the gate, the store's write fence and the publication queue.
Answers come back through one-shot channels, either from the writer (a unit
without durability work on the published frontier) or from the completion thread.

What makes each part correct: leases are exclusive, ordered and never stranded;
a key is committed at most once; an acknowledged commit is durable and stays;
readers see only durable records; answers and notifications follow commit order;
a failed write stops all later ones; every accepted submission is answered, also
across a shutdown; a bounded queue stays bounded; every event is delivered at least
once or given up after a fixed number of counted attempts; a consumer's checkpoint
passes only settled events, and a live lease is honoured.

`PROJECT.json` lists every component with its status, and the hazards at the line
where each one bites.

## 2. Modules

`ConflictManager` models `conflict/manager.rs` and `conflict/cancellation.rs`.
A section that the code runs under all shard locks of a waiter is one action
(`Register`, `GrantLocked`, `Abort`, `Release`); what it does after dropping the
locks is later steps of the same actor (`Settle` wakes the waiter and removes its
deadline, `Promote` tries one successor at a time). `Acquisition::poll` is split
at every point where another thread can interfere (`PollFirst`, `PollArm`,
`PollArmed`, `PollRecheck`, `PollObserve`, `PollConsume`, `PollConsumed`,
`PollRegisterWaker`, `PollFinal`). Which tokens may be cancelled, which deadlines
may pass, which acquisitions may be dropped or polled spuriously are constants,
so that an instance can concentrate on one disturbance. Deadlines are abstract:
the worker may take any entry whose deadline has passed.

`LeaseService` is what the manager promises: a waiter waits behind its rivals, is
served when no rival is before it, and leaves. `ImplementsLeaseService` is the
refinement.

`CommitPipeline` models a command from its permit to its answer:

| Actions | Code |
|---|---|
| `ReserveCapacity`, `BeginSubmission`, `Submit`, `Refuse` | permits and submission gate, `audit_executor.rs` |
| `InitiateShutdown`, `SendShutdown` | `initiate_shutdown` |
| `IntakeAccept`, `FormNextUnit`, `IntakeShutdown`, `IntakeCollect`, `IntakeCollected`, `IntakeFeedback`, `DrainReject`, `IntakeReturn`, `StoppedLifecycle` | intake actor `run`, `form_next_unit`, `drain_reject` |
| `DrainReady`, `ReceiveUnit`, `DrainOne`, `RejectWorkUnit`, `CompleteGroup`, `SubmitUnit`, `SendFeedback` | writer loop `CommandWriter::run` |
| `AdmitGroup`, `StageIneligible`, `StageFenced`, `StageReplay`, `StageBegin`, `StageSeal`, `StageSealFails`, `StagePeerMismatch`, `StageDirect` | `drive_command_execution_group` and the deferred epoch of the store |
| `DirectReplay`, `DirectFenced`, `DirectPrefixFails`, `DirectCommit`, `DirectAbort`, `DirectUnknown` | one direct transaction per command |
| `JournalFlush`, `JournalFails`, `JournalEnds` | `journal_worker` |
| `CompletionFence`, `PublicationFails`, `JournalErrorFences`, `CompletionFails`, `CompletionRelease` | completion thread: the unit's ticket, `publish_through`, the answers |
| `CrashAndRecover` | the end of the process at any point, `recover_journal` |

`log` is the private frontier; `durable` and `published` are prefixes of it. A
record is the command first committed under its key and its index the commit
sequence; what a command computes is left out. Which path a group takes depends
on contents the model leaves out, so where the code may take either (one deferred
epoch or one direct transaction per command) the model takes both.

A failure spreads in the code's own steps, because other threads run between them. The
writer reads the store's fence when an epoch begins (`StageBegin`) and not again:
`StageSeal` submits the frame and advances the private frontier whether or not the
store was fenced since, and fails only if the journal thread has closed its queue
(`StageSealFails`). A failed batch answers its tickets (`JournalFails`) before the thread
fails what was queued in the meantime and ends (`JournalEnds`). The completion thread
first fences the store, because the journal failed (`JournalErrorFences`) or because the
publication of a durable unit did while the journal thread lives on
(`PublicationFails`), and then the coordinator (`CompletionFails`). `fencedAt` records
the length of the log when the store was fenced, and steers nothing.

`CommandLedger` is what callers may rely on: an append-only ledger with one record
per key in which every answer that names a commit can be found. An `InputMismatch`
promises only that the key was used with another input: a member of a compatible
group is answered so from a record its peer has staged (`StagePeerMismatch`), and
the peer, driven again after the rollback, may still fail.

`Outbox` models the delivery of committed events:

| Actions | Code |
|---|---|
| `Commit`, `ClockPasses` | new events and the passing of stored instants |
| `Start`, `RecoverScan`, `RecoverRefused`, `Normalize`, `RecoverNext`, `PauseEnds` | `RunningLocalOutbox::start`, `recover_with_page_admission`, the undelivered page of `redb/derived.rs` and its shape check in `api/outbox.rs` |
| `Scan`, `DispatchRun`, `DeferItem`, `DeadLetterPending` | `dispatch_once`, `claimable_run`, `dispatch_run`, `dispatch_item` |
| `RenewLease`, `DeliverClaimed`, `Settle`, `Flush` | `renew_if_expired`, `deliver_claimed`, `complete_retry`, `complete_dead_letter`, `flush_successes` |
| `EndPage`, `IdleEnds`, `Abandon`, `ReadFails`, `ClockFails` | worker loop `run` and its error paths |
| `Crash` | the end of the process or of the worker |

`status` is durable; `page`, `run` and `successes` are what the worker believes of the
rows it has in hand; `archive` is what the destination holds and `calls` counts the
deliveries that were tried. A status write may fail
without effect or succeed without an answer; a delivery may be accepted, accepted
without an answer, refused for now or for good. The destination is either the local
archive with its quota or the webhook. A recovery page is cut from the live index of
undelivered rows: `HasMore` counts rows that were committed behind the frozen fence, and
a page that would end at the fence or be empty is then refused (`RecoverRefused`).

`DeliveryService` is what the outbox promises: every committed event is open, then
delivered (and only if the destination has taken it) or dead, for good, and no event
is tried more often than allowed. `ImplementsDelivery` is the refinement.

`EventConsumer` models one durable consumer:

| Actions | Code |
|---|---|
| `BeginPull`, `BeginResolve`, `ReadWindow` | `consume_dispatch`, `acknowledge`: status, event window behind its checkpoint, clock |
| `PrepareLease`, `PrepareResolution`, `BeginMove` | `coordinate_consumer_lease`, `prepare_consumer_resolution`, `seek`, `retire`: the snapshot a transition is based on |
| `Commit` | the transition: `Recover`, `Lease`, `Settle`, `Move` against the inspected revision; `LeaseProtected`, `SettleProtected` in one transaction when a row policy applies |
| `Stop`, `Start` | the end of the process, `recover_event_consumers`, with a restore or without |
| `Emit`, `ChangePolicy`, `InstantPasses` | the stream, the policy's verdicts, the clock |

`consumer` is the stored snapshot. `earned` and `outstanding` record what was settled
since the consumer began or was moved and which leases their holders may still count
on; they are compared with the snapshot and steer nothing. Time is the set of rows
whose instant has passed; an operation carries the rows it saw due, so it can be late.
Retries of a pull inside the service are pulls of their own.

The proofs have modules of their own:

| Module | About |
|---|---|
| `ConflictManagerProofs` | `ConflictManager` and its refinement of `LeaseService` |
| `CommitPipelineProofs` | `CommitPipeline`: the store, the writer and the completion lane |
| `PipelineIntakeProofs` | the intake actor: its backlog and what its return leaves |
| `PipelineOrderProofs` | the order of the records in flight and of the notifications |
| `PipelineLedgerProofs` | the refinement of `CommandLedger` |
| `OutboxProofs` | `Outbox` and its refinement of `DeliveryService` |
| `EventConsumerProofs` | `EventConsumer` |
| `NumberSets` | facts on finite sets of numbers and their cardinalities, used by the others |

`MCConflictManager`, `MCCommitPipeline`, `MCOutbox` and `MCEventConsumer` give the
constants for TLC. Operators marked *Mutant* state a plausible bug of the operator that follows them; no
specification uses them. Each property is violated when one of them is put in.

## 3. Model-checking runs

All runs allow the system to stop (`CHECK_DEADLOCK FALSE`): once the bounded set of
acquisitions, submissions or events is used up nothing is left to do, and a process
whose start-up was refused stays down.

| Run | Instance | Shows |
|---|---|---|
| `conflict_cancel` | 3 acquisitions, 2 keys in 2 shards; the second may be cancelled, dropped, polled spuriously, refused by a full token | exclusion, holders are owners, queue integrity, one consistent order, no stranded waiter, nothing left behind, refinement of `LeaseService` |
| `conflict_limits` | 3 acquisitions over 3 keys, one key per shard and one waiter per key, one deadline racing a grant | counters and table entries are given back exactly, no lost wake-up, deadline entries do not leak |
| `conflict_live` | 2 acquisitions that may time out, fair | every acquisition completes, deadlines fire |
| `pipeline_faults` | 2 attempts at a command and 2 other commands through a pipeline 2 deep, 1 fault, 1 crash | one record per key, first commits survive, readers see durable records, unpublished suffix bounded, lane accounting and the writer's late frontier exact, notifications in commit order, nothing written behind the store's fence is ever shown |
| `pipeline_shutdown` | 3 submissions (one never overlaps another unit), capacity 1, shutdown, 1 fault, fair | backlog at most 2C + 1 (and it gets there), the actor leaves nobody behind, the lifecycle only descends, every accepted submission is answered, every shutdown ends |
| `pipeline_ledger` | 3 attempts at one key (one with another input) and a command that is never deferred, 1 crash, no fault | refinement of `CommandLedger` |
| `pipeline_replay_before_fence` | 2 attempts, 1 fault | violated: see below |
| `pipeline_same_unit_duplicates` | 2 attempts and another command, no fault | violated: see below |
| `pipeline_key_reuse` | 2 commands with one key and different inputs, no fault | violated: see below |
| `outbox_delivery` | 4 events, 2 attempts each, 2 faults of any kind, the archive with pages of 2 or the webhook with pages of 1, fair | the worker's view of its rows is exact, no row is left hidden in `Delivering`, every call to the destination is counted in a durable attempt, a claimed run fits the quota, refinement of `DeliveryService`, every event settles once commits have stopped, readiness returns when all is delivered |
| `consumer_delivery` | 2 events, 2 attempts each, 1 sparse resolution, a client that pulls and one that settles and moves, with and without a row policy, 1 restart, restore, move or policy change, fair puller | stored snapshots are valid, exactly what was settled counts as settled, live leases are honoured, delivery catches up |
| `consumer_stale_window` | the same with a row policy, a policy change and a move | violated: see below |

Bounds. Three waiters are the least with which a successor of a successor exists
and two queues can disagree; two keys in two shards the least with a multi-key
waiter; the id width is the number of acquisitions, so the last id and exhaustion
are reached. In the pipeline one unit in the writer, one in flight and one waiting
need three commands; a depth of two (`MaxGroup`) is reached and has to be drained
with three keys; capacity one lets the backlog reach its bound with three
submissions and a shutdown; a second fault or crash starts from a state that a
first one already reaches (a fenced store, a recovered log). `MaxCrashes` and
`MaxFaults` bound only those events. `pipeline_faults` has only safety properties and
treats its two attempts, and its two other commands, as interchangeable. In the outbox a page of two and three events make
runs that are split by the quota or by an ineligible event; pages of one (the index is
asked for one row more) and four events let two be committed behind the fence of a
recovery, which refuses its last page; a second attempt is the last; two faults
let recovery itself be disturbed. Two events and one sparse resolution keep the code's
proportion (a window one larger than the sparse limit, 65 and 64), so that the limit is
met; with one upset (`MaxUpsets`) a consumer still lives through two eras. In
`consumer_delivery` a consumer with a row policy is not moved (`Movable`), because
that breaks `SettledExactly`: it is what `consumer_stale_window` is about.

Fairness. `conflict_live`: a woken task is polled, an actor finishes the steps it
began, and the deadline worker runs. Nothing makes a holder return its lease:
`AcquisitionsComplete` says what follows if leases are returned, and
`DeadlinesFire` holds even when they never are. `pipeline_shutdown`: each of the four threads is weakly fair as a
whole, since each is an operating-system thread that blocks only on what its guard
says; a caller that holds a permit uses or drops it, as the comment on `shutdown`
asks; the owner takes the second step of a shutdown it began. Nothing is fair about
faults, crashes, cancellations or new submissions. `outbox_delivery`: the worker
thread and the clock go on, and a stopped worker is started again. `consumer_delivery`:
somebody keeps pulling and finishes what it began, stored instants pass, a stopped
process is started; the client that settles and moves may stall anywhere.

### Where the code and its documents disagree

* `pipeline_replay_before_fence`: `SubmittedWriterUnit::finish`
  (`commit/audit_executor.rs:3555`) releases an `AfterPredecessor` unit without
  asking whether the fence of the unit before it succeeded. Its comment (line 2493)
  says it "may be released only after every earlier FIFO fence publishes". After a
  failed journal write a retry is told the outcome of a record that was not
  published and may not be recovered. Without faults this cannot happen
  (`pipeline_ledger`).
* `pipeline_same_unit_duplicates`: two attempts with one identity in one unit behind
  an unpublished unit make the group ineligible for the private frontier; the
  coordinator stops and both get an internal defect
  (`commit/command_execution.rs:1245`). `SPEC.md:8656` asks for exactly one terminal
  winner.
* `pipeline_key_reuse`: two commands with one identity and different inputs in one
  unit, driven one after the other. The lookup under the second one's lease finds the
  first one's outcome and takes it for corruption (`commit/command_attempt.rs:1386`):
  the coordinator stops and the caller gets an internal defect. OUT-002
  (`SPEC.md:2578`) asks for `IdempotencyKeyReuse`, which is what admission and the
  recheck inside the transaction answer.
* `consumer_stale_window`: a protected pull submits the event window it read, but not
  the checkpoint or revision it read it behind. If a seek to an earlier cursor (or a
  retirement) commits in between, `resolve_policy_hidden_state` starts from the moved
  checkpoint and takes it to a hidden event at the beginning of the old window, past
  events nobody has settled (`api/consumer.rs:2055`, called from
  `redb/consumer.rs:527`). `api/consumer.rs:114` says of a checkpoint that "Every
  selected event through this exact event is terminally resolved", and CON-003
  (`SPEC.md:1074`) asks for a contiguous acknowledged prefix.

Four more observations have no run of their own:

* The event window is one larger than the sparse limit
  (`service/consumer_operations.rs:53`, `api/consumer.rs:13`). With the sparse set full
  behind a head event leased at its last attempt, the expiry of that lease cannot be
  recorded: `normalize_consumer_recovery` fails, every pull fails with it, seek and
  retire are refused because of the lease, and after a restart
  `recover_event_consumers` fails the start of the whole process, where its comment
  (`api/consumer.rs:1175`) says "Expired leases become immediate retries or terminal
  dead letters". The model reaches this state: `CatchesUp` exempts it as `Wedged`, and
  `process # "refused"` is not an invariant of `consumer_delivery`.
* A lease is committed against the revision it was planned from and nothing else
  (`api/consumer.rs:754`), and the revisions of a consumer that is retired and created
  again start over (`api/consumer.rs:186`). A pull planned before the retirement is
  then granted to the new consumer when that has come to the same revision, on top of
  the leases the new one has out, so the limit in flight (CON-005, `SPEC.md:1082`) can
  be exceeded. `LeasesRespected` claims the limit of a consumer that was not moved, or
  whose pulls are single transactions. The run's two events are within its limit of two
  in any case; the proof covers every limit.
* Start-up recovery of the outbox freezes a fence with its first page, but the flag that
  says whether more rows follow comes from the live index and counts rows committed
  behind the fence (`redb/derived.rs:179`). The last page then contradicts the shape
  check (`api/outbox.rs:695`): recovery ends degraded, pauses and starts over. Under
  commits that never pause, a recovery of several pages need never end. The model has
  this path (`RecoverRefused`); `EventsSettle` is a statement about commits that stop,
  which `MaxEvents` makes them do, and `NoneStranded` holds throughout.
* Outbox readiness is set from the last page that ended without a failure
  (`server/outbox_worker.rs:666`), so an event dead-lettered on an earlier page does
  not keep it degraded.

## 4. Proofs

Each theorem holds for every value of the constants its module's assumption allows:
any number of waiters, keys and shards, of commands, submissions and units in flight,
of events and clients, and any capacity, limit, or number of faults and crashes. In
each module one invariant is proved inductive, with lemmas for what an operator or an
action does to each of its parts, and the theorems follow from it.

**Conflict manager** (`ConflictManagerProofs`, from `ConfigAssumption`: what
`ConflictManagerConfig::new` checks).

* `TypeCorrect`: `Spec => []TypeOK`; the queue lemmas (`WithoutIndex`, `WithoutLemma`)
  say that taking a waiter out of a queue keeps a queue of the others in order.
* `OwnershipInvariant`: `Spec => []HoldersAreOwners`. The invariant is not inductive
  by itself: a new acquisition gets the next id, and a holder with an id that was
  never handed out would come to life with it. `OwnershipInv` adds `TypeOK` and
  `UnusedIds`: an id that was not handed out is absent, still `Waiting`, and in no
  queue, candidate set, deadline entry or timer job; and `TableCovers`: a key without
  a table entry is free, which is needed because grants look at entries only.
* `Exclusive`: `Spec => []MutualExclusion`, which follows from ownership: two leases
  with a common key would both be its one holder.
* `QueueInv` is `OwnershipInv` with `Control` (where the task of an acquisition is
  tells whether it was registered, whether it took its grant and whether it may have
  work left from before the locks were dropped), `TimerIdle` (the worker takes a
  deadline only with no such work left), `Flagged` (`queued` says who is counted) and
  `QueueIntegrity`. `StepKinds` reduces every action, by this invariant, to one of six
  things it can do to holders and queues: nothing, join, take free keys, serve, pass a
  candidate over, leave. What follows is argued per kind, with lemmas on what
  `Append`, `Tail` and `Without` do to who is in a queue and before whom. From it
  `QueuesAreExact` and `NothingIsLeftBehind`; and with it, each inductive on top of it,
  `OneOrder` (`ConsistentOrder`), `NobodyStranded` (`NoStrandedWaiter`) and
  `CapacitiesHold` (`Accounting`, which needs that the table is finite: key sets are).
* `LeaseRefinement`: `Spec => ImplementsLeaseService`, by the same kinds: joining is
  `Wait`, taking free keys `TakeFree`, serving `Serve`, leaving `Leave`, and the other
  two change nothing the service can see.
* `Wakeful` relates each task to its waker, token and deadline at every point between
  the registration and the last look before it parks: a wait that has ended is still
  to be settled by somebody, a waiter past `PollArm` has a deadline or is in the
  worker's hands, and so on. A step concerns one waiter, and `Quiet` says it leaves
  the others. From it `NoWakeupIsLost` (`NoLostWakeup`) and `DeadlinesAreTakenBack`
  (`DeadlinesDoNotLeak`).

**Commit pipeline** (from `PipelineAssumption`: positive capacity and group bound, and
a shutdown message that is no command). `CommitPipelineProofs` has the invariant
`StoreInv`:

* `Sealed`: the frames given to the journal divide the records behind the durable ones
  and end with the log; a torn batch ends at one of them; no key is recorded twice.
  With it go `KeysAreUnique` and `PublicationIsDurable`.
* `Halting`: a fenced coordinator has a fenced store, and a halted one has closed its
  gate; a fenced store has a halted coordinator, or one that is about to be fenced
  because its oldest unit can no longer be published (`Doomed`). It gives
  `LifecycleOnlyDescends`.
* `Fencing`: nothing appended behind the store's fence is ever published. An epoch can be
  sealed, and even become durable, after the fence, so this needs a reason for each way
  a fence comes about: either a publication has failed, and with it every one that
  follows in the queue; or a write has failed, and what is appended behind the fence is
  behind it; or neither, and then the writer itself raised the fence, so that no epoch
  is open. It gives `FencedShowsNothingNew` (`FenceIsFinal`).
* `Handed` and `Room`: the intake gives the writer one unit at a time; the lane and the
  feedback tokens add up to what the writer counts in flight; the unit being driven has
  room in the suffix. From `Room`: `LaneIsAccounted`, `PublishedFrontierIsWhole`.
* `Covered`: while the store is not fenced, what is not published waits for a fence in
  the lane and is counted in the suffix; the count holds on for an epoch that is open
  when the fence comes. From it `SuffixIsBounded`. It has to name the
  records before the unit that is about to enter the lane (`Base`), since those are in
  the log one step before their fence is in the lane.
* `Carried`: first commits name their own records, on the way (results, unit, lane)
  as well as in answers; those of a fence lie within what the fence publishes. From it
  `FirstCommitsKept`.

`PipelineIntakeProofs` adds `Limits` (permits and queued messages share the capacity;
the pending queue is bounded while the actor runs) and `Closing` (the shutdown message
follows the closing of the gate, and only with it does the actor leave its loop):
`BacklogIsBounded` and `NothingLeftQueued`. `PipelineOrderProofs` adds `Placed` (a
command is in a queue once, in one queue) and `Ordered` (results are in order within a
unit, along the lane and behind what was notified): `NotificationsInOrder`, for any
faults.

`PipelineLedgerProofs` proves `LedgerRefinement`: `Spec => ImplementsLedger`, under the
hypothesis `MaxFaults = 0`. Crashes are not limited. The hypothesis is needed:
`pipeline_replay_before_fence` is a run with one fault in which a replay is answered
that the ledger does not allow. `LedgerInv` adds to the order that
nothing is torn, closed or fenced (`Calm`), that a command that waits is in one place
(`Spread`) and has no answer (`Unsaid`), that recorded commands were asked for
(`Known`), and that a replay on its way is published or behind a fence of the lane that
publishes it (`Replays`).

**Outbox** (`OutboxProofs`). `OutboxInv` joins the four invariants of the run (the
dispatcher's view is exact, none stranded, calls counted, runs fit) with what they
rest on: which of page, run and buffer are empty in which phase (`Phased`), that claimed
and accepted rows are in `Delivering` with a counted attempt not yet spent on a call
(`RowStates`, `CallsLeft`), that recovery leaves nothing behind its cursor and within
its fence (`Behind`), and why a verdict may be written (`Justified`). The theorems are
`TypeCorrect`, `ViewsAreExact`, `NothingStranded`, `EveryCallCounted`,
`ClaimedRunsFit` and `Refinement`: `Spec => ImplementsDelivery`.

**Event consumers** (`EventConsumerProofs`). `ConsumerInv` is about the store
(`StoreInv`) and about each operation under way (`CarriedInv`): what it checked when
it was planned (`Planned`); that a row it saw due is still due while it is the same
(`Witnessed`); that, if no move came between, a window read behind a checkpoint
reaches the current one, and a resolution planned from the revision still stored
settles what was settled and its own event (`Fresh`); that a planned lease fits while
nothing was written since (`Fits`). Every commit is compared with a revision only, so
this is what makes a late commit safe. `TypeCorrect` and `LeasesHold` have no
hypothesis; `NothingSkipped` (`Spec => []SettledExactly`) has `"protected" \notin
Movable`, the condition whose absence `consumer_stale_window` is about.

Only model-checked is liveness (`AcquisitionsComplete`, `DeadlinesFire`,
`AcceptedIsAnswered`, `ShutdownEnds`, `EventsSettle`, `CaughtUpIsReady`, `CatchesUp`):
fairness and `ENABLED` are outside the prover's reach. The four properties that the code
violates (section 3) have no theorem; two of the theorems carry as their hypothesis the
condition such a run breaks.

## 5. Not modelled

Conflict manager: telemetry, the limit on the raw key count before duplicates are
removed, the test-only `notify_deadline`, construction and teardown of the worker.

Pipeline: audit groups, single (barrier) messages and deferrable observations,
read-only commands, idempotency inspection, the stored execution-failure terminal,
panics of a thread, the retained-byte semaphore, the primary admission gate (always
open here), the timing of group formation (any prefix may be formed), telemetry,
checkpoints and extents (a unit may ask for a drained pipeline), limit errors of a
seal, and the failures behind a successful submission of the frame (installing the
private frontier, registering the publication), which need a poisoned lock or a full
publication queue; the second is what `UnpublishedBounded` excludes. The answer `Failed` stands for all errors that prove nothing was written,
`Rejected` for fenced and stopped. That an absent record after an unknown commit
status stays absent is a property of the engine the model takes as given.

Outbox: opening and validating the archive before the first pass, operation without a
destination (nothing is dispatched), what a delivery contains, the length of delays and
batches, the byte limit of a page (a page is cut by its number of rows), operator commands on dead letters.

Event consumers: identity, partition and authorization checks, audit, lease validation
(a read), waiting for notifications, the limit of 4096 delivery rows, the shorter
window after 1024 candidates of a protected pull, the retention low water. A restored
database is taken to be the one that stopped, under a new incarnation.

The reasons for the other components are in `PROJECT.json`.

## 6. Plan

1. Proofs: the ledger with faults, for every answer but the replays that
   `pipeline_replay_before_fence` is about.
2. Coordinator, continued: audit groups and barrier messages in `CommitPipeline`; the
   primary admission gate as a module of its own, composed with the submission gate.
3. Command attempt: the retry loop, deadline and lease of one attempt, over
   `LeaseService`.
4. Journal extents: rotation, sealing and checkpoint against recovery, refined to the
   `frames`/`durable` view of `CommitPipeline`; retention, with the low water of the
   event consumers.
5. Projections: notification and catch-up against the commit sequence; scheduler.
