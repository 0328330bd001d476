-------------------------------- MODULE Outbox --------------------------------
(***************************************************************************)
(* The transactional outbox: the durable delivery status of each committed *)
(* event, the recovery that normalises interrupted deliveries, the          *)
(* dispatcher that claims runs of events, hands them to the destination     *)
(* and completes them in groups, and the server worker that alternates the  *)
(* two and reports health.                                                  *)
(*                                                                         *)
(* Event ids are 1..MaxEvents, in commit order, so a page, a claimed run    *)
(* and a group of successes are partial functions from events to the rows   *)
(* the worker believes they have.  The clock is abstracted to which stored  *)
(* instants (a retry time or a lease deadline) have passed.  A write to the *)
(* store is applied, or fails leaving the row changed or not; every write   *)
(* is a compare-and-set against the row the worker believes in, and the     *)
(* StateChanged arms of the code are the case that ViewExact excludes.      *)
(***************************************************************************)
EXTENDS Naturals, FiniteSets

CONSTANTS
    MaxEvents,      \* bound on the commands that emit an event
    MaxAttempts,    \* DeliveryPolicy::max_attempts
    ClaimGroup,     \* MAX_OUTBOX_CLAIM_GROUP_ENTRIES
    SuccessGroup,   \* MAX_OUTBOX_SUCCESS_GROUP_ENTRIES
    Quota,          \* archive records that fit
    Configurations, \* destinations, each with a DeliveryPolicy::scan_limit
    MaxFaults       \* bound on crashes, failed writes and failed deliveries

ASSUME OutboxAssumption ==
    /\ {MaxEvents, MaxAttempts, ClaimGroup, SuccessGroup} \subseteq Nat \ {0}
    /\ {Quota, MaxFaults} \subseteq Nat
    /\ Configurations \subseteq
          [destination : {"archive", "webhook"}, scanLimit : Nat \ {0}]

Events == 1..MaxEvents

VARIABLES
    committed,    \* events with a durable intent: 1..committed
    status,       \* the OUTBOX_STATUS table
    passed,       \* events whose stored instant has passed
    destination,  \* the configured destination
    scanLimit,    \* the configured scan limit
    archive,      \* events the destination holds
    calls,        \* deliver() calls made for each event (history)
    rejected,     \* events answered with a permanent failure (history)
    worker,       \* where the worker thread is
    after,        \* scan cursor: the last event consumed, 0 at the start
    upper,        \* the recovery scan's frozen upper fence
    page,         \* observed items not yet consumed
    more,         \* the scan ended before the exact end
    run,          \* claimed items not yet answered for
    successes,    \* accepted items not yet completed
    answer,       \* the disposition being settled
    lastError,    \* the connector's last_error / last_failed
    dirty,        \* this page's report is not all zero
    health,       \* the two latches behind readiness
    faults        \* faults so far

config == <<destination, scanLimit>>
durable == <<committed, status, archive, calls, rejected, config>>
pass == <<after, upper, page, more, run, successes, answer, dirty>>
vars == <<durable, passed, worker, pass, lastError, health, faults>>

-----------------------------------------------------------------------------
(* Status rows. *)

Absent == [state |-> "absent", attempts |-> 0, timed |-> FALSE,
           renewed |-> FALSE]
Pending(n, timed) == [state |-> "pending", attempts |-> n, timed |-> timed,
                      renewed |-> FALSE]
Delivering(n, renewed) == [state |-> "delivering", attempts |-> n,
                           timed |-> TRUE, renewed |-> renewed]
Delivered(n) == [state |-> "delivered", attempts |-> n, timed |-> FALSE,
                 renewed |-> FALSE]
DeadLetter(n) == [state |-> "dead", attempts |-> n, timed |-> FALSE,
                  renewed |-> FALSE]

Rows == [state : {"absent", "pending", "delivering", "delivered", "dead"},
         attempts : 0..MaxAttempts, timed : BOOLEAN, renewed : BOOLEAN]

IsView(v) == DOMAIN v \subseteq Events /\ v \in [DOMAIN v -> Rows]
None == [e \in {} |-> Absent]
First(view) == CHOOSE e \in DOMAIN view : \A d \in DOMAIN view : e <= d
Keep(view, S) == [e \in (DOMAIN view) \cap S |-> view[e]]
Drop(view, S) == [e \in (DOMAIN view) \ S |-> view[e]]
FirstOf(S, n) == {e \in S : Cardinality({d \in S : d < e}) < n}

\* A table with the rows of S replaced.
Put(S, row(_)) == [e \in Events |-> IF e \in S THEN row(e) ELSE status[e]]

\* Mutant: the failed attempt is given back.
RetryUncounted(n) == Pending(n - 1, TRUE)

\* The rows after a retryable failure of attempt n: at the limit there is no
\* next attempt, so the row is pending with no instant to wait for.
Retry(n) == Pending(n, n < MaxAttempts)

Undelivered == {e \in 1..committed : status[e].state # "delivered"}
Claimable == {e \in 1..committed : status[e].state \in {"absent", "pending"}}

-----------------------------------------------------------------------------
(* The destination. *)

\* The archive charges nothing for a record it already holds and charges a
\* run's new records together.
Fits(S, e) ==
    \/ destination = "webhook"
    \/ e \in archive
    \/ Cardinality(archive) + Cardinality({d \in S \ archive : d <= e}) <= Quota

\* Mutant: each event of a run is charged by itself.
AdmissibleOneByOne(S) == {e \in S : \A d \in S : d <= e => Fits({d}, d)}

\* admissible_run: the leading events of S that can be accepted together.
Admissible(S) == {e \in S : \A d \in S : d <= e => Fits(S, d)}

-----------------------------------------------------------------------------
(* Writes: what a transaction leaves behind when it fails. *)

\* A rewritten row carries a new instant.
Rearm == passed' = {e \in passed : status'[e] = status[e]}

Fault == faults < MaxFaults /\ faults' = faults + 1

\* The volatile state of one pass is dropped with its dispatcher.
Forget ==
    /\ after' = 0 /\ upper' = 0 /\ more' = FALSE /\ dirty' = FALSE
    /\ page' = None /\ run' = None /\ successes' = None
    /\ answer' = "none"

\* A storage error: the rows may or may not have been written, nothing more
\* is flushed, and the worker returns to recovery after a pause.
WriteFails(table) ==
    /\ Fault
    /\ status' \in {status, table}
    /\ worker' = "failed"
    /\ Forget
    /\ health' = [health EXCEPT !.destination = FALSE]
    /\ UNCHANGED <<committed, archive, calls, rejected, config, lastError>>

Matches(view) == \A e \in DOMAIN view : status[e] = view[e]

-----------------------------------------------------------------------------
Init ==
    /\ committed = 0
    /\ status = [e \in Events |-> Absent]
    /\ passed = {}
    /\ \E c \in Configurations :
          destination = c.destination /\ scanLimit = c.scanLimit
    /\ archive = {}
    /\ calls = [e \in Events |-> 0]
    /\ rejected = {}
    /\ worker = "down"
    /\ after = 0 /\ upper = 0 /\ more = FALSE /\ dirty = FALSE
    /\ page = None /\ run = None /\ successes = None
    /\ answer = "none"
    /\ lastError = "none"
    /\ health = [degraded |-> TRUE, destination |-> FALSE]
    /\ faults = 0

\* A command commits with one event: its intent is durable, no status row is
\* written, and with a destination attached the notification only wakes the
\* worker, whose waits end by themselves.
Commit ==
    /\ committed < MaxEvents
    /\ committed' = committed + 1
    /\ UNCHANGED <<status, archive, calls, rejected, config, passed,
                   worker, pass, lastError, health, faults>>

\* The wall clock reaches an instant somebody will compare it with.
ClockPasses(e) ==
    /\ e \notin passed
    /\ status[e].timed
    /\ status[e].state = "pending" \/ e \in DOMAIN run
    /\ passed' = passed \cup {e}
    /\ UNCHANGED <<durable, worker, pass, lastError, health, faults>>

-----------------------------------------------------------------------------
(* The worker thread: start, recovery, pauses, process loss. *)

Start ==
    /\ worker = "down"
    /\ worker' = "recover"
    /\ UNCHANGED <<durable, passed, pass, lastError, health, faults>>

(* One bounded page of the undelivered rows.  The first page freezes the   *)
(* fence Top; the index page it is cut from holds one identity more than   *)
(* the limit and also sees what was committed behind the fence since.      *)

Top == IF upper = 0 THEN committed ELSE upper
Ahead == {e \in Undelivered : after < e}
IndexPage == FirstOf(Ahead, scanLimit + 1)
Fenced == {e \in IndexPage : e <= Top}
Items == FirstOf(Fenced, scanLimit)

\* The index has more than its page, or the fence has more than the items.
HasMore == Ahead # IndexPage \/ Items # Fenced

\* A page that ends at the fence, or holds nothing, may not have a successor.
Misshapen == HasMore /\ (Items = {} \/ Top \in Items)

RecoverScan ==
    /\ worker = "recover"
    /\ ~Misshapen
    /\ upper' = Top
    /\ page' = [e \in Items |-> status[e]]
    /\ more' = HasMore
    /\ worker' = "normalize"
    /\ UNCHANGED <<durable, passed, after, run, successes, answer, dirty,
                   lastError, health, faults>>

\* Events committed since the fence was frozen make the last page look
\* unfinished: it is refused as corrupt, and recovery is given up as degraded.
RecoverRefused ==
    /\ worker = "recover"
    /\ Misshapen
    /\ worker' = "failed"
    /\ Forget
    /\ health' = [health EXCEPT !.destination = FALSE]
    /\ UNCHANGED <<durable, passed, lastError, faults>>

\* An interrupted delivery becomes pending again with its attempt counted.
Normalize ==
    /\ worker = "normalize" /\ DOMAIN page # {}
    /\ LET e == First(page)
           table == IF page[e].state = "delivering"
                    THEN Put({e}, LAMBDA d : Retry(page[d].attempts))
                    ELSE status
       IN \/ /\ Matches(Keep(page, {e}))
             /\ status' = table
             /\ page' = Drop(page, {e})
             /\ after' = e
             /\ UNCHANGED <<committed, archive, calls, rejected, config,
                            worker, upper, more, run, successes, answer, dirty,
                            lastError, health, faults>>
          \/ page[e].state = "delivering" /\ WriteFails(table)
    /\ Rearm

\* At the exact end the dispatcher is built, with a fresh cursor.
RecoverNext ==
    /\ worker = "normalize" /\ DOMAIN page = {}
    /\ IF more
       THEN worker' = "recover" /\ UNCHANGED pass
       ELSE worker' = "scan" /\ Forget
    /\ UNCHANGED <<durable, passed, lastError, health, faults>>

\* A read fails: recovery is degraded or the pass ends.
ReadFails ==
    /\ worker \in {"recover", "scan"}
    /\ WriteFails(status)
    /\ Rearm

\* Mutant: an error goes straight back to the pending scan.
PauseEndsScanning ==
    /\ worker = "failed"
    /\ worker' = "scan"
    /\ UNCHANGED <<durable, passed, pass, lastError, health, faults>>

\* The pause after an error ends, and recovery starts over.
PauseEnds ==
    /\ worker = "failed"
    /\ worker' = "recover"
    /\ UNCHANGED <<durable, passed, pass, lastError, health, faults>>

IdleEnds ==
    /\ worker = "idle"
    /\ worker' = "scan"
    /\ UNCHANGED <<durable, passed, pass, lastError, health, faults>>

\* The process is lost (a controlled stop, between passes, leaves the same
\* state): only the tables and the destination survive.
Crash ==
    /\ worker # "down"
    /\ Fault
    /\ worker' = "down"
    /\ Forget
    /\ lastError' = "none"
    /\ health' = [degraded |-> TRUE, destination |-> FALSE]
    /\ UNCHANGED <<durable, passed>>

-----------------------------------------------------------------------------
(* dispatch_once: scan one page, then consume it item by item. *)

Scan ==
    /\ worker = "scan"
    /\ LET rest == {e \in Claimable : after < e}
           items == FirstOf(rest, scanLimit)
       IN /\ page' = [e \in items |-> status[e]]
          /\ more' = (items # rest)
          /\ worker' = IF items = {} THEN "end" ELSE "item"
    /\ dirty' = FALSE
    /\ UNCHANGED <<durable, passed, after, upper, run, successes, answer,
                   lastError, health, faults>>

Eligible(e) == page[e].timed => e \in passed

\* Mutant: one attempt more than the limit.
PermittedOnceMore(e) == page[e].attempts <= MaxAttempts
Permitted(e) == page[e].attempts < MaxAttempts

\* The leading items that are due and within their attempt limit.
Candidates ==
    {e \in FirstOf(DOMAIN page, ClaimGroup) :
        \A d \in DOMAIN page : d <= e => Eligible(d) /\ Permitted(d)}

\* A full group of successes is completed before anything else happens.
Room == Cardinality(DOMAIN successes) < SuccessGroup
AtItem == worker = "item" /\ Room

\* Where the worker is once the items up to the cursor are consumed.
Onward(items) == IF DOMAIN items = {} THEN "end" ELSE "item"

\* Claims S in one transaction and sets out to deliver it.
Claim(S) ==
    LET claimed == [e \in S |-> Delivering(page[e].attempts + 1, FALSE)]
        table == Put(S, LAMBDA e : claimed[e])
    IN /\ \/ /\ Matches(Keep(page, S))
             /\ status' = table
             /\ run' = claimed
             /\ page' = Drop(page, S)
             /\ after' = CHOOSE e \in S : \A d \in S : d <= e
             /\ worker' = "deliver"
             /\ lastError' = IF destination = "archive" THEN "none"
                             ELSE lastError
             /\ UNCHANGED <<committed, archive, calls, rejected, config,
                            upper, more, successes, answer, dirty, health,
                            faults>>
          \/ WriteFails(table)
       /\ Rearm

\* The longest admissible run is claimed together.  An archive that fails
\* part of the preflight shortens the run; an item whose run was refused
\* altogether and whose own preflight succeeds is claimed alone.
DispatchRun ==
    /\ AtItem
    /\ LET admitted == Admissible(Candidates)
       IN \E n \in 1..Cardinality(admitted) :
             /\ destination = "webhook" => n = Cardinality(admitted)
             /\ Claim(FirstOf(admitted, n))

\* The first item is not due, or the destination would refuse it (its quota
\* is used up) or cannot be asked: it is left pending, unclaimed.
DeferItem ==
    /\ AtItem
    /\ LET e == First(page)
       IN \/ /\ ~Eligible(e)
             /\ UNCHANGED <<lastError, faults>>
          \/ /\ Eligible(e)
             /\ ~Fits({e}, e)
             /\ lastError' = "transient"
             /\ UNCHANGED faults
          \/ /\ Eligible(e)
             /\ destination = "archive"
             /\ Fault
             /\ lastError' \in {"transient", "refused"}
    /\ worker' = "defer"
    /\ UNCHANGED <<durable, passed, pass, health>>

Deferred ==
    /\ worker = "defer" /\ successes = None
    /\ LET e == First(page)
       IN /\ page' = Drop(page, {e})
          /\ after' = e
          /\ worker' = Onward(page')
    /\ dirty' = TRUE
    /\ UNCHANGED <<durable, passed, upper, more, run, successes, answer,
                   lastError, health, faults>>

\* The first item has used up its attempts.
Exhausted ==
    /\ AtItem
    /\ LET e == First(page)
       IN Eligible(e) /\ ~Permitted(e) /\ Fits({e}, e)
    /\ lastError' = IF destination = "archive" THEN "none" ELSE lastError
    /\ worker' = "bury"
    /\ UNCHANGED <<durable, passed, pass, health, faults>>

DeadLetterPending ==
    /\ worker = "bury" /\ successes = None
    /\ LET e == First(page)
           table == Put({e}, LAMBDA d : DeadLetter(page[d].attempts))
       IN \/ /\ Matches(Keep(page, {e}))
             /\ status' = table
             /\ page' = Drop(page, {e})
             /\ after' = e
             /\ worker' = Onward(page')
             /\ dirty' = TRUE
             /\ UNCHANGED <<committed, archive, calls, rejected, config,
                            upper, more, run, successes, answer, lastError,
                            health, faults>>
          \/ WriteFails(table)
    /\ Rearm

-----------------------------------------------------------------------------
(* deliver_claimed: renew, call the destination, settle its answer. *)

AtDelivery == worker = "deliver" /\ Room

\* Mutant: the claimed row keeps its first lease in the worker's hands.
RunWithStale(e, row) == run
RunWith(e, row) == [run EXCEPT ![e] = row]

\* A lease found expired before the call is renewed, once.
Lapsed(e) == e \in passed /\ ~run[e].renewed

RenewLease ==
    /\ AtDelivery
    /\ LET e == First(run)
           renewed == Delivering(run[e].attempts, TRUE)
           table == Put({e}, LAMBDA d : renewed)
       IN /\ Lapsed(e)
          /\ \/ /\ Matches(Keep(run, {e}))
                /\ status' = table
                /\ run' = RunWith(e, renewed)
                /\ UNCHANGED <<committed, archive, calls, rejected,
                               config, worker, after, upper, page, more,
                               successes, answer, dirty, lastError, health,
                               faults>>
             \/ WriteFails(table)
    /\ Rearm

\* Where the worker is once the run holds only rest.
AfterRun(rest) == IF DOMAIN rest = {} THEN Onward(page) ELSE "deliver"

\* Mutant: an acceptance does not clear the last failure.
AcceptedSilently(e) ==
    /\ Fits({e}, e)
    /\ archive' = archive \cup {e}
    /\ successes' = [d \in DOMAIN successes \cup {e} |->
                        IF d = e THEN run[e] ELSE successes[d]]
    /\ run' = Drop(run, {e})
    /\ worker' = AfterRun(run')
    /\ UNCHANGED <<answer, rejected, lastError, faults>>

\* The destination holds the event and says so; its success is buffered.
Accepted(e) ==
    /\ Fits({e}, e)
    /\ archive' = archive \cup {e}
    /\ successes' = [d \in DOMAIN successes \cup {e} |->
                        IF d = e THEN run[e] ELSE successes[d]]
    /\ run' = Drop(run, {e})
    /\ worker' = AfterRun(run')
    /\ lastError' = "none"
    /\ UNCHANGED <<answer, rejected, faults>>

\* The clock fails before the success can be buffered: the row stays as it is.
AcceptedUnrecorded(e) ==
    /\ Fault
    /\ Fits({e}, e)
    /\ archive' = archive \cup {e}
    /\ worker' = "abandon"
    /\ lastError' = "none"
    /\ UNCHANGED <<run, successes, answer, rejected>>

\* The call fails, perhaps after the destination took the event.
Retryable(e) ==
    /\ Fault
    /\ archive' \in {archive} \cup
                    (IF Fits({e}, e) THEN {archive \cup {e}} ELSE {})
    /\ answer' = "retryable"
    /\ worker' = "settle"
    /\ lastError' = "transient"
    /\ UNCHANGED <<run, successes, rejected>>

\* The destination will never take the event.  The archive's permanent errors
\* (binding, integrity) also refuse the worker itself; a webhook's may be its
\* own failure to encode the event.
PermanentFailure(e) ==
    /\ Fault
    /\ answer' = "permanent"
    /\ rejected' = rejected \cup {e}
    /\ worker' = "settle"
    /\ lastError' \in IF destination = "archive" THEN {"refused"}
                                              ELSE {"none", "transient"}
    /\ UNCHANGED <<archive, run, successes>>

DeliverClaimed ==
    /\ AtDelivery
    /\ LET e == First(run)
       IN /\ ~Lapsed(e)
          /\ calls' = [calls EXCEPT ![e] = @ + 1]
          /\ \/ Accepted(e) \/ AcceptedUnrecorded(e)
             \/ Retryable(e) \/ PermanentFailure(e)
    /\ UNCHANGED <<committed, status, config, passed, after, upper, page,
                   more, dirty, health>>

\* Mutant: a retryable failure gives the event up at once.
SettledHastily(e) == DeadLetter(run[e].attempts)

\* complete_retry and complete_dead_letter, after the buffer is flushed.
Settled(e) ==
    IF answer = "retryable" /\ run[e].attempts < MaxAttempts
    THEN Retry(run[e].attempts)
    ELSE DeadLetter(run[e].attempts)

Settle ==
    /\ worker = "settle" /\ successes = None
    /\ LET e == First(run)
           table == Put({e}, LAMBDA d : Settled(d))
       IN \/ /\ Matches(Keep(run, {e}))
             /\ status' = table
             /\ run' = Drop(run, {e})
             /\ worker' = AfterRun(run')
             /\ answer' = "none"
             /\ dirty' = TRUE
             /\ UNCHANGED <<committed, archive, calls, rejected, config,
                            after, upper, page, more, successes, lastError,
                            health, faults>>
          \/ WriteFails(table)
    /\ Rearm

-----------------------------------------------------------------------------
(* flush_successes: one transaction for the whole buffer, at its bound, at  *)
(* the page's end, and before deferral, retry or dead-letter handling.      *)

FlushDue ==
    /\ successes # None
    /\ ~Room \/ worker \in {"defer", "bury", "settle", "end", "abandon"}

Flush ==
    /\ FlushDue
    /\ LET S == DOMAIN successes
           table == Put(S, LAMBDA e : Delivered(successes[e].attempts))
       IN \/ /\ Matches(successes)
             /\ status' = table
             /\ successes' = None
             /\ UNCHANGED <<committed, archive, calls, rejected, config,
                            worker, after, upper, page, more, run, answer,
                            dirty, lastError, health, faults>>
          \/ WriteFails(table)
    /\ Rearm

\* A clock error ends the pass, but what was accepted is completed first.
ClockFails ==
    /\ \/ worker \in {"item", "deliver"} /\ Room
       \/ worker = "settle" /\ successes = None
    /\ Fault
    /\ worker' = "abandon"
    /\ UNCHANGED <<durable, passed, pass, lastError, health>>

Abandon ==
    /\ worker = "abandon" /\ successes = None
    /\ worker' = "failed"
    /\ Forget
    /\ health' = [health EXCEPT !.destination = FALSE]
    /\ UNCHANGED <<durable, passed, lastError, faults>>

-----------------------------------------------------------------------------
(* The server worker's handling of a page's report. *)

\* Mutant: the cursor is not taken back at the end.
NextAfterKept == after

\* The dispatcher resumes behind the cursor, or at the start.
NextAfter == IF more THEN after ELSE 0

\* A page followed by another is continued at once.  After the last page the
\* worker reports health - ready outright when the page was clean, from the
\* undelivered index otherwise - and waits, or exits if it was refused.
EndPage ==
    /\ worker = "end" /\ successes = None
    /\ LET ready == lastError = "none"
           continue == ready /\ more
           clean == ready /\ ~more /\ ~dirty
           refused == destination = "archive" /\ lastError = "refused"
       IN /\ health' = [degraded |->
                           IF continue THEN health.degraded
                           ELSE ~clean /\ Undelivered # {},
                        destination |-> ready]
          /\ worker' = IF continue THEN "scan"
                       ELSE IF refused THEN "refused" ELSE "idle"
    /\ after' = NextAfter
    /\ more' = FALSE /\ dirty' = FALSE
    /\ UNCHANGED <<durable, passed, upper, page, run, successes, answer,
                   lastError, faults>>

-----------------------------------------------------------------------------
Recovery == RecoverScan \/ RecoverRefused \/ Normalize \/ RecoverNext

Dispatch ==
    \/ Scan \/ DispatchRun \/ DeferItem \/ Deferred
    \/ Exhausted \/ DeadLetterPending
    \/ RenewLease \/ DeliverClaimed \/ Settle
    \/ Flush \/ Abandon \/ EndPage

Next ==
    \/ Commit
    \/ \E e \in Events : ClockPasses(e)
    \/ Start \/ PauseEnds \/ IdleEnds
    \/ Recovery \/ Dispatch
    \/ ReadFails \/ ClockFails \/ Crash

Spec == Init /\ [][Next]_vars

\* The worker thread keeps running, its waits are bounded, and time passes.
Fairness ==
    /\ WF_vars(Start \/ PauseEnds \/ IdleEnds \/ Recovery \/ Dispatch)
    /\ \A e \in Events : WF_vars(ClockPasses(e))

FairSpec == Spec /\ Fairness

-----------------------------------------------------------------------------
(* Properties. *)

Phases == {"down", "recover", "normalize", "failed", "scan", "item", "defer",
           "bury", "deliver", "settle", "end", "abandon", "idle", "refused"}

\* Every variable keeps its type, rows and the worker's views of them included.
TypeOK ==
    /\ committed \in 0..MaxEvents
    /\ status \in [Events -> Rows]
    /\ passed \subseteq Events
    /\ destination \in {"archive", "webhook"} /\ scanLimit \in Nat \ {0}
    /\ archive \subseteq Events
    /\ calls \in [Events -> Nat]
    /\ rejected \subseteq Events
    /\ worker \in Phases
    /\ after \in 0..MaxEvents /\ upper \in 0..MaxEvents
    /\ more \in BOOLEAN /\ dirty \in BOOLEAN
    /\ IsView(page) /\ IsView(run) /\ IsView(successes)
    /\ answer \in {"none", "retryable", "permanent"}
    /\ lastError \in {"none", "transient", "refused"}
    /\ health \in [degraded : BOOLEAN, destination : BOOLEAN]
    /\ faults \in 0..MaxFaults

\* What the worker believes of the rows it is about to write is what the table
\* holds, whatever failed, was renewed or crashed before: no exact-status
\* compare-and-set of the single dispatcher can meet a changed row.
ViewExact == Matches(page) /\ Matches(run) /\ Matches(successes)

\* While the dispatcher runs, every row left in Delivering belongs to its
\* claimed run or its buffer of successes: an interrupted delivery, a run cut
\* short or a lost completion group never hides from the pending scan.
NoneStranded ==
    worker \in Phases \ {"down", "recover", "normalize", "failed"} =>
        \A e \in Events : status[e].state = "delivering" =>
            e \in DOMAIN run \cup DOMAIN successes

\* Each call to the destination was counted durably before it was made, over
\* crashes, renewals and lost writes: at most max_attempts calls per event.
CallsAreCounted == \A e \in Events : calls[e] <= status[e].attempts

\* A claimed run fits the archive as a whole, so an exhausted quota defers
\* events and never spends their attempts.
RunsFit == \A e \in DOMAIN run : Fits(DOMAIN run, e)

\* The outbox implements at-least-once delivery with counted attempts.
Fate(row) == CASE row.state = "delivered" -> "delivered"
               [] row.state = "dead" -> "dead"
               [] OTHER -> "open"

Service == INSTANCE DeliveryService WITH
    emitted <- committed,
    tries <- [e \in Events |-> status[e].attempts],
    received <- archive,
    rejected <- rejected,
    fate <- [e \in Events |-> Fate(status[e])]

ImplementsDelivery == Service!Service

\* Once commands stop committing (MaxEvents bounds them), every committed event
\* is eventually delivered or dead-lettered, unless the destination has no room
\* for it or has refused the worker.  Commits behind the fence may make recovery
\* fail and start over (RecoverRefused), so while they go on there is no such
\* promise.
EventsSettle ==
    \A e \in Events :
        e <= committed ~>
            \/ status[e].state \in {"delivered", "dead"}
            \/ worker = "refused"
            \/ ~Fits({e}, e)

HealthReady == ~health.degraded /\ health.destination

\* Once every event is delivered the outbox ends up reporting ready for good.
CaughtUpIsReady ==
    (committed = MaxEvents /\ Undelivered = {}) ~> []HealthReady
=============================================================================
