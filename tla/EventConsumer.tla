---------------------------- MODULE EventConsumer ----------------------------
(***************************************************************************)
(* Durable event consumers: the stored state of one consumer (revision,     *)
(* contiguous checkpoint, sparse terminal resolutions, one delivery row per *)
(* event), the service operations that pull, acknowledge, negatively        *)
(* acknowledge, seek and retire it, and the normalisation of leases when a  *)
(* pull finds them expired and at start-up.                                 *)
(*                                                                         *)
(* Events are 1..head, in stream order.  An operation reads the status, the *)
(* event window behind the checkpoint and the clock, and only then submits  *)
(* its transition.  Without a row policy ("exact") the transition itself is *)
(* an inspection followed by a write that names the inspected revision;     *)
(* with one ("protected") it is a single transaction that also settles the  *)
(* events the policy hides.  Time is which stored instants have passed: an  *)
(* operation carries the rows it saw due.  A lease token is the leased row: *)
(* between two moves the attempts at an event only grow, so the attempt and *)
(* the number of moves before it name one lease.                            *)
(*                                                                         *)
(* Left out: identity, partition and authorization checks, audit, waiting   *)
(* for notifications, lease validation (a read), the retention low water,   *)
(* the 4096-row limit and the shortening of a protected pull's window after *)
(* 1024 candidates.  A pull or resolution whose policy observation is       *)
(* outdated at its transaction is answered StateChanged and writes nothing, *)
(* as one that was never submitted.  A restored database is the one that    *)
(* stopped, under a new history incarnation.                                *)
(***************************************************************************)
EXTENDS Naturals, FiniteSets

CONSTANTS
    Pullers, Resolvers, Movers,   \* clients that pull; that settle; that move
    MaxEvents,        \* bound on the stream
    MaxAttempts,      \* MAX_EVENT_DELIVERY_ATTEMPTS
    MaxSparse,        \* MAX_CONSUMER_SPARSE_RESOLUTIONS
    BatchLimit, InFlightLimit,
    Modes,            \* the delivery modes an instance looks at
    Movable,          \* those of them in which the consumer is moved
    MaxUpsets         \* bound on moves, process ends and policy changes

ASSUME ConsumerAssumption ==
    /\ {MaxEvents, MaxAttempts, MaxSparse, BatchLimit, InFlightLimit}
          \subseteq Nat \ {0}
    /\ MaxUpsets \in Nat
    /\ Modes \subseteq {"exact", "protected"}
    /\ Movable \subseteq Modes

Events == 1..MaxEvents
Clients == Pullers \cup Resolvers \cup Movers

VARIABLES
    head,         \* committed events
    mode,         \* whether a row policy applies to the consumer's caller
    hidden,       \* events the policy hides now
    consumer,     \* the stored snapshot; revision 0 when there is none
    due,          \* events whose row's instant has passed
    era,          \* moves that took effect
    process,      \* "up", "down", or "refused" by start-up recovery
    client,       \* the operation each client is in
    cursors,      \* checkpoints handed out as progress cursors
    upsets,       \* moves, process ends and policy changes so far
    earned,       \* events settled since the consumer began or was moved
    outstanding   \* leases handed out that are neither expired nor settled

stream == <<head, mode, hidden>>
history == <<earned, outstanding>>
vars == <<stream, consumer, due, era, process, client, cursors,
          upsets, history>>

-----------------------------------------------------------------------------
(* Stored state. *)

NoRow == [state |-> "none", attempts |-> 0, era |-> 0]
Rows == {NoRow}
        \cup [state : {"leased"}, attempts : 1..MaxAttempts, era : 0..era]
        \cup [state : {"retry"}, attempts : 1..(MaxAttempts - 1), era : 0..era]
        \cup [state : {"dead"}, attempts : {MaxAttempts}, era : 0..era]

Missing == [rev |-> 0, cp |-> 0, sparse |-> {}, rows |-> [e \in Events |-> NoRow]]
Leased(s) == {e \in Events : s.rows[e].state = "leased"}

\* StoredEventConsumerV1::checked.
Valid(s) ==
    /\ Cardinality(s.sparse) <= MaxSparse
    /\ \A e \in s.sparse : s.cp < e

MaxOf(S) == CHOOSE e \in S : \A d \in S : d <= e
FirstOf(S, n) == {e \in S : Cardinality({d \in S : d < e}) < n}

\* The checkpoint moves through the leading events of the prefix that are
\* settled; what it passes leaves the sparse set.
Walk(s, settled, prefix) ==
    LET ahead == {e \in prefix : s.cp < e}
        passed == {e \in ahead : \A d \in ahead : d <= e => d \in settled}
    IN [s EXCEPT !.cp = MaxOf(passed \cup {s.cp}), !.sparse = settled \ passed]

\* The events among S whose rows are leases at their last attempt.
Spent(s, S) == {e \in S : s.rows[e].attempts = MaxAttempts}

\* A failed attempt: another one, or the end.
Failed(row) ==
    [row EXCEPT !.state = IF row.attempts = MaxAttempts THEN "dead" ELSE "retry"]

\* normalize_consumer_recovery: the leases of S are over.  The checkpoint stays.
Normalized(s, S) ==
    [s EXCEPT !.rev = @ + 1,
              !.sparse = @ \cup Spent(s, S),
              !.rows = [e \in Events |-> IF e \in S THEN Failed(s.rows[e])
                                                    ELSE s.rows[e]]]

\* Mutant: the limit on sparse resolutions is not checked.
CanNormalizeUnbounded(s, S) == Spent(s, S) \cap s.sparse = {}

\* It fails when a resolution is there already or the state would be invalid.
CanNormalize(s, S) ==
    Spent(s, S) \cap s.sparse = {} /\ Valid(Normalized(s, S))

-----------------------------------------------------------------------------
(* What an operation carries. *)

Idle == [op |-> "none", step |-> "idle", event |-> 0, token |-> NoRow, after |-> 0,
         window |-> {}, obs |-> {}, snap |-> Missing]

\* The rows of S whose instant has passed, as an operation sees them.
DueRows(S) == {<<e, consumer.rows[e]>> : e \in due \cap S}
IsDue(s, e, obs) == <<e, s.rows[e]>> \in obs

\* Mutant: the lease of the last attempt is never taken back.
ExpiredButLast(s, obs) ==
    {e \in Leased(s) : IsDue(s, e, obs) /\ s.rows[e].attempts < MaxAttempts}

Expired(s, obs) == {e \in Leased(s) : IsDue(s, e, obs)}

\* The events an operation may lease: new or due for a retry, unsettled, at
\* most a batch and within the limit of leases in flight.
Leasable(s, W, obs) ==
    LET open == {e \in W : /\ s.cp < e /\ e \notin s.sparse
                           /\ \/ s.rows[e].state = "none"
                              \/ s.rows[e].state = "retry" /\ IsDue(s, e, obs)}
        live == Cardinality(Leased(s))
        room == IF live < InFlightLimit THEN InFlightLimit - live ELSE 0
    IN FirstOf(open, IF BatchLimit < room THEN BatchLimit ELSE room)

NewLease(s, e) ==
    [state |-> "leased", attempts |-> s.rows[e].attempts + 1, era |-> era]

-----------------------------------------------------------------------------
Init ==
    /\ head = 0
    /\ mode \in Modes
    /\ hidden = {}
    /\ consumer = Missing
    /\ due = {}
    /\ era = 0
    /\ process = "up"
    /\ client = [c \in Clients |-> Idle]
    /\ cursors = {}
    /\ upsets = 0
    /\ earned = {} /\ outstanding = {}

Upset == upsets < MaxUpsets /\ upsets' = upsets + 1

Emit ==
    /\ head < MaxEvents
    /\ head' = head + 1
    /\ UNCHANGED <<mode, hidden, consumer, due, era, process, client,
                   cursors, upsets, history>>

\* The policy's verdict on an event changes with the records it looks at.
ChangePolicy(e) ==
    /\ mode = "protected" /\ e <= head
    /\ Upset
    /\ hidden' = IF e \in hidden THEN hidden \ {e} ELSE hidden \cup {e}
    /\ UNCHANGED <<head, mode, consumer, due, era, process, client,
                   cursors, history>>

\* A lease expires or a retry becomes eligible.
InstantPasses(e) ==
    /\ e \notin due
    /\ consumer.rows[e].state \in {"leased", "retry"}
    /\ due' = due \cup {e}
    /\ outstanding' = {l \in outstanding : l # <<e, consumer.rows[e]>>}
    /\ UNCHANGED <<stream, consumer, era, process, client, cursors,
                   upsets, earned>>

-----------------------------------------------------------------------------
(* Operations up to the point where they are submitted. *)

Begin(c, request) ==
    /\ process = "up"
    /\ client[c].step = "idle"
    /\ client' = [client EXCEPT ![c] = request]
    /\ UNCHANGED <<stream, consumer, due, era, process, cursors,
                   history>>

\* The pull's first inspection.
BeginPull(c) ==
    Begin(c, [Idle EXCEPT !.op = "pull", !.step = "inspected",
                          !.after = consumer.cp])
    /\ UNCHANGED upsets

\* A lease is acknowledged or returned by its token, the live one of its event
\* or any other.  A token of an earlier incarnation is refused, and without a
\* consumer the answer is NotFound.
BeginResolve(c, op, e, token) ==
    /\ token.state \in {"leased", "none"}
    /\ consumer.rev > 0
    /\ Begin(c, [Idle EXCEPT !.op = op, !.step = "inspected", !.event = e,
                             !.token = token, !.after = consumer.cp])
    /\ UNCHANGED upsets

Finish(c) == client' = [client EXCEPT ![c] = Idle]

\* The window behind the inspected checkpoint, and then the clock.  An event
\* that is not in the window cannot be acknowledged.
ReadWindow(c) ==
    LET r == client[c]
        W == {e \in Events : r.after < e /\ e <= head /\ e <= r.after + MaxSparse + 1}
    IN /\ r.step = "inspected"
       /\ \/ /\ r.op = "pull"
             /\ client' = [client EXCEPT ![c] = [r EXCEPT
                   !.step = "read", !.after = 0, !.window = W, !.obs = DueRows(Events)]]
          \/ /\ r.op # "pull" /\ r.event \in W
             /\ client' = [client EXCEPT ![c] = [r EXCEPT
                   !.step = "read", !.after = 0, !.obs = DueRows({r.event}),
                   !.window = {e \in W : e <= r.event}]]
          \/ /\ r.op # "pull" /\ r.event \notin W
             /\ Finish(c)
       /\ UNCHANGED <<stream, consumer, due, era, process, cursors,
                      upsets, history>>

-----------------------------------------------------------------------------
(* What the coordinator makes of the snapshot it inspects.  A plan keeps the *)
(* parts of the snapshot that are written or compared by the transition.     *)

Only(s, S) == [s EXCEPT !.rows = [e \in Events |-> IF e \in S THEN s.rows[e]
                                                              ELSE NoRow]]

\* prepare_consumer_resolution: a lease of the event is out, and its outcome
\* can be recorded.
Final(r, s) == r.op = "ack" \/ s.rows[r.event].attempts = MaxAttempts
Resolution(r, s) ==
    Walk(s, s.sparse \cup {e \in {r.event} : Final(r, s)}, r.window)
Resolvable(r, s) ==
    /\ s.rows[r.event].state = "leased"
    /\ ~(Final(r, s) /\ r.event \in s.sparse)
    /\ Valid(Resolution(r, s))

Plan(c, step, S, s) ==
    /\ client' = [client EXCEPT ![c].step = step, ![c].window = S, ![c].snap = s]
    /\ UNCHANGED <<stream, consumer, due, era, process, cursors,
                   upsets, history>>

Abandon(c) ==
    /\ Finish(c)
    /\ UNCHANGED <<stream, consumer, due, era, process, cursors,
                   upsets, history>>

\* Expired leases are normalised first; a pull that finds nothing to lease
\* writes nothing, except that the first pull creates the consumer.
PrepareLease(c) ==
    LET r == client[c]
        ended == Expired(consumer, r.obs)
        picked == Leasable(consumer, r.window, r.obs)
    IN /\ r.step = "read" /\ r.op = "pull" /\ mode = "exact"
       /\ IF ended # {}
          THEN IF CanNormalize(consumer, ended) THEN Plan(c, "recover", ended, consumer)
                                                ELSE Abandon(c)
          ELSE IF picked # {} \/ consumer.rev = 0
          THEN Plan(c, "lease", picked, Only(consumer, picked))
          ELSE Abandon(c)

PrepareResolution(c) ==
    LET r == client[c]
    IN /\ r.step = "read" /\ r.op \in {"ack", "nack"} /\ mode = "exact"
       /\ IF consumer.rev > 0 /\ Resolvable(r, consumer)
          THEN Plan(c, "settle", {},
                    [Resolution(r, consumer) EXCEPT
                        !.rows = Only(consumer, {r.event}).rows])
          ELSE Abandon(c)

\* A seek names an event of the stream, or in protected mode a cursor; the check
\* of the target has no effect and its answer stays true.  Without a consumer the
\* answer is NotFound.
BeginMove(c, op, target) ==
    /\ Upset
    /\ mode \in Movable
    /\ mode = "exact" => target <= head
    /\ mode = "protected" /\ op = "seek" => target \in cursors
    /\ consumer.rev > 0
    /\ Begin(c, [Idle EXCEPT !.op = op, !.step = "move", !.event = target,
                             !.snap = [Missing EXCEPT !.rev = consumer.rev]])

-----------------------------------------------------------------------------
(* Transitions.  Each replaces the stored snapshot or changes nothing. *)

\* A transaction that writes s.  A rewritten row has a new instant.
Write(s) ==
    /\ consumer' = s
    /\ due' = {e \in due : s.rows[e] = consumer.rows[e]}

NoWrite == UNCHANGED <<consumer, due, earned, outstanding>>

\* Expired leases S are normalised; their retries are due at once.
WriteNormalized(S) ==
    /\ consumer' = Normalized(consumer, S)
    /\ due' = (due \ S) \cup (S \ Spent(consumer, S))
    /\ earned' = earned \cup Spent(consumer, S)
    /\ UNCHANGED outstanding

\* The leases S are granted in the snapshot s, which drops the rows of D.
WriteLeases(s, S, D) ==
    /\ Write([s EXCEPT !.rev = @ + 1,
                       !.rows = [e \in Events |->
                           IF e \in S THEN NewLease(s, e)
                           ELSE IF e \in D THEN NoRow ELSE s.rows[e]]])
    /\ outstanding' = {l \in outstanding : l[1] \notin D}
                      \cup {<<e, NewLease(s, e)>> : e \in S}

\* Mutant: a newer revision will do.
CurrentOrNewer(s) == consumer.rev >= s.rev

\* Nothing was written to the consumer since s was read.  A consumer that was
\* retired and created again may have the same revision.
Current(s) == consumer.rev = s.rev

\* Recover, Lease and CreateAndLease, against the inspected revision.
Recover(r) ==
    IF consumer = r.snap THEN WriteNormalized(r.window) ELSE NoWrite

Lease(r) ==
    IF /\ Current(r.snap)
       /\ consumer.cp = r.snap.cp /\ consumer.sparse = r.snap.sparse
       /\ \A e \in r.window : consumer.rows[e] = r.snap.rows[e]
    THEN WriteLeases(consumer, r.window, {}) /\ UNCHANGED earned
    ELSE NoWrite

\* PolicySelect: the hidden events of the window are settled, their rows are
\* dropped, and visible ones are leased, in one transaction.  A pull that
\* returns hands out a cursor for the checkpoint it left.
LeaseProtected(r) ==
    LET s == consumer
        ended == Expired(s, r.obs)
        concealed == r.window \cap hidden
        settled == {e \in concealed : s.cp < e}
        walked == Walk(s, s.sparse \cup settled, r.window)
        picked == Leasable(s, r.window \ hidden, r.obs)
        returns == picked # {} \/ r.window = {}
    IN IF ended # {}
       THEN /\ IF CanNormalize(s, ended) THEN WriteNormalized(ended) ELSE NoWrite
            /\ UNCHANGED cursors
       ELSE IF ~Valid(walked) THEN NoWrite /\ UNCHANGED cursors
       ELSE /\ IF s.rev > 0 /\ picked = {} /\ walked = s
               THEN NoWrite
               ELSE /\ WriteLeases(walked, picked, concealed)
                    /\ earned' = earned \cup settled
            /\ cursors' = IF returns THEN cursors \cup {walked.cp} ELSE cursors

\* Acknowledge and NegativeAcknowledge: what is written was prepared from s, the
\* lease is checked in the stored consumer.
Settle(r, s) ==
    LET e == r.event
        final == Final(r, s)
        after == IF r.op = "ack" THEN NoRow ELSE Failed(s.rows[e])
    IN IF /\ Current(s) /\ consumer.rev > 0
          /\ consumer.rows[e].state = "leased"
          /\ consumer.rows[e] = r.token
          /\ ~IsDue(consumer, e, r.obs)
          /\ final <=> e <= s.cp \/ e \in s.sparse
       THEN /\ Write([s EXCEPT !.rev = @ + 1,
                               !.rows = [consumer.rows EXCEPT ![e] = after]])
            /\ earned' = IF final THEN earned \cup {e} ELSE earned
            /\ outstanding' = outstanding \ {<<e, r.token>>}
       ELSE NoWrite

\* The same in one transaction, for an event the policy shows.
SettleProtected(r) ==
    IF r.event \notin hidden /\ Resolvable(r, consumer)
    THEN Settle(r, Resolution(r, consumer))
    ELSE NoWrite

\* Mutant: leases do not stand in the way of a move.
MoveAllowedAnyway(r) == Current(r.snap) /\ consumer.rev > 0

\* Seek and Retire: refused while a lease is out, expired or not.
MoveAllowed(r) ==
    Current(r.snap) /\ consumer.rev > 0 /\ Leased(consumer) = {}

Seek(r) ==
    /\ Write([Missing EXCEPT !.rev = consumer.rev + 1, !.cp = r.event])
    /\ earned' = 1..r.event
    /\ UNCHANGED outstanding

Retire ==
    /\ Write(Missing)
    /\ earned' = {}
    /\ UNCHANGED outstanding

Move(r) ==
    IF MoveAllowed(r)
    THEN /\ era' = era + 1
         /\ IF r.op = "seek" THEN Seek(r) ELSE Retire
    ELSE NoWrite /\ UNCHANGED era

Commit(c) ==
    LET r == client[c]
    IN /\ \/ r.step = "recover" /\ Recover(r) /\ UNCHANGED <<cursors, era>>
          \/ r.step = "lease" /\ Lease(r) /\ UNCHANGED <<cursors, era>>
          \/ r.step = "settle" /\ Settle(r, r.snap) /\ UNCHANGED <<cursors, era>>
          \/ r.step = "move" /\ Move(r) /\ UNCHANGED cursors
          \/ /\ r.step = "read" /\ mode = "protected" /\ r.op = "pull"
             /\ LeaseProtected(r) /\ UNCHANGED era
          \/ /\ r.step = "read" /\ mode = "protected" /\ r.op \in {"ack", "nack"}
             /\ SettleProtected(r) /\ UNCHANGED <<cursors, era>>
       /\ Finish(c)
       /\ UNCHANGED <<stream, process, upsets>>

-----------------------------------------------------------------------------
(* The end of the process, and start-up. *)

Stop ==
    /\ process = "up"
    /\ Upset
    /\ process' = "down"
    /\ client' = [c \in Clients |-> Idle]
    /\ cursors' = {}
    /\ UNCHANGED <<stream, consumer, due, era, history>>

\* recover_event_consumers, before any operation is served.  A restored
\* database has a new history incarnation, in which no lease is valid.
Start(restored) ==
    /\ process = "down"
    /\ LET ended == {e \in Leased(consumer) : restored \/ e \in due}
       IN IF consumer.rev = 0 \/ (ended = {} /\ ~restored)
          THEN process' = "up" /\ NoWrite
          ELSE IF CanNormalize(consumer, ended)
          THEN /\ process' = "up"
               /\ consumer' = Normalized(consumer, ended)
               /\ due' = (due \ ended) \cup (ended \ Spent(consumer, ended))
               /\ earned' = earned \cup Spent(consumer, ended)
               /\ outstanding' = IF restored THEN {} ELSE outstanding
          ELSE process' = "refused" /\ NoWrite
    /\ UNCHANGED <<stream, era, client, cursors, upsets>>

-----------------------------------------------------------------------------
Step(c) ==
    \/ c \in Pullers /\ BeginPull(c)
    \/ ReadWindow(c)
    \/ PrepareLease(c) \/ PrepareResolution(c)
    \/ Commit(c)

Next ==
    \/ Emit
    \/ \E e \in Events : ChangePolicy(e) \/ InstantPasses(e)
    \/ \E c \in Clients : Step(c)
    \/ \E c \in Resolvers, op \in {"ack", "nack"}, e \in 1..head :
          \E token \in {consumer.rows[e], NoRow} : BeginResolve(c, op, e, token)
    \/ \E c \in Movers, t \in 0..MaxEvents : BeginMove(c, "seek", t)
    \/ \E c \in Movers : BeginMove(c, "retire", 0)
    \/ Stop
    \/ \E restored \in BOOLEAN : Start(restored)

Spec == Init /\ [][Next]_vars

\* Pullers come back and finish what they began, instants pass and a stopped
\* process is started again.  Nothing is assumed of the other clients.
Fairness ==
    /\ \A c \in Pullers : WF_vars(Step(c))
    /\ WF_vars(\E e \in Events : InstantPasses(e))
    /\ WF_vars(Start(FALSE))

FairSpec == Spec /\ Fairness

-----------------------------------------------------------------------------
(* Properties. *)

\* Every stored snapshot is one the constructors accept: delivery rows within
\* their attempt bounds, sparse resolutions behind the checkpoint and within
\* their limit, whatever expiries, resolutions and hidden events met.
TypeOK ==
    /\ head \in 0..MaxEvents
    /\ mode \in Modes
    /\ hidden \subseteq 1..head
    /\ consumer.rev \in Nat /\ consumer.cp \in 0..head
    /\ consumer.sparse \subseteq 1..head
    /\ \A e \in Events : consumer.rows[e] \in Rows
    /\ Valid(consumer)
    /\ due \subseteq {e \in Events : consumer.rows[e].state \in {"leased", "retry"}}
    /\ cursors \subseteq 0..head
    /\ process \in {"up", "down", "refused"}

\* What the stored consumer counts as settled (all up to the checkpoint, and the
\* sparse resolutions) is exactly what was acknowledged, dead-lettered or hidden
\* since it was created or moved: overlapping operations lose none and invent
\* none, so the checkpoint passes no event that still has to be delivered.
SettledExactly ==
    consumer.rev > 0 => (1..consumer.cp) \cup consumer.sparse = earned

\* A lease that was handed out is honoured until it expires, is settled, or the
\* policy or a restore ends it: no move, recovery or other pull takes the event
\* away from its holder, and no more are out than the request allows.  The limit
\* is claimed of an unmoved consumer, or one whose pulls are one transaction: a
\* lease planned for a consumer that was retired is still granted to the one
\* created after it, once that has reached the same revision, however many
\* leases the new one has out.
LeasesRespected ==
    /\ mode = "protected" \/ era = 0 => Cardinality(Leased(consumer)) <= InFlightLimit
    /\ \A l \in outstanding : consumer.rows[l[1]] = l[2]

\* The expiry of the leases that are out would exceed the sparse limit: every
\* pull fails once they are over, and so does start-up.
Wedged == ~CanNormalize(consumer, Leased(consumer))

\* While somebody keeps pulling, every committed event is acknowledged,
\* dead-lettered or hidden in the end, whichever client stalls, whatever expires,
\* restarts or moves the consumer meanwhile, unless the consumer wedges.
CatchesUp == []<>(1..head \subseteq earned \/ Wedged)
=============================================================================
