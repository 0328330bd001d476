------------------------ MODULE PipelineOrderProofs ------------------------
(***************************************************************************)
(* Proof that first-commit notifications follow commit order: a command is *)
(* in one place at a time, a unit is driven in its own order, and units    *)
(* leave the completion lane in the order in which they were written.      *)
(***************************************************************************)
EXTENDS PipelineIntakeProofs

-----------------------------------------------------------------------------
(* The inductive invariant.                                                *)

Won(res, c) == c \in DOMAIN res /\ res[c].kind = "FirstCommit"

\* The first commits of res come before those of later, and after those that
\* were notified; those of the commands in cmds follow their order.
Below(res, later) ==
    \A c \in DOMAIN res, d \in DOMAIN later :
        Won(res, c) /\ Won(later, d) => res[c].seq < later[d].seq

After(told, res) ==
    \A i \in DOMAIN told, c \in DOMAIN res : Won(res, c) => told[i] < res[c].seq

InOrder(cmds, res) ==
    \A i, j \in DOMAIN cmds :
        i < j /\ Won(res, cmds[i]) /\ Won(res, cmds[j]) => res[cmds[i]].seq < res[cmds[j]].seq

\* Results that follow everything notified and everything in the lane.
Follows(told, units, res) ==
    After(told, res) /\ \A i \in DOMAIN units : Below(units[i].results, res)

\* The commands rest of cmds are still to be driven, in their order, and none
\* behind one of them has been.
Waiting(rest, cmds, res) ==
    /\ Within(rest, cmds)
    /\ \A c \in Members(rest) : ~Won(res, c)
    /\ \A i, j \in DOMAIN cmds :
          i < j /\ cmds[i] \in Members(rest) => ~Won(res, cmds[j])

\* No command is twice in a queue or in two of them, since its caller has sent
\* it and never sends it again.
Once(s) == \A i, j \in DOMAIN s : s[i] = s[j] /\ s[i] \in Commands => i = j

Sent == {"queued", "done"}

Placed ==
    /\ Once(channel) /\ Once(pending) /\ Once(work)
    /\ \A c \in Commands : c \notin Members(channel) \/ c \notin Members(pending)
    /\ \A c \in Commands : c \in Members(channel) \cup Members(pending) => client[c] \in Sent

\* The lane is in order and behind what was notified.
Queue(told, units) ==
    /\ \A i \in DOMAIN units : After(told, units[i].results) /\ InOrder(units[i].cmds, units[i].results)
    /\ \A i, j \in DOMAIN units : i < j => Below(units[i].results, units[j].results)

\* So is the unit in the writer; on the published frontier it drives with an
\* empty lane.
Driving(told, units) ==
    /\ writer \in {"stage", "seal", "direct", "complete"} =>
          /\ Follows(told, units, results) /\ InOrder(work, results)
          /\ frontier = "Published" => units = <<>>
    /\ writer \in {"stage", "seal"} => \A c \in DOMAIN results : ~Won(results, c)
    /\ writer \in {"stage", "seal", "direct"} => Waiting(todo, work, results)
    /\ writer = "submit" => Follows(told, units, unit.results) /\ InOrder(unit.cmds, unit.results)

Ordered == NotifiedInOrder /\ Queue(notified, lane) /\ Driving(notified, lane)

OrderInv == StoreInv /\ Placed /\ Ordered

-----------------------------------------------------------------------------
(* Queues of commands.                                                     *)

LEMMA WithinFurther ==
    ASSUME NEW s, NEW t, NEW w, Within(s, t), Within(t, w), Len(s) \in Nat, Len(t) \in Nat,
           Len(w) \in Nat
    PROVE  Within(s, w)
<1>1. Members(s) \subseteq Members(w) /\ Len(s) <= Len(w)
  BY DEF Within
<1>2. ASSUME NEW p \in DOMAIN s, NEW q \in DOMAIN s, p < q
      PROVE  \E i, j \in DOMAIN w : i < j /\ w[i] = s[p] /\ w[j] = s[q]
  <2>1. PICK k \in DOMAIN t, m \in DOMAIN t : k < m /\ t[k] = s[p] /\ t[m] = s[q]
    BY <1>2 DEF Within
  <2>2. PICK i \in DOMAIN w, j \in DOMAIN w : i < j /\ w[i] = t[k] /\ w[j] = t[m]
    BY <2>1 DEF Within
  <2> QED BY <2>1, <2>2
<1> QED BY <1>1, <1>2 DEF Within

\* In a sequence without repetitions the order of a subsequence is its own.
LEMMA OrderWithin ==
    ASSUME NEW s \in Seq(Commands), NEW t \in Seq(Commands), Once(s), Within(t, s),
           NEW i \in DOMAIN s, NEW j \in DOMAIN s, i < j,
           NEW p \in DOMAIN t, NEW q \in DOMAIN t, s[i] = t[p], s[j] = t[q]
    PROVE  p < q
<1>1. p \in Nat /\ q \in Nat /\ i \in Nat /\ j \in Nat
  OBVIOUS
<1>2. s[i] \in Commands /\ s[j] \in Commands
  OBVIOUS
<1>3. p # q
  BY <1>1, <1>2 DEF Once
<1>4. ASSUME q < p PROVE FALSE
  <2>1. PICK k \in DOMAIN s, m \in DOMAIN s : k < m /\ s[k] = t[q] /\ s[m] = t[p]
    BY <1>4 DEF Within
  <2>2. k = j /\ m = i
    BY <1>2, <2>1 DEF Once
  <2> QED BY <1>1, <2>1, <2>2
<1> QED BY <1>1, <1>3, <1>4

\* So the head of a subsequence is not met again.
LEMMA HeadOnce ==
    ASSUME NEW s \in Seq(Commands), NEW t \in Seq(Commands), Once(s), Within(t, s), t # <<>>
    PROVE  /\ Head(t) \in Commands /\ Head(t) \in Members(t)
           /\ Head(t) \notin Members(Tail(t))
           /\ Members(Tail(t)) \subseteq Members(t)
           /\ \A i, j \in DOMAIN s : i < j /\ s[i] \in Members(Tail(t)) => s[j] # Head(t)
<1>1. /\ Head(t) = t[1] /\ Head(t) \in Commands /\ 1 \in DOMAIN t
      /\ \A k \in DOMAIN Tail(t) : k + 1 \in DOMAIN t /\ Tail(t)[k] = t[k + 1] /\ k \in Nat \ {0}
  BY TailFacts
<1>2. Head(t) \in Members(t) /\ Members(Tail(t)) \subseteq Members(t)
  BY MembersMoved
<1>3. ASSUME Head(t) \in Members(Tail(t)) PROVE FALSE
  <2>1. PICK k \in DOMAIN Tail(t) : Tail(t)[k] = Head(t)
    BY <1>3 DEF Members
  <2>2. 1 < k + 1 /\ k + 1 \in DOMAIN t /\ t[k + 1] = t[1]
    BY <1>1, <2>1
  <2>3. PICK i \in DOMAIN s, j \in DOMAIN s : i < j /\ s[i] = t[1] /\ s[j] = t[k + 1]
    BY <1>1, <2>2 DEF Within
  <2>4. i = j
    BY <1>1, <2>2, <2>3 DEF Once
  <2> QED BY <2>3, <2>4
<1>4. ASSUME NEW i \in DOMAIN s, NEW j \in DOMAIN s, i < j, s[i] \in Members(Tail(t)),
             s[j] = Head(t)
      PROVE  FALSE
  <2>1. PICK k \in DOMAIN Tail(t) : Tail(t)[k] = s[i]
    BY <1>4 DEF Members
  <2>2. k + 1 \in DOMAIN t /\ s[i] = t[k + 1] /\ s[j] = t[1] /\ k \in Nat \ {0}
    BY <1>1, <1>4, <2>1
  <2>3. k + 1 < 1
    BY <1>1, <1>4, <2>2, OrderWithin
  <2> QED BY <2>2, <2>3
<1> QED BY <1>1, <1>2, <1>3, <1>4

-----------------------------------------------------------------------------
(* Steps that neither notify nor move the lane nor drive the unit.         *)

LEMMA StillOrdered ==
    ASSUME OrderInv, UNCHANGED <<lane, notified>>, published <= published', published' \in Nat,
           \/ UNCHANGED <<writer, frontier, results, todo, unit, work>>
           \/ writer' \notin {"stage", "seal", "direct", "complete", "submit"}
           \/ /\ writer = "stage" /\ writer' = "seal"
              /\ UNCHANGED <<frontier, results, todo, unit, work>>
    PROVE  Ordered'
<1>1. NotifiedInOrder'
  <2>1. published \in Nat /\ notified \in Seq(Nat)
    BY DEF OrderInv, StoreInv, Types, StoreTypes
  <2>2. \A i \in DOMAIN notified : notified[i] <= published'
    <3> SUFFICES ASSUME NEW i \in DOMAIN notified PROVE notified[i] <= published'
      OBVIOUS
    <3>1. notified[i] \in Nat /\ notified[i] <= published
      BY <2>1 DEF OrderInv, Ordered, NotifiedInOrder
    <3> QED BY <2>1, <3>1
  <2> QED BY <2>2 DEF OrderInv, Ordered, NotifiedInOrder
<1>2. Queue(notified, lane)'
  BY DEF OrderInv, Ordered, Queue
<1>3. Driving(notified, lane)'
  BY DEF OrderInv, Ordered, Driving
<1> QED BY <1>1, <1>2, <1>3 DEF Ordered

LEMMA AsideOrdered ==
    ASSUME PipelineAssumption, OrderInv, [Next]_vars,
           \/ Aside \/ DrainReady \/ ReceiveUnit \/ DrainOne \/ RejectWorkUnit
           \/ StageBegin \/ SendFeedback \/ JournalFlush \/ Marks
    PROVE  Ordered'
<1>1. UNCHANGED <<lane, notified, published>>
  BY DEF Aside, DrainReady, ReceiveUnit, DrainOne, RejectWorkUnit, StageBegin, SendFeedback,
     JournalFlush, Marks, laneVars, storeVars, fenceVars
<1>2. published \in Nat /\ published <= published' /\ published' \in Nat
  BY <1>1 DEF OrderInv, StoreInv, Types, StoreTypes
<1> DEFINE Same == UNCHANGED <<writer, frontier, results, todo, unit, work>>
           Out == writer' \notin {"stage", "seal", "direct", "complete", "submit"}
           Begun == /\ writer = "stage" /\ writer' = "seal"
                    /\ UNCHANGED <<frontier, results, todo, unit, work>>
<1>3. Same \/ Out \/ Begun
  <2>1. CASE Aside
    BY <2>1 DEF Aside, writerVars, unitVars
  <2>2. CASE DrainReady
    BY <2>2 DEF DrainReady
  <2>3. CASE ReceiveUnit
    BY <2>3 DEF ReceiveUnit
  <2>4. CASE DrainOne
    BY <2>4 DEF DrainOne, unitVars
  <2>5. CASE RejectWorkUnit
    BY <2>5 DEF RejectWorkUnit
  <2>6. CASE SendFeedback
    BY <2>6 DEF SendFeedback
  <2>7. CASE JournalFlush \/ Marks
    BY <2>7 DEF JournalFlush, Marks, writerVars, unitVars
  <2>8. CASE StageBegin
    BY <2>8 DEF StageBegin, unitVars
  <2> QED BY <2>1, <2>2, <2>3, <2>4, <2>5, <2>6, <2>7, <2>8
<1> QED BY <1>1, <1>2, <1>3, StillOrdered

-----------------------------------------------------------------------------
(* Driving the unit.                                                       *)

\* Nothing that was notified or is in the lane is beyond the log.
LEMMA NothingBeyond ==
    ASSUME StoreInv, NotifiedInOrder
    PROVE  /\ published \in Nat /\ Len(log) \in Nat /\ published <= Len(log)
           /\ \A i \in DOMAIN notified : notified[i] \in Nat /\ notified[i] <= Len(log)
           /\ \A i \in DOMAIN lane, c \in Commands :
                 Won(lane[i].results, c) =>
                     lane[i].results[c].seq \in Nat /\ lane[i].results[c].seq <= Len(log)
           /\ \A c \in Commands : Won(results, c) =>
                 results[c].seq \in Nat /\ results[c].seq <= Len(log)
<1> USE DEF StoreInv, Types, WriterTypes, StoreTypes
<1>1. published \in Nat /\ Len(log) \in Nat /\ published <= Len(log)
  BY DEF Sealed
<1>2. ASSUME NEW i \in DOMAIN notified PROVE notified[i] \in Nat /\ notified[i] <= Len(log)
  <2>1. notified[i] \in Nat /\ notified[i] <= published
    BY DEF NotifiedInOrder
  <2> QED BY <1>1, <2>1
<1>3. ASSUME NEW i \in DOMAIN lane, NEW c \in Commands, Won(lane[i].results, c)
      PROVE  lane[i].results[c].seq \in Nat /\ lane[i].results[c].seq <= Len(log)
  <2> DEFINE u == lane[i]
             n == IF u.kind = "Fence" THEN u.upto ELSE published
  <2>1. u \in Units /\ Faithful(u, published, log)
    BY DEF Carried
  <2> HIDE DEF u
  <2>2. u.upto \in Nat /\ u.upto <= Len(log)
    BY <2>1 DEF Units, Faithful
  <2>3. n \in Nat /\ n <= Len(log)
    BY <1>1, <2>2
  <2>4. u.results[c].seq \in 1 .. n
    BY <1>3, <2>1 DEF Faithful, Truthful, Won, u
  <2>5. u.results[c].seq \in Nat /\ u.results[c].seq <= Len(log)
    BY <1>1, <2>3, <2>4, SMTT(30)
  <2> QED BY <2>5 DEF u
<1>4. ASSUME NEW c \in Commands, Won(results, c)
      PROVE  results[c].seq \in Nat /\ results[c].seq <= Len(log)
  <2>1. results[c].seq \in 1 .. published
    BY <1>4 DEF Carried, Truthful, Won
  <2> QED BY <1>1, <2>1
<1> QED BY <1>1, <1>2, <1>3, <1>4

LEMMA AdmitOrdered ==
    ASSUME PipelineAssumption, OrderInv, AdmitGroup
    PROVE  Ordered'
<1> USE DEF OrderInv
<1>1. /\ DOMAIN results' = Members(work) /\ Within(todo', work)
      /\ \A c \in DOMAIN results' : results'[c].kind # "FirstCommit"
      /\ writer' \in {"complete", "stage"} /\ writer = "admit"
      /\ UNCHANGED <<work, frontier, lane, published, notified, inFlight, tokens>>
  BY AdmitFacts
<1>2. \A c : ~Won(results', c)
  BY <1>1 DEF Won
<1>3. frontier = "Published" => lane = <<>>
  <2> HAVE frontier = "Published"
  <2>1. inFlight = <<>> /\ Len(inFlight) = Len(lane) + tokens /\ tokens \in Nat /\ lane \in Seq(Units)
    BY <1>1 DEF StoreInv, Room, Types, WriterTypes
  <2>2. Len(lane) = 0
    BY <2>1
  <2> QED BY <2>1, <2>2, EmptyFacts
<1>4. Waiting(todo', work, results')
  BY <1>1, <1>2 DEF Waiting
<1>5. Follows(notified, lane, results') /\ InOrder(work, results')
  BY <1>2 DEF Follows, After, Below, InOrder
<1>6. NotifiedInOrder' /\ Queue(notified, lane)'
  BY <1>1 DEF Ordered, NotifiedInOrder, Queue
<1>7. Driving(notified, lane)'
  BY <1>1, <1>2, <1>3, <1>4, <1>5 DEF Driving
<1> QED BY <1>6, <1>7 DEF Ordered

\* No result becomes a first commit, and what is still to be driven was before.
LEMMA LessWon ==
    ASSUME NEW res, NEW new, DOMAIN new = DOMAIN res,
           \A c \in DOMAIN res : new[c] = res[c] \/ new[c].kind # "FirstCommit"
    PROVE  /\ \A c : Won(new, c) => Won(res, c) /\ new[c] = res[c]
           /\ \A told, units : Follows(told, units, res) => Follows(told, units, new)
           /\ \A cmds : InOrder(cmds, res) => InOrder(cmds, new)
           /\ \A cmds, rest, left : Waiting(rest, cmds, res) /\ Within(left, cmds)
                    /\ Members(left) \subseteq Members(rest) => Waiting(left, cmds, new)
<1>1. \A c : Won(new, c) => Won(res, c) /\ new[c] = res[c]
  BY DEF Won
<1>2. ASSUME NEW told, NEW units, Follows(told, units, res) PROVE Follows(told, units, new)
  BY <1>1, <1>2 DEF Follows, After, Below
<1>3. ASSUME NEW cmds, InOrder(cmds, res) PROVE InOrder(cmds, new)
  BY <1>1, <1>3 DEF InOrder
<1>4. ASSUME NEW cmds, NEW rest, NEW left, Waiting(rest, cmds, res), Within(left, cmds),
             Members(left) \subseteq Members(rest)
      PROVE  Waiting(left, cmds, new)
  BY <1>1, <1>4 DEF Waiting
<1> QED BY <1>1, <1>2, <1>3, <1>4

LEMMA ResolveOrdered ==
    ASSUME PipelineAssumption, OrderInv, [Next]_vars, StageResolves
    PROVE  Ordered'
<1> USE DEF OrderInv
<1>1. /\ writer \in {"stage", "seal"} /\ writer' \in {"complete", "direct"}
      /\ DOMAIN results' = DOMAIN results /\ Within(todo', todo)
      /\ \A c \in DOMAIN results : results'[c] = results[c] \/ results'[c].kind # "FirstCommit"
      /\ UNCHANGED <<work, frontier, lane, published, notified>>
  BY DEF StageResolves, NoneWon, laneVars
<1>2. /\ Follows(notified, lane, results) /\ InOrder(work, results)
      /\ frontier = "Published" => lane = <<>>
      /\ Waiting(todo, work, results)
  BY <1>1 DEF Ordered, Driving
<1>3. Within(todo', work)
  <2>1. todo \in Seq(Commands) /\ work \in Seq(Commands) /\ todo' \in Seq(Commands)
    BY TypesKept DEF StoreInv, Types, WriterTypes
  <2>2. Len(todo) \in Nat /\ Len(work) \in Nat /\ Len(todo') \in Nat
    BY <2>1
  <2> QED BY <1>1, <1>2, <2>2, WithinFurther DEF Waiting
<1>4. Members(todo') \subseteq Members(todo)
  BY <1>1 DEF Within
<1>5. /\ Follows(notified, lane, results') /\ InOrder(work, results')
      /\ Waiting(todo', work, results')
  BY <1>1, <1>2, <1>3, <1>4, LessWon
<1>6. NotifiedInOrder' /\ Queue(notified, lane)'
  BY <1>1 DEF Ordered, NotifiedInOrder, Queue
<1>7. Driving(notified, lane)'
  BY <1>1, <1>2, <1>5 DEF Driving
<1> QED BY <1>6, <1>7 DEF Ordered

\* A deferred unit takes the sequence numbers behind the log in its own order.
LEMMA DeferredOrdered ==
    ASSUME PipelineAssumption, OrderInv, StageSeal
    PROVE  Ordered'
<1> USE DEF OrderInv
<1> DEFINE won == FirstCommits(todo, Len(log))
           n == Len(log)
<1>1. /\ unit'.cmds = work /\ unit'.results = won
      /\ writer = "seal" /\ writer' = "submit" /\ n \in Nat
      /\ UNCHANGED <<lane, published, notified>>
  BY DeferredFacts
<1>2. /\ work \in Seq(Commands) /\ todo \in Seq(Commands) /\ results \in Outcomes
      /\ Once(work) /\ Within(todo, work) /\ DOMAIN results = Members(work)
      /\ \A c \in DOMAIN results : ~Won(results, c)
  BY <1>1 DEF StoreInv, Types, WriterTypes, Handed, Placed, Ordered, Driving, Waiting
<1>3. /\ DOMAIN won = DOMAIN results
      /\ \A c \in DOMAIN results :
            IF c \in Members(todo)
            THEN \E i \in DOMAIN todo :
                    todo[i] = c /\ won[c] = [kind |-> "FirstCommit", seq |-> n + i]
            ELSE won[c] = results[c]
  BY <1>1, <1>2, FirstCommitsFacts
<1>4. /\ published \in Nat /\ n \in Nat
      /\ \A i \in DOMAIN notified : notified[i] \in Nat /\ notified[i] <= n
      /\ \A i \in DOMAIN lane, c \in Commands :
            Won(lane[i].results, c) =>
                lane[i].results[c].seq \in Nat /\ lane[i].results[c].seq <= n
  BY NothingBeyond DEF Ordered
<1>5. \A i \in DOMAIN todo : i \in Nat \ {0}
  BY <1>2
<1> HIDE DEF won, n
<1>6. ASSUME NEW c, Won(won, c)
      PROVE  \E i \in DOMAIN todo : todo[i] = c /\ won[c].seq = n + i
  <2>1. c \in DOMAIN results
    BY <1>3, <1>6 DEF Won
  <2>2. c \in Members(todo)
    BY <1>2, <1>3, <1>6, <2>1 DEF Won
  <2> QED BY <1>3, <2>1, <2>2
<1>7. ASSUME NEW c, Won(won, c) PROVE won[c].seq \in Nat /\ n < won[c].seq
  BY <1>4, <1>5, <1>6, <1>7
<1>8. After(notified, won)
  BY <1>4, <1>7 DEF After
<1>9. \A i \in DOMAIN lane : Below(lane[i].results, won)
  <2> SUFFICES ASSUME NEW i \in DOMAIN lane, NEW c \in DOMAIN lane[i].results, NEW d \in DOMAIN won,
                      Won(lane[i].results, c), Won(won, d)
               PROVE  lane[i].results[c].seq < won[d].seq
    BY DEF Below
  <2>1. lane[i] \in Units
    BY DEF StoreInv, Types, WriterTypes
  <2>2. lane[i].results \in Outcomes
    BY <2>1 DEF Units
  <2>3. c \in Commands
    BY <2>2, OutcomeFacts
  <2> QED BY <1>4, <1>7, <2>3
<1>10. InOrder(work, won)
  <2> SUFFICES ASSUME NEW i \in DOMAIN work, NEW j \in DOMAIN work, i < j,
                      Won(won, work[i]), Won(won, work[j])
               PROVE  won[work[i]].seq < won[work[j]].seq
    BY DEF InOrder
  <2>1. PICK p \in DOMAIN todo : todo[p] = work[i] /\ won[work[i]].seq = n + p
    BY <1>6
  <2>2. PICK q \in DOMAIN todo : todo[q] = work[j] /\ won[work[j]].seq = n + q
    BY <1>6
  <2>3. p < q
    BY <1>2, <2>1, <2>2, OrderWithin
  <2> QED BY <1>4, <1>5, <2>1, <2>2, <2>3
<1>11. NotifiedInOrder' /\ Queue(notified, lane)'
  BY <1>1 DEF Ordered, NotifiedInOrder, Queue
<1>12. Driving(notified, lane)'
  BY <1>1, <1>8, <1>9, <1>10 DEF Driving, Follows
<1> QED BY <1>11, <1>12 DEF Ordered

\* A direct transaction wrote nothing that it reports as a first commit.
LEMMA DirectOrdered ==
    ASSUME PipelineAssumption, OrderInv, [Next]_vars, NEW r \in Answers, DirectMoves(r),
           DirectKeeps(r) \/ DirectRisks(r)
    PROVE  Ordered'
<1> USE DEF OrderInv
<1>1. /\ writer = "direct" /\ todo # <<>> /\ todo' = Tail(todo)
      /\ results' = [results EXCEPT ![Head(todo)] = r]
      /\ writer' \in {"complete", "direct"}
      /\ UNCHANGED <<work, frontier, lane, notified>>
  BY DEF DirectMoves, laneVars
<1>2. /\ work \in Seq(Commands) /\ todo \in Seq(Commands) /\ results \in Outcomes
      /\ Follows(notified, lane, results) /\ InOrder(work, results)
      /\ frontier = "Published" => lane = <<>>
      /\ Waiting(todo, work, results)
  BY <1>1 DEF StoreInv, Types, WriterTypes, Ordered, Driving
<1>3. r.kind # "FirstCommit" /\ published <= published'
  BY DEF DirectKeeps, DirectRisks, StoreInv, Sealed
<1>4. Within(todo', work) /\ Members(todo') \subseteq Members(todo)
  <2>1. Within(Tail(todo), todo)
    BY <1>1, <1>2, TailWithin
  <2>2. Len(todo) \in Nat /\ Len(work) \in Nat /\ Len(Tail(todo)) \in Nat
    BY <1>1, <1>2
  <2>3. Within(Tail(todo), work)
    BY <1>2, <2>1, <2>2, WithinFurther DEF Waiting
  <2>4. Members(Tail(todo)) \subseteq Members(todo)
    BY <2>1 DEF Within
  <2> QED BY <1>1, <2>3, <2>4
<1>5. /\ DOMAIN results' = DOMAIN results
      /\ \A c \in DOMAIN results : results'[c] = results[c] \/ results'[c].kind # "FirstCommit"
  BY <1>1, <1>3
<1>6. /\ Follows(notified, lane, results') /\ InOrder(work, results')
      /\ Waiting(todo', work, results')
  BY <1>2, <1>4, <1>5, LessWon
<1>7. NotifiedInOrder'
  <2>1. published \in Nat /\ published' \in Nat /\ notified \in Seq(Nat)
    BY TypesKept DEF StoreInv, Types, StoreTypes
  <2>2. \A i \in DOMAIN notified : notified[i] <= published'
    <3> SUFFICES ASSUME NEW i \in DOMAIN notified PROVE notified[i] <= published'
      OBVIOUS
    <3>1. notified[i] \in Nat /\ notified[i] <= published
      BY <2>1 DEF Ordered, NotifiedInOrder
    <3> QED BY <1>3, <2>1, <3>1
  <2> QED BY <1>1, <2>2 DEF Ordered, NotifiedInOrder
<1>8. Queue(notified, lane)'
  BY <1>1 DEF Ordered, Queue
<1>9. Driving(notified, lane)'
  BY <1>1, <1>2, <1>6 DEF Driving
<1> QED BY <1>7, <1>8, <1>9 DEF Ordered

\* A direct transaction commits the next command at the end of the log.
LEMMA WinOrdered ==
    ASSUME PipelineAssumption, OrderInv, [Next]_vars, NEW r \in Answers, DirectMoves(r), DirectWins(r)
    PROVE  Ordered'
<1> USE DEF OrderInv
<1> DEFINE n == Len(log)
           head == Head(todo)
           new == [results EXCEPT ![head] = r]
<1>1. /\ writer = "direct" /\ todo # <<>> /\ todo' = Tail(todo)
      /\ results' = new /\ r.kind = "FirstCommit" /\ r.seq = n + 1
      /\ writer' \in {"complete", "direct"} /\ published' = n + 1
      /\ UNCHANGED <<work, frontier, lane, notified>>
  BY DEF DirectMoves, DirectWins, laneVars
<1>2. /\ work \in Seq(Commands) /\ todo \in Seq(Commands) /\ results \in Outcomes
      /\ Once(work) /\ DOMAIN results = Members(work)
      /\ Follows(notified, lane, results) /\ InOrder(work, results)
      /\ frontier = "Published" => lane = <<>>
      /\ Waiting(todo, work, results)
  BY <1>1 DEF StoreInv, Types, WriterTypes, Handed, Placed, Ordered, Driving
<1>3. /\ published \in Nat /\ n \in Nat /\ published <= n
      /\ \A i \in DOMAIN notified : notified[i] \in Nat /\ notified[i] <= n
      /\ \A i \in DOMAIN lane, c \in Commands :
            Won(lane[i].results, c) =>
                lane[i].results[c].seq \in Nat /\ lane[i].results[c].seq <= n
      /\ \A c \in Commands : Won(results, c) => results[c].seq \in Nat /\ results[c].seq <= n
  BY NothingBeyond DEF Ordered
<1>4. /\ head \in Commands /\ head \in Members(todo)
      /\ head \notin Members(Tail(todo)) /\ Members(Tail(todo)) \subseteq Members(todo)
      /\ \A i, j \in DOMAIN work : i < j /\ work[i] \in Members(Tail(todo)) => work[j] # head
  BY <1>1, <1>2, HeadOnce DEF Waiting
<1>5. Within(Tail(todo), work)
  <2>1. Within(Tail(todo), todo)
    BY <1>1, <1>2, TailWithin
  <2>2. Len(todo) \in Nat /\ Len(work) \in Nat /\ Len(Tail(todo)) \in Nat
    BY <1>1, <1>2
  <2> QED BY <1>2, <2>1, <2>2, WithinFurther DEF Waiting
<1>6. /\ DOMAIN new = DOMAIN results
      /\ \A c \in DOMAIN results : c # head => new[c] = results[c]
      /\ head \in DOMAIN results => new[head] = r
  OBVIOUS
<1>7. \A c \in DOMAIN results : c \in Commands
  BY <1>2, OutcomeFacts
<1> HIDE DEF n, head, new
<1>8. ASSUME NEW c, Won(new, c)
      PROVE  (c = head /\ new[c].seq = n + 1) \/ (c # head /\ Won(results, c) /\ new[c] = results[c])
  BY <1>1, <1>6, <1>8 DEF Won
<1>9. After(notified, new)
  <2> SUFFICES ASSUME NEW i \in DOMAIN notified, NEW c \in DOMAIN new, Won(new, c)
               PROVE  notified[i] < new[c].seq
    BY DEF After
  <2>1. CASE c = head /\ new[c].seq = n + 1
    BY <1>3, <2>1
  <2>2. CASE Won(results, c) /\ new[c] = results[c]
    BY <1>2, <2>2 DEF Follows, After, Won
  <2> QED BY <1>8, <2>1, <2>2
<1>10. \A i \in DOMAIN lane : Below(lane[i].results, new)
  <2> SUFFICES ASSUME NEW i \in DOMAIN lane, NEW c \in DOMAIN lane[i].results, NEW d \in DOMAIN new,
                      Won(lane[i].results, c), Won(new, d)
               PROVE  lane[i].results[c].seq < new[d].seq
    BY DEF Below
  <2>1. CASE d = head /\ new[d].seq = n + 1
    <3>1. lane[i] \in Units
      BY DEF StoreInv, Types, WriterTypes
    <3>2. lane[i].results \in Outcomes
      BY <3>1 DEF Units
    <3>3. c \in Commands
      BY <3>2, OutcomeFacts
    <3> QED BY <1>3, <2>1, <3>3
  <2>2. CASE Won(results, d) /\ new[d] = results[d]
    BY <1>2, <2>2 DEF Follows, Below, Won
  <2> QED BY <1>8, <2>1, <2>2
<1>11. InOrder(work, new)
  <2> SUFFICES ASSUME NEW i \in DOMAIN work, NEW j \in DOMAIN work, i < j,
                      Won(new, work[i]), Won(new, work[j])
               PROVE  new[work[i]].seq < new[work[j]].seq
    BY DEF InOrder
  <2>1. work[i] \in Commands /\ work[j] \in Commands /\ i \in Nat /\ j \in Nat
    BY <1>2
  <2>2. CASE work[i] = head
    <3>1. work[j] # head
      BY <2>1, <2>2, <1>2 DEF Once
    <3>2. ~Won(results, work[j])
      BY <1>2, <1>4, <2>2 DEF Waiting
    <3> QED BY <1>8, <3>1, <3>2
  <2>3. CASE work[i] # head /\ work[j] = head
    <3>1. Won(results, work[i]) /\ new[work[i]] = results[work[i]] /\ new[work[j]].seq = n + 1
      BY <1>8, <2>3
    <3> QED BY <1>3, <2>1, <3>1
  <2>4. CASE work[i] # head /\ work[j] # head
    <3>1. /\ Won(results, work[i]) /\ new[work[i]] = results[work[i]]
          /\ Won(results, work[j]) /\ new[work[j]] = results[work[j]]
      BY <1>8, <2>4
    <3> QED BY <1>2, <3>1 DEF InOrder
  <2> QED BY <2>2, <2>3, <2>4
<1>12. Waiting(Tail(todo), work, new)
  <2>1. \A c \in Members(Tail(todo)) : ~Won(new, c)
    BY <1>2, <1>4, <1>8 DEF Waiting
  <2>2. ASSUME NEW i \in DOMAIN work, NEW j \in DOMAIN work, i < j,
               work[i] \in Members(Tail(todo)), Won(new, work[j])
        PROVE  FALSE
    <3>1. work[j] # head /\ work[i] \in Members(todo)
      BY <1>4, <2>2
    <3>2. Won(results, work[j])
      BY <1>8, <2>2, <3>1
    <3> QED BY <1>2, <2>2, <3>1, <3>2 DEF Waiting
  <2> QED BY <1>5, <2>1, <2>2 DEF Waiting
<1>13. NotifiedInOrder'
  <2>1. \A i \in DOMAIN notified : notified[i] <= n + 1
    BY <1>3
  <2> QED BY <1>1, <2>1 DEF Ordered, NotifiedInOrder
<1>14. Queue(notified, lane)'
  BY <1>1 DEF Ordered, Queue
<1>15. Driving(notified, lane)'
  BY <1>1, <1>2, <1>9, <1>10, <1>11, <1>12 DEF Driving, Follows
<1> QED BY <1>13, <1>14, <1>15 DEF Ordered

-----------------------------------------------------------------------------
(* Releasing results.                                                      *)

\* The new notifications of a group come after the earlier ones, in order, and
\* before whatever comes after the group.
LEMMA MoreTold ==
    ASSUME NEW told \in Seq(Nat), NEW cmds \in Seq(Commands), NEW res \in Outcomes, NEW n \in Nat,
           NEW records, DOMAIN res = Members(cmds), Truthful(res, n, records),
           \A i, j \in DOMAIN told : i < j => told[i] < told[j],
           \A i \in DOMAIN told : told[i] <= n,
           After(told, res), InOrder(cmds, res)
    PROVE  /\ \A i, j \in DOMAIN (told \o NewCommits(cmds, res)) :
                 i < j => (told \o NewCommits(cmds, res))[i] < (told \o NewCommits(cmds, res))[j]
           /\ \A i \in DOMAIN (told \o NewCommits(cmds, res)) :
                 (told \o NewCommits(cmds, res))[i] <= n
           /\ \A later : After(told, later) /\ Below(res, later) =>
                 After(told \o NewCommits(cmds, res), later)
<1> DEFINE new == NewCommits(cmds, res)
           all == told \o new
           m == Len(told)
<1>1. /\ new \in Seq(Nat)
      /\ \E pos \in [DOMAIN new -> DOMAIN cmds] :
            /\ \A j \in DOMAIN pos : /\ res[cmds[pos[j]]].kind = "FirstCommit"
                                     /\ new[j] = res[cmds[pos[j]]].seq
            /\ \A j, k \in DOMAIN pos : j < k => pos[j] < pos[k]
  BY NewCommitsFacts
<1>2. PICK pos \in [DOMAIN new -> DOMAIN cmds] :
            /\ \A j \in DOMAIN pos : /\ res[cmds[pos[j]]].kind = "FirstCommit"
                                     /\ new[j] = res[cmds[pos[j]]].seq
            /\ \A j, k \in DOMAIN pos : j < k => pos[j] < pos[k]
  BY <1>1
<1> HIDE DEF new
<1>3. /\ m \in Nat /\ DOMAIN told = 1 .. m /\ DOMAIN all = 1 .. m + Len(new) /\ Len(new) \in Nat
      /\ DOMAIN new = 1 .. Len(new)
      /\ \A i \in DOMAIN told : all[i] = told[i] /\ told[i] \in Nat
      /\ \A i \in DOMAIN new : all[m + i] = new[i] /\ new[i] \in Nat
  BY <1>1, SMTT(30)
<1> HIDE DEF all, m
<1>4. ASSUME NEW i \in DOMAIN all
      PROVE  \/ i \in DOMAIN told /\ all[i] = told[i]
             \/ \E k \in DOMAIN new : i = m + k /\ all[i] = new[k]
  <2>1. CASE i <= m
    BY <1>3, <2>1
  <2>2. CASE i > m
    <3>1. i - m \in DOMAIN new /\ i = m + (i - m)
      BY <1>3, <2>2
    <3> QED BY <1>3, <3>1
  <2> QED BY <1>3, <2>1, <2>2
<1>5. ASSUME NEW k \in DOMAIN new
      PROVE  /\ cmds[pos[k]] \in DOMAIN res /\ Won(res, cmds[pos[k]])
             /\ new[k] = res[cmds[pos[k]]].seq /\ new[k] \in 1 .. n /\ pos[k] \in DOMAIN cmds
  <2>1. pos[k] \in DOMAIN cmds /\ cmds[pos[k]] \in Members(cmds)
    BY <1>2 DEF Members
  <2>2. Won(res, cmds[pos[k]])
    BY <1>2, <2>1 DEF Won
  <2> QED BY <1>2, <2>1, <2>2 DEF Truthful, Won
<1>6. ASSUME NEW i \in DOMAIN all, NEW j \in DOMAIN all, i < j PROVE all[i] < all[j]
  <2>1. CASE i \in DOMAIN told /\ j \in DOMAIN told
    BY <1>3, <1>6, <2>1
  <2>2. ASSUME i \in DOMAIN told, NEW k \in DOMAIN new, j = m + k, all[j] = new[k]
        PROVE  all[i] < all[j]
    <3>1. told[i] < res[cmds[pos[k]]].seq
      BY <1>5, <2>2 DEF After
    <3> QED BY <1>3, <1>5, <2>2, <3>1
  <2>3. ASSUME NEW h \in DOMAIN new, i = m + h, all[i] = new[h],
               NEW k \in DOMAIN new, j = m + k, all[j] = new[k]
        PROVE  all[i] < all[j]
    <3>1. h < k
      BY <1>3, <1>6, <2>3
    <3>2. pos[h] < pos[k]
      BY <1>2, <3>1
    <3>3. res[cmds[pos[h]]].seq < res[cmds[pos[k]]].seq
      BY <1>5, <3>2 DEF InOrder
    <3> QED BY <1>5, <2>3, <3>3
  <2>4. ASSUME NEW h \in DOMAIN new, i = m + h, j \in DOMAIN told PROVE FALSE
    BY <1>3, <1>6, <2>4
  <2> QED BY <1>4, <2>1, <2>2, <2>3, <2>4
<1>7. ASSUME NEW i \in DOMAIN all PROVE all[i] <= n
  <2>1. CASE i \in DOMAIN told /\ all[i] = told[i]
    BY <2>1
  <2>2. ASSUME NEW k \in DOMAIN new, all[i] = new[k] PROVE all[i] <= n
    BY <1>5, <2>2
  <2> QED BY <1>4, <2>1, <2>2
<1>8. ASSUME NEW later, After(told, later), Below(res, later) PROVE After(all, later)
  <2> SUFFICES ASSUME NEW i \in DOMAIN all, NEW c \in DOMAIN later, Won(later, c)
               PROVE  all[i] < later[c].seq
    BY DEF After
  <2>1. CASE i \in DOMAIN told /\ all[i] = told[i]
    BY <1>8, <2>1 DEF After
  <2>2. ASSUME NEW k \in DOMAIN new, all[i] = new[k] PROVE all[i] < later[c].seq
    <3>1. res[cmds[pos[k]]].seq < later[c].seq
      BY <1>5, <1>8 DEF Below
    <3> QED BY <1>5, <2>2, <3>1
  <2> QED BY <1>4, <2>1, <2>2
<1> QED BY <1>6, <1>7, <1>8 DEF all, new

\* Either the group is notified or, when the notification fails, nothing is.
LEMMA FinishOrdered ==
    ASSUME StoreInv, NotifiedInOrder, NEW cmds \in Seq(Commands), NEW res \in Outcomes,
           DOMAIN res = Members(cmds), Truthful(res, published, log),
           After(notified, res), InOrder(cmds, res), FinishCommandGroup(cmds, res),
           UNCHANGED published
    PROVE  /\ NotifiedInOrder'
           /\ \A later : After(notified, later) /\ Below(res, later) => After(notified', later)
<1>1. published \in Nat /\ notified \in Seq(Nat)
  BY DEF StoreInv, Types, StoreTypes
<1>2. notified' = notified \o NewCommits(cmds, res) \/ notified' = notified
  BY DEF FinishCommandGroup
<1>3. CASE notified' = notified
  BY <1>3 DEF NotifiedInOrder
<1>4. CASE notified' = notified \o NewCommits(cmds, res)
  <2> DEFINE all == notified \o NewCommits(cmds, res)
  <2>1. /\ \A i, j \in DOMAIN all : i < j => all[i] < all[j]
        /\ \A i \in DOMAIN all : all[i] <= published
        /\ \A later : After(notified, later) /\ Below(res, later) => After(all, later)
    BY <1>1, MoreTold DEF NotifiedInOrder
  <2> HIDE DEF all
  <2>2. notified' = all
    BY <1>4 DEF all
  <2> QED BY <2>1, <2>2 DEF NotifiedInOrder
<1> QED BY <1>2, <1>3, <1>4

LEMMA CompleteOrdered ==
    ASSUME PipelineAssumption, OrderInv, [Next]_vars, CompleteGroup
    PROVE  Ordered'
<1> USE DEF OrderInv
<1>1. writer = "complete" /\ UNCHANGED <<lane, work, results, todo, frontier, published>>
  BY DEF CompleteGroup, laneVars, storeVars, fenceVars
<1>2. /\ Follows(notified, lane, results) /\ InOrder(work, results)
      /\ frontier = "Published" => lane = <<>>
  BY <1>1 DEF Ordered, Driving
<1>3. CASE frontier = "WriterPrivate"
  <2>1. /\ unit'.cmds = work /\ unit'.results = results
        /\ writer' = "submit" /\ UNCHANGED notified
    BY <1>3, BehindFacts
  <2>2. NotifiedInOrder' /\ Queue(notified, lane)'
    BY <1>1, <2>1 DEF Ordered, NotifiedInOrder, Queue
  <2>3. Driving(notified, lane)'
    BY <1>1, <1>2, <2>1 DEF Driving
  <2> QED BY <2>2, <2>3 DEF Ordered
<1>4. CASE frontier # "WriterPrivate"
  <2>1. FinishCommandGroup(work, results) /\ writer' = "feedback"
    BY <1>4 DEF CompleteGroup
  <2>2. /\ work \in Seq(Commands) /\ results \in Outcomes /\ frontier = "Published"
        /\ DOMAIN results = Members(work) /\ Truthful(results, published, log)
    BY <1>1, <1>4 DEF StoreInv, Types, WriterTypes, Frontiers, Handed, Carried
  <2>3. NotifiedInOrder'
    BY <1>1, <1>2, <2>1, <2>2, FinishOrdered DEF Ordered, Follows
  <2>4. lane' = <<>>
    BY <1>1, <1>2, <2>2
  <2>5. Queue(notified, lane)'
    BY <2>4 DEF Queue
  <2>6. Driving(notified, lane)'
    BY <2>1 DEF Driving
  <2> QED BY <2>3, <2>5, <2>6 DEF Ordered
<1> QED BY <1>3, <1>4

LEMMA SubmitOrdered ==
    ASSUME PipelineAssumption, OrderInv, [Next]_vars, SubmitUnit
    PROVE  Ordered'
<1> USE DEF OrderInv
<1>1. /\ writer = "submit" /\ lane' = Append(lane, unit)
      /\ writer' \in {"feedback", "postdrain"} /\ UNCHANGED <<notified, published>>
  BY DEF SubmitUnit, storeVars, fenceVars
<1>2. lane \in Seq(Units) /\ unit \in Units
  BY <1>1 DEF StoreInv, Types, WriterTypes, Handed
<1>3. Follows(notified, lane, unit.results) /\ InOrder(unit.cmds, unit.results)
  BY <1>1 DEF Ordered, Driving
<1>4. /\ DOMAIN lane' = 1 .. Len(lane) + 1 /\ DOMAIN lane = 1 .. Len(lane) /\ Len(lane) \in Nat
      /\ \A i \in DOMAIN lane : lane'[i] = lane[i]
      /\ lane'[Len(lane) + 1] = unit
  BY <1>1, <1>2
<1>5. \A i \in DOMAIN lane' : i \in DOMAIN lane \/ i = Len(lane) + 1
  BY <1>4
<1>6. \A i \in DOMAIN lane' : After(notified, lane'[i].results) /\ InOrder(lane'[i].cmds, lane'[i].results)
  BY <1>3, <1>4, <1>5 DEF Ordered, Queue, Follows
<1>7. ASSUME NEW i \in DOMAIN lane', NEW j \in DOMAIN lane', i < j
      PROVE  Below(lane'[i].results, lane'[j].results)
  <2>1. i \in DOMAIN lane
    BY <1>4, <1>7
  <2>2. CASE j \in DOMAIN lane
    BY <1>4, <1>7, <2>1, <2>2 DEF Ordered, Queue
  <2>3. CASE j = Len(lane) + 1
    BY <1>3, <1>4, <2>1, <2>3 DEF Follows
  <2> QED BY <1>5, <2>2, <2>3
<1>8. Queue(notified, lane)'
  BY <1>1, <1>6, <1>7 DEF Queue
<1>9. NotifiedInOrder' /\ Driving(notified, lane)'
  BY <1>1 DEF Ordered, NotifiedInOrder, Driving
<1> QED BY <1>8, <1>9 DEF Ordered

\* A published unit stays as it is; a failed one has no first commit left.
LEMMA FenceOrdered ==
    ASSUME PipelineAssumption, OrderInv, [Next]_vars, CompletionFence \/ CompletionFails
    PROVE  Ordered'
<1> USE DEF OrderInv
<1>1. UNCHANGED <<notified, work, writer, frontier, results, todo, unit>>
  BY DEF CompletionFence, CompletionFails, writerVars, unitVars
<1>2. published \in Nat /\ published' \in Nat /\ published <= published'
  <2>1. published \in Nat
    BY DEF StoreInv, Types, StoreTypes
  <2>2. CompletionFails => UNCHANGED published
    BY Zenon DEF CompletionFails, storeVars
  <2>3. CompletionFence => published' \in Nat /\ published <= published'
    BY FenceSteps
  <2> QED BY <2>1, <2>2, <2>3
<1>3. CASE CompletionFence
  <2>1. UNCHANGED lane
    BY <1>3 DEF CompletionFence
  <2> QED BY <1>1, <1>2, <2>1, StillOrdered
<1>4. CASE CompletionFails
  <2>0. lane # <<>> /\ lane' = <<Failing(Head(lane))>> \o Tail(lane)
    BY <1>4, Zenon DEF CompletionFails, AtFence
  <2>1. /\ lane[1] \in Units /\ DOMAIN lane' = DOMAIN lane /\ lane' # <<>>
        /\ lane'[1] = Failing(lane[1])
        /\ \A i \in DOMAIN lane : i # 1 => lane'[i] = lane[i]
    BY <2>0, FailedHead
  <2>2. \A c : ~Won(lane'[1].results, c)
    BY <2>1, FailingFacts DEF Won
  <2>3. \A i \in DOMAIN lane :
           After(notified, lane'[i].results) /\ InOrder(lane'[i].cmds, lane'[i].results)
    <3> SUFFICES ASSUME NEW i \in DOMAIN lane
                 PROVE  After(notified, lane'[i].results) /\ InOrder(lane'[i].cmds, lane'[i].results)
      OBVIOUS
    <3>1. CASE i = 1
      BY <2>2, <3>1 DEF After, InOrder
    <3>2. CASE i # 1
      BY <2>1, <3>2 DEF Ordered, Queue
    <3> QED BY <3>1, <3>2
  <2>4. ASSUME NEW i \in DOMAIN lane, NEW j \in DOMAIN lane, i < j
        PROVE  Below(lane'[i].results, lane'[j].results)
    <3>1. CASE i = 1 \/ j = 1
      BY <2>2, <3>1 DEF Below
    <3>2. CASE i # 1 /\ j # 1
      BY <2>1, <2>4, <3>2 DEF Ordered, Queue
    <3> QED BY <3>1, <3>2
  <2>5. Queue(notified, lane)'
    BY <1>1, <2>1, <2>3, <2>4 DEF Queue
  <2>6. ASSUME NEW res, Follows(notified, lane, res) PROVE Follows(notified, lane', res)
    <3>1. ASSUME NEW i \in DOMAIN lane PROVE Below(lane'[i].results, res)
      <4>1. CASE i = 1
        BY <2>2, <4>1 DEF Below
      <4>2. CASE i # 1
        BY <2>1, <2>6, <4>2 DEF Follows
      <4> QED BY <4>1, <4>2
    <3> QED BY <2>1, <2>6, <3>1 DEF Follows
  <2>7. Driving(notified, lane)'
    <3>1. Driving(notified, lane) /\ lane # <<>>
      BY <2>0 DEF Ordered
    <3> QED BY <1>1, <2>6, <3>1 DEF Driving
  <2>8. NotifiedInOrder'
    <3>1. \A i \in DOMAIN notified : notified[i] <= published'
      <4> SUFFICES ASSUME NEW i \in DOMAIN notified PROVE notified[i] <= published'
        OBVIOUS
      <4>1. notified[i] \in Nat /\ notified[i] <= published
        BY DEF Ordered, NotifiedInOrder, StoreInv, Types, StoreTypes
      <4> QED BY <1>2, <4>1
    <3> QED BY <1>1, <3>1 DEF Ordered, NotifiedInOrder
  <2> QED BY <2>5, <2>7, <2>8 DEF Ordered
<1> QED BY <1>3, <1>4

\* The oldest unit is notified; the rest of the lane and the unit in the
\* writer come after it.
LEMMA ReleaseOrdered ==
    ASSUME PipelineAssumption, OrderInv, [Next]_vars, CompletionRelease
    PROVE  Ordered'
<1> USE DEF OrderInv
<1>1. /\ lane # <<>> /\ (released \/ Head(lane).kind = "AfterPredecessor")
      /\ FinishCommandGroup(Head(lane).cmds, Head(lane).results)
      /\ lane' = Tail(lane) /\ UNCHANGED <<work, writerVars, storeVars>>
  BY Zenon DEF CompletionRelease
<1>2. UNCHANGED <<published, work, writer, frontier, results, todo, unit>>
  BY <1>1 DEF writerVars, unitVars, storeVars, fenceVars
<1> DEFINE u == Head(lane)
<1>3. lane \in Seq(Units)
  BY DEF StoreInv, Types, WriterTypes
<1>4. u \in Units /\ u = lane[1] /\ 1 \in DOMAIN lane
  BY <1>1, <1>3
<1>5. Faithful(u, published, log)
  BY <1>4 DEF StoreInv, Carried
<1>6. FinishCommandGroup(u.cmds, u.results) /\ (released \/ u.kind = "AfterPredecessor")
  BY <1>1
<1> HIDE DEF u
<1>7. Truthful(u.results, published, log)
  <2>1. CASE released
    BY <1>4, <2>1 DEF StoreInv, Carried
  <2>2. CASE u.kind = "AfterPredecessor"
    BY <1>5, <2>2 DEF Faithful
  <2> QED BY <1>6, <2>1, <2>2
<1>8. u.cmds \in Seq(Commands) /\ u.results \in Outcomes /\ DOMAIN u.results = Members(u.cmds)
  BY <1>4, <1>5 DEF Units, Faithful
<1>9. After(notified, u.results) /\ InOrder(u.cmds, u.results)
  BY <1>4 DEF Ordered, Queue
<1>10. /\ NotifiedInOrder'
       /\ \A later : After(notified, later) /\ Below(u.results, later) => After(notified', later)
  BY <1>2, <1>6, <1>7, <1>8, <1>9, FinishOrdered DEF Ordered
<1>11. \A i \in DOMAIN lane' : /\ i + 1 \in DOMAIN lane /\ lane'[i] = lane[i + 1]
                               /\ i \in Nat /\ 1 < i + 1
  <2>1. /\ Tail(lane) \in Seq(Units)
        /\ \A i \in DOMAIN Tail(lane) : i + 1 \in DOMAIN lane /\ Tail(lane)[i] = lane[i + 1]
    BY <1>1, <1>3, TailFacts
  <2> QED BY <1>1, <2>1
<1>12. ASSUME NEW i \in DOMAIN lane'
       PROVE  After(notified', lane'[i].results) /\ InOrder(lane'[i].cmds, lane'[i].results)
  <2>1. Below(u.results, lane[i + 1].results)
    BY <1>4, <1>11 DEF Ordered, Queue
  <2>2. After(notified, lane[i + 1].results) /\ InOrder(lane[i + 1].cmds, lane[i + 1].results)
    BY <1>11 DEF Ordered, Queue
  <2> QED BY <1>10, <1>11, <2>1, <2>2
<1>13. ASSUME NEW i \in DOMAIN lane', NEW j \in DOMAIN lane', i < j
       PROVE  Below(lane'[i].results, lane'[j].results)
  <2>1. i + 1 < j + 1 /\ i + 1 \in DOMAIN lane /\ j + 1 \in DOMAIN lane
    BY <1>11, <1>13
  <2> QED BY <1>11, <2>1 DEF Ordered, Queue
<1>14. Queue(notified, lane)'
  BY <1>12, <1>13 DEF Queue
<1>15. ASSUME NEW res, Follows(notified, lane, res) PROVE Follows(notified', lane', res)
  <2>1. After(notified, res) /\ \A i \in DOMAIN lane : Below(lane[i].results, res)
    BY <1>15 DEF Follows
  <2>2. After(notified', res)
    BY <1>4, <1>10, <2>1
  <2>3. \A i \in DOMAIN lane' : Below(lane'[i].results, res)
    BY <1>11, <2>1
  <2> QED BY <2>2, <2>3 DEF Follows
<1>16. Driving(notified, lane)'
  <2>1. lane = <<>> => lane' = <<>>
    BY <1>1
  <2> QED BY <1>2, <1>15, <2>1 DEF Ordered, Driving
<1> QED BY <1>10, <1>14, <1>16 DEF Ordered

LEMMA RestartOrdered ==
    ASSUME CrashAndRecover
    PROVE  Ordered'
<1>1. notified' = <<>> /\ lane' = <<>> /\ writer' = "top"
  BY Zenon DEF CrashAndRecover
<1>2. NotifiedInOrder' /\ Queue(notified, lane)' /\ Driving(notified, lane)'
  BY <1>1 DEF NotifiedInOrder, Queue, Driving
<1> QED BY <1>2 DEF Ordered

LEMMA OrderedKept ==
    ASSUME PipelineAssumption, OrderInv, [Next]_vars
    PROVE  Ordered'
<1>1. ASSUME NEW r \in Answers, DirectMoves(r), DirectKeeps(r) \/ DirectWins(r) \/ DirectRisks(r)
      PROVE  Ordered'
  BY <1>1, DirectOrdered, WinOrdered
<1>2. CASE \/ Aside \/ DrainReady \/ ReceiveUnit \/ DrainOne \/ RejectWorkUnit
           \/ StageBegin \/ SendFeedback \/ JournalFlush \/ Marks
  BY <1>2, AsideOrdered
<1>3. CASE \/ AdmitGroup \/ StageResolves \/ StageSeal \/ CompleteGroup \/ SubmitUnit
           \/ CompletionFence \/ CompletionFails \/ CompletionRelease \/ CrashAndRecover
  BY <1>3, AdmitOrdered, ResolveOrdered, DeferredOrdered, CompleteOrdered, SubmitOrdered,
     FenceOrdered, ReleaseOrdered, RestartOrdered
<1>4. StoreInv
  BY DEF OrderInv
<1> QED BY <1>1, <1>2, <1>3, <1>4, StepKinds

-----------------------------------------------------------------------------
(* A command is in one place.                                              *)

LEMMA OnceMoved ==
    ASSUME NEW s \in Seq(Messages), Once(s)
    PROVE  /\ Once(<<>>)
           /\ s # <<>> => Once(Tail(s))
           /\ s # <<>> => (Head(s) \in Commands => Head(s) \notin Members(Tail(s)))
           /\ \A n \in 0 .. Len(s) : Once(SubSeq(s, 1, n)) /\ Once(Drop(s, n))
           /\ \A x \in Messages : x \notin Members(s) \/ x \notin Commands => Once(Append(s, x))
<1>1. Once(<<>>)
  BY DEF Once
<1>2. ASSUME s # <<>>
      PROVE  Once(Tail(s)) /\ (Head(s) \in Commands => Head(s) \notin Members(Tail(s)))
  <2> DEFINE t == Tail(s)
  <2>1. /\ Head(s) = s[1] /\ 1 \in DOMAIN s /\ DOMAIN t = 1 .. Len(s) - 1 /\ Len(s) \in Nat
        /\ \A i \in DOMAIN t : i \in Nat \ {0} /\ i + 1 \in DOMAIN s /\ t[i] = s[i + 1]
    BY <1>2
  <2> HIDE DEF t
  <2>2. Once(t)
    <3> SUFFICES ASSUME NEW i \in DOMAIN t, NEW j \in DOMAIN t, t[i] = t[j], t[i] \in Commands
                 PROVE  i = j
      BY DEF Once
    <3>1. i + 1 = j + 1
      BY <2>1 DEF Once
    <3> QED BY <2>1, <3>1
  <2>3. ASSUME Head(s) \in Commands, Head(s) \in Members(t) PROVE FALSE
    <3>1. PICK i \in DOMAIN t : t[i] = Head(s)
      BY <2>3 DEF Members
    <3>2. i + 1 = 1
      BY <2>1, <2>3, <3>1 DEF Once
    <3> QED BY <2>1, <3>2
  <2> QED BY <2>2, <2>3 DEF t
<1>3. ASSUME NEW n \in 0 .. Len(s) PROVE Once(SubSeq(s, 1, n)) /\ Once(Drop(s, n))
  <2> DEFINE a == SubSeq(s, 1, n)
             b == Drop(s, n)
  <2>1. \A i \in DOMAIN a : i \in DOMAIN s /\ a[i] = s[i]
    OBVIOUS
  <2>2. \A i \in DOMAIN b : i \in Nat /\ n + i \in DOMAIN s /\ b[i] = s[n + i]
    BY DropFacts DEF Drop
  <2> HIDE DEF a, b
  <2>3. Once(a)
    BY <2>1 DEF Once
  <2>4. Once(b)
    <3> SUFFICES ASSUME NEW i \in DOMAIN b, NEW j \in DOMAIN b, b[i] = b[j], b[i] \in Commands
                 PROVE  i = j
      BY DEF Once
    <3>1. n + i = n + j
      BY <2>2 DEF Once
    <3> QED BY <2>2, <3>1
  <2> QED BY <2>3, <2>4 DEF a, b
<1>4. ASSUME NEW x \in Messages, x \notin Members(s) \/ x \notin Commands PROVE Once(Append(s, x))
  <2> DEFINE t == Append(s, x)
  <2>1. /\ DOMAIN t = 1 .. Len(s) + 1 /\ Len(s) \in Nat /\ DOMAIN s = 1 .. Len(s)
        /\ \A i \in DOMAIN s : t[i] = s[i]
        /\ t[Len(s) + 1] = x
    OBVIOUS
  <2> HIDE DEF t
  <2>2. \A i \in DOMAIN t : (i \in DOMAIN s /\ t[i] = s[i]) \/ (i = Len(s) + 1 /\ t[i] = x)
    BY <2>1
  <2> SUFFICES ASSUME NEW i \in DOMAIN t, NEW j \in DOMAIN t, t[i] = t[j], t[i] \in Commands
               PROVE  i = j
    BY DEF Once, t
  <2>3. \A k \in DOMAIN s : s[k] \in Members(s)
    BY DEF Members
  <2>4. CASE i \in DOMAIN s /\ j \in DOMAIN s
    BY <2>1, <2>4 DEF Once
  <2>5. CASE ~(i \in DOMAIN s /\ j \in DOMAIN s)
    BY <1>4, <2>2, <2>3, <2>5
  <2> QED BY <2>4, <2>5
<1> QED BY <1>1, <1>2, <1>3, <1>4

\* A caller that has sent its command never has a permit for it again.
LEMMA SentStays ==
    ASSUME StoreInv, [Next]_vars
    PROVE  \A c \in Commands : client[c] \in Sent => client'[c] \in Sent
<1> USE DEF StoreInv, Types, CallerTypes, Sent
<1> DEFINE Stays == \A c \in Commands : client[c] \in Sent => client'[c] \in Sent
<1>1. ASSUME UNCHANGED client PROVE Stays
  BY <1>1
<1>2. ASSUME NEW S, client' = [c \in Commands |-> IF c \in S THEN "done" ELSE client[c]]
      PROVE  Stays
  BY <1>2
<1>3. CASE \/ UNCHANGED vars \/ InitiateShutdown \/ SendShutdown \/ Journal \/ CompletionFence
           \/ PublicationFails \/ JournalErrorFences \/ CompletionFails
  <2>1. UNCHANGED client
    BY <1>3 DEF vars, InitiateShutdown, SendShutdown, Journal, JournalFlush, JournalFails,
       JournalEnds, CompletionFence, PublicationFails, JournalErrorFences, CompletionFails,
       callerVars
  <2> QED BY <1>1, <2>1
<1>4. ASSUME NEW c \in Commands, ReserveCapacity(c) \/ BeginSubmission(c) \/ Submit(c) PROVE Stays
  BY <1>4 DEF ReserveCapacity, BeginSubmission, Submit
<1>5. ASSUME NEW c \in Commands, Refuse(c) PROVE Stays
  <2>1. Reply({c}, LAMBDA d : Says("Refused"))
    BY <1>5, Zenon DEF Refuse
  <2>2. client' = [d \in Commands |-> IF d \in {c} THEN "done" ELSE client[d]]
    BY <2>1 DEF Reply
  <2> QED BY <1>2, <2>2
<1>6. CASE \/ IntakeAccept \/ FormNextUnit \/ IntakeShutdown \/ IntakeCollect
           \/ IntakeCollected \/ IntakeReturn \/ StoppedLifecycle
  BY <1>1, <1>6 DEF IntakeAccept, FormNextUnit, IntakeShutdown, IntakeCollect, IntakeCollected,
     IntakeReturn, StoppedLifecycle, callerVars
<1>7. CASE IntakeFeedback
  <2>1. \/ Reply(Members(pending), LAMBDA c : Says("Rejected")) \/ UNCHANGED callerVars
    BY <1>7, Zenon DEF IntakeFeedback
  <2>2. CASE Reply(Members(pending), LAMBDA c : Says("Rejected"))
    <3>1. client' = [c \in Commands |-> IF c \in Members(pending) THEN "done" ELSE client[c]]
      BY <2>2 DEF Reply
    <3> QED BY <1>2, <3>1
  <2> QED BY <1>1, <2>1, <2>2 DEF callerVars
<1>8. CASE DrainReject
  <2>1. Reply({Head(channel)}, LAMBDA c : Says("Rejected"))
    BY <1>8, Zenon DEF DrainReject
  <2>2. client' = [c \in Commands |-> IF c \in {Head(channel)} THEN "done" ELSE client[c]]
    BY <2>1 DEF Reply
  <2> QED BY <1>2, <2>2
<1>9. CASE DrainReady \/ ReceiveUnit \/ DrainOne \/ AdmitGroup \/ SubmitUnit \/ SendFeedback
  BY <1>1, <1>9 DEF DrainReady, ReceiveUnit, DrainOne, AdmitGroup, SubmitUnit, SendFeedback,
     callerVars
<1>10. CASE Stage
  BY <1>1, <1>10 DEF Stage, StageIneligible, StageFenced, StageReplay, StageBegin, StageSeal,
     StageSealFails, StagePeerMismatch, StageDirect, callerVars
<1>11. CASE Direct
  BY <1>1, <1>11 DEF Direct, DirectReplay, DirectFenced, DirectPrefixFails, DirectCommit,
     DirectAbort, DirectUnknown, DirectStep, callerVars
<1>12. CASE RejectWorkUnit
  <2>1. Reply(Members(work), LAMBDA c : Says("Rejected"))
    BY <1>12, Zenon DEF RejectWorkUnit
  <2>2. client' = [c \in Commands |-> IF c \in Members(work) THEN "done" ELSE client[c]]
    BY <2>1 DEF Reply
  <2> QED BY <1>2, <2>2
<1>13. CASE CompleteGroup
  <2>1. CASE frontier = "WriterPrivate"
    BY <1>1, <1>13, <2>1, BehindFacts DEF callerVars
  <2>2. CASE frontier # "WriterPrivate"
    <3>1. FinishCommandGroup(work, results)
      BY <1>13, <2>2 DEF CompleteGroup
    <3>2. client' = [c \in Commands |-> IF c \in Members(work) THEN "done" ELSE client[c]]
      BY <3>1 DEF FinishCommandGroup, Reply
    <3> QED BY <1>2, <3>2
  <2> QED BY <2>1, <2>2
<1>14. CASE CompletionRelease
  <2>1. FinishCommandGroup(Head(lane).cmds, Head(lane).results)
    BY <1>14, Zenon DEF CompletionRelease
  <2>2. client' = [c \in Commands |-> IF c \in Members(Head(lane).cmds) THEN "done" ELSE client[c]]
    BY <2>1 DEF FinishCommandGroup, Reply
  <2> QED BY <1>2, <2>2
<1>15. CASE CrashAndRecover
  <2> DEFINE S == {c \in Commands : client[c] \in {"reserved", "active", "queued"}}
  <2>1. Reply(S, LAMBDA c : Says("Lost"))
    BY <1>15, Zenon DEF CrashAndRecover
  <2> HIDE DEF S
  <2>2. client' = [c \in Commands |-> IF c \in S THEN "done" ELSE client[c]]
    BY <2>1 DEF Reply
  <2> QED BY <1>2, <2>2
<1> QED BY <1>3, <1>4, <1>5, <1>6, <1>7, <1>8, <1>9, <1>10, <1>11, <1>12, <1>13, <1>14, <1>15
        DEF Next, Caller, Intake, Writer, Completion

\* The queues only lose messages and the unit is not replaced by another.
LEMMA PlacedShrink ==
    ASSUME StoreInv, Placed, [Next]_vars,
           Once(channel'), Once(pending'), Once(work'),
           Members(channel') \subseteq Members(channel), Members(pending') \subseteq Members(pending)
    PROVE  Placed'
<1>1. \A c \in Commands : client[c] \in Sent => client'[c] \in Sent
  BY SentStays
<1>2. \A c \in Commands : c \notin Members(channel') \/ c \notin Members(pending')
  BY DEF Placed
<1>3. \A c \in Commands : c \in Members(channel') \cup Members(pending') => client'[c] \in Sent
  BY <1>1 DEF Placed
<1> QED BY <1>2, <1>3 DEF Placed

LEMMA PlacedKept ==
    ASSUME PipelineAssumption, OrderInv, [Next]_vars
    PROVE  Placed'
<1> USE DEF OrderInv
<1>1. /\ channel \in Seq(Messages) /\ pending \in Seq(Messages) /\ work \in Seq(Commands)
      /\ Once(channel) /\ Once(pending) /\ Once(work)
  BY DEF StoreInv, Types, IntakeTypes, WriterTypes, Placed
<1>2. \A c \in Commands : c \in Messages /\ c # Shutdown
  BY DEF Messages, PipelineAssumption
<1>3. Once(<<>>) /\ Members(<<>>) = {}
  BY DEF Once, Members
<1>4. ASSUME UNCHANGED <<channel, pending>>, work' = work \/ work' = <<>> PROVE Placed'
  <2>1. Once(channel') /\ Once(pending') /\ Once(work')
    BY <1>1, <1>3, <1>4
  <2>2. Members(channel') \subseteq Members(channel) /\ Members(pending') \subseteq Members(pending)
    BY <1>4
  <2> QED BY <2>1, <2>2, PlacedShrink
<1>5. CASE \/ UNCHANGED vars \/ InitiateShutdown \/ StoppedLifecycle
           \/ Writer \/ Journal \/ Completion
           \/ \E c \in Commands : BeginSubmission(c) \/ Refuse(c)
  <2>1. UNCHANGED <<channel, pending>>
    BY <1>5, SteadySteps DEF Steady
  <2>2. work' = work \/ work' = <<>>
    <3>1. CASE SendFeedback
      BY <3>1 DEF SendFeedback
    <3>2. CASE \/ UNCHANGED vars \/ InitiateShutdown \/ StoppedLifecycle \/ Journal \/ CompletionFence
               \/ PublicationFails \/ JournalErrorFences \/ CompletionFails
      BY <3>2 DEF vars, InitiateShutdown, StoppedLifecycle, Journal, JournalFlush, JournalFails,
         JournalEnds, CompletionFence, PublicationFails, JournalErrorFences, CompletionFails
    <3>3. CASE DrainReady \/ ReceiveUnit \/ DrainOne \/ AdmitGroup \/ SubmitUnit \/ CompleteGroup
      BY <3>3 DEF DrainReady, ReceiveUnit, DrainOne, AdmitGroup, SubmitUnit, CompleteGroup
    <3>4. CASE Stage
      BY <3>4 DEF Stage, StageIneligible, StageFenced, StageReplay, StageBegin, StageSeal,
         StageSealFails, StagePeerMismatch, StageDirect
    <3>5. CASE Direct
      BY <3>5 DEF Direct, DirectReplay, DirectFenced, DirectPrefixFails, DirectCommit,
         DirectAbort, DirectUnknown, DirectStep
    <3>6. CASE RejectWorkUnit
      BY <3>6, Zenon DEF RejectWorkUnit
    <3>7. CASE CompletionRelease
      BY <3>7, Zenon DEF CompletionRelease
    <3>8. ASSUME NEW c \in Commands, BeginSubmission(c) \/ Refuse(c) PROVE work' = work
      BY <3>8, Zenon DEF BeginSubmission, Refuse
    <3> QED BY <1>5, <3>1, <3>2, <3>3, <3>4, <3>5, <3>6, <3>7, <3>8 DEF Writer, Completion
  <2> QED BY <1>4, <2>1, <2>2
<1>6. CASE IntakeCollected \/ IntakeReturn \/ \E c \in Commands : ReserveCapacity(c)
  BY <1>4, <1>6 DEF IntakeCollected, IntakeReturn, ReserveCapacity, intakeVars
<1>7. ASSUME NEW c \in Commands, Submit(c) PROVE Placed'
  <2>1. /\ client[c] = "active" /\ client' = [client EXCEPT ![c] = "queued"]
        /\ channel' = Append(channel, c) /\ UNCHANGED <<pending, work>>
    BY <1>7 DEF Submit
  <2>2. c \notin Members(channel) \cup Members(pending)
    BY <2>1 DEF Placed, Sent
  <2>3. Once(channel') /\ Members(channel') = Members(channel) \cup {c}
    BY <1>1, <1>2, <2>1, <2>2, OnceMoved, MembersMoved
  <2>4. \A d \in Commands : d \notin Members(channel') \/ d \notin Members(pending')
    BY <2>1, <2>2, <2>3 DEF Placed
  <2>5. \A d \in Commands : d \in Members(channel') \cup Members(pending') => client'[d] \in Sent
    <3> SUFFICES ASSUME NEW d \in Commands, d \in Members(channel') \cup Members(pending')
                 PROVE  client'[d] \in Sent
      OBVIOUS
    <3>1. CASE d = c
      BY <2>1, <3>1 DEF Sent, StoreInv, Types, CallerTypes
    <3>2. CASE d # c
      <4>1. client[d] \in Sent
        BY <2>1, <2>3, <3>2 DEF Placed
      <4> QED BY <4>1, SentStays
    <3> QED BY <3>1, <3>2
  <2> QED BY <1>1, <2>1, <2>3, <2>4, <2>5 DEF Placed
<1>8. CASE SendShutdown
  <2>1. /\ channel' = Append(channel, Shutdown)
        /\ UNCHANGED <<client, pending, work>>
    BY <1>8 DEF SendShutdown, callerVars
  <2>2. Shutdown \in Messages /\ Shutdown \notin Commands
    BY DEF Messages, PipelineAssumption
  <2>3. Once(channel') /\ Members(channel') = Members(channel) \cup {Shutdown}
    BY <1>1, <2>1, <2>2, OnceMoved, MembersMoved
  <2> QED BY <1>1, <2>1, <2>2, <2>3 DEF Placed
<1>9. CASE IntakeAccept \/ IntakeCollect
  <2>1. /\ channel # <<>> /\ pending' = Append(pending, Head(channel)) /\ channel' = Tail(channel)
        /\ UNCHANGED <<client, work>>
    BY <1>9 DEF IntakeAccept, IntakeCollect, callerVars
  <2> DEFINE x == Head(channel)
  <2>2. x \in Messages /\ x \in Members(channel)
    BY <1>1, <2>1, TailFacts, MembersMoved
  <2>3. x \in Commands => x \notin Members(pending) /\ x \notin Members(Tail(channel))
    BY <1>1, <2>1, <2>2, OnceMoved DEF Placed
  <2>4. Once(channel') /\ Members(channel') \subseteq Members(channel)
    BY <1>1, <2>1, OnceMoved, MembersMoved
  <2> HIDE DEF x
  <2>5. pending' = Append(pending, x) /\ channel' = Tail(channel)
    BY <2>1 DEF x
  <2>6. Once(pending') /\ Members(pending') = Members(pending) \cup {x}
    BY <1>1, <2>2, <2>3, <2>5, OnceMoved, MembersMoved
  <2>7. \A d \in Commands : d \notin Members(channel') \/ d \notin Members(pending')
    BY <2>3, <2>4, <2>5, <2>6 DEF Placed
  <2>8. \A d \in Commands : d \in Members(channel') \cup Members(pending') => client'[d] \in Sent
    BY <2>1, <2>2, <2>4, <2>6 DEF Placed
  <2> QED BY <1>1, <2>1, <2>4, <2>6, <2>7, <2>8 DEF Placed
<1>10. CASE FormNextUnit
  <2>1. PICK n \in 1 .. Len(pending) : work' = SubSeq(pending, 1, n) /\ pending' = Drop(pending, n)
    BY <1>10 DEF FormNextUnit
  <2>2. n \in 0 .. Len(pending)
    BY <1>1
  <2>3. Once(work') /\ Once(pending') /\ Members(pending') \subseteq Members(pending)
    BY <1>1, <2>1, <2>2, OnceMoved, MembersMoved
  <2>4. UNCHANGED channel
    BY <1>10 DEF FormNextUnit
  <2> QED BY <1>1, <2>3, <2>4, PlacedShrink
<1>11. CASE IntakeShutdown
  <2>1. pending # <<>> /\ pending' = Tail(pending) /\ UNCHANGED <<channel, work>>
    BY <1>11 DEF IntakeShutdown
  <2>2. Once(pending') /\ Members(pending') \subseteq Members(pending)
    BY <1>1, <2>1, OnceMoved, MembersMoved
  <2> QED BY <1>1, <2>1, <2>2, PlacedShrink
<1>12. CASE IntakeFeedback
  <2>1. (pending' = <<>> \/ pending' = pending) /\ UNCHANGED <<channel, work>>
    BY <1>12, Zenon DEF IntakeFeedback
  <2>2. Once(pending') /\ Members(pending') \subseteq Members(pending)
    BY <1>1, <1>3, <2>1
  <2> QED BY <1>1, <2>1, <2>2, PlacedShrink
<1>13. CASE DrainReject
  <2>1. channel # <<>> /\ channel' = Tail(channel) /\ UNCHANGED <<pending, work>>
    BY <1>13, Zenon DEF DrainReject
  <2>2. Once(channel') /\ Members(channel') \subseteq Members(channel)
    BY <1>1, <2>1, OnceMoved, MembersMoved
  <2> QED BY <1>1, <2>1, <2>2, PlacedShrink
<1>14. CASE CrashAndRecover
  <2>1. channel' = <<>> /\ pending' = <<>> /\ work' = <<>>
    BY <1>14, Zenon DEF CrashAndRecover
  <2>2. Once(channel') /\ Once(pending') /\ Once(work')
    BY <1>3, <2>1
  <2>3. Members(channel') \subseteq Members(channel) /\ Members(pending') \subseteq Members(pending)
    BY <1>3, <2>1
  <2> QED BY <2>2, <2>3, PlacedShrink
<1> QED BY <1>5, <1>6, <1>7, <1>8, <1>9, <1>10, <1>11, <1>12, <1>13, <1>14
        DEF Next, Caller, Intake

-----------------------------------------------------------------------------
(* The theorem.                                                            *)

LEMMA InitOrderInv ==
    ASSUME PipelineAssumption, Init
    PROVE  OrderInv
<1>1. StoreInv
  BY InitStoreInv
<1>2. /\ channel = <<>> /\ pending = <<>> /\ work = <<>> /\ notified = <<>>
      /\ lane = <<>> /\ writer = "top"
  BY DEF Init
<1>3. Placed
  BY <1>2 DEF Placed, Once, Members
<1>4. Ordered
  BY <1>2 DEF Ordered, NotifiedInOrder, Queue, Driving
<1> QED BY <1>1, <1>3, <1>4 DEF OrderInv

\* The order of commands holds from the channel to the notification in every
\* reachable state.
THEOREM OrderInvariant == Spec => []OrderInv
<1>1. Init => OrderInv
  BY PipelineAssumption, InitOrderInv
<1>2. OrderInv /\ [Next]_vars => OrderInv'
  <2> SUFFICES ASSUME OrderInv, [Next]_vars PROVE OrderInv'
    OBVIOUS
  <2>1. StoreInv'
    BY PipelineAssumption, StoreInvKept DEF OrderInv
  <2>2. Placed' /\ Ordered'
    BY PipelineAssumption, PlacedKept, OrderedKept
  <2> QED BY <2>1, <2>2 DEF OrderInv
<1> QED BY <1>1, <1>2, PTL DEF Spec

\* First commits are notified in commit order and only when readers can see
\* them, whether a unit was released by the writer or behind a fence, for any
\* depth of the pipeline and any faults.
THEOREM NotificationsInOrder == Spec => []NotifiedInOrder
<1>1. OrderInv => NotifiedInOrder
  BY DEF OrderInv, Ordered
<1> QED BY <1>1, OrderInvariant, PTL
=============================================================================
