------------------------ MODULE CommitPipelineProofs ------------------------
(***************************************************************************)
(* Proofs about CommitPipeline that hold for any number of submissions,    *)
(* any capacity, group bound and number of faults and crashes.             *)
(***************************************************************************)
EXTENDS CommitPipeline, NumberSets

-----------------------------------------------------------------------------
(* Sequences.                                                              *)

LEMMA TailFacts ==
    ASSUME NEW S, NEW s \in Seq(S), s # <<>>
    PROVE  /\ Head(s) = s[1] /\ Head(s) \in S /\ 1 \in DOMAIN s
           /\ Tail(s) \in Seq(S) /\ Len(Tail(s)) = Len(s) - 1
           /\ \A i \in DOMAIN Tail(s) : i + 1 \in DOMAIN s /\ Tail(s)[i] = s[i + 1]
OBVIOUS

LEMMA AppendFacts ==
    ASSUME NEW S, NEW s \in Seq(S), NEW x \in S
    PROVE  /\ Append(s, x) \in Seq(S) /\ Append(s, x) # <<>>
           /\ Len(Append(s, x)) = Len(s) + 1
           /\ DOMAIN Append(s, x) = 1 .. Len(s) + 1
           /\ \A i \in DOMAIN s : Append(s, x)[i] = s[i]
           /\ Append(s, x)[Len(s) + 1] = x
<1>1. Len(Append(s, x)) = Len(s) + 1 /\ Len(s) \in Nat /\ Append(s, x) \in Seq(S)
  OBVIOUS
<1>2. Append(s, x) # <<>>
  BY <1>1
<1> QED BY <1>1, <1>2

LEMMA DropFacts ==
    ASSUME NEW S, NEW s \in Seq(S), NEW n \in 0 .. Len(s)
    PROVE  /\ Drop(s, n) \in Seq(S) /\ Len(Drop(s, n)) = Len(s) - n
           /\ \A i \in DOMAIN Drop(s, n) : n + i \in DOMAIN s /\ Drop(s, n)[i] = s[n + i]
BY DEF Drop

\* What a flush through frame k leaves to the journal.
LEMMA FlushedFrames ==
    ASSUME frames \in Seq(Nat), NEW k \in DOMAIN frames, frames' = Drop(frames, k)
    PROVE  /\ frames' \in Seq(Nat) /\ Len(frames') = Len(frames) - k
           /\ \A i \in DOMAIN frames' : k + i \in DOMAIN frames /\ frames'[i] = frames[k + i]
<1>1. k \in 0 .. Len(frames)
  OBVIOUS
<1> QED BY <1>1, DropFacts

LEMMA EmptyFacts ==
    ASSUME NEW S, NEW s \in Seq(S)
    PROVE  s = <<>> <=> Len(s) = 0
OBVIOUS

\* The number of members of I that are at most i grows with i in I.
LEMMA RankGrows ==
    ASSUME NEW n \in Nat, NEW I \in SUBSET (0..n), NEW i \in I, NEW k \in I, i < k
    PROVE  Cardinality({m \in I : m <= i}) < Cardinality({m \in I : m <= k})
<1> DEFINE A == {m \in I : m <= i}
           B == {m \in I : m <= k}
<1>0. \A m \in I : m \in Nat /\ m \in 0..n
  OBVIOUS
<1>1. A \in SUBSET (0..n) /\ B \in SUBSET (0..n) /\ A \subseteq B /\ k \in B /\ k \notin A
  <2>1. A \in SUBSET (0..n) /\ B \in SUBSET (0..n)
    BY <1>0
  <2>2. k \in B /\ k \notin A
    BY <1>0
  <2>3. ASSUME NEW m \in I, m <= i PROVE m <= k
    BY <1>0, <2>3
  <2> QED BY <2>1, <2>2, <2>3
<1>2. IsFiniteSet(A) /\ IsFiniteSet(B) /\ Cardinality(A) \in Nat /\ Cardinality(B) \in Nat
  BY <1>1, FiniteBelow
<1>3. A # B
  BY <1>1
<1> HIDE DEF A, B
<1>4. Cardinality(A) < Cardinality(B)
  <2>1. A \in SUBSET B
    BY <1>1
  <2>2. Cardinality(A) <= Cardinality(B) /\ Cardinality(A) # Cardinality(B)
    BY <1>2, <1>3, <2>1, FS_Subset
  <2> QED BY <1>2, <2>2
<1> QED BY <1>4 DEF A, B

\* Every number up to the size of I is the rank of a member.
LEMMA RankExists ==
    ASSUME NEW n \in Nat, NEW I \in SUBSET (0..n), NEW j \in 1 .. Cardinality(I)
    PROVE  \E i \in I : Cardinality({m \in I : m <= i}) = j
<1> DEFINE Rank(i) == Cardinality({m \in I : m <= i})
           T == {i \in I : Rank(i) >= j}
<1>0. \A m \in I : m \in Nat /\ m \in 0..n
  OBVIOUS
<1>1. \A i \in I : Rank(i) \in Nat
  <2> TAKE i \in I
  <2>1. {m \in I : m <= i} \in SUBSET (0..n)
    OBVIOUS
  <2> QED BY <2>1, FiniteBelow
<1>2. IsFiniteSet(I) /\ Cardinality(I) \in Nat /\ I # {}
  <2>1. IsFiniteSet(I) /\ Cardinality(I) \in Nat
    BY FiniteBelow
  <2>2. Cardinality(I) # 0
    BY <2>1
  <2>3. Cardinality({}) = 0
    BY FS_EmptySet
  <2> QED BY <2>1, <2>2, <2>3
<1>3. PICK top \in I : \A d \in I : d <= top
  BY <1>2, Largest
<1>4. {m \in I : m <= top} = I
  BY <1>3
<1>5. top \in T
  BY <1>4
<1>6. T \in SUBSET Nat /\ T \in SUBSET I
  BY <1>0
<1> HIDE DEF T
<1>7. PICK i \in T : \A y \in T : i <= y
  BY <1>5, <1>6, Smallest
<1>8. i \in I /\ Rank(i) >= j
  BY <1>6, <1>7 DEF T
<1> DEFINE P == {m \in I : m < i}
<1>9. CASE P = {}
  <2>0. ASSUME NEW m \in I PROVE m <= i <=> m = i
    <3>1. ~(m < i)
      BY <1>9
    <3> QED BY <1>0, <1>8, <3>1
  <2>1. {m \in I : m <= i} = {i}
    BY <1>8, <2>0
  <2>2. Rank(i) = 1
    BY <2>1, FS_Singleton
  <2> QED BY <1>8, <2>2
<1>10. CASE P # {}
  <2>1. P \in SUBSET (0..n)
    OBVIOUS
  <2>2. PICK p \in P : \A d \in P : d <= p
    BY <1>10, <2>1, Largest
  <2>3. p \in I /\ p \notin T /\ Rank(p) < j
    <3>1. p \in I /\ p < i /\ p \in Nat /\ i \in Nat
      BY <1>8, <2>2
    <3>2. p \notin T
      BY <3>1, <1>7
    <3>3. ~(Rank(p) >= j)
      BY <3>1, <3>2 DEF T
    <3> QED BY <3>1, <3>2, <3>3, <1>1
  <2> DEFINE Q == {m \in I : m <= p}
  <2>4. {m \in I : m <= i} = Q \cup {i}
    <3>1. ASSUME NEW m \in I PROVE m <= i <=> m \in Q \cup {i}
      <4>1. m < i <=> m \in P
        OBVIOUS
      <4>2. m <= p <=> m < i
        BY <1>0, <1>8, <2>2, <4>1
      <4> QED BY <4>2, <1>0, <1>8
    <3> QED BY <3>1, <1>8
  <2>5. i \notin Q /\ Q \in SUBSET (0..n)
    <3>1. p < i /\ p \in Nat /\ i \in Nat
      BY <1>0, <1>8, <2>2
    <3>2. ~(i <= p)
      BY <3>1
    <3> QED BY <1>0, <3>2
  <2>6. IsFiniteSet(Q) /\ Cardinality(Q) \in Nat
    BY <2>5, FiniteBelow
  <2>7. Cardinality(Q \cup {i}) = Cardinality(Q) + 1
    <3> HIDE DEF Q
    <3> QED BY <2>5, <2>6, FS_AddElement
  <2>8. Rank(i) = Rank(p) + 1
    BY <2>4, <2>7
  <2> HIDE DEF Rank
  <2>9. Rank(i) = j
    BY <1>1, <1>8, <2>3, <2>8
  <2> QED BY <1>8, <2>9 DEF Rank
<1> QED BY <1>9, <1>10

\* A sublist takes the chosen positions in order, and all of them.
LEMMA SublistFacts ==
    ASSUME NEW S, NEW s \in Seq(S), NEW I \in SUBSET DOMAIN s
    PROVE  /\ Sublist(s, I) \in Seq(S)
           /\ Len(Sublist(s, I)) <= Len(s)
           /\ Sublist(s, I) = <<>> => I = {}
           /\ \E pos \in [DOMAIN Sublist(s, I) -> I] :
                 /\ \A j \in DOMAIN pos : Sublist(s, I)[j] = s[pos[j]]
                 /\ \A j, k \in DOMAIN pos : j < k => pos[j] < pos[k]
                 /\ \A i \in I : \E j \in DOMAIN pos : pos[j] = i
<1> DEFINE n == Len(s)
           size == Cardinality(I)
           Rank(i) == Cardinality({k \in I : k <= i})
           pos == [j \in 1 .. size |-> CHOOSE i \in I : Rank(i) = j]
           t == Sublist(s, I)
<1>1. n \in Nat /\ I \in SUBSET (0..n) /\ DOMAIN s = 1..n
  OBVIOUS
<1>2. IsFiniteSet(I) /\ size \in Nat
  BY <1>1, FiniteBelow
<1>3. size <= n
  <2>1. IsFiniteSet(1..n) /\ Cardinality(1..n) = n
    BY <1>1, FS_Interval
  <2>2. I \subseteq 1..n
    BY <1>1
  <2> QED BY <2>1, <2>2, FS_Subset
<1>4. \A j \in 1 .. size : pos[j] \in I /\ Rank(pos[j]) = j
  <2> TAKE j \in 1 .. size
  <2>1. \E i \in I : Rank(i) = j
    BY <1>1, RankExists
  <2>2. pos[j] = CHOOSE i \in I : Rank(i) = j
    OBVIOUS
  <2> HIDE DEF Rank, pos
  <2> QED BY <2>1, <2>2
<1>5. \A i, k \in I : i < k => Rank(i) < Rank(k)
  BY <1>1, RankGrows
<1>6. \A i \in I : Rank(i) \in 1 .. size
  <2> TAKE i \in I
  <2> DEFINE Q == {k \in I : k <= i}
  <2>1. Q \subseteq I /\ i \in Q
    <3>1. i \in Nat
      BY <1>1
    <3> QED BY <3>1
  <2>2. IsFiniteSet(Q) /\ Cardinality(Q) <= size /\ Cardinality(Q) \in Nat
    <3> HIDE DEF Q
    <3> QED BY <1>2, <2>1, FS_Subset, FS_CardinalityType
  <2>3. Cardinality(Q) # 0
    <3> HIDE DEF Q
    <3> QED BY <2>1, <2>2, FS_EmptySet
  <2> QED BY <1>2, <2>2, <2>3
<1>7. t = [j \in 1 .. size |-> s[pos[j]]]
  BY DEF Sublist
<1> HIDE DEF Rank, pos, t, size
<1>8. DOMAIN pos = 1 .. size
  BY DEF pos
<1>9. \A j \in 1 .. size : s[pos[j]] \in S
  BY <1>1, <1>4
<1>10. t \in Seq(S) /\ Len(t) = size /\ DOMAIN t = 1 .. size
  BY <1>2, <1>7, <1>9
<1>11. \A j, k \in 1 .. size : j < k => pos[j] < pos[k]
  <2> TAKE j, k \in 1 .. size
  <2> HAVE j < k
  <2>1. pos[j] \in I /\ pos[k] \in I /\ Rank(pos[j]) = j /\ Rank(pos[k]) = k
    BY <1>4
  <2>2. pos[j] \in Nat /\ pos[k] \in Nat
    BY <2>1, <1>1
  <2>3. ~(pos[k] < pos[j])
    BY <2>1, <1>5, <1>2
  <2>4. pos[k] # pos[j]
    BY <2>1, <1>2
  <2> QED BY <2>2, <2>3, <2>4
<1>12. \A i \in I : \E j \in 1 .. size : pos[j] = i
  <2> TAKE i \in I
  <2>1. Rank(i) \in 1 .. size
    BY <1>6
  <2>2. pos[Rank(i)] \in I /\ Rank(pos[Rank(i)]) = Rank(i)
    BY <1>4, <2>1
  <2>3. i \in Nat /\ pos[Rank(i)] \in Nat /\ Rank(i) \in Nat
    BY <1>1, <2>1, <2>2
  <2>4. pos[Rank(i)] = i
    BY <1>5, <2>2, <2>3
  <2> QED BY <2>1, <2>4
<1>13. t = <<>> => I = {}
  BY <1>2, <1>10, <1>12
<1>14. pos \in [DOMAIN t -> I]
  BY <1>4, <1>10 DEF pos
<1>15. \A j \in DOMAIN pos : t[j] = s[pos[j]]
  BY <1>7, <1>8
<1> QED BY <1>3, <1>8, <1>10, <1>11, <1>12, <1>13, <1>14, <1>15 DEF t

-----------------------------------------------------------------------------
(* The inductive invariant.                                                *)

\* Results by command, and units of the completion lane.
Outcomes == UNION {[S -> Answers] : S \in SUBSET Commands}
Units == [kind : UnitKinds, cmds : Seq(Commands), upto : Nat,
          proof : BOOLEAN, results : Outcomes]
Tickets == [n : Nat, proof : BOOLEAN]

WriterPhases == {"top", "recv", "drain", "admit", "stage", "seal", "direct",
                 "complete", "submit", "postdrain", "feedback"}

CallerTypes ==
    /\ client \in [Commands -> {"idle", "reserved", "active", "queued", "done"}]
    /\ answer \in [Commands -> Answers]
    /\ lifecycle \in {"Accepting", "Draining", "Fenced", "Stopped"}
    /\ gateClosed \in BOOLEAN
    /\ shutdown \in {"no", "closing", "sent"}

IntakeTypes ==
    /\ channel \in Seq(Messages) /\ pending \in Seq(Messages)
    /\ recvClosed \in BOOLEAN /\ busy \in BOOLEAN /\ feedback \in BOOLEAN
    /\ intake \in {"run", "closing", "draining", "rejecting", "done"}

WriterTypes ==
    /\ work \in Seq(Commands) /\ todo \in Seq(Commands)
    /\ writer \in WriterPhases /\ frontier \in Frontiers
    /\ results \in Outcomes
    /\ unit = <<>> \/ unit \in Units
    /\ inFlight \in Seq(Tickets) /\ suffix \in Nat /\ tokens \in Nat
    /\ lane \in Seq(Units) /\ released \in BOOLEAN

StoreTypes ==
    /\ log \in Seq(Commands) /\ durable \in Nat /\ published \in Nat
    /\ frames \in Seq(Nat) /\ torn \in Nat /\ journalClosed \in BOOLEAN
    /\ pubFailed \in BOOLEAN /\ writeFenced \in BOOLEAN /\ fencedAt \in Nat
    /\ notified \in Seq(Nat \ {0})
    /\ crashes \in 0 .. MaxCrashes /\ faults \in 0 .. MaxFaults

Types == CallerTypes /\ IntakeTypes /\ WriterTypes /\ StoreTypes

\* The frames that are not durable yet divide the records behind the durable
\* ones and end where the log ends; a failed batch ends at one of them.  No key
\* of the log, and of the group that is about to be added to it, comes twice.
Sealed ==
    /\ published <= durable /\ durable <= Len(log)
    /\ \A i \in DOMAIN frames : durable < frames[i] /\ frames[i] <= Len(log)
    /\ \A i, j \in DOMAIN frames : i < j => frames[i] < frames[j]
    /\ frames # <<>> => frames[Len(frames)] = Len(log)
    /\ frames = <<>> => durable = Len(log)
    /\ torn # 0 => \E k \in DOMAIN frames : frames[k] = torn
    /\ DistinctKeys(log)
    /\ writer = "seal" => /\ DistinctKeys(todo)
                          /\ \A i \in DOMAIN todo : Matches(todo[i], log) = {}

\* The oldest unit can no longer be published: the completion thread is between
\* the store's fence and the coordinator's.
Doomed ==
    /\ lane # <<>> /\ ~released /\ lane[1].kind = "Fence"
    /\ published < lane[1].upto
    /\ pubFailed \/ (torn # 0 /\ durable < lane[1].upto)

\* A fenced coordinator has a fenced store; a fenced store has a halted
\* coordinator, or one that is about to be; a halted one has closed its gate.
Halting ==
    /\ lifecycle = "Fenced" => writeFenced
    /\ Halted => gateClosed
    /\ writeFenced => Halted \/ Doomed

\* What was appended behind the fence is never published: either no publication
\* succeeds any more, or everything behind the fence is behind a failed write.
Fencing ==
    /\ fencedAt <= Len(log)
    /\ writeFenced => published <= fencedAt
    /\ writeFenced /\ ~pubFailed =>
          /\ durable <= fencedAt
          /\ torn # 0 \/ (Len(log) <= fencedAt /\ writer # "seal")

\* The intake actor gives the writer one unit at a time, and the writer has
\* one until it sends its feedback.
Handed ==
    /\ feedback => busy /\ work = <<>>
    /\ ~busy => work = <<>>
    /\ writer \notin {"top", "recv"} => work # <<>>
    /\ Len(work) <= MaxGroup
    /\ writer \in {"stage", "seal", "direct"} => todo # <<>>
    /\ writer \in {"stage", "seal", "direct", "complete"} =>
          DOMAIN results = Members(work)
    /\ writer \in {"stage", "seal", "direct", "complete", "submit"} =>
          Members(todo) \subseteq Members(work) /\ Len(todo) <= Len(work)
    /\ writer = "submit" =>
          /\ unit \in Units /\ unit.cmds = work
          /\ unit.kind = "Fence" => unit.upto = Len(log)
    /\ writer # "submit" => unit = <<>>

\* The writer's accounts: what it counts covers the lane, and the unit it
\* drives has room in the journal suffix.
Room ==
    /\ Len(inFlight) = Len(lane) + tokens
    /\ inFlight = <<>> => suffix = 0
    /\ \A i \in DOMAIN inFlight : inFlight[i].n <= suffix
    /\ suffix <= MaxGroup
    /\ writer \in {"admit", "stage", "seal", "direct", "complete", "submit"} =>
          suffix + Len(work) <= MaxGroup
    /\ writer = "drain" => frontier = "Published" /\ inFlight # <<>>
    /\ writer = "admit" /\ frontier = "Published" => inFlight = <<>>
    /\ writer = "stage" /\ frontier = "Published" => published = Len(log)

\* The records before those of the unit that is about to enter the lane.
Base == IF writer = "submit" /\ unit.kind = "Fence"
        THEN Len(log) - Len(todo) ELSE Len(log)

\* While the store is not fenced, what is not published waits for a fence of
\* the lane and is counted in the suffix; an epoch that began in time may be
\* sealed behind the fence, so that its count must hold on.
Covered ==
    /\ ~writeFenced /\ published < Base =>
          \E i \in DOMAIN lane : lane[i].kind = "Fence" /\ lane[i].upto = Base
    /\ ~writeFenced \/ writer = "seal" => Base <= published + suffix
    /\ Len(log) <= published + MaxGroup

\* First commits among the results name their own record, one of the first n.
Truthful(res, n, records) ==
    \A c \in DOMAIN res : res[c].kind = "FirstCommit" =>
        res[c].seq \in 1 .. n /\ records[res[c].seq] = c

\* Those of a unit, when n records are published.
Faithful(u, n, records) ==
    /\ u.cmds # <<>> /\ DOMAIN u.results = Members(u.cmds)
    /\ u.upto <= Len(records)
    /\ Truthful(u.results, IF u.kind = "Fence" THEN u.upto ELSE n, records)

\* First commits on their way to their callers: those of a fence are published
\* with it, and every other one was published when it was made.
Carried ==
    /\ Truthful(results, published, log)
    /\ Truthful(answer, published, log)
    /\ writer = "submit" => Faithful(unit, published, log)
    /\ \A i \in DOMAIN lane : Faithful(lane[i], published, log)
    /\ released => /\ lane # <<>> /\ lane[1].kind = "Fence"
                   /\ Truthful(lane[1].results, published, log)
                   /\ ~writeFenced => lane[1].upto <= published

StoreInv == /\ Types /\ Sealed /\ Halting /\ Fencing /\ Handed /\ Room
            /\ Covered /\ Carried

-----------------------------------------------------------------------------
(* Facts about the operators of the model.                                 *)

LEMMA OutcomeMade ==
    ASSUME NEW S \in SUBSET Commands, NEW f \in [S -> Answers]
    PROVE  f \in Outcomes
BY DEF Outcomes

LEMMA OutcomeFacts ==
    ASSUME NEW f \in Outcomes
    PROVE  /\ DOMAIN f \in SUBSET Commands /\ f \in [DOMAIN f -> Answers]
           /\ \A c \in DOMAIN f : f[c] \in Answers
BY DEF Outcomes

LEMMA OutcomeChanged ==
    ASSUME NEW f \in Outcomes, NEW c, NEW a \in Answers
    PROVE  /\ [f EXCEPT ![c] = a] \in Outcomes
           /\ DOMAIN [f EXCEPT ![c] = a] = DOMAIN f
<1> DEFINE g == [f EXCEPT ![c] = a]
<1>1. DOMAIN f \in SUBSET Commands /\ f \in [DOMAIN f -> Answers]
  BY OutcomeFacts
<1>2. g \in [DOMAIN f -> Answers]
  BY <1>1
<1> QED BY <1>1, <1>2, OutcomeMade

LEMMA SaysFacts ==
    ASSUME NEW k \in AnswerKinds
    PROVE  Says(k) \in Answers /\ Says(k).kind = k
BY DEF Says, Answers

LEMMA WithFacts ==
    ASSUME NEW k \in AnswerKinds, NEW S, results \in Outcomes
    PROVE  /\ With(S, k) \in Outcomes /\ DOMAIN With(S, k) = DOMAIN results
           /\ \A c \in DOMAIN results :
                 With(S, k)[c] = IF c \in S THEN Says(k) ELSE results[c]
<1>1. DOMAIN results \in SUBSET Commands /\ results \in [DOMAIN results -> Answers]
  BY OutcomeFacts
<1>2. With(S, k) \in [DOMAIN results -> Answers]
  BY <1>1, SaysFacts DEF With
<1> QED BY <1>1, <1>2, OutcomeMade DEF With

\* A lookup is vacant exactly if there is no record of the key, and it never
\* claims a first commit.
LEMMA RecheckFacts ==
    ASSUME NEW c, NEW s \in Seq(Commands)
    PROVE  /\ RecheckAdmission(c, s) \in Answers
           /\ RecheckAdmission(c, s).kind \in {"Vacant", "Replay", "InputMismatch"}
           /\ RecheckAdmission(c, s) = Vacant <=> Matches(c, s) = {}
           /\ RecheckAdmission(c, s).kind = "Vacant" <=> Matches(c, s) = {}
<1>1. CASE Matches(c, s) = {}
  BY <1>1 DEF RecheckAdmission, Vacant, Says, Answers, AnswerKinds
<1>2. CASE Matches(c, s) # {}
  <2> DEFINE i == CHOOSE i \in Matches(c, s) : TRUE
  <2>1. i \in Matches(c, s)
    BY <1>2
  <2>2. i \in Nat
    BY <2>1 DEF Matches
  <2> HIDE DEF i
  <2>3. RecheckAdmission(c, s) = IF InputOf[s[i]] = InputOf[c]
                                 THEN [kind |-> "Replay", seq |-> i]
                                 ELSE Says("InputMismatch")
    BY <1>2 DEF RecheckAdmission, i
  <2> QED BY <1>2, <2>2, <2>3 DEF Vacant, Says, Answers, AnswerKinds
<1> QED BY <1>1, <1>2

LEMMA FailingFacts ==
    ASSUME NEW u \in Units
    PROVE  /\ Failing(u) \in Units
           /\ Failing(u).kind = u.kind /\ Failing(u).cmds = u.cmds
           /\ Failing(u).upto = u.upto
           /\ DOMAIN Failing(u).results = DOMAIN u.results
           /\ \A c \in DOMAIN u.results :
                 Failing(u).results[c].kind # "FirstCommit"
BY OutcomeMade, OutcomeFacts DEF Units, Failing, Says, Answers, AnswerKinds

\* The first commits of a sealed group: its i-th command has the i-th sequence
\* behind the base.
LEMMA FirstCommitsFacts ==
    ASSUME NEW s \in Seq(Commands), NEW n \in Nat, results \in Outcomes
    PROVE  /\ FirstCommits(s, n) \in Outcomes
           /\ DOMAIN FirstCommits(s, n) = DOMAIN results
           /\ \A c \in DOMAIN results :
                 IF c \in Members(s)
                 THEN \E i \in DOMAIN s :
                         /\ s[i] = c
                         /\ FirstCommits(s, n)[c] =
                               [kind |-> "FirstCommit", seq |-> n + i]
                 ELSE FirstCommits(s, n)[c] = results[c]
<1>1. DOMAIN results \in SUBSET Commands /\ results \in [DOMAIN results -> Answers]
  BY OutcomeFacts
<1>2. ASSUME NEW c \in DOMAIN results, c \in Members(s)
      PROVE  \E i \in DOMAIN s :
                /\ s[i] = c
                /\ FirstCommits(s, n)[c] = [kind |-> "FirstCommit", seq |-> n + i]
  <2> DEFINE i == CHOOSE i \in DOMAIN s : s[i] = c
  <2>1. i \in DOMAIN s /\ s[i] = c
    BY <1>2 DEF Members
  <2>2. FirstCommits(s, n)[c] = [kind |-> "FirstCommit", seq |-> n + i]
    BY <1>2 DEF FirstCommits
  <2> HIDE DEF i
  <2> QED BY <2>1, <2>2
<1>3. ASSUME NEW c \in DOMAIN results, c \notin Members(s)
      PROVE  FirstCommits(s, n)[c] = results[c]
  BY <1>3 DEF FirstCommits
<1>4. DOMAIN FirstCommits(s, n) = DOMAIN results
  BY DEF FirstCommits
<1>5. ASSUME NEW c \in DOMAIN results PROVE FirstCommits(s, n)[c] \in Answers
  <2>1. CASE c \in Members(s)
    <3>1. PICK i \in DOMAIN s :
                FirstCommits(s, n)[c] = [kind |-> "FirstCommit", seq |-> n + i]
      BY <1>2, <2>1
    <3>2. n + i \in Nat
      OBVIOUS
    <3> QED BY <3>1, <3>2 DEF Answers, AnswerKinds
  <2> QED BY <1>1, <1>3, <2>1
<1>6. FirstCommits(s, n) \in [DOMAIN results -> Answers]
  BY <1>5 DEF FirstCommits
<1> QED BY <1>1, <1>2, <1>3, <1>4, <1>6, OutcomeMade

LEMMA MembersFacts ==
    ASSUME NEW S, NEW s \in Seq(S)
    PROVE  Members(s) \in SUBSET S
BY DEF Members

\* The new commits of a group are sequences of its results.
LEMMA NewCommitsFacts ==
    ASSUME NEW s \in Seq(Commands), NEW res \in Outcomes, Members(s) \subseteq DOMAIN res
    PROVE  /\ NewCommits(s, res) \in Seq(Nat)
           /\ \E pos \in [DOMAIN NewCommits(s, res) -> DOMAIN s] :
                 /\ \A j \in DOMAIN pos :
                       /\ res[s[pos[j]]].kind = "FirstCommit"
                       /\ NewCommits(s, res)[j] = res[s[pos[j]]].seq
                 /\ \A j, k \in DOMAIN pos : j < k => pos[j] < pos[k]
<1> DEFINE I == {i \in DOMAIN s : res[s[i]].kind = "FirstCommit"}
           t == Sublist(s, I)
           r == NewCommits(s, res)
<1>1. I \in SUBSET DOMAIN s
  OBVIOUS
<1>2. r = [i \in DOMAIN t |-> res[t[i]].seq]
  BY DEF NewCommits
<1>3. t \in Seq(Commands)
  BY <1>1, SublistFacts
<1>4. PICK pos \in [DOMAIN t -> I] :
         /\ \A j \in DOMAIN pos : t[j] = s[pos[j]]
         /\ \A j, k \in DOMAIN pos : j < k => pos[j] < pos[k]
  <2> HIDE DEF I
  <2> QED BY <1>1, SublistFacts
<1>5. \A j \in DOMAIN t : pos[j] \in DOMAIN s /\ res[s[pos[j]]].kind = "FirstCommit"
  BY <1>4
<1>6. \A j \in DOMAIN t : res[t[j]].seq \in Nat
  <2> TAKE j \in DOMAIN t
  <2>1. t[j] = s[pos[j]] /\ pos[j] \in DOMAIN s
    BY <1>4, <1>5
  <2>2. t[j] \in DOMAIN res
    BY <2>1 DEF Members
  <2> QED BY <2>2, OutcomeFacts DEF Answers
<1> HIDE DEF t, r
<1>7. r \in Seq(Nat) /\ DOMAIN r = DOMAIN t
  <2>1. DOMAIN t = 1 .. Len(t) /\ Len(t) \in Nat
    BY <1>3
  <2>2. r \in [1 .. Len(t) -> Nat]
    BY <1>2, <1>6, <2>1
  <2> QED BY <2>1, <2>2
<1>8. pos \in [DOMAIN r -> DOMAIN s] /\ DOMAIN pos = DOMAIN t
  BY <1>4, <1>5, <1>7
<1>9. \A j \in DOMAIN pos : /\ res[s[pos[j]]].kind = "FirstCommit"
                            /\ r[j] = res[s[pos[j]]].seq
  BY <1>2, <1>4, <1>5, <1>8
<1> QED BY <1>4, <1>7, <1>8, <1>9 DEF r

\* The first command that the epoch resolves.
LEMMA ResolvedFirst ==
    ASSUME todo \in Seq(Commands), Resolved # {}
    PROVE  LET i == CHOOSE i \in Resolved : \A j \in Resolved : i <= j
           IN  i \in Resolved /\ i \in DOMAIN todo
<1>1. Resolved \in SUBSET Nat /\ Resolved \subseteq DOMAIN todo
  BY DEF Resolved
<1>2. \E i \in Resolved : \A j \in Resolved : i <= j
  BY <1>1, Smallest
<1> QED BY <1>1, <1>2

\* A sequence without its i-th element.
LEMMA WithoutFacts ==
    ASSUME NEW S, NEW s \in Seq(S), NEW i \in DOMAIN s
    PROVE  /\ SubSeq(s, 1, i - 1) \o Drop(s, i) \in Seq(S)
           /\ Len(SubSeq(s, 1, i - 1) \o Drop(s, i)) = Len(s) - 1
           /\ \A j \in 1 .. Len(s) - 1 :
                 (SubSeq(s, 1, i - 1) \o Drop(s, i))[j] = IF j < i THEN s[j] ELSE s[j + 1]
<1> DEFINE a == SubSeq(s, 1, i - 1)
           b == Drop(s, i)
<1>1. /\ a \in Seq(S) /\ Len(a) = i - 1
      /\ \A j \in 1 .. i - 1 : a[j] = s[j]
  OBVIOUS
<1>2. /\ b \in Seq(S) /\ Len(b) = Len(s) - i
      /\ \A j \in 1 .. Len(s) - i : b[j] = s[i + j]
  BY DEF Drop
<1> HIDE DEF a, b
<1>3. a \o b \in Seq(S) /\ Len(a \o b) = Len(s) - 1
  BY <1>1, <1>2
<1>4. ASSUME NEW j \in 1 .. Len(s) - 1
      PROVE  (a \o b)[j] = IF j < i THEN s[j] ELSE s[j + 1]
  <2>1. CASE j < i
    BY <1>1, <1>2, <2>1
  <2>2. CASE ~(j < i)
    <3>1. (a \o b)[j] = b[j - Len(a)]
      BY <1>1, <1>2, <2>2
    <3>2. j - Len(a) \in 1 .. Len(s) - i /\ i + (j - Len(a)) = j + 1
      BY <1>1, <2>2
    <3> QED BY <1>2, <2>2, <3>1, <3>2
  <2> QED BY <2>1, <2>2
<1> QED BY <1>3, <1>4 DEF a, b

-----------------------------------------------------------------------------
(* Every step keeps the types.                                             *)

LEMMA CallerTypesKept ==
    ASSUME PipelineAssumption, StoreInv,
           InitiateShutdown \/ SendShutdown \/ \E c \in Commands : Caller(c)
    PROVE  Types'
<1> USE DEF PipelineAssumption, StoreInv, Types, CallerTypes, IntakeTypes,
            WriterTypes, StoreTypes, callerVars, gateVars, intakeVars, unitVars,
            writerVars, laneVars, storeVars, fenceVars, boundVars, vars
<1>1. ASSUME NEW c \in Commands, ReserveCapacity(c) PROVE Types'
  BY <1>1 DEF ReserveCapacity
<1>2. ASSUME NEW c \in Commands, BeginSubmission(c) PROVE Types'
  BY <1>2 DEF BeginSubmission
<1>3. ASSUME NEW c \in Commands, Submit(c) PROVE Types'
  BY <1>3 DEF Submit, Messages
<1>4. ASSUME NEW c \in Commands, Refuse(c) PROVE Types'
  BY <1>4 DEF Refuse, Reply, Says, Answers, AnswerKinds
<1>5. CASE InitiateShutdown
  BY <1>5 DEF InitiateShutdown
<1>6. CASE SendShutdown
  BY <1>6 DEF SendShutdown, Messages
<1> QED BY <1>1, <1>2, <1>3, <1>4, <1>5, <1>6 DEF Caller

LEMMA IntakeTypesKept ==
    ASSUME PipelineAssumption, StoreInv, Intake
    PROVE  Types'
<1> USE DEF PipelineAssumption, StoreInv, Types, CallerTypes, IntakeTypes,
            WriterTypes, StoreTypes, callerVars, gateVars, intakeVars, unitVars,
            writerVars, laneVars, storeVars, fenceVars, boundVars, vars
<1>1. CASE IntakeAccept
  BY <1>1 DEF IntakeAccept
<1>2. CASE FormNextUnit
  <2>1. PICK n \in 1 .. Len(pending) :
           /\ Shutdown \notin Members(SubSeq(pending, 1, n))
           /\ work' = SubSeq(pending, 1, n)
           /\ pending' = Drop(pending, n)
    BY <1>2 DEF FormNextUnit
  <2>2. ASSUME NEW i \in 1 .. n PROVE pending[i] \in Commands
    <3>1. pending[i] \in Messages
      OBVIOUS
    <3>2. i \in DOMAIN SubSeq(pending, 1, n) /\ SubSeq(pending, 1, n)[i] = pending[i]
      OBVIOUS
    <3>3. pending[i] \in Members(SubSeq(pending, 1, n))
      BY <3>2 DEF Members
    <3> QED BY <2>1, <3>1, <3>3 DEF Messages
  <2>3. work' \in Seq(Commands)
    BY <2>1, <2>2
  <2>4. pending' \in Seq(Messages)
    BY <2>1, DropFacts
  <2> QED BY <1>2, <2>3, <2>4 DEF FormNextUnit
<1>3. CASE IntakeShutdown
  BY <1>3 DEF IntakeShutdown
<1>4. CASE IntakeCollect
  BY <1>4 DEF IntakeCollect
<1>5. CASE IntakeCollected
  BY <1>5 DEF IntakeCollected
<1>6. CASE IntakeFeedback
  <2>1. CASE Halted
    <3>1. Reply(Members(pending), LAMBDA c : Says("Rejected"))
      BY <1>6, <2>1 DEF IntakeFeedback
    <3>2. /\ client' \in [Commands -> {"idle", "reserved", "active", "queued", "done"}]
          /\ answer' \in [Commands -> Answers]
      BY <3>1 DEF Reply, Says, Answers, AnswerKinds
    <3>3. /\ pending' = <<>> /\ recvClosed' = TRUE /\ intake' = "rejecting"
          /\ busy' = FALSE /\ feedback' = FALSE
      BY <1>6, <2>1, Zenon DEF IntakeFeedback
    <3>4. UNCHANGED <<gateVars, channel, work, writerVars, laneVars, tokens,
                      storeVars, notified, boundVars>>
      BY <1>6, Zenon DEF IntakeFeedback
    <3>5. CallerTypes'
      BY <3>2, <3>4
    <3>6. IntakeTypes'
      <4>1. pending' \in Seq(Messages)
        BY <3>3
      <4>2. intake' \in {"run", "closing", "draining", "rejecting", "done"}
        BY <3>3
      <4>3. recvClosed' \in BOOLEAN /\ busy' \in BOOLEAN /\ feedback' \in BOOLEAN
        BY <3>3
      <4>4. channel' \in Seq(Messages)
        BY <3>4
      <4> QED BY <4>1, <4>2, <4>3, <4>4
    <3>7. WriterTypes' /\ StoreTypes'
      BY <3>4
    <3> QED BY <3>5, <3>6, <3>7
  <2>2. CASE ~Halted
    <3>1. /\ UNCHANGED <<callerVars, pending, recvClosed, intake>>
          /\ busy' = FALSE /\ feedback' = FALSE
          /\ UNCHANGED <<gateVars, channel, work, writerVars, laneVars, tokens,
                         storeVars, notified, boundVars>>
      BY <1>6, <2>2, Zenon DEF IntakeFeedback
    <3>2. CallerTypes' /\ StoreTypes'
      BY <3>1
    <3>3. IntakeTypes'
      BY <3>1
    <3>4. WriterTypes'
      BY <3>1
    <3> QED BY <3>2, <3>3, <3>4
  <2> QED BY <2>1, <2>2
<1>7. CASE DrainReject
  BY <1>7 DEF DrainReject, Reply, Says, Answers, AnswerKinds
<1>8. CASE IntakeReturn
  BY <1>8 DEF IntakeReturn
<1>9. CASE StoppedLifecycle
  BY <1>9 DEF StoppedLifecycle, Stop
<1> QED BY <1>1, <1>2, <1>3, <1>4, <1>5, <1>6, <1>7, <1>8, <1>9 DEF Intake

LEMMA StageTypesKept ==
    ASSUME PipelineAssumption, StoreInv, AdmitGroup \/ Stage
    PROVE  Types'
<1> USE DEF PipelineAssumption, StoreInv, Types, CallerTypes, IntakeTypes,
            WriterTypes, StoreTypes, callerVars, gateVars, intakeVars, unitVars,
            writerVars, laneVars, storeVars, fenceVars, boundVars, vars
<1>1. CASE AdmitGroup
  <2>1. PublishedRecords \in Seq(Commands)
    BY DEF PublishedRecords, Sealed
  <2>2. Members(work) \in SUBSET Commands
    BY MembersFacts
  <2>3. results' \in Outcomes
    BY <1>1, <2>1, <2>2, RecheckFacts, OutcomeMade DEF AdmitGroup
  <2>4. todo' \in Seq(Commands)
    BY <1>1, SublistFacts DEF AdmitGroup
  <2> QED BY <1>1, <2>3, <2>4 DEF AdmitGroup, WriterPhases
<1>2. CASE StageIneligible
  <2>1. results' \in Outcomes
    BY <1>2, WithFacts DEF StageIneligible, AnswerKinds
  <2> QED BY <1>2, <2>1 DEF StageIneligible, Stop, WriterPhases
<1>3. CASE StageFenced
  <2>1. results' \in Outcomes
    BY <1>3, WithFacts DEF StageFenced, AnswerKinds
  <2>2. todo # <<>>
    BY <1>3 DEF StageFenced, Handed
  <2>3. todo' \in Seq(Commands)
    BY <1>3, <2>2 DEF StageFenced
  <2> QED BY <1>3, <2>1, <2>3 DEF StageFenced, WriterPhases
<1>4. CASE StageReplay
  <2> DEFINE i == CHOOSE i \in Resolved : \A j \in Resolved : i <= j
  <2>1. i \in DOMAIN todo
    BY <1>4, ResolvedFirst DEF StageReplay
  <2>2. results' = [results EXCEPT ![todo[i]] = RecheckAdmission(todo[i], log)]
    BY <1>4 DEF StageReplay
  <2>3. todo' = SubSeq(todo, 1, i - 1) \o Drop(todo, i)
    BY <1>4 DEF StageReplay
  <2> HIDE DEF i
  <2>4. results' \in Outcomes
    BY <2>2, RecheckFacts, OutcomeChanged
  <2>5. todo' \in Seq(Commands)
    BY <2>1, <2>3, WithoutFacts
  <2> QED BY <1>4, <2>4, <2>5, SMTT(30) DEF StageReplay, WriterPhases
<1>5. CASE StageSeal
  <2>1. log' \in Seq(Commands) /\ frames' \in Seq(Nat)
    BY <1>5 DEF StageSeal
  <2>2. FirstCommits(todo, Len(log)) \in Outcomes
    <3>1. Len(log) \in Nat
      OBVIOUS
    <3> QED BY <3>1, FirstCommitsFacts
  <2>3. (Members(work) \subseteq Proven) \in BOOLEAN
    OBVIOUS
  <2>4. unit' \in Units
    BY <1>5, <2>1, <2>2, <2>3 DEF StageSeal, Units, UnitKinds
  <2> QED BY <1>5, <2>1, <2>4 DEF StageSeal, WriterPhases
<1>6. CASE StageSealFails
  <2>1. results' \in Outcomes
    BY <1>6, WithFacts DEF StageSealFails, AnswerKinds
  <2>2. /\ writeFenced' \in BOOLEAN /\ fencedAt' \in Nat /\ faults' \in 0 .. MaxFaults
        /\ lifecycle' = "Fenced" /\ gateClosed' \in BOOLEAN
    BY <1>6 DEF StageSealFails, Fence, FenceStore
  <2>3. todo' = <<>> /\ writer' = "complete"
    BY <1>6 DEF StageSealFails
  <2>4. UNCHANGED <<callerVars, shutdown, intakeVars, feedback, work, frontier,
                    unit, inFlight, suffix, laneVars, tokens, log, durable,
                    published, frames, torn, journalClosed, pubFailed, notified,
                    crashes>>
    BY <1>6 DEF StageSealFails
  <2>5. WriterTypes'
    BY <2>1, <2>3, <2>4 DEF WriterPhases
  <2>6. StoreTypes' /\ CallerTypes' /\ IntakeTypes'
    BY <2>2, <2>4
  <2> QED BY <2>5, <2>6
<1>7. CASE StagePeerMismatch
  <2>1. PICK i \in DOMAIN todo :
           /\ results' = [results EXCEPT ![todo[i]] = Says("InputMismatch")]
           /\ todo' = SubSeq(todo, 1, i - 1) \o Drop(todo, i)
    BY <1>7 DEF StagePeerMismatch
  <2>2. results' \in Outcomes
    BY <2>1, SaysFacts, OutcomeChanged DEF AnswerKinds
  <2>3. todo' \in Seq(Commands)
    BY <2>1, WithoutFacts
  <2> QED BY <1>7, <2>2, <2>3, SMTT(30) DEF StagePeerMismatch, WriterPhases
<1>8. CASE StageDirect
  BY <1>8 DEF StageDirect, WriterPhases
<1>9. CASE StageBegin
  BY <1>9 DEF StageBegin, WriterPhases
<1> QED BY <1>1, <1>2, <1>3, <1>4, <1>5, <1>6, <1>7, <1>8, <1>9 DEF Stage

\* What a step of the direct path leaves of the writer's variables.
LEMMA DirectStepTypes ==
    ASSUME StoreInv, writer = "direct", NEW r \in Answers, DirectStep(r)
    PROVE  /\ IntakeTypes' /\ WriterTypes'
           /\ UNCHANGED <<client, answer, shutdown, notified, crashes>>
<1> USE DEF StoreInv, Types, WriterTypes
<1>1. results' \in Outcomes
  BY OutcomeChanged DEF DirectStep
<1>2. todo # <<>>
  BY DEF Handed
<1>3. todo' \in Seq(Commands)
  BY <1>2 DEF DirectStep
<1>4. writer' \in WriterPhases
  BY DEF DirectStep, WriterPhases
<1>5. UNCHANGED <<callerVars, shutdown, intakeVars, feedback, work,
                  frontier, unit, inFlight, suffix, laneVars, tokens,
                  notified, crashes>>
  BY DEF DirectStep
<1>6. WriterTypes'
  BY <1>1, <1>3, <1>4, <1>5 DEF laneVars
<1>7. IntakeTypes'
  BY <1>5 DEF IntakeTypes, intakeVars
<1> QED BY <1>5, <1>6, <1>7 DEF callerVars

LEMMA DirectTypesKept ==
    ASSUME PipelineAssumption, StoreInv, Direct
    PROVE  Types'
<1> USE DEF PipelineAssumption, StoreInv, Types, CallerTypes, IntakeTypes,
            WriterTypes, StoreTypes, callerVars, gateVars, intakeVars, unitVars,
            writerVars, laneVars, storeVars, fenceVars, boundVars, vars
<1>1. CASE DirectReplay
  <2>1. PublishedRecords \in Seq(Commands)
    BY DEF PublishedRecords, Sealed
  <2> DEFINE found == RecheckAdmission(Head(todo), PublishedRecords)
  <2>2. found \in Answers
    BY <2>1, RecheckFacts
  <2>3. Says("InternalDefect") \in Answers
    BY SaysFacts DEF AnswerKinds
  <2> HIDE DEF found
  <2>4. CASE DirectStep(found) /\ UNCHANGED <<lifecycle, gateClosed, storeVars, faults>>
    <3>1. IntakeTypes' /\ WriterTypes' /\ UNCHANGED <<client, answer, shutdown, notified, crashes>>
      BY <1>1, <2>2, <2>4, DirectStepTypes DEF DirectReplay
    <3> HIDE DEF IntakeTypes, WriterTypes
    <3>2. StoreTypes' /\ CallerTypes'
      BY <2>4, <3>1
    <3> QED BY <3>1, <3>2
  <2>5. CASE Stop /\ DirectStep(Says("InternalDefect")) /\ UNCHANGED <<storeVars, faults>>
    BY <2>3, <2>5, <1>1, DirectStepTypes DEF DirectReplay, WriterPhases, Stop
  <2> QED BY <1>1, <2>4, <2>5 DEF DirectReplay, found
<1>2. CASE DirectFenced
  <2>1. Says("Failed") \in Answers
    BY SaysFacts DEF AnswerKinds
  <2> QED BY <2>1, <1>2, DirectStepTypes DEF DirectFenced, WriterPhases
<1>3. CASE DirectPrefixFails
  <2>1. Says("InternalDefect") \in Answers
    BY SaysFacts DEF AnswerKinds
  <2>2. DirectStep(Says("InternalDefect")) /\ writer = "direct"
    BY <1>3 DEF DirectPrefixFails
  <2>3. IntakeTypes' /\ WriterTypes' /\ UNCHANGED <<client, answer, shutdown, notified, crashes>>
    BY <2>1, <2>2, DirectStepTypes
  <2>4. published' \in Nat /\ faults' \in 0 .. MaxFaults
    BY <1>3, SMTT(30) DEF DirectPrefixFails, PrefixPublished, Units
  <2>5. /\ writeFenced' \in BOOLEAN /\ fencedAt' \in Nat /\ pubFailed' \in BOOLEAN
        /\ lifecycle' \in {"Accepting", "Draining", "Fenced", "Stopped"}
        /\ gateClosed' \in BOOLEAN
    BY <1>3 DEF DirectPrefixFails, FenceStore, Stop
  <2>6. UNCHANGED <<log, durable, frames, torn, journalClosed>>
    BY <1>3 DEF DirectPrefixFails
  <2> HIDE DEF IntakeTypes, WriterTypes
  <2>7. StoreTypes' /\ CallerTypes'
    BY <2>3, <2>4, <2>5, <2>6
  <2> QED BY <2>3, <2>7
<1>4. CASE DirectCommit
  <2> DEFINE found == RecheckAdmission(Head(todo), log)
             first == [kind |-> "FirstCommit", seq |-> Len(log) + 1]
  <2>1. found \in Answers /\ first \in Answers
    BY RecheckFacts DEF Answers, AnswerKinds
  <2>2. todo # <<>> /\ writer = "direct"
    BY <1>4 DEF DirectCommit, DirectReady, Handed
  <2>3. Head(todo) \in Commands /\ Len(log) \in Nat
    BY <2>2
  <2> HIDE DEF found, first
  <2>4. CASE /\ DirectStep(found) /\ published' = Len(log)
             /\ UNCHANGED <<log, durable, lifecycle, gateClosed, frames, torn,
                            journalClosed, fenceVars, faults>>
    <3>1. IntakeTypes' /\ WriterTypes' /\ UNCHANGED <<client, answer, shutdown, notified, crashes>>
      BY <2>1, <2>2, <2>4, DirectStepTypes
    <3> HIDE DEF IntakeTypes, WriterTypes
    <3>2. StoreTypes' /\ CallerTypes'
      BY <2>3, <2>4, <3>1
    <3> QED BY <3>1, <3>2
  <2>5. CASE /\ DirectStep(first) /\ log' = Append(log, Head(todo))
             /\ durable' = Len(log) + 1 /\ published' = Len(log) + 1
             /\ UNCHANGED <<lifecycle, gateClosed, frames, torn, journalClosed,
                            fenceVars, faults>>
    <3>1. IntakeTypes' /\ WriterTypes' /\ UNCHANGED <<client, answer, shutdown, notified, crashes>>
      BY <2>1, <2>2, <2>5, DirectStepTypes
    <3>2. log' \in Seq(Commands) /\ durable' \in Nat /\ published' \in Nat
      BY <2>3, <2>5
    <3> HIDE DEF IntakeTypes, WriterTypes
    <3>3. StoreTypes' /\ CallerTypes'
      BY <2>5, <3>1, <3>2
    <3> QED BY <3>1, <3>3
  <2> QED BY <1>4, <2>4, <2>5 DEF DirectCommit, found, first
<1>5. CASE DirectAbort
  <2>1. Says("Failed") \in Answers /\ Says("InternalDefect") \in Answers
    BY SaysFacts DEF AnswerKinds
  <2>2. writer = "direct" /\ Len(log) \in Nat
    BY <1>5 DEF DirectAbort, DirectReady
  <2>3. CASE DirectStep(Says("Failed")) /\ UNCHANGED <<lifecycle, gateClosed, faults>>
    <3>1. IntakeTypes' /\ WriterTypes' /\ UNCHANGED <<client, answer, shutdown, notified, crashes>>
      BY <2>1, <2>2, <2>3, DirectStepTypes
    <3> HIDE DEF IntakeTypes, WriterTypes
    <3>2. StoreTypes' /\ CallerTypes'
      BY <1>5, <2>2, <2>3, <3>1 DEF DirectAbort
    <3> QED BY <3>1, <3>2
  <2>4. CASE /\ faults < MaxFaults /\ faults' = faults + 1
             /\ Stop /\ DirectStep(Says("InternalDefect"))
    <3>1. IntakeTypes' /\ WriterTypes' /\ UNCHANGED <<client, answer, shutdown, notified, crashes>>
      BY <2>1, <2>2, <2>4, DirectStepTypes
    <3> HIDE DEF IntakeTypes, WriterTypes
    <3>2. StoreTypes'
      BY <1>5, <2>2, <2>4, <3>1 DEF DirectAbort
    <3>3. CallerTypes'
      BY <2>4, <3>1 DEF Stop
    <3> QED BY <3>1, <3>2, <3>3
  <2> QED BY <1>5, <2>3, <2>4 DEF DirectAbort
<1>6. CASE DirectUnknown
  <2>1. todo # <<>> /\ writer = "direct"
    BY <1>6 DEF DirectUnknown, DirectReady, Handed
  <2>2. Head(todo) \in Commands /\ Len(log) \in Nat
    BY <2>1
  <2>3. log' \in Seq(Commands)
    <3>1. log' = log \/ log' = Append(log, Head(todo))
      BY <1>6, Zenon DEF DirectUnknown
    <3>2. log \in Seq(Commands) /\ Append(log, Head(todo)) \in Seq(Commands)
      BY <2>2
    <3> QED BY <3>1, <3>2, Zenon
  <2>4. durable' \in Nat /\ durable' = Len(log')
    BY <1>6, <2>3 DEF DirectUnknown
  <2> DEFINE first == [kind |-> "FirstCommit", seq |-> Len(log')]
  <2>5. /\ first \in Answers /\ Says("Failed") \in Answers
        /\ Says("OutcomeUncertain") \in Answers
    BY <2>4, SaysFacts DEF Answers, AnswerKinds
  <2>6. published' \in Nat
    BY <1>6, <2>2, <2>4 DEF DirectUnknown
  <2>7. /\ faults' \in 0 .. MaxFaults /\ writeFenced' \in BOOLEAN /\ fencedAt' \in Nat
        /\ lifecycle' = "Fenced" /\ gateClosed' \in BOOLEAN
    BY <1>6, <2>4 DEF DirectUnknown, Fence, FenceStore
  <2>8. UNCHANGED <<frames, torn, journalClosed, pubFailed>>
    BY <1>6 DEF DirectUnknown
  <2>9. PICK r \in {first, Says("Failed"), Says("OutcomeUncertain")} : DirectStep(r)
    BY <1>6 DEF DirectUnknown
  <2> HIDE DEF first
  <2>10. IntakeTypes' /\ WriterTypes' /\ UNCHANGED <<client, answer, shutdown, notified, crashes>>
    BY <2>1, <2>5, <2>9, DirectStepTypes
  <2> HIDE DEF IntakeTypes, WriterTypes
  <2>11. StoreTypes' /\ CallerTypes'
    BY <2>3, <2>4, <2>6, <2>7, <2>8, <2>10
  <2> QED BY <2>10, <2>11
<1> QED BY <1>1, <1>2, <1>3, <1>4, <1>5, <1>6 DEF Direct

LEMMA NoOutcome == [c \in {} |-> Vacant] \in Outcomes
<1>1. [c \in {} |-> Vacant] \in [{} -> Answers]
  OBVIOUS
<1> QED BY <1>1, OutcomeMade

\* Releasing the results of a group.
LEMMA FinishTypes ==
    ASSUME PipelineAssumption, StoreInv,
           NEW s \in Seq(Commands), NEW res \in Outcomes, NEW n \in Nat,
           DOMAIN res = Members(s), Truthful(res, n, log), FinishCommandGroup(s, res)
    PROVE  /\ client' \in [Commands -> {"idle", "reserved", "active", "queued", "done"}]
           /\ answer' \in [Commands -> Answers]
           /\ lifecycle' \in {"Accepting", "Draining", "Fenced", "Stopped"}
           /\ gateClosed' \in BOOLEAN
           /\ notified' \in Seq(Nat \ {0}) /\ faults' \in 0 .. MaxFaults
<1> USE DEF StoreInv, Types, CallerTypes, StoreTypes
<1>1. \A c \in Members(s) : res[c] \in Answers
  BY OutcomeFacts
<1>2. Reply(Members(s), LAMBDA c : res[c])
  BY DEF FinishCommandGroup
<1>3. /\ client' \in [Commands -> {"idle", "reserved", "active", "queued", "done"}]
      /\ answer' \in [Commands -> Answers]
  BY <1>1, <1>2 DEF Reply
<1>4. CASE /\ notified' = notified \o NewCommits(s, res)
           /\ UNCHANGED <<lifecycle, gateClosed, faults>>
  <2> DEFINE new == NewCommits(s, res)
  <2>1. PICK pos \in [DOMAIN new -> DOMAIN s] :
           \A j \in DOMAIN pos : /\ res[s[pos[j]]].kind = "FirstCommit"
                                 /\ new[j] = res[s[pos[j]]].seq
    BY NewCommitsFacts
  <2>2. new \in Seq(Nat)
    BY NewCommitsFacts
  <2>3. \A j \in DOMAIN new : new[j] \in Nat \ {0}
    <3> TAKE j \in DOMAIN new
    <3>1. s[pos[j]] \in DOMAIN res
      BY <2>1 DEF Members
    <3>2. res[s[pos[j]]].seq \in 1 .. n
      BY <2>1, <3>1 DEF Truthful
    <3> QED BY <2>1, <3>2
  <2> HIDE DEF new
  <2>4. new \in Seq(Nat \ {0})
    BY <2>2, <2>3
  <2>5. notified' \in Seq(Nat \ {0})
    BY <1>4, <2>4 DEF new
  <2> QED BY <1>3, <1>4, <2>5
<1>5. CASE /\ faults < MaxFaults /\ faults' = faults + 1
           /\ Stop
           /\ UNCHANGED notified
  BY <1>3, <1>5 DEF Stop, PipelineAssumption
<1> QED BY <1>4, <1>5 DEF FinishCommandGroup

LEMMA WriterTypesKept ==
    ASSUME PipelineAssumption, StoreInv, DrainReady \/ ReceiveUnit \/ DrainOne \/ RejectWorkUnit
           \/ CompleteGroup \/ SubmitUnit \/ SendFeedback
    PROVE  Types'
<1> USE DEF PipelineAssumption, StoreInv, Types, CallerTypes, IntakeTypes,
            WriterTypes, StoreTypes, callerVars, gateVars, intakeVars, unitVars,
            writerVars, laneVars, storeVars, fenceVars, boundVars, vars
<1>1. CASE DrainReady
  <2>1. tokens \in 0 .. Len(inFlight)
    BY DEF Room
  <2>2. inFlight' \in Seq(Tickets)
    BY <1>1, <2>1, DropFacts DEF DrainReady, AfterAccepting
  <2>3. suffix' \in Nat /\ tokens' \in Nat
    BY <1>1 DEF DrainReady, AfterAccepting
  <2>4. writer' \in WriterPhases
    BY <1>1 DEF DrainReady, WriterPhases
  <2> QED BY <1>1, <2>2, <2>3, <2>4 DEF DrainReady
<1>2. CASE ReceiveUnit
  <2>1. writer' \in WriterPhases /\ frontier' \in Frontiers
    BY <1>2 DEF ReceiveUnit, WriterPhases, Frontiers
  <2> QED BY <1>2, <2>1 DEF ReceiveUnit
<1>3. CASE DrainOne
  <2>1. 1 \in 0 .. Len(inFlight)
    BY <1>3 DEF DrainOne, Room
  <2>2. inFlight' \in Seq(Tickets)
    BY <1>3, <2>1, DropFacts DEF DrainOne, AfterAccepting
  <2>3. tokens > 0 /\ tokens' = tokens - 1 /\ suffix' \in {0, suffix}
    BY <1>3 DEF DrainOne, AfterAccepting
  <2>4. writer' \in WriterPhases
    BY <1>3 DEF DrainOne, WriterPhases
  <2>5. UNCHANGED <<callerVars, gateVars, intakeVars, feedback, work, unitVars,
                    laneVars, storeVars, notified, boundVars>>
    BY <1>3 DEF DrainOne
  <2>6. WriterTypes'
    BY <2>2, <2>3, <2>4, <2>5
  <2> QED BY <2>5, <2>6
<1>4. CASE RejectWorkUnit
  <2>1. /\ client' \in [Commands -> {"idle", "reserved", "active", "queued", "done"}]
        /\ answer' \in [Commands -> Answers]
    BY <1>4 DEF RejectWorkUnit, Reply, Says, Answers, AnswerKinds
  <2>2. writer' \in WriterPhases
    BY <1>4 DEF RejectWorkUnit, WriterPhases
  <2>3. UNCHANGED <<gateVars, intakeVars, feedback, work, unitVars, inFlight,
                    suffix, laneVars, tokens, storeVars, notified, boundVars>>
    BY <1>4 DEF RejectWorkUnit
  <2> QED BY <2>1, <2>2, <2>3
<1>5. CASE CompleteGroup
  <2>1. CASE frontier = "WriterPrivate"
    <3>1. (Members(work) \subseteq Proven) \in BOOLEAN
      OBVIOUS
    <3>2. /\ unit' = [kind |-> "AfterPredecessor", cmds |-> work, upto |-> 0,
                      proof |-> Members(work) \subseteq Proven, results |-> results]
          /\ writer' = "submit"
          /\ UNCHANGED <<callerVars, lifecycle, gateClosed, notified, faults>>
      BY <1>5, <2>1 DEF CompleteGroup
    <3>3. unit' \in Units
      BY <3>1, <3>2 DEF Units, UnitKinds
    <3>4. UNCHANGED <<shutdown, intakeVars, feedback, work, frontier, results,
                   todo, inFlight, suffix, laneVars, tokens, storeVars, crashes>>
      BY <1>5 DEF CompleteGroup
    <3> QED BY <3>2, <3>3, <3>4 DEF WriterPhases
  <2>2. CASE frontier # "WriterPrivate"
    <3>1. FinishCommandGroup(work, results)
      BY <1>5, <2>2 DEF CompleteGroup
    <3>2. DOMAIN results = Members(work) /\ Truthful(results, published, log)
      BY <1>5 DEF CompleteGroup, Handed, Carried
    <3>3. /\ client' \in [Commands -> {"idle", "reserved", "active", "queued", "done"}]
          /\ answer' \in [Commands -> Answers]
          /\ lifecycle' \in {"Accepting", "Draining", "Fenced", "Stopped"}
          /\ gateClosed' \in BOOLEAN
          /\ notified' \in Seq(Nat \ {0}) /\ faults' \in 0 .. MaxFaults
      BY <3>1, <3>2, FinishTypes
    <3>4. writer' = "feedback" /\ UNCHANGED unit
      BY <1>5, <2>2 DEF CompleteGroup
    <3>5. UNCHANGED <<shutdown, intakeVars, feedback, work, frontier, results,
                   todo, inFlight, suffix, laneVars, tokens, storeVars, crashes>>
      BY <1>5 DEF CompleteGroup
    <3> QED BY <3>3, <3>4, <3>5 DEF WriterPhases
  <2> QED BY <2>1, <2>2
<1>6. CASE SubmitUnit
  <2>1. unit \in Units
    BY <1>6 DEF SubmitUnit, Handed
  <2> DEFINE n == IF unit.kind = "Fence" THEN Len(unit.cmds) ELSE 0
             ticket == [n |-> n, proof |-> unit.proof]
  <2>2. n \in Nat /\ unit.proof \in BOOLEAN
    BY <2>1 DEF Units
  <2>3. inFlight' = Append(inFlight, ticket) /\ suffix' = suffix + n
    BY <1>6 DEF SubmitUnit
  <2>4. ticket \in Tickets
    BY <2>2 DEF Tickets
  <2> HIDE DEF n, ticket
  <2>5. inFlight' \in Seq(Tickets) /\ suffix' \in Nat
    BY <2>2, <2>3, <2>4
  <2>6. lane' \in Seq(Units) /\ unit' = <<>>
    BY <1>6, <2>1 DEF SubmitUnit
  <2>7. writer' \in WriterPhases
    BY <1>6 DEF SubmitUnit, WriterPhases
  <2>8. UNCHANGED <<callerVars, gateVars, intakeVars, feedback, work, frontier,
                    results, todo, released, tokens, storeVars, notified, boundVars>>
    BY <1>6 DEF SubmitUnit
  <2>9. WriterTypes'
    BY <2>5, <2>6, <2>7, <2>8
  <2> QED BY <2>8, <2>9
<1>7. CASE SendFeedback
  <2>1. results' \in Outcomes
    BY <1>7, NoOutcome DEF SendFeedback
  <2>2. writer' \in WriterPhases /\ frontier' \in Frontiers
    BY <1>7 DEF SendFeedback, WriterPhases, Frontiers
  <2> QED BY <1>7, <2>1, <2>2 DEF SendFeedback
<1> QED BY <1>1, <1>2, <1>3, <1>4, <1>5, <1>6, <1>7

LEMMA LaneTypesKept ==
    ASSUME PipelineAssumption, StoreInv, Journal \/ Completion
    PROVE  Types'
<1> USE DEF PipelineAssumption, StoreInv, Types, CallerTypes, IntakeTypes,
            WriterTypes, StoreTypes, callerVars, gateVars, intakeVars, unitVars,
            writerVars, laneVars, storeVars, fenceVars, boundVars, vars
<1>1. CASE JournalFlush
  <2>1. PICK k \in DOMAIN frames : durable' = frames[k] /\ frames' = Drop(frames, k)
    BY <1>1 DEF JournalFlush
  <2>2. durable' \in Nat /\ frames' \in Seq(Nat)
    <3>1. k \in 0 .. Len(frames) /\ frames[k] \in Nat
      OBVIOUS
    <3>2. Drop(frames, k) \in Seq(Nat)
      BY <3>1, DropFacts
    <3> QED BY <2>1, <3>1, <3>2
  <2> QED BY <1>1, <2>2, SMTT(30) DEF JournalFlush
<1>2. CASE JournalFails
  BY <1>2 DEF JournalFails
<1>7. CASE JournalEnds
  <2>1. journalClosed' \in BOOLEAN
    BY <1>7 DEF JournalEnds
  <2> QED BY <1>7, <2>1 DEF JournalEnds
<1>3. CASE CompletionFence
  <2>1. Head(lane) = lane[1] /\ lane[1] \in Units
    BY <1>3 DEF CompletionFence, AtFence
  <2>2. published' \in {published, Head(lane).upto} /\ released' \in BOOLEAN
    BY <1>3 DEF CompletionFence
  <2>3. published' \in Nat
    BY <2>1, <2>2 DEF Units
  <2> QED BY <1>3, <2>2, <2>3, SMTT(30) DEF CompletionFence
<1>5. CASE PublicationFails \/ JournalErrorFences
  <2>1. /\ pubFailed' \in BOOLEAN /\ writeFenced' \in BOOLEAN /\ fencedAt' \in Nat
        /\ faults' \in 0 .. MaxFaults
    <3>1. pubFailed' = pubFailed \/ pubFailed' = TRUE
      BY <1>5, Zenon DEF PublicationFails, JournalErrorFences
    <3>2. writeFenced' = TRUE /\ (fencedAt' = fencedAt \/ fencedAt' = Len(log))
      BY <1>5, Zenon DEF PublicationFails, JournalErrorFences, FenceStore
    <3>3. faults' = faults \/ (faults < MaxFaults /\ faults' = faults + 1)
      BY <1>5, Zenon DEF PublicationFails, JournalErrorFences, boundVars
    <3>4. pubFailed' \in BOOLEAN /\ writeFenced' \in BOOLEAN
      BY <3>1, <3>2, Zenon
    <3> QED BY <3>2, <3>3, <3>4
  <2>2. UNCHANGED <<callerVars, gateVars, intakeVars, feedback, work, writerVars,
                    laneVars, tokens, log, durable, published, frames, torn,
                    journalClosed, notified, crashes>>
    BY <1>5 DEF PublicationFails, JournalErrorFences
  <2> QED BY <2>1, <2>2
<1>6. CASE CompletionFails
  <2>1. Head(lane) = lane[1] /\ lane[1] \in Units
    BY <1>6 DEF CompletionFails, AtFence
  <2>2. Failing(Head(lane)) \in Units
    BY <2>1, FailingFacts
  <2>3. lane' \in Seq(Units)
    BY <1>6, <2>2 DEF CompletionFails, AtFence
  <2> QED BY <1>6, <2>3 DEF CompletionFails, Fence
<1>4. CASE CompletionRelease
  <2>1. Head(lane) = lane[1] /\ lane[1] \in Units /\ Tail(lane) \in Seq(Units) /\ 1 \in DOMAIN lane
    BY <1>4 DEF CompletionRelease
  <2>2. lane[1].cmds \in Seq(Commands) /\ lane[1].results \in Outcomes /\ lane[1].upto \in Nat
    BY <2>1 DEF Units
  <2>3. Faithful(lane[1], published, log)
    BY <2>1 DEF Carried
  <2>4. \E n \in Nat : Truthful(lane[1].results, n, log)
    BY <2>2, <2>3 DEF Faithful
  <2>5. FinishCommandGroup(lane[1].cmds, lane[1].results)
    BY <1>4, <2>1 DEF CompletionRelease
  <2>6. DOMAIN lane[1].results = Members(lane[1].cmds)
    BY <2>3 DEF Faithful
  <2>7. /\ client' \in [Commands -> {"idle", "reserved", "active", "queued", "done"}]
        /\ answer' \in [Commands -> Answers]
        /\ lifecycle' \in {"Accepting", "Draining", "Fenced", "Stopped"}
        /\ gateClosed' \in BOOLEAN
        /\ notified' \in Seq(Nat \ {0}) /\ faults' \in 0 .. MaxFaults
    BY <2>2, <2>4, <2>5, <2>6, FinishTypes
  <2>8. lane' \in Seq(Units) /\ released' \in BOOLEAN /\ tokens' \in Nat
    <3>1. lane' = Tail(lane) /\ released' = FALSE /\ tokens' = tokens + 1
      BY <1>4, Zenon DEF CompletionRelease
    <3>2. released' \in BOOLEAN
      BY <3>1
    <3>3. lane' \in Seq(Units) /\ tokens' \in Nat
      BY <2>1, <3>1
    <3> QED BY <3>2, <3>3
  <2>9. UNCHANGED <<shutdown, intakeVars, feedback, work, writerVars, storeVars, crashes>>
    BY <1>4 DEF CompletionRelease
  <2> QED BY <2>7, <2>8, <2>9
<1> QED BY <1>1, <1>2, <1>3, <1>4, <1>5, <1>6, <1>7 DEF Journal, Completion

LEMMA CrashTypesKept ==
    ASSUME PipelineAssumption, StoreInv, CrashAndRecover
    PROVE  Types'
<1> USE DEF PipelineAssumption, StoreInv, Types
<1>1. CallerTypes'
  BY DEF CrashAndRecover, CallerTypes, Reply, Says, Answers, AnswerKinds
<1>2. IntakeTypes'
  <2>1. /\ channel' = <<>> /\ pending' = <<>> /\ intake' = "run"
        /\ recvClosed' = FALSE /\ busy' = FALSE /\ feedback' = FALSE
    BY Zenon DEF CrashAndRecover
  <2>2. channel' \in Seq(Messages) /\ pending' \in Seq(Messages)
    BY <2>1
  <2>3. recvClosed' \in BOOLEAN /\ busy' \in BOOLEAN /\ feedback' \in BOOLEAN
    BY <2>1
  <2> QED BY <2>1, <2>2, <2>3 DEF IntakeTypes
<1>3. results' \in Outcomes
  BY NoOutcome DEF CrashAndRecover
<1>4. WriterTypes'
  <2>1. /\ work' = <<>> /\ writer' = "top" /\ frontier' = "Published"
        /\ todo' = <<>> /\ unit' = <<>> /\ inFlight' = <<>> /\ suffix' = 0
        /\ lane' = <<>> /\ released' = FALSE /\ tokens' = 0
    BY Zenon DEF CrashAndRecover
  <2>2. /\ work' \in Seq(Commands) /\ todo' \in Seq(Commands)
        /\ inFlight' \in Seq(Tickets) /\ lane' \in Seq(Units)
    BY <2>1
  <2>3. released' \in BOOLEAN
    BY <2>1
  <2> QED BY <1>3, <2>1, <2>2, <2>3 DEF WriterTypes, WriterPhases, Frontiers
<1>5. PICK n \in Recoverable : log' = SubSeq(log, 1, n) /\ durable' = n /\ published' = n
  BY DEF CrashAndRecover
<1>6. n \in Nat /\ n <= Len(log)
  BY DEF Recoverable, StoreTypes, Sealed
<1>7. log' \in Seq(Commands)
  BY <1>5, <1>6 DEF StoreTypes
<1>8. StoreTypes'
  <2>1. /\ frames' = <<>> /\ torn' = 0 /\ journalClosed' = FALSE /\ pubFailed' = FALSE
        /\ writeFenced' = FALSE /\ fencedAt' = 0 /\ notified' = <<>>
        /\ crashes < MaxCrashes /\ crashes' = crashes + 1 /\ faults' = faults
    BY Zenon DEF CrashAndRecover
  <2>2. frames' \in Seq(Nat) /\ notified' \in Seq(Nat \ {0})
    BY <2>1
  <2>3. journalClosed' \in BOOLEAN /\ pubFailed' \in BOOLEAN /\ writeFenced' \in BOOLEAN
    BY <2>1
  <2>4. crashes' \in 0 .. MaxCrashes /\ faults' \in 0 .. MaxFaults
    BY <2>1 DEF StoreTypes
  <2> QED BY <1>5, <1>6, <1>7, <2>1, <2>2, <2>3, <2>4 DEF StoreTypes
<1> QED BY <1>1, <1>2, <1>4, <1>8

LEMMA TypesKept ==
    ASSUME PipelineAssumption, StoreInv, [Next]_vars
    PROVE  Types'
<1>1. CASE UNCHANGED vars
  BY <1>1 DEF StoreInv, Types, CallerTypes, IntakeTypes, WriterTypes, StoreTypes,
              callerVars, gateVars, intakeVars, unitVars, writerVars, laneVars,
              storeVars, fenceVars, boundVars, vars
<1>2. CASE InitiateShutdown \/ SendShutdown \/ \E c \in Commands : Caller(c)
  BY <1>2, CallerTypesKept
<1>3. CASE Intake
  BY <1>3, IntakeTypesKept
<1>4. CASE Writer
  BY <1>4, StageTypesKept, DirectTypesKept, WriterTypesKept DEF Writer
<1>5. CASE Journal \/ Completion
  BY <1>5, LaneTypesKept
<1>6. CASE CrashAndRecover
  BY <1>6, CrashTypesKept
<1> QED BY <1>1, <1>2, <1>3, <1>4, <1>5, <1>6 DEF Next

-----------------------------------------------------------------------------
(* What the steps do to the pipeline, in a few kinds.                      *)

\* Callers learn of no first commit.
NoneTold ==
    \A c \in Commands : answer'[c] = answer[c] \/ answer'[c].kind # "FirstCommit"

\* Callers and the intake actor: at most the unit for the writer changes, and
\* only while the writer waits for one.
Aside ==
    /\ UNCHANGED <<writerVars, laneVars, tokens, storeVars, notified, boundVars>>
    /\ NoneTold
    /\ work' = work \/ writer \in {"top", "recv"}
    /\ Handed'

\* t is s with some elements left out.
Within(t, s) ==
    /\ Members(t) \subseteq Members(s) /\ Len(t) <= Len(s)
    /\ \A p, q \in DOMAIN t : p < q =>
          \E i, j \in DOMAIN s : i < j /\ s[i] = t[p] /\ s[j] = t[q]

\* Results may be given, but no first commit.
NoneWon ==
    /\ DOMAIN results' = DOMAIN results
    /\ \A c \in DOMAIN results :
          results'[c] = results[c] \/ results'[c].kind # "FirstCommit"

\* The store is fenced, if at all, with a log of n records.
Fences(n) ==
    \/ UNCHANGED <<writeFenced, fencedAt>>
    \/ FenceStore(n)

\* A group leaves the stage or its epoch with nothing written.
StageResolves ==
    /\ writer \in {"stage", "seal"} /\ writer' \in {"complete", "direct"}
    /\ NoneWon /\ Within(todo', todo)
    /\ writer' = "direct" => todo' # <<>>
    /\ Fences(Len(log))
    /\ UNCHANGED <<answer, feedback, busy, work, frontier, unit, inFlight, suffix,
                   laneVars, tokens, log, durable, published, frames, torn,
                   pubFailed, notified>>

\* A command of the direct path is resolved with the result r.
DirectMoves(r) ==
    /\ writer = "direct" /\ todo # <<>>
    /\ results' = [results EXCEPT ![Head(todo)] = r]
    /\ todo' = Tail(todo)
    /\ writer' = IF Tail(todo) = <<>> THEN "complete" ELSE "direct"
    /\ pubFailed => pubFailed'
    /\ Fences(Len(log'))
    /\ UNCHANGED <<answer, feedback, busy, work, frontier, unit, inFlight, suffix,
                   laneVars, tokens, frames, torn, notified>>

\* It wrote nothing, it wrote a published record, or it wrote one that may be
\* published by a restart.
DirectKeeps(r) ==
    /\ r.kind # "FirstCommit"
    /\ published <= published' /\ published' <= durable
    /\ writeFenced => published' = published
    /\ UNCHANGED <<log, durable>>

DirectWins(r) ==
    /\ r = [kind |-> "FirstCommit", seq |-> Len(log) + 1]
    /\ frames = <<>> /\ Matches(Head(todo), log) = {}
    /\ ~writeFenced
    /\ log' = Append(log, Head(todo))
    /\ durable' = Len(log) + 1 /\ published' = Len(log) + 1

DirectRisks(r) ==
    /\ r.kind # "FirstCommit"
    /\ frames = <<>> /\ Matches(Head(todo), log) = {}
    /\ ~writeFenced /\ writeFenced'
    /\ log' = Append(log, Head(todo))
    /\ durable' = Len(log) + 1 /\ published' = Len(log)

\* Something failed in the journal or at a publication, which moves no record
\* and no unit; the store may be fenced for the oldest unit.
Marks ==
    /\ UNCHANGED <<callerVars, gateVars, intakeVars, feedback, work, writerVars,
                   laneVars, tokens, log, durable, published, frames, notified,
                   crashes>>
    /\ torn' = torn \/ (torn = 0 /\ \E k \in DOMAIN frames : torn' = frames[k])
    /\ \/ UNCHANGED <<pubFailed, writeFenced, fencedAt>>
       \/ (pubFailed => pubFailed') /\ FenceStore(Len(log)) /\ Doomed'

LEMMA AsideSteps ==
    ASSUME PipelineAssumption, StoreInv,
           \/ InitiateShutdown \/ SendShutdown \/ Intake
           \/ \E c \in Commands : Caller(c)
    PROVE  Aside
<1> USE DEF StoreInv, Types
<1> DEFINE Still == UNCHANGED <<writerVars, laneVars, tokens, storeVars, notified, boundVars>>
           Same == Still /\ UNCHANGED <<work, feedback, busy>>
<1>1. ASSUME Same PROVE Handed'
  BY <1>1 DEF Handed, writerVars, unitVars, storeVars, fenceVars
<1>2. ASSUME Same, UNCHANGED answer PROVE Aside
  BY <1>1, <1>2 DEF Aside, NoneTold
<1>3. ASSUME Same, NoneTold PROVE Aside
  BY <1>1, <1>3 DEF Aside
<1>4. CASE InitiateShutdown \/ SendShutdown
  BY <1>4, <1>2 DEF InitiateShutdown, SendShutdown, callerVars, intakeVars
<1>5. ASSUME NEW c \in Commands, ReserveCapacity(c) \/ BeginSubmission(c) \/ Submit(c)
      PROVE  Aside
  BY <1>5, <1>2 DEF ReserveCapacity, BeginSubmission, Submit, intakeVars
<1>6. ASSUME NEW c \in Commands, Refuse(c) PROVE Aside
  <2>1. NoneTold
    BY <1>6 DEF Refuse, Reply, NoneTold, Says
  <2> QED BY <1>6, <1>3, <2>1 DEF Refuse, intakeVars
<1>7. CASE IntakeAccept \/ IntakeShutdown \/ IntakeCollect \/ IntakeCollected
           \/ IntakeReturn \/ StoppedLifecycle
  BY <1>7, <1>2 DEF IntakeAccept, IntakeShutdown, IntakeCollect, IntakeCollected,
     IntakeReturn, StoppedLifecycle, callerVars, intakeVars
<1>8. CASE DrainReject
  <2>1. NoneTold
    BY <1>8 DEF DrainReject, Reply, NoneTold, Says
  <2> QED BY <1>8, <1>3, <2>1 DEF DrainReject
<1>9. CASE FormNextUnit
  <2>1. PICK n \in 1 .. Len(pending) : n <= MaxGroup /\ work' = SubSeq(pending, 1, n)
    BY <1>9 DEF FormNextUnit
  <2>2. Len(work') <= MaxGroup
    BY <2>1 DEF IntakeTypes
  <2>3. work = <<>> /\ writer \in {"top", "recv"} /\ ~feedback
    BY <1>9 DEF FormNextUnit, Handed, WriterTypes, WriterPhases
  <2>4. Still /\ UNCHANGED <<answer, feedback>> /\ busy'
    BY <1>9 DEF FormNextUnit, callerVars
  <2>5. Handed'
    BY <2>2, <2>3, <2>4 DEF Handed, writerVars, unitVars, storeVars, fenceVars
  <2> QED BY <2>3, <2>4, <2>5 DEF Aside, NoneTold
<1>10. CASE IntakeFeedback
  <2>1. NoneTold
    <3>1. CASE Halted
      <4>1. Reply(Members(pending), LAMBDA c : Says("Rejected"))
        BY <1>10, <3>1, Zenon DEF IntakeFeedback
      <4> QED BY <4>1 DEF Reply, NoneTold, Says
    <3>2. CASE ~Halted
      BY <1>10, <3>2 DEF IntakeFeedback, callerVars, NoneTold
    <3> QED BY <3>1, <3>2
  <2>2. Still /\ work' = work /\ feedback /\ feedback' = FALSE
    BY <1>10, Zenon DEF IntakeFeedback
  <2>3. Handed'
    BY <2>2 DEF Handed, writerVars, unitVars, storeVars, fenceVars
  <2> QED BY <2>1, <2>2, <2>3 DEF Aside
<1> QED BY <1>4, <1>5, <1>6, <1>7, <1>8, <1>9, <1>10 DEF Caller, Intake

\* Leaving out one element.
LEMMA WithoutWithin ==
    ASSUME NEW S, NEW s \in Seq(S), NEW i \in DOMAIN s
    PROVE  Within(SubSeq(s, 1, i - 1) \o Drop(s, i), s)
<1> DEFINE t == SubSeq(s, 1, i - 1) \o Drop(s, i)
           at(j) == IF j < i THEN j ELSE j + 1
<1>1. /\ t \in Seq(S) /\ Len(t) = Len(s) - 1
      /\ \A j \in 1 .. Len(s) - 1 : t[j] = IF j < i THEN s[j] ELSE s[j + 1]
  BY WithoutFacts
<1> HIDE DEF t
<1>2. \A j \in DOMAIN t : at(j) \in DOMAIN s /\ t[j] = s[at(j)]
  <2>1. DOMAIN t = 1 .. Len(s) - 1 /\ DOMAIN s = 1 .. Len(s) /\ Len(s) \in Nat
    BY <1>1
  <2> QED BY <1>1, <2>1
<1>3. \A p, q \in DOMAIN t : p < q => at(p) < at(q)
  BY <1>1
<1> HIDE DEF at
<1>4. Members(t) \subseteq Members(s)
  BY <1>2 DEF Members
<1>5. Len(t) <= Len(s)
  BY <1>1
<1>6. \A p, q \in DOMAIN t : p < q =>
          \E k, l \in DOMAIN s : k < l /\ s[k] = t[p] /\ s[l] = t[q]
  BY <1>2, <1>3
<1> QED BY <1>4, <1>5, <1>6 DEF Within, t

LEMMA WithinNothing ==
    ASSUME NEW S, NEW s \in Seq(S)
    PROVE  Within(<<>>, s) /\ Within(s, s)
BY DEF Within, Members

LEMMA SublistWithin ==
    ASSUME NEW S, NEW s \in Seq(S), NEW I \in SUBSET DOMAIN s
    PROVE  Within(Sublist(s, I), s)
<1> DEFINE t == Sublist(s, I)
<1>1. t \in Seq(S) /\ Len(t) <= Len(s)
  BY SublistFacts
<1>2. PICK pos \in [DOMAIN t -> I] :
         /\ \A j \in DOMAIN pos : t[j] = s[pos[j]]
         /\ \A j, k \in DOMAIN pos : j < k => pos[j] < pos[k]
         /\ \A i \in I : \E j \in DOMAIN pos : pos[j] = i
  BY SublistFacts
<1> HIDE DEF t
<1>3. \A j \in DOMAIN t : pos[j] \in DOMAIN s /\ t[j] = s[pos[j]]
  BY <1>2
<1>4. Members(t) \subseteq Members(s)
  BY <1>3 DEF Members
<1>5. \A p, q \in DOMAIN t : p < q =>
          \E i, j \in DOMAIN s : i < j /\ s[i] = t[p] /\ s[j] = t[q]
  BY <1>2, <1>3
<1> QED BY <1>1, <1>4, <1>5 DEF Within, t

LEMMA TailWithin ==
    ASSUME NEW S, NEW s \in Seq(S), s # <<>>
    PROVE  Within(Tail(s), s)
<1> DEFINE t == Tail(s)
<1>1. /\ Len(t) = Len(s) - 1 /\ Len(s) \in Nat
      /\ \A i \in DOMAIN t : i \in Nat /\ i + 1 \in DOMAIN s /\ t[i] = s[i + 1]
  OBVIOUS
<1> HIDE DEF t
<1>2. Members(t) \subseteq Members(s)
  BY <1>1 DEF Members
<1>3. \A p, q \in DOMAIN t : p < q =>
          \E i, j \in DOMAIN s : i < j /\ s[i] = t[p] /\ s[j] = t[q]
  BY <1>1
<1> QED BY <1>1, <1>2, <1>3 DEF Within, t

LEMMA StageSteps ==
    ASSUME PipelineAssumption, StoreInv, Stage, ~StageBegin, ~StageSeal
    PROVE  StageResolves
<1> USE DEF StoreInv, Types, WriterTypes, StoreTypes, callerVars, gateVars, intakeVars,
            unitVars, storeVars, fenceVars, boundVars, Fences
<1>1. ASSUME NEW k \in AnswerKinds \ {"FirstCommit"},
             results' = With(Members(todo), k), todo' = <<>>
      PROVE  NoneWon /\ Within(todo', todo)
  <2>1. With(Members(todo), k) = [c \in DOMAIN results |->
                                    IF c \in Members(todo) THEN Says(k) ELSE results[c]]
    BY DEF With
  <2>2. Says(k).kind # "FirstCommit"
    BY SaysFacts
  <2>3. NoneWon
    BY <1>1, <2>1, <2>2 DEF NoneWon
  <2> QED BY <1>1, <2>3, WithinNothing
<1>2. CASE StageIneligible
  <2>1. NoneWon /\ Within(todo', todo)
    BY <1>1, <1>2 DEF StageIneligible, AnswerKinds
  <2> QED BY <1>2, <2>1 DEF StageIneligible, StageResolves
<1>3. CASE StageFenced
  <2>1. NoneWon
    BY <1>3 DEF StageFenced, NoneWon, With, Says
  <2>2. todo # <<>>
    BY <1>3 DEF StageFenced, Handed
  <2>3. Within(todo', todo)
    BY <1>3, <2>2, TailWithin DEF StageFenced
  <2> QED BY <1>3, <2>1, <2>3 DEF StageFenced, StageResolves
<1>4. CASE StageSealFails
  <2>1. NoneWon /\ Within(todo', todo)
    BY <1>1, <1>4 DEF StageSealFails, AnswerKinds
  <2> QED BY <1>4, <2>1 DEF StageSealFails, StageResolves
<1>5. CASE StageReplay
  <2> DEFINE i == CHOOSE i \in Resolved : \A j \in Resolved : i <= j
  <2>1. i \in DOMAIN todo
    BY <1>5, ResolvedFirst DEF StageReplay
  <2>2. results' = [results EXCEPT ![todo[i]] = RecheckAdmission(todo[i], log)]
    BY <1>5 DEF StageReplay
  <2>3. todo' = SubSeq(todo, 1, i - 1) \o Drop(todo, i)
    BY <1>5 DEF StageReplay
  <2> HIDE DEF i
  <2>4. RecheckAdmission(todo[i], log).kind # "FirstCommit"
    BY RecheckFacts
  <2>5. NoneWon
    BY <2>2, <2>4 DEF NoneWon
  <2>6. Within(todo', todo)
    BY <2>1, <2>3, WithoutWithin
  <2> QED BY <1>5, <2>5, <2>6 DEF StageReplay, StageResolves
<1>6. CASE StagePeerMismatch
  <2>1. PICK i \in DOMAIN todo :
           /\ RecheckAdmission(todo[i], SubSeq(todo, 1, i - 1)).kind = "InputMismatch"
           /\ results' = [results EXCEPT ![todo[i]] = Says("InputMismatch")]
           /\ todo' = SubSeq(todo, 1, i - 1) \o Drop(todo, i)
    BY <1>6 DEF StagePeerMismatch
  <2>2. NoneWon
    BY <2>1 DEF NoneWon, Says
  <2>3. Within(todo', todo)
    BY <2>1, WithoutWithin
  <2>4. todo' # <<>>
    <3>1. CASE i = 1
      <4>1. SubSeq(todo, 1, i - 1) \in Seq(Commands) /\ Len(SubSeq(todo, 1, i - 1)) = 0
        BY <3>1
      <4>2. Matches(todo[i], SubSeq(todo, 1, i - 1)) = {}
        BY <4>1 DEF Matches
      <4> QED BY <2>1, <4>1, <4>2, RecheckFacts
    <3>2. CASE i # 1
      <4>1. todo' \in Seq(Commands) /\ Len(todo') = Len(todo) - 1
        BY <2>1, WithoutFacts
      <4>2. Len(todo') > 0
        BY <3>2, <4>1
      <4> QED BY <4>1, <4>2
    <3> QED BY <3>1, <3>2
  <2> QED BY <1>6, <2>2, <2>3, <2>4 DEF StagePeerMismatch, StageResolves
<1>7. CASE StageDirect
  <2>1. NoneWon /\ Within(todo', todo)
    BY <1>7, WithinNothing DEF StageDirect, NoneWon
  <2>2. todo # <<>>
    BY <1>7 DEF StageDirect, Handed
  <2> QED BY <1>7, <2>1, <2>2 DEF StageDirect, StageResolves
<1> QED BY <1>2, <1>3, <1>4, <1>5, <1>6, <1>7 DEF Stage

LEMMA DirectSteps ==
    ASSUME PipelineAssumption, StoreInv, Direct
    PROVE  \E r \in Answers : /\ DirectMoves(r)
                              /\ DirectKeeps(r) \/ DirectWins(r) \/ DirectRisks(r)
<1> USE DEF StoreInv, Types, WriterTypes, StoreTypes, storeVars, fenceVars, Fences
<1>1. writer = "direct" /\ todo # <<>> /\ Head(todo) \in Commands
  <2>1. writer = "direct"
    BY DEF Direct, DirectReplay, DirectFenced, DirectPrefixFails, DirectCommit,
           DirectAbort, DirectUnknown, DirectReady
  <2>2. todo # <<>>
    BY <2>1 DEF Handed
  <2> QED BY <2>1, <2>2
<1>2. ASSUME NEW r, DirectStep(r), pubFailed => pubFailed', Fences(Len(log')),
             UNCHANGED <<frames, torn>>
      PROVE  DirectMoves(r)
  BY <1>1, <1>2 DEF DirectStep, DirectMoves, callerVars, intakeVars
<1>3. PublishedRecords \in Seq(Commands)
  BY DEF PublishedRecords, Sealed
<1>4. published <= durable /\ (frames = <<>> => durable = Len(log)) /\ Len(log) \in Nat
  BY DEF Sealed
<1>5. \A k \in {"Failed", "InternalDefect", "OutcomeUncertain"} :
         Says(k) \in Answers /\ Says(k).kind # "FirstCommit"
  BY SaysFacts DEF AnswerKinds
<1>6. CASE DirectReplay
  <2> DEFINE found == RecheckAdmission(Head(todo), PublishedRecords)
  <2>1. found \in Answers /\ found.kind # "FirstCommit"
    BY <1>3, RecheckFacts
  <2>2. UNCHANGED <<storeVars, faults>>
    BY <1>6 DEF DirectReplay
  <2>3. PICK r \in {found, Says("InternalDefect")} : DirectStep(r)
    BY <1>6 DEF DirectReplay
  <2>4. r \in Answers /\ r.kind # "FirstCommit"
    BY <1>5, <2>1, <2>3
  <2> QED BY <1>2, <1>4, <2>2, <2>3, <2>4 DEF DirectKeeps
<1>7. CASE DirectFenced
  BY <1>2, <1>4, <1>5, <1>7 DEF DirectFenced, DirectKeeps
<1>8. CASE DirectPrefixFails
  <2>1. /\ ~writeFenced /\ pubFailed' /\ FenceStore(Len(log))
        /\ DirectStep(Says("InternalDefect")) /\ UNCHANGED <<log, durable, frames, torn>>
    BY <1>8 DEF DirectPrefixFails
  <2>2. published <= published' /\ published' <= durable
    BY <1>4, <1>8 DEF DirectPrefixFails, PrefixPublished, Units
  <2>3. DirectMoves(Says("InternalDefect")) /\ DirectKeeps(Says("InternalDefect"))
    BY <1>2, <1>5, <2>1, <2>2 DEF DirectKeeps
  <2> QED BY <1>5, <2>3
<1>9. CASE DirectCommit
  <2> DEFINE found == RecheckAdmission(Head(todo), log)
             first == [kind |-> "FirstCommit", seq |-> Len(log) + 1]
  <2>1. found \in Answers /\ found.kind # "FirstCommit" /\ first \in Answers
    BY <1>4, RecheckFacts DEF Answers, AnswerKinds
  <2>2. found = Vacant => Matches(Head(todo), log) = {}
    BY RecheckFacts
  <2>3. frames = <<>> /\ ~writeFenced /\ UNCHANGED <<frames, torn, fenceVars>>
    BY <1>9 DEF DirectCommit, DirectReady
  <2>4. CASE found # Vacant
    <3>1. DirectStep(found) /\ published' = Len(log) /\ UNCHANGED <<log, durable>>
      BY <1>9, <2>4 DEF DirectCommit
    <3>2. DirectMoves(found)
      BY <1>2, <2>3, <3>1
    <3>3. DirectKeeps(found)
      BY <1>4, <2>1, <2>3, <3>1 DEF DirectKeeps
    <3> QED BY <2>1, <3>2, <3>3
  <2>5. CASE found = Vacant
    <3>1. /\ DirectStep(first) /\ log' = Append(log, Head(todo))
          /\ durable' = Len(log) + 1 /\ published' = Len(log) + 1
      BY <1>9, <2>5 DEF DirectCommit
    <3>2. DirectMoves(first)
      BY <1>2, <2>3, <3>1
    <3>3. DirectWins(first)
      BY <2>2, <2>3, <2>5, <3>1 DEF DirectWins
    <3> QED BY <2>1, <3>2, <3>3
  <2> QED BY <2>4, <2>5
<1>10. CASE DirectAbort
  <2>1. PICK k \in {"Failed", "InternalDefect"} : DirectStep(Says(k))
    BY <1>10 DEF DirectAbort
  <2>2. /\ frames = <<>> /\ ~writeFenced /\ published' = Len(log)
        /\ UNCHANGED <<log, durable, frames, torn, fenceVars>>
    BY <1>10 DEF DirectAbort, DirectReady
  <2>3. DirectMoves(Says(k))
    BY <1>2, <2>1, <2>2
  <2>4. DirectKeeps(Says(k))
    BY <1>4, <1>5, <2>2 DEF DirectKeeps
  <2> QED BY <1>5, <2>3, <2>4
<1>11. CASE DirectUnknown
  <2> DEFINE first == [kind |-> "FirstCommit", seq |-> Len(log) + 1]
  <2>1. first \in Answers
    BY <1>4 DEF Answers, AnswerKinds
  <2>2. /\ frames = <<>> /\ ~writeFenced /\ Matches(Head(todo), log) = {}
        /\ writeFenced' = TRUE /\ FenceStore(Len(log'))
        /\ UNCHANGED <<frames, torn, pubFailed>> /\ durable' = Len(log')
    BY <1>11 DEF DirectUnknown, DirectReady, FenceStore
  <2>3. Len(Append(log, Head(todo))) = Len(log) + 1 /\ Append(log, Head(todo)) # log
    <3>1. Len(Append(log, Head(todo))) = Len(log) + 1
      BY <1>1
    <3> QED BY <1>4, <3>1
  <2>4. CASE log' = Append(log, Head(todo))
    <3>1. durable' = Len(log) + 1
      BY <2>2, <2>3, <2>4
    <3>2. \/ /\ DirectStep([kind |-> "FirstCommit", seq |-> Len(log')])
             /\ published' = Len(log')
          \/ DirectStep(Says("OutcomeUncertain")) /\ published' = Len(log)
      BY <1>11, <2>3, <2>4, Zenon DEF DirectUnknown
    <3>3. \/ DirectStep(first) /\ published' = Len(log) + 1
          \/ DirectStep(Says("OutcomeUncertain")) /\ published' = Len(log)
      BY <2>3, <2>4, <3>2, Zenon
    <3>4. CASE DirectStep(first) /\ published' = Len(log) + 1
      <4>1. DirectMoves(first)
        BY <1>2, <2>2, <3>4
      <4>2. DirectWins(first)
        BY <2>2, <2>4, <3>1, <3>4 DEF DirectWins
      <4> QED BY <2>1, <4>1, <4>2
    <3>5. CASE DirectStep(Says("OutcomeUncertain")) /\ published' = Len(log)
      <4>1. DirectMoves(Says("OutcomeUncertain"))
        BY <1>2, <2>2, <3>5
      <4>2. DirectRisks(Says("OutcomeUncertain"))
        BY <1>5, <2>2, <2>4, <3>1, <3>5 DEF DirectRisks
      <4> QED BY <1>5, <4>1, <4>2
    <3> QED BY <3>3, <3>4, <3>5
  <2>5. CASE log' = log
    <3>1. PICK k \in {"Failed", "OutcomeUncertain"} :
             DirectStep(Says(k)) /\ published' = Len(log)
      BY <1>11, <2>5, Zenon DEF DirectUnknown
    <3>2. DirectMoves(Says(k))
      BY <1>2, <2>2, <3>1
    <3>3. DirectKeeps(Says(k))
      BY <1>4, <1>5, <2>2, <2>5, <3>1 DEF DirectKeeps
    <3> QED BY <1>5, <3>2, <3>3
  <2> QED BY <1>11, <2>4, <2>5, Zenon DEF DirectUnknown
<1> QED BY <1>6, <1>7, <1>8, <1>9, <1>10, <1>11 DEF Direct

LEMMA MarkSteps ==
    ASSUME StoreInv, JournalFails \/ JournalEnds \/ PublicationFails \/ JournalErrorFences
    PROVE  Marks
<1> USE DEF Marks, fenceVars, boundVars
<1>1. CASE JournalFails
  BY <1>1 DEF JournalFails
<1>2. CASE JournalEnds
  BY <1>2 DEF JournalEnds
<1>3. ASSUME AtFence PROVE lane # <<>> /\ Head(lane) = lane[1] /\ lane[1] \in Units
  BY <1>3 DEF AtFence, StoreInv, Types, WriterTypes
<1>4. CASE PublicationFails
  <2>1. /\ AtFence /\ Head(lane).upto > published /\ pubFailed' = TRUE
        /\ FenceStore(Len(log)) /\ UNCHANGED <<laneVars, published>>
    BY <1>4, Zenon DEF PublicationFails
  <2>2. published < lane[1].upto
    BY <1>3, <2>1 DEF StoreInv, Types, StoreTypes, Units
  <2>3. Doomed'
    BY <1>3, <2>1, <2>2 DEF Doomed, AtFence, laneVars
  <2> QED BY <1>4, <2>1, <2>3 DEF PublicationFails
<1>5. CASE JournalErrorFences
  <2>1. /\ AtFence /\ JournalFailed(Head(lane)) /\ FenceStore(Len(log))
        /\ UNCHANGED <<laneVars, published, durable, torn, pubFailed>>
    BY <1>5, Zenon DEF JournalErrorFences
  <2>2. torn # 0 /\ durable < lane[1].upto /\ published < lane[1].upto
    BY <1>3, <2>1 DEF JournalFailed, StoreInv, Types, StoreTypes, Units, Sealed
  <2>3. Doomed'
    BY <1>3, <2>1, <2>2 DEF Doomed, AtFence, laneVars
  <2> QED BY <1>5, <2>1, <2>3 DEF JournalErrorFences
<1> QED BY <1>1, <1>2, <1>4, <1>5

\* Every step is of one of these kinds.
LEMMA StepKinds ==
    ASSUME PipelineAssumption, StoreInv, [Next]_vars
    PROVE  \/ Aside \/ AdmitGroup \/ StageResolves \/ StageBegin \/ StageSeal
           \/ \E r \in Answers : /\ DirectMoves(r)
                                 /\ DirectKeeps(r) \/ DirectWins(r) \/ DirectRisks(r)
           \/ DrainReady \/ ReceiveUnit \/ DrainOne \/ RejectWorkUnit
           \/ CompleteGroup \/ SubmitUnit \/ SendFeedback
           \/ JournalFlush \/ Marks
           \/ CompletionFence \/ CompletionFails \/ CompletionRelease
           \/ CrashAndRecover
<1>1. CASE UNCHANGED vars
  BY <1>1 DEF vars, Aside, NoneTold, Handed, StoreInv, callerVars, intakeVars,
              writerVars, unitVars, laneVars, storeVars, fenceVars, boundVars
<1>2. CASE Next
  BY <1>2, AsideSteps, StageSteps, DirectSteps, MarkSteps DEF Next, Writer, Journal, Completion
<1> QED BY <1>1, <1>2

-----------------------------------------------------------------------------
(* The store: frames, durability and one record per key.                   *)

LEMMA KeysStayDistinct ==
    ASSUME NEW s \in Seq(Commands), DistinctKeys(s)
    PROVE  /\ \A n \in 0 .. Len(s) : DistinctKeys(SubSeq(s, 1, n))
           /\ \A c \in Commands : Matches(c, s) = {} => DistinctKeys(Append(s, c))
<1>1. ASSUME NEW n \in 0 .. Len(s) PROVE DistinctKeys(SubSeq(s, 1, n))
  BY DEF DistinctKeys
<1>2. ASSUME NEW c \in Commands, Matches(c, s) = {} PROVE DistinctKeys(Append(s, c))
  <2>1. \A i \in DOMAIN s : KeyOf[s[i]] # KeyOf[c]
    BY <1>2 DEF Matches
  <2> QED BY <2>1 DEF DistinctKeys
<1> QED BY <1>1, <1>2

LEMMA KeysJoined ==
    ASSUME NEW s \in Seq(Commands), NEW t \in Seq(Commands), DistinctKeys(s), DistinctKeys(t),
           \A i \in DOMAIN t : Matches(t[i], s) = {}
    PROVE  DistinctKeys(s \o t)
<1> SUFFICES ASSUME NEW i \in DOMAIN (s \o t), NEW j \in DOMAIN (s \o t),
                    KeyOf[(s \o t)[i]] = KeyOf[(s \o t)[j]]
             PROVE  i = j
  BY DEF DistinctKeys
<1> DEFINE n == Len(s)
<1>1. \A k \in DOMAIN (s \o t) :
         \/ k \in DOMAIN s /\ (s \o t)[k] = s[k]
         \/ k - n \in DOMAIN t /\ (s \o t)[k] = t[k - n] /\ k \in Nat /\ n \in Nat
  OBVIOUS
<1>2. \A a \in DOMAIN s, b \in DOMAIN t : KeyOf[s[a]] # KeyOf[t[b]]
  BY DEF Matches
<1>3. CASE i \in DOMAIN s /\ (s \o t)[i] = s[i]
  BY <1>1, <1>2, <1>3 DEF DistinctKeys
<1>4. CASE i - n \in DOMAIN t /\ (s \o t)[i] = t[i - n]
  <2>1. j - n \in DOMAIN t /\ (s \o t)[j] = t[j - n] /\ j \in Nat
    BY <1>1, <1>2, <1>4
  <2>2. i - n = j - n
    BY <1>4, <2>1 DEF DistinctKeys
  <2> QED BY <2>1, <2>2
<1> QED BY <1>1, <1>3, <1>4

LEMMA SealedKept ==
    ASSUME PipelineAssumption, StoreInv, [Next]_vars
    PROVE  Sealed'
<1> USE DEF StoreInv, Types, StoreTypes
<1>1. ASSUME UNCHANGED <<log, durable, published, frames, torn>>,
             writer' = "seal" => UNCHANGED <<writer, todo>>
      PROVE  Sealed'
  BY <1>1 DEF Sealed
<1>2. CASE \/ Aside \/ AdmitGroup \/ StageResolves \/ DrainReady \/ ReceiveUnit
           \/ DrainOne \/ RejectWorkUnit \/ CompleteGroup \/ SubmitUnit
           \/ SendFeedback \/ CompletionFails \/ CompletionRelease
  <2>1. UNCHANGED <<log, durable, published, frames, torn>>
    BY <1>2 DEF Aside, AdmitGroup, StageResolves, DrainReady, ReceiveUnit, DrainOne,
       RejectWorkUnit, CompleteGroup, SubmitUnit, SendFeedback, CompletionFails,
       CompletionRelease, storeVars, fenceVars
  <2>2. writer' = "seal" => UNCHANGED <<writer, todo>>
    BY <1>2 DEF Aside, AdmitGroup, StageResolves, DrainReady, ReceiveUnit, DrainOne,
       RejectWorkUnit, CompleteGroup, SubmitUnit, SendFeedback, CompletionFails,
       CompletionRelease, writerVars, unitVars
  <2> QED BY <1>1, <2>1, <2>2
<1>11. CASE StageBegin
  <2>1. UNCHANGED <<log, durable, published, frames, torn, todo>>
    BY <1>11 DEF StageBegin, storeVars, unitVars
  <2>2. DistinctKeys(todo) /\ \A i \in DOMAIN todo : Matches(todo[i], log) = {}
    BY <1>11 DEF StageBegin, Deferrable, Resolved
  <2>3. DistinctKeys(todo') /\ \A i \in DOMAIN todo' : Matches(todo'[i], log') = {}
    BY <2>1, <2>2
  <2> QED BY <2>1, <2>3 DEF Sealed
<1>3. CASE StageSeal
  <2>1. todo \in Seq(Commands) /\ todo # <<>> /\ Len(todo) \in Nat \ {0} /\ writer' # "seal"
    BY <1>3 DEF StageSeal, Handed, WriterTypes
  <2>2. /\ log' = log \o todo /\ frames' = Append(frames, Len(log'))
        /\ UNCHANGED <<durable, published, torn>>
    BY <1>3 DEF StageSeal
  <2>3. Len(log') = Len(log) + Len(todo) /\ Len(log) \in Nat /\ log' \in Seq(Commands)
    BY <2>1, <2>2
  <2>4. DistinctKeys(log')
    <3>1. DistinctKeys(todo) /\ \A i \in DOMAIN todo : Matches(todo[i], log) = {}
      BY <1>3 DEF StageSeal, Sealed
    <3> QED BY <2>1, <2>2, <3>1, KeysJoined DEF Sealed
  <2>5. /\ Len(frames') = Len(frames) + 1 /\ frames'[Len(frames) + 1] = Len(log')
        /\ \A i \in DOMAIN frames : frames'[i] = frames[i]
        /\ DOMAIN frames' = 1 .. Len(frames) + 1 /\ frames' # <<>>
    <3>1. Len(log') \in Nat /\ frames \in Seq(Nat)
      BY <2>1, <2>3
    <3> DEFINE n == Len(log')
    <3>2. frames' = Append(frames, n) /\ n \in Nat
      BY <2>2, <3>1
    <3> HIDE DEF n
    <3>3. /\ Append(frames, n) # <<>> /\ Len(Append(frames, n)) = Len(frames) + 1
          /\ DOMAIN Append(frames, n) = 1 .. Len(frames) + 1
          /\ \A i \in DOMAIN frames : Append(frames, n)[i] = frames[i]
          /\ Append(frames, n)[Len(frames) + 1] = n
      BY <3>1, <3>2, AppendFacts, SMTT(30)
    <3>4. /\ frames' # <<>> /\ Len(frames') = Len(frames) + 1
          /\ DOMAIN frames' = 1 .. Len(frames) + 1
          /\ \A i \in DOMAIN frames : frames'[i] = frames[i]
          /\ frames'[Len(frames) + 1] = n
      BY <3>2, <3>3, Zenon
    <3> QED BY <3>4 DEF n
  <2>6. \A i \in DOMAIN frames' : durable' < frames'[i] /\ frames'[i] <= Len(log')
    BY <2>1, <2>2, <2>3, <2>5, SMTT(30) DEF Sealed
  <2>7. \A i, j \in DOMAIN frames' : i < j => frames'[i] < frames'[j]
    <3> TAKE i, j \in DOMAIN frames'
    <3> HAVE i < j
    <3>1. i \in DOMAIN frames /\ frames'[i] = frames[i] /\ frames[i] <= Len(log) /\ frames[i] \in Nat
      BY <2>5 DEF Sealed
    <3>2. CASE j \in DOMAIN frames
      BY <2>5, <3>1, <3>2 DEF Sealed
    <3>3. CASE j \notin DOMAIN frames
      <4>1. frames'[j] = Len(log) + Len(todo)
        BY <2>3, <2>5, <3>3
      <4> QED BY <2>1, <2>3, <3>1, <4>1
    <3> QED BY <3>2, <3>3
  <2>8. torn' # 0 => \E k \in DOMAIN frames' : frames'[k] = torn'
    <3> HAVE torn' # 0
    <3>1. PICK k \in DOMAIN frames : frames[k] = torn
      BY <2>2 DEF Sealed
    <3>2. k \in DOMAIN frames'
      BY <2>5
    <3> QED BY <2>2, <2>5, <3>1, <3>2
  <2>9. published' <= durable' /\ durable' <= Len(log')
    BY <2>1, <2>2, <2>3 DEF Sealed
  <2>10. frames' # <<>> /\ frames'[Len(frames')] = Len(log')
    BY <2>5
  <2> QED BY <2>1, <2>4, <2>6, <2>7, <2>8, <2>9, <2>10 DEF Sealed
<1>12. ASSUME NEW r \in Answers, DirectMoves(r) PROVE writer' # "seal"
  BY <1>12 DEF DirectMoves
<1>4. ASSUME NEW r \in Answers, DirectMoves(r), DirectKeeps(r) PROVE Sealed'
  <2>1. /\ published <= published' /\ published' <= durable
        /\ UNCHANGED <<log, durable, frames, torn>>
    BY <1>4 DEF DirectKeeps, DirectMoves
  <2> QED BY <1>4, <1>12, <2>1 DEF Sealed
<1>5. ASSUME NEW r \in Answers, DirectMoves(r), DirectWins(r) PROVE Sealed'
  <2>1. Head(todo) \in Commands
    BY <1>5 DEF DirectMoves, WriterTypes
  <2>2. log' \in Seq(Commands) /\ Len(log') = Len(log) + 1 /\ Len(log) \in Nat
    BY <1>5, <2>1 DEF DirectWins
  <2>3. DistinctKeys(log')
    BY <1>5, <2>1, KeysStayDistinct DEF DirectWins, Sealed
  <2>4. torn = 0 /\ frames = <<>> /\ UNCHANGED <<frames, torn>>
    BY <1>5 DEF DirectMoves, DirectWins, Sealed
  <2> QED BY <1>5, <1>12, <2>2, <2>3, <2>4 DEF DirectWins, Sealed
<1>6. ASSUME NEW r \in Answers, DirectMoves(r), DirectRisks(r) PROVE Sealed'
  <2>1. Head(todo) \in Commands
    BY <1>6 DEF DirectMoves, WriterTypes
  <2>2. log' \in Seq(Commands) /\ Len(log') = Len(log) + 1 /\ Len(log) \in Nat
    BY <1>6, <2>1 DEF DirectRisks
  <2>3. DistinctKeys(log')
    BY <1>6, <2>1, KeysStayDistinct DEF DirectRisks, Sealed
  <2>4. torn = 0 /\ frames = <<>> /\ UNCHANGED <<frames, torn>>
    BY <1>6 DEF DirectMoves, DirectRisks, Sealed
  <2> QED BY <1>6, <1>12, <2>2, <2>3, <2>4 DEF DirectRisks, Sealed
<1>7. CASE JournalFlush
  <2>1. PICK k \in DOMAIN frames : durable' = frames[k] /\ frames' = Drop(frames, k)
    BY <1>7 DEF JournalFlush
  <2>2. torn = 0 /\ UNCHANGED <<log, published, torn>>
    BY <1>7 DEF JournalFlush
  <2>3. k \in 0 .. Len(frames) /\ Len(frames) \in Nat /\ DOMAIN frames = 1 .. Len(frames)
    OBVIOUS
  <2>4. /\ frames' \in Seq(Nat) /\ Len(frames') = Len(frames) - k
        /\ \A i \in DOMAIN frames' : k + i \in DOMAIN frames /\ frames'[i] = frames[k + i]
    <3>1. frames \in Seq(Nat)
      OBVIOUS
    <3> QED BY <2>1, <3>1, FlushedFrames
  <2>5. DOMAIN frames' = 1 .. Len(frames) - k
    BY <2>4
  <2>6. published' <= durable' /\ durable' <= Len(log')
    BY <2>1, <2>2 DEF Sealed
  <2>7. \A i \in DOMAIN frames' : durable' < frames'[i] /\ frames'[i] <= Len(log')
    BY <2>1, <2>2, <2>3, <2>4, <2>5 DEF Sealed
  <2>8. \A i, j \in DOMAIN frames' : i < j => frames'[i] < frames'[j]
    BY <2>3, <2>4, <2>5 DEF Sealed
  <2>9. frames' # <<>> => frames'[Len(frames')] = Len(log')
    <3> HAVE frames' # <<>>
    <3>1. Len(frames') \in DOMAIN frames' /\ k + Len(frames') = Len(frames) /\ frames # <<>>
      BY <2>3, <2>4, <2>5
    <3> QED BY <2>2, <2>4, <3>1 DEF Sealed
  <2>10. frames' = <<>> => durable' = Len(log')
    <3> HAVE frames' = <<>>
    <3>1. k = Len(frames) /\ frames # <<>>
      BY <2>3, <2>4
    <3> QED BY <2>1, <2>2, <3>1 DEF Sealed
  <2>11. UNCHANGED <<writer, todo>>
    BY <1>7 DEF JournalFlush, writerVars, unitVars
  <2> QED BY <2>2, <2>6, <2>7, <2>8, <2>9, <2>10, <2>11 DEF Sealed
<1>8. CASE Marks
  <2>1. UNCHANGED <<writer, todo, log, durable, published, frames>>
    BY <1>8 DEF Marks, writerVars, unitVars
  <2>2. torn' # 0 => \E k \in DOMAIN frames : frames[k] = torn'
    BY <1>8 DEF Marks, Sealed
  <2> QED BY <2>1, <2>2 DEF Sealed
<1>9. CASE CompletionFence
  <2>1. published <= published' /\ published' <= durable /\ UNCHANGED <<log, durable, frames, torn>>
    <3>1. UNCHANGED <<log, durable, frames, torn>>
      BY <1>9, Zenon DEF CompletionFence
    <3>3. Head(lane).upto \in Nat
      <4>1. Head(lane) \in Units
        BY <1>9 DEF CompletionFence, AtFence, WriterTypes
      <4> QED BY <4>1 DEF Units
    <3>2. \/ published' = published
          \/ published' = Head(lane).upto /\ Head(lane).upto <= durable /\ Head(lane).upto > published
      BY <1>9, <3>3 DEF CompletionFence, Publishable
    <3> QED BY <3>1, <3>2, <3>3 DEF Sealed
  <2>2. published' \in Nat
    BY TypesKept DEF Types, StoreTypes
  <2>3. UNCHANGED <<writer, todo>>
    BY <1>9, Zenon DEF CompletionFence, writerVars, unitVars
  <2> QED BY <2>1, <2>2, <2>3 DEF Sealed
<1>10. CASE CrashAndRecover
  <2>1. PICK n \in Recoverable : log' = SubSeq(log, 1, n) /\ durable' = n /\ published' = n
    BY <1>10 DEF CrashAndRecover
  <2>2. n \in 0 .. Len(log)
    BY DEF Recoverable, Sealed
  <2>3. log' \in Seq(Commands) /\ Len(log') = n
    BY <2>1, <2>2
  <2>4. DistinctKeys(log')
    BY <2>1, <2>2, KeysStayDistinct DEF Sealed
  <2>5. frames' = <<>> /\ torn' = 0 /\ writer' = "top"
    BY <1>10, Zenon DEF CrashAndRecover
  <2> QED BY <2>1, <2>2, <2>3, <2>4, <2>5 DEF Sealed
<1> QED BY <1>2, <1>3, <1>4, <1>5, <1>6, <1>7, <1>8, <1>9, <1>10, <1>11, StepKinds

-----------------------------------------------------------------------------
(* The lifecycle and the store's fence.                                    *)

\* How a step may move the lifecycle, the gate and the write fence.
LifecycleMoves ==
    \/ UNCHANGED <<lifecycle, writeFenced>> /\ gateClosed' \in {gateClosed, TRUE}
    \/ /\ lifecycle = "Accepting" /\ lifecycle' = "Draining"
       /\ UNCHANGED <<gateClosed, writeFenced>>
    \/ Fence /\ writeFenced'
    \/ Stop /\ writeFenced' \in {writeFenced, TRUE}
    \/ /\ UNCHANGED <<lifecycle, gateClosed>> /\ writeFenced' = TRUE
       /\ PublicationFails \/ JournalErrorFences

LEMMA FinishMoves ==
    ASSUME NEW s, NEW res, FinishCommandGroup(s, res), UNCHANGED writeFenced
    PROVE  LifecycleMoves
BY DEF FinishCommandGroup, LifecycleMoves

LEMMA LifecycleSteps ==
    ASSUME [Next]_vars
    PROVE  (LifecycleMoves /\ UNCHANGED crashes) \/ CrashAndRecover
<1> USE DEF gateVars, storeVars, fenceVars, boundVars
<1>1. CASE UNCHANGED vars
  BY <1>1 DEF vars, LifecycleMoves
<1>2. CASE InitiateShutdown \/ SendShutdown
  BY <1>2 DEF InitiateShutdown, SendShutdown, LifecycleMoves
<1>3. ASSUME NEW c \in Commands, Caller(c) PROVE LifecycleMoves /\ UNCHANGED crashes
  BY <1>3 DEF Caller, ReserveCapacity, BeginSubmission, Submit, Refuse, LifecycleMoves
<1>4. CASE Intake
  <2>1. CASE IntakeAccept \/ FormNextUnit \/ IntakeShutdown \/ IntakeCollect
             \/ IntakeCollected \/ IntakeFeedback \/ DrainReject \/ IntakeReturn
    <3>1. UNCHANGED <<lifecycle, gateClosed, writeFenced, crashes>>
      BY <2>1 DEF IntakeAccept, FormNextUnit, IntakeShutdown, IntakeCollect,
         IntakeCollected, IntakeFeedback, DrainReject, IntakeReturn
    <3> QED BY <3>1 DEF LifecycleMoves
  <2>2. CASE StoppedLifecycle
    BY <2>2 DEF StoppedLifecycle, LifecycleMoves
  <2> QED BY <1>4, <2>1, <2>2 DEF Intake
<1>5. CASE DrainReady \/ ReceiveUnit \/ DrainOne \/ RejectWorkUnit \/ AdmitGroup
           \/ SubmitUnit \/ SendFeedback
  <2>1. UNCHANGED <<lifecycle, gateClosed, writeFenced, crashes>>
    BY <1>5 DEF DrainReady, ReceiveUnit, DrainOne, RejectWorkUnit, AdmitGroup,
       SubmitUnit, SendFeedback
  <2> QED BY <2>1 DEF LifecycleMoves
<1>6. CASE Stage
  BY <1>6 DEF Stage, StageIneligible, StageFenced, StageReplay, StageBegin, StageSeal,
     StageSealFails, StagePeerMismatch, StageDirect, FenceStore, LifecycleMoves
<1>7. CASE Direct
  <2>1. UNCHANGED crashes
    BY <1>7 DEF Direct, DirectReplay, DirectFenced, DirectPrefixFails, DirectCommit,
       DirectAbort, DirectUnknown, DirectStep
  <2>2. LifecycleMoves
    BY <1>7 DEF Direct, DirectReplay, DirectFenced, DirectPrefixFails, DirectCommit,
       DirectAbort, DirectUnknown, FenceStore, LifecycleMoves
  <2> QED BY <2>1, <2>2
<1>8. CASE CompleteGroup
  <2>1. UNCHANGED <<writeFenced, crashes>>
    BY <1>8 DEF CompleteGroup
  <2>2. CASE frontier = "WriterPrivate"
    <3>1. UNCHANGED <<lifecycle, gateClosed>>
      BY <1>8, <2>2 DEF CompleteGroup
    <3> QED BY <2>1, <3>1 DEF LifecycleMoves
  <2>3. CASE frontier # "WriterPrivate"
    <3>1. FinishCommandGroup(work, results)
      BY <1>8, <2>3 DEF CompleteGroup
    <3> QED BY <2>1, <3>1, FinishMoves
  <2> QED BY <2>2, <2>3
<1>9. CASE Journal
  BY <1>9 DEF Journal, JournalFlush, JournalFails, JournalEnds, LifecycleMoves
<1>10. CASE CompletionFence \/ PublicationFails \/ JournalErrorFences \/ CompletionFails
  <2>1. CASE CompletionFence
    BY <2>1 DEF CompletionFence, LifecycleMoves
  <2>2. CASE PublicationFails \/ JournalErrorFences
    <3>1. UNCHANGED <<lifecycle, gateClosed, crashes>> /\ writeFenced' = TRUE
      <4>1. CASE PublicationFails
        BY <4>1 DEF PublicationFails, FenceStore
      <4>2. CASE JournalErrorFences
        BY <4>2 DEF JournalErrorFences, FenceStore
      <4> QED BY <2>2, <4>1, <4>2, Zenon
    <3> QED BY <2>2, <3>1, Zenon DEF LifecycleMoves
  <2>3. CASE CompletionFails
    <3>1. Fence /\ writeFenced /\ UNCHANGED <<writeFenced, crashes>>
      BY <2>3, Zenon DEF CompletionFails
    <3>2. writeFenced'
      BY <3>1
    <3> QED BY <3>1, <3>2 DEF LifecycleMoves
  <2> QED BY <1>10, <2>1, <2>2, <2>3
<1>11. CASE CompletionRelease
  <2>1. UNCHANGED <<writeFenced, crashes>> /\ FinishCommandGroup(Head(lane).cmds, Head(lane).results)
    BY <1>11, Zenon DEF CompletionRelease
  <2> QED BY <2>1, FinishMoves
<1> QED BY <1>1, <1>2, <1>3, <1>4, <1>5, <1>6, <1>7, <1>8, <1>9, <1>10, <1>11
        DEF Next, Writer, Completion

\* A doomed unit stays at the head of the lane until the coordinator is fenced.
LEMMA DoomedKept ==
    ASSUME PipelineAssumption, StoreInv, [Next]_vars, writeFenced, Doomed
    PROVE  Doomed' \/ Halted' \/ CrashAndRecover
<1> USE DEF StoreInv, Types, WriterTypes, StoreTypes
<1>0. /\ lane # <<>> /\ ~released /\ lane[1].kind = "Fence" /\ published < lane[1].upto
      /\ pubFailed \/ (torn # 0 /\ durable < lane[1].upto)
      /\ Head(lane) = lane[1] /\ lane[1] \in Units
  BY DEF Doomed
<1>1. ASSUME lane' # <<>>, lane'[1] = lane[1], UNCHANGED <<released, published>>,
             pubFailed => pubFailed', pubFailed' \/ UNCHANGED <<torn, durable>>
      PROVE  Doomed'
  BY <1>0, <1>1 DEF Doomed
<1>2. ASSUME \/ Aside \/ AdmitGroup \/ StageResolves \/ StageBegin \/ StageSeal
             \/ DrainReady \/ ReceiveUnit \/ DrainOne \/ RejectWorkUnit \/ CompleteGroup
             \/ SendFeedback
      PROVE  Doomed'
  <2>1. UNCHANGED <<lane, released, published, pubFailed, torn, durable>>
    BY <1>2 DEF Aside, AdmitGroup, StageResolves, StageBegin, StageSeal, DrainReady,
       ReceiveUnit, DrainOne, RejectWorkUnit, CompleteGroup, SendFeedback, laneVars,
       storeVars, fenceVars
  <2> QED BY <1>0, <1>1, <2>1
<1>3. ASSUME NEW r \in Answers, DirectMoves(r),
             DirectKeeps(r) \/ DirectWins(r) \/ DirectRisks(r)
      PROVE  Doomed'
  <2>1. DirectKeeps(r)
    BY <1>3 DEF DirectWins, DirectRisks
  <2>2. UNCHANGED <<lane, released, published, torn, durable>> /\ (pubFailed => pubFailed')
    BY <1>3, <2>1 DEF DirectMoves, DirectKeeps, laneVars
  <2> QED BY <1>0, <1>1, <2>2
<1>4. CASE SubmitUnit
  <2>1. /\ lane' = Append(lane, unit) /\ writer = "submit"
        /\ UNCHANGED <<released, published, pubFailed, torn, durable>>
    BY <1>4 DEF SubmitUnit, storeVars, fenceVars
  <2>2. unit \in Units
    BY <2>1 DEF Handed
  <2>3. lane' # <<>> /\ lane'[1] = lane[1]
    BY <1>0, <2>1, <2>2
  <2> QED BY <1>1, <2>1, <2>3
<1>5. CASE JournalFlush
  <2>1. torn = 0 /\ UNCHANGED <<lane, released, published, pubFailed>>
    BY <1>5 DEF JournalFlush, laneVars, fenceVars
  <2> QED BY <1>0, <1>1, <2>1
<1>6. CASE Marks
  <2>1. /\ UNCHANGED <<lane, released, published, durable>> /\ (pubFailed => pubFailed')
        /\ torn # 0 => torn' = torn
    <3>1. UNCHANGED <<lane, released, published, durable>>
      BY <1>6 DEF Marks, laneVars
    <3>2. pubFailed => pubFailed'
      BY <1>6, Zenon DEF Marks
    <3>3. torn # 0 => torn' = torn
      BY <1>6, Zenon DEF Marks
    <3> QED BY <3>1, <3>2, <3>3
  <2>2. pubFailed' \/ torn # 0
    BY <1>0, <2>1
  <2> QED BY <1>0, <1>1, <2>1, <2>2
<1>7. ~CompletionFence
  <2>1. CompletionFence => lane[1].upto <= published \/ (lane[1].upto <= durable /\ ~pubFailed)
    BY <1>0 DEF CompletionFence, Publishable
  <2> QED BY <1>0, <2>1 DEF Units
<1>8. CompletionFails => Halted'
  BY DEF CompletionFails, Fence, Halted
<1>9. ~CompletionRelease
  <2>1. CompletionRelease => released \/ lane[1].kind = "AfterPredecessor"
    BY <1>0, Zenon DEF CompletionRelease
  <2> QED BY <1>0, <2>1
<1> QED BY <1>2, <1>3, <1>4, <1>5, <1>6, <1>7, <1>8, <1>9, StepKinds

LEMMA HaltingKept ==
    ASSUME PipelineAssumption, StoreInv, [Next]_vars
    PROVE  Halting'
<1> USE DEF StoreInv, Types, CallerTypes, Halting, Halted
<1>3. writeFenced /\ ~Halted => Doomed' \/ Halted' \/ CrashAndRecover
  BY DoomedKept
<1>1. CASE LifecycleMoves /\ ~CrashAndRecover
  <2>1. CASE UNCHANGED <<lifecycle, writeFenced>> /\ gateClosed' \in {gateClosed, TRUE}
    BY <1>1, <1>3, <2>1
  <2>2. CASE lifecycle = "Accepting" /\ lifecycle' = "Draining" /\ UNCHANGED <<gateClosed, writeFenced>>
    BY <1>1, <1>3, <2>2
  <2>5. CASE /\ UNCHANGED <<lifecycle, gateClosed>> /\ writeFenced' = TRUE
             /\ PublicationFails \/ JournalErrorFences
    <3>1. Doomed' \/ (writeFenced /\ UNCHANGED <<writeFenced, fencedAt>>)
      <4>1. Marks
        BY <2>5, MarkSteps
      <4>2. UNCHANGED <<writeFenced, fencedAt>> \/ Doomed'
        BY <4>1 DEF Marks
      <4>3. UNCHANGED writeFenced => writeFenced
        BY <2>5
      <4> QED BY <4>2, <4>3
    <3>2. Doomed' \/ Halted'
      BY <1>1, <1>3, <2>5, <3>1
    <3> QED BY <2>5, <3>2
  <2>3. CASE Fence /\ writeFenced'
    BY <2>3 DEF Fence
  <2>4. CASE Stop /\ writeFenced' \in {writeFenced, TRUE}
    <3>1. gateClosed' = TRUE /\ (writeFenced => writeFenced')
      BY <2>4 DEF Stop
    <3>2. CASE Halted
      <4>1. lifecycle' = lifecycle
        BY <2>4, <3>2, Zenon DEF Stop
      <4> QED BY <3>1, <3>2, <4>1
    <3>3. CASE ~Halted
      <4>1. lifecycle' = "Stopped"
        BY <2>4, <3>3, Zenon DEF Stop
      <4> QED BY <3>1, <4>1
    <3> QED BY <3>2, <3>3
  <2> QED BY <1>1, <2>1, <2>2, <2>3, <2>4, <2>5, Zenon DEF LifecycleMoves
<1>2. CASE CrashAndRecover
  <2>1. lifecycle' = "Accepting" /\ writeFenced' = FALSE
    BY <1>2, Zenon DEF CrashAndRecover
  <2> QED BY <2>1
<1> QED BY <1>1, <1>2, LifecycleSteps

\* Records that follow the fence stay unpublished.
LEMMA FencingKept ==
    ASSUME PipelineAssumption, StoreInv, [Next]_vars
    PROVE  Fencing'
<1> USE DEF StoreInv, Types, WriterTypes, StoreTypes
<1>1. /\ published \in Nat /\ durable \in Nat /\ Len(log) \in Nat /\ fencedAt \in Nat
      /\ published <= durable /\ durable <= Len(log) /\ torn \in Nat
  BY DEF Sealed
<1>2. /\ published' \in Nat /\ durable' \in Nat /\ Len(log') \in Nat /\ fencedAt' \in Nat
      /\ published' <= durable' /\ durable' <= Len(log') /\ torn' \in Nat
  <2>1. Types' /\ Sealed'
    BY TypesKept, SealedKept
  <2>2. log' \in Seq(Commands)
    BY <2>1
  <2>3. Len(log') \in Nat
    BY <2>2
  <2> QED BY <2>1, <2>3 DEF Sealed
<1>3. ASSUME UNCHANGED <<log, durable, published, torn, pubFailed, writeFenced, fencedAt>>,
             writer' = "seal" => writer = "seal"
      PROVE  Fencing'
  BY <1>3 DEF Fencing
<1>4. ASSUME \/ Aside \/ AdmitGroup \/ DrainReady \/ ReceiveUnit \/ DrainOne
             \/ RejectWorkUnit \/ CompleteGroup \/ SubmitUnit \/ SendFeedback
             \/ CompletionFails \/ CompletionRelease
      PROVE  Fencing'
  <2>1. UNCHANGED <<log, durable, published, torn, pubFailed, writeFenced, fencedAt>>
    BY <1>4 DEF Aside, AdmitGroup, DrainReady, ReceiveUnit, DrainOne, RejectWorkUnit,
       CompleteGroup, SubmitUnit, SendFeedback, CompletionFails, CompletionRelease,
       storeVars, fenceVars
  <2>2. writer' = "seal" => writer = "seal"
    BY <1>4 DEF Aside, AdmitGroup, DrainReady, ReceiveUnit, DrainOne, RejectWorkUnit,
       CompleteGroup, SubmitUnit, SendFeedback, CompletionFails, CompletionRelease,
       writerVars
  <2> QED BY <1>3, <2>1, <2>2
<1>5. CASE StageBegin
  <2>1. ~writeFenced /\ UNCHANGED <<log, writeFenced, fencedAt>>
    BY <1>5 DEF StageBegin, storeVars, fenceVars
  <2> QED BY <2>1 DEF Fencing
\* A fence of this step stands at the end of the log.
<1>6. ASSUME ~writeFenced, fencedAt' = Len(log'), pubFailed' \/ torn' # 0 \/ writer' # "seal"
      PROVE  Fencing'
  BY <1>2, <1>6 DEF Fencing
<1>7. CASE StageResolves
  <2>1. /\ UNCHANGED <<log, durable, published, torn, pubFailed>> /\ writer' # "seal"
        /\ Fences(Len(log))
    BY <1>7 DEF StageResolves
  <2>2. CASE UNCHANGED <<writeFenced, fencedAt>>
    BY <1>3, <2>1, <2>2
  <2>3. CASE FenceStore(Len(log)) /\ writeFenced
    <3>1. UNCHANGED fencedAt /\ writeFenced'
      BY <2>3 DEF FenceStore
    <3> QED BY <2>1, <2>3, <3>1 DEF Fencing
  <2>4. CASE FenceStore(Len(log)) /\ ~writeFenced
    <3>1. fencedAt' = Len(log')
      BY <2>1, <2>4 DEF FenceStore
    <3> QED BY <1>6, <2>1, <2>4, <3>1
  <2> QED BY <2>1, <2>2, <2>3, <2>4 DEF Fences
<1>8. CASE StageSeal
  <2>1. /\ log' = log \o todo /\ writer = "seal" /\ writer' = "submit"
        /\ UNCHANGED <<durable, published, torn, pubFailed, writeFenced, fencedAt>>
    BY <1>8 DEF StageSeal, fenceVars
  <2>2. Len(log) <= Len(log')
    BY <2>1
  <2> QED BY <1>1, <1>2, <2>1, <2>2 DEF Fencing
<1>9. ASSUME NEW r \in Answers, DirectMoves(r),
             DirectKeeps(r) \/ DirectWins(r) \/ DirectRisks(r)
      PROVE  Fencing'
  <2>1. writer' # "seal" /\ Fences(Len(log')) /\ (pubFailed => pubFailed') /\ UNCHANGED torn
    BY <1>9 DEF DirectMoves
  <2>2. CASE writeFenced
    <3>1. DirectKeeps(r)
      BY <1>9, <2>2 DEF DirectWins, DirectRisks
    <3>2. UNCHANGED <<log, durable, published>>
      BY <2>2, <3>1 DEF DirectKeeps
    <3>3. UNCHANGED fencedAt
      BY <2>1, <2>2 DEF Fences, FenceStore
    <3> QED BY <2>1, <2>2, <3>2, <3>3 DEF Fencing
  <2>3. CASE ~writeFenced
    <3>1. CASE FenceStore(Len(log'))
      <4>1. fencedAt' = Len(log')
        BY <2>3, <3>1 DEF FenceStore
      <4> QED BY <1>6, <2>1, <2>3, <4>1
    <3>2. CASE UNCHANGED <<writeFenced, fencedAt>>
      <4>1. log' = log \/ log' = Append(log, Head(todo))
        BY <1>9 DEF DirectKeeps, DirectWins, DirectRisks
      <4>0. Head(todo) \in Commands
        BY <1>9 DEF DirectMoves
      <4>2. Len(log) <= Len(log')
        BY <1>1, <4>0, <4>1
      <4> QED BY <1>1, <1>2, <2>3, <3>2, <4>2 DEF Fencing
    <3> QED BY <2>1, <3>1, <3>2 DEF Fences
  <2> QED BY <2>2, <2>3
<1>10. CASE JournalFlush
  <2>1. torn = 0 /\ UNCHANGED <<log, published, torn, pubFailed, writeFenced, fencedAt, writer>>
    BY <1>10 DEF JournalFlush, fenceVars, writerVars
  <2> QED BY <1>1, <1>2, <2>1 DEF Fencing
<1>11. CASE Marks
  <2>1. UNCHANGED <<log, durable, published, writer>>
    BY <1>11 DEF Marks, writerVars
  <2>2. torn # 0 => torn' # 0
    BY <1>11 DEF Marks
  <2>3. CASE UNCHANGED <<pubFailed, writeFenced, fencedAt>>
    BY <2>1, <2>2, <2>3 DEF Fencing
  <2>4. CASE (pubFailed => pubFailed') /\ FenceStore(Len(log)) /\ Doomed'
    <3>1. pubFailed' \/ torn' # 0
      BY <2>4 DEF Doomed
    <3>2. CASE writeFenced
      <4>1. UNCHANGED fencedAt
        BY <2>4, <3>2 DEF FenceStore
      <4> QED BY <2>1, <2>4, <3>1, <3>2, <4>1 DEF Fencing
    <3>3. CASE ~writeFenced
      <4>1. fencedAt' = Len(log')
        BY <2>1, <2>4, <3>3 DEF FenceStore
      <4> QED BY <1>6, <3>1, <3>3, <4>1
    <3> QED BY <3>2, <3>3
  <2> QED BY <1>11, <2>3, <2>4 DEF Marks
<1>12. CASE CompletionFence
  <2>1. UNCHANGED <<log, durable, torn, pubFailed, writeFenced, fencedAt, writer>>
    BY <1>12, Zenon DEF CompletionFence, fenceVars, writerVars
  <2>2. lane # <<>> /\ Head(lane) \in Units
    BY <1>12 DEF CompletionFence, AtFence
  <2>3. Head(lane).upto \in Nat
    BY <2>2 DEF Units
  <2>4. published' = published \/ (published' <= durable /\ ~pubFailed)
    BY <1>1, <1>12, <2>3 DEF CompletionFence, Publishable
  <2> QED BY <1>1, <1>2, <2>1, <2>4 DEF Fencing
<1>13. CASE CrashAndRecover
  <2>1. writeFenced' = FALSE /\ fencedAt' = 0
    BY <1>13, Zenon DEF CrashAndRecover
  <2> QED BY <1>2, <2>1 DEF Fencing
<1> QED BY <1>4, <1>5, <1>7, <1>8, <1>9, <1>10, <1>11, <1>12, <1>13, StepKinds

-----------------------------------------------------------------------------
(* The unit of the writer.                                                 *)

LEMMA AdmitFacts ==
    ASSUME PipelineAssumption, StoreInv, AdmitGroup
    PROVE  /\ results' \in Outcomes /\ DOMAIN results' = Members(work)
           /\ \A c \in DOMAIN results' : results'[c].kind # "FirstCommit"
           /\ Members(todo') \subseteq Members(work) /\ Len(todo') <= Len(work)
           /\ Within(todo', work)
           /\ writer' = IF todo' = <<>> THEN "complete" ELSE "stage"
           /\ writer = "admit"
           /\ UNCHANGED <<answer, feedback, busy, work, frontier, unit, inFlight,
                          suffix, lane, released, tokens, log, durable, published,
                          frames, torn, writeFenced, notified>>
<1> USE DEF StoreInv, Types, WriterTypes, StoreTypes
<1>1. PublishedRecords \in Seq(Commands)
  BY DEF PublishedRecords, Sealed
<1>2. results' = [c \in Members(work) |-> RecheckAdmission(c, PublishedRecords)]
  BY DEF AdmitGroup
<1>3. Members(work) \in SUBSET Commands
  BY MembersFacts
<1>4. \A c \in Members(work) : /\ RecheckAdmission(c, PublishedRecords) \in Answers
                               /\ RecheckAdmission(c, PublishedRecords).kind # "FirstCommit"
  BY <1>1, RecheckFacts
<1>5. results' \in [Members(work) -> Answers]
  BY <1>2, <1>4
<1>6. results' \in Outcomes /\ DOMAIN results' = Members(work)
  BY <1>3, <1>5, OutcomeMade
<1>7. \A c \in DOMAIN results' : results'[c].kind # "FirstCommit"
  BY <1>2, <1>4
<1> DEFINE I == {i \in DOMAIN work : Matches(work[i], PublishedRecords) = {}}
<1>8. todo' = Sublist(work, I) /\ I \in SUBSET DOMAIN work
  <2>1. todo' = Sublist(work, {i \in DOMAIN work :
                                   Matches(work[i], PublishedRecords) = {}})
    BY Zenon DEF AdmitGroup
  <2> QED BY <2>1
<1> HIDE DEF I
<1>9. Within(todo', work)
  BY <1>8, SublistWithin
<1>11. Members(todo') \subseteq Members(work) /\ Len(todo') <= Len(work)
  BY <1>9 DEF Within
<1>12. writer' = IF todo' = <<>> THEN "complete" ELSE "stage"
  BY DEF AdmitGroup
<1>13. writer = "admit"
  BY DEF AdmitGroup
<1>14. UNCHANGED <<answer, feedback, busy, work, frontier, unit, inFlight,
                   suffix, lane, released, tokens, log, durable, published,
                   frames, torn, writeFenced, notified>>
  BY DEF AdmitGroup, callerVars, intakeVars, laneVars, storeVars, fenceVars
<1> QED BY <1>6, <1>7, <1>9, <1>11, <1>12, <1>13, <1>14

\* What a sealed group leaves behind.
LEMMA DeferredFacts ==
    ASSUME PipelineAssumption, StoreInv, StageSeal
    PROVE  /\ unit' \in Units /\ unit'.kind = "Fence" /\ unit'.cmds = work
           /\ unit'.upto = Len(log') /\ unit'.results = FirstCommits(todo, Len(log))
           /\ log' = log \o todo /\ Len(log') = Len(log) + Len(todo)
           /\ Len(log) \in Nat /\ Len(todo) \in Nat \ {0}
           /\ writer = "seal" /\ writer' = "submit"
           /\ UNCHANGED <<answer, feedback, busy, work, frontier, results, todo,
                          inFlight, suffix, lane, released, tokens, durable,
                          published, torn, writeFenced, notified>>
<1> USE DEF StoreInv, Types, WriterTypes, StoreTypes
<1>1. writer = "seal" /\ todo # <<>>
  BY DEF StageSeal, Handed
<1>2. log' = log \o todo
  BY DEF StageSeal
<1>3. Len(log') = Len(log) + Len(todo) /\ Len(log) \in Nat /\ Len(todo) \in Nat \ {0}
  BY <1>1, <1>2
<1> DEFINE res == FirstCommits(todo, Len(log))
           proof == Members(work) \subseteq Proven
           n == Len(log')
<1>4. res \in Outcomes /\ proof \in BOOLEAN /\ n \in Nat
  BY <1>3, FirstCommitsFacts
<1>5. unit' = [kind |-> "Fence", cmds |-> work, upto |-> n, proof |-> proof, results |-> res]
  BY DEF StageSeal
<1> HIDE DEF res, proof, n
<1>6. /\ unit' \in Units /\ unit'.kind = "Fence" /\ unit'.cmds = work
      /\ unit'.upto = n /\ unit'.results = res
  BY <1>4, <1>5 DEF Units, UnitKinds
<1>7. writer' = "submit"
  BY DEF StageSeal
<1>8. UNCHANGED <<answer, feedback, busy, work, frontier, results, todo,
                  inFlight, suffix, lane, released, tokens, durable,
                  published, torn, writeFenced, notified>>
  BY DEF StageSeal, callerVars, intakeVars, laneVars, fenceVars
<1> QED BY <1>1, <1>2, <1>3, <1>6, <1>7, <1>8 DEF res, n

\* The unit that waits for its predecessors.
LEMMA BehindFacts ==
    ASSUME StoreInv, CompleteGroup, frontier = "WriterPrivate"
    PROVE  /\ unit' \in Units /\ unit'.kind = "AfterPredecessor" /\ unit'.cmds = work
           /\ unit'.upto = 0 /\ unit'.results = results
           /\ writer' = "submit" /\ UNCHANGED <<callerVars, lifecycle, gateClosed, notified>>
<1> USE DEF StoreInv, Types, WriterTypes
<1> DEFINE proof == Members(work) \subseteq Proven
<1>1. proof \in BOOLEAN
  OBVIOUS
<1>2. unit' = [kind |-> "AfterPredecessor", cmds |-> work, upto |-> 0,
               proof |-> proof, results |-> results]
  BY DEF CompleteGroup
<1> HIDE DEF proof
<1>3. /\ unit' \in Units /\ unit'.kind = "AfterPredecessor" /\ unit'.cmds = work
      /\ unit'.upto = 0 /\ unit'.results = results
  BY <1>1, <1>2 DEF Units, UnitKinds
<1>4. writer' = "submit" /\ UNCHANGED <<callerVars, lifecycle, gateClosed, notified>>
  BY DEF CompleteGroup
<1> QED BY <1>3, <1>4

LEMMA HandedKept ==
    ASSUME PipelineAssumption, StoreInv, [Next]_vars
    PROVE  Handed'
<1> USE DEF StoreInv, Types
<1>1. CASE Aside
  BY <1>1 DEF Aside
<1>2. CASE AdmitGroup
  BY <1>2, AdmitFacts DEF Handed
<1>3. CASE StageResolves
  BY <1>3 DEF StageResolves, NoneWon, Within, Handed
<1>4. CASE StageSeal
  BY <1>4, DeferredFacts DEF Handed
<1>15. CASE StageBegin
  <2>1. /\ UNCHANGED <<feedback, busy, work, results, todo, unit, log>>
        /\ writer = "stage" /\ writer' = "seal"
    BY <1>15 DEF StageBegin, unitVars, intakeVars, storeVars
  <2> QED BY <2>1 DEF Handed
<1>5. ASSUME NEW r \in Answers, DirectMoves(r),
             DirectKeeps(r) \/ DirectWins(r) \/ DirectRisks(r)
      PROVE  Handed'
  <2>1. /\ writer = "direct" /\ todo # <<>> /\ todo' = Tail(todo)
        /\ results' = [results EXCEPT ![Head(todo)] = r]
        /\ writer' = IF Tail(todo) = <<>> THEN "complete" ELSE "direct"
        /\ UNCHANGED <<feedback, busy, work, unit>>
    BY <1>5 DEF DirectMoves
  <2>2. Members(todo') \subseteq Members(todo) /\ Len(todo') <= Len(todo)
    BY <2>1, TailFacts DEF WriterTypes, Members
  <2>3. DOMAIN results' = DOMAIN results
    BY <2>1
  <2>4. Members(todo') \subseteq Members(work) /\ Len(todo') <= Len(work)
    BY <2>1, <2>2 DEF Handed, WriterTypes
  <2> QED BY <2>1, <2>3, <2>4 DEF Handed
<1>6. CASE DrainReady
  BY <1>6 DEF DrainReady, Handed, unitVars, intakeVars, storeVars, fenceVars
<1>7. CASE ReceiveUnit
  BY <1>7 DEF ReceiveUnit, Handed, intakeVars, storeVars, fenceVars
<1>8. CASE DrainOne
  <2>1. UNCHANGED <<feedback, busy, work, results, todo, unit, log>>
    BY <1>8 DEF DrainOne, unitVars, intakeVars, storeVars, fenceVars
  <2>2. \/ writer = "drain" /\ writer' \in {"drain", "admit"}
        \/ writer = "postdrain" /\ writer' \in {"postdrain", "feedback"}
        \/ writer = "submit" /\ writer' = "submit"
    BY <1>8 DEF DrainOne
  <2> QED BY <2>1, <2>2 DEF Handed
<1>9. CASE RejectWorkUnit
  <2>1. /\ UNCHANGED <<feedback, busy, work, results, todo, unit, log>>
        /\ writer = "admit" /\ writer' = "feedback"
    BY <1>9 DEF RejectWorkUnit, unitVars, intakeVars, storeVars, fenceVars
  <2> QED BY <2>1 DEF Handed
<1>10. CASE CompleteGroup
  <2>1. UNCHANGED <<feedback, busy, work, results, todo, log>> /\ writer = "complete"
    BY <1>10 DEF CompleteGroup, intakeVars, storeVars, fenceVars
  <2>2. CASE frontier = "WriterPrivate"
    BY <1>10, <2>1, <2>2, BehindFacts DEF Handed
  <2>3. CASE frontier # "WriterPrivate"
    <3>1. writer' = "feedback" /\ unit' = unit
      BY <1>10, <2>3 DEF CompleteGroup
    <3> QED BY <2>1, <3>1 DEF Handed
  <2> QED BY <2>2, <2>3
<1>11. CASE SubmitUnit
  <2>1. /\ UNCHANGED <<feedback, busy, work, results, todo, log>>
        /\ writer = "submit" /\ writer' \in {"feedback", "postdrain"} /\ unit' = <<>>
    BY <1>11 DEF SubmitUnit, intakeVars, storeVars, fenceVars
  <2> QED BY <2>1 DEF Handed
<1>12. CASE SendFeedback
  <2>1. /\ writer = "feedback" /\ writer' = "top" /\ work' = <<>> /\ UNCHANGED <<busy, unit>>
    BY <1>12 DEF SendFeedback, intakeVars
  <2>2. busy /\ Len(work') <= MaxGroup
    BY <2>1 DEF Handed, PipelineAssumption
  <2> QED BY <2>1, <2>2 DEF Handed
<1>13. CASE JournalFlush \/ Marks \/ CompletionFence \/ CompletionFails \/ CompletionRelease
  <2>1. UNCHANGED <<feedback, busy, work, writer, results, todo, unit, log>>
    BY <1>13 DEF JournalFlush, Marks, CompletionFence, CompletionFails, CompletionRelease,
       intakeVars, writerVars, unitVars, storeVars
  <2> QED BY <2>1 DEF Handed
<1>14. CASE CrashAndRecover
  <2>1. feedback' = FALSE /\ work' = <<>> /\ writer' = "top" /\ unit' = <<>>
    BY <1>14, Zenon DEF CrashAndRecover
  <2>2. Len(work') <= MaxGroup
    BY <2>1 DEF PipelineAssumption
  <2> QED BY <2>1, <2>2 DEF Handed
<1> QED BY <1>1, <1>2, <1>3, <1>4, <1>5, <1>6, <1>7, <1>8, <1>9, <1>10, <1>11,
           <1>12, <1>13, <1>14, <1>15, StepKinds

-----------------------------------------------------------------------------
(* The writer's accounts.                                                  *)

LEMMA AcceptFacts ==
    ASSUME StoreInv, NEW k \in 0 .. tokens, AfterAccepting(k)
    PROVE  /\ Len(inFlight') = Len(lane) + tokens' /\ Len(inFlight') = Len(inFlight) - k
           /\ inFlight' = <<>> <=> Len(inFlight) = k
           /\ inFlight' = <<>> => suffix' = 0
           /\ \A i \in DOMAIN inFlight' : inFlight'[i].n <= suffix'
           /\ suffix' <= suffix
<1> USE DEF StoreInv, Types, WriterTypes
<1>1. k \in Nat /\ tokens \in Nat /\ Len(lane) \in Nat /\ Len(inFlight) = Len(lane) + tokens
  BY DEF Room
<1>2. k \in 0 .. Len(inFlight)
  BY <1>1
<1>3. inFlight' = Drop(inFlight, k) /\ tokens' = tokens - k
  BY DEF AfterAccepting
<1>4. suffix' = IF inFlight' = <<>> THEN 0 ELSE suffix
  BY DEF AfterAccepting
<1>5. /\ inFlight' \in Seq(Tickets) /\ Len(inFlight') = Len(inFlight) - k
      /\ \A i \in DOMAIN inFlight' : k + i \in DOMAIN inFlight /\ inFlight'[i] = inFlight[k + i]
  BY <1>2, <1>3, DropFacts
<1>6. inFlight' = <<>> <=> Len(inFlight) = k
  <2>1. inFlight' = <<>> <=> Len(inFlight') = 0
    BY <1>5, EmptyFacts
  <2>2. Len(inFlight) \in Nat
    OBVIOUS
  <2> QED BY <1>1, <1>5, <2>1, <2>2
<1>7. \A i \in DOMAIN inFlight' : inFlight'[i].n <= suffix'
  <2> TAKE i \in DOMAIN inFlight'
  <2>1. k + i \in DOMAIN inFlight /\ inFlight'[i] = inFlight[k + i]
    BY <1>5
  <2>2. inFlight[k + i].n <= suffix
    BY <2>1 DEF Room
  <2>3. inFlight' # <<>>
    BY EmptyFacts
  <2> QED BY <1>4, <2>1, <2>2, <2>3
<1> QED BY <1>1, <1>3, <1>4, <1>5, <1>6, <1>7

\* Without units in the lane, and with a store that works, everything is
\* published.
LEMMA EmptyLanePublished ==
    ASSUME StoreInv, ~writeFenced, lane = <<>>, writer # "submit"
    PROVE  published = Len(log)
<1>1. Base = Len(log) /\ Len(log) \in Nat /\ published \in Nat /\ published <= Len(log)
  BY DEF StoreInv, Types, StoreTypes, Sealed, Base
<1>2. ~(published < Base)
  BY DEF StoreInv, Covered
<1> QED BY <1>1, <1>2

\* The oldest unit is published.
LEMMA FenceSteps ==
    ASSUME StoreInv, CompletionFence
    PROVE  /\ lane # <<>> /\ ~released /\ Head(lane) = lane[1] /\ lane[1] \in Units
           /\ lane[1].kind = "Fence" /\ lane[1].upto <= published'
           /\ published <= published' /\ published' <= durable /\ published' <= Len(log)
           /\ published' \in Nat
           /\ published' = published \/ published' = lane[1].upto
<1> USE DEF StoreInv, Types, WriterTypes, StoreTypes
<1>1. AtFence /\ Publishable(Head(lane))
  BY Zenon DEF CompletionFence
<1>2. lane # <<>> /\ ~released /\ Head(lane) = lane[1] /\ lane[1] \in Units /\ lane[1].kind = "Fence"
  BY <1>1 DEF AtFence
<1>3. lane[1].upto \in Nat
  BY <1>2 DEF Units
<1>4. published' = IF lane[1].upto > published THEN lane[1].upto ELSE published
  BY <1>2 DEF CompletionFence
<1>5. lane[1].upto <= published \/ lane[1].upto <= durable
  BY <1>1, <1>2 DEF Publishable
<1>6. published \in Nat /\ durable \in Nat /\ Len(log) \in Nat /\ published <= durable /\ durable <= Len(log)
  BY DEF Sealed
<1>7. /\ lane[1].upto <= published' /\ published <= published' /\ published' <= durable
      /\ published' <= Len(log)
      /\ published' \in Nat /\ (published' = published \/ published' = lane[1].upto)
  <2> HIDE DEF StoreInv, Types, WriterTypes, StoreTypes
  <2> DEFINE u == lane[1].upto
             n == Len(log)
  <2>1. /\ u \in Nat /\ published' = IF u > published THEN u ELSE published
        /\ u <= published \/ u <= durable
        /\ published \in Nat /\ durable \in Nat /\ n \in Nat /\ published <= durable /\ durable <= n
    BY <1>3, <1>4, <1>5, <1>6
  <2> HIDE DEF u, n
  <2>2. /\ u <= published' /\ published <= published' /\ published' <= durable
        /\ published' <= n
        /\ published' \in Nat /\ (published' = published \/ published' = u)
    BY <2>1
  <2> QED BY <2>2 DEF u, n
<1> QED BY <1>2, <1>7

\* The oldest unit fails.
LEMMA FailSteps ==
    ASSUME StoreInv, CompletionFails
    PROVE  /\ lane # <<>> /\ ~released /\ lane[1] \in Units /\ Failing(lane[1]) \in Units
           /\ lane[1].kind = "Fence" /\ lane' = <<Failing(lane[1])>> \o Tail(lane)
           /\ Len(lane') = Len(lane) /\ writeFenced
<1> USE DEF StoreInv, Types, WriterTypes
<1>1. AtFence /\ writeFenced /\ lane' = <<Failing(Head(lane))>> \o Tail(lane)
  BY Zenon DEF CompletionFails
<1>2. lane # <<>> /\ ~released /\ Head(lane) = lane[1] /\ lane[1] \in Units /\ lane[1].kind = "Fence"
  BY <1>1 DEF AtFence
<1>3. Failing(lane[1]) \in Units
  BY <1>2, FailingFacts
<1>4. Tail(lane) \in Seq(Units) /\ Len(Tail(lane)) = Len(lane) - 1
  BY <1>2
<1>5. Len(lane') = Len(lane)
  BY <1>1, <1>2, <1>3, <1>4
<1> QED BY <1>1, <1>2, <1>3, <1>5

LEMMA RoomKept ==
    ASSUME PipelineAssumption, StoreInv, [Next]_vars
    PROVE  Room'
<1> USE DEF StoreInv, Types, WriterTypes, StoreTypes
<1>1. CASE Aside
  BY <1>1 DEF Aside, Room, writerVars, unitVars, laneVars, storeVars, fenceVars
<1>2. CASE AdmitGroup
  <2>1. /\ writer = "admit" /\ writer' \in {"complete", "stage"}
        /\ UNCHANGED <<work, frontier, inFlight, suffix, lane, tokens, log, published>>
    BY <1>2, AdmitFacts
  <2>3. frontier = "Published" => lane = <<>>
    <3>1. Len(inFlight) = Len(lane) + tokens /\ Len(lane) \in Nat /\ tokens \in Nat
      BY DEF Room
    <3>2. frontier = "Published" => Len(inFlight) = 0
      BY <2>1 DEF Room
    <3>3. lane = <<>> <=> Len(lane) = 0
      BY EmptyFacts
    <3> QED BY <3>1, <3>2, <3>3
  <2>2. frontier = "Published" => ~writeFenced
    <3>1. ~Halted
      BY <1>2 DEF AdmitGroup
    <3> QED BY <2>3, <3>1 DEF Halting, Doomed
  <2>4. frontier = "Published" => published = Len(log)
    BY <2>1, <2>2, <2>3, EmptyLanePublished
  <2> QED BY <2>1, <2>4 DEF Room
<1>3. CASE StageResolves
  BY <1>3 DEF StageResolves, Room, laneVars
<1>4. CASE StageSeal
  BY <1>4, DeferredFacts DEF Room
<1>17. CASE StageBegin
  <2>1. writer = "stage" /\ writer' = "seal" /\ UNCHANGED <<work, inFlight, suffix, lane, tokens>>
    BY <1>17 DEF StageBegin, laneVars
  <2> QED BY <2>1 DEF Room
<1>5. ASSUME NEW r \in Answers, DirectMoves(r) PROVE Room'
  BY <1>5 DEF DirectMoves, Room, laneVars
<1>6. CASE DrainReady
  <2>1. AfterAccepting(tokens) /\ writer' = "recv" /\ UNCHANGED lane
    BY <1>6 DEF DrainReady, laneVars
  <2>2. tokens \in 0 .. tokens
    OBVIOUS
  <2>3. suffix' <= suffix /\ suffix' \in Nat
    BY <2>1, <2>2, AcceptFacts, TypesKept
  <2> QED BY <2>1, <2>2, <2>3, AcceptFacts DEF Room, PipelineAssumption
<1>7. CASE ReceiveUnit
  <2>1. /\ writer' = IF MustDrain THEN "drain" ELSE "admit"
        /\ frontier' = IF MustDrain \/ inFlight = <<>> THEN "Published" ELSE "WriterPrivate"
        /\ UNCHANGED <<work, inFlight, suffix, lane, tokens>>
    BY <1>7 DEF ReceiveUnit, laneVars
  <2>2. inFlight = <<>> => ~MustDrain
    BY DEF MustDrain, PipelineEligible, Room, Handed, PipelineAssumption
  <2>3. ~MustDrain => suffix + Len(work) <= MaxGroup
    BY DEF MustDrain, PipelineAssumption
  <2> QED BY <2>1, <2>2, <2>3 DEF Room
<1>8. CASE DrainOne
  <2>1. /\ tokens > 0 /\ AfterAccepting(1) /\ UNCHANGED <<work, frontier, lane, log, published>>
    BY <1>8 DEF DrainOne, unitVars, laneVars, storeVars, fenceVars
  <2>2. /\ writer = "drain" => writer' = IF Len(inFlight) = 1 THEN "admit" ELSE "drain"
        /\ writer # "drain" => writer' \in {"postdrain", "feedback", "submit"}
        /\ writer' = "submit" => writer = "submit"
    BY <1>8 DEF DrainOne
  <2>3. 1 \in 0 .. tokens
    BY <2>1
  <2>4. /\ Len(inFlight') = Len(lane) + tokens' /\ Len(inFlight') = Len(inFlight) - 1
        /\ inFlight' = <<>> <=> Len(inFlight) = 1
        /\ inFlight' = <<>> => suffix' = 0
        /\ \A i \in DOMAIN inFlight' : inFlight'[i].n <= suffix'
        /\ suffix' <= suffix
    BY <2>1, <2>3, AcceptFacts
  <2>5. suffix' \in Nat /\ suffix \in Nat /\ suffix <= MaxGroup /\ MaxGroup \in Nat /\ Len(work) \in Nat
    BY TypesKept DEF Room, PipelineAssumption
  <2>6. suffix' <= MaxGroup
    BY <2>4, <2>5
  <2>7. CASE writer = "drain"
    <3>1. writer' \in {"admit", "drain"} /\ frontier' = "Published"
      BY <2>1, <2>2, <2>7 DEF Room
    <3>2. writer' = "admit" => inFlight' = <<>> /\ suffix' = 0
      BY <2>2, <2>4, <2>7
    <3>3. writer' = "admit" => suffix' + Len(work') <= MaxGroup
      BY <2>1, <2>5, <3>2 DEF Handed
    <3>4. writer' = "drain" => inFlight' # <<>>
      BY <2>2, <2>4, <2>7
    <3> QED BY <2>1, <2>4, <2>6, <3>1, <3>2, <3>3, <3>4 DEF Room
  <2>8. CASE writer # "drain"
    <3>1. writer' = "submit" => suffix' + Len(work') <= MaxGroup
      BY <2>1, <2>2, <2>4, <2>5 DEF Room
    <3> QED BY <2>1, <2>2, <2>4, <2>6, <2>8, <3>1 DEF Room
  <2> QED BY <2>7, <2>8
<1>9. CASE RejectWorkUnit
  <2>1. writer' = "feedback" /\ UNCHANGED <<inFlight, suffix, lane, tokens>>
    BY <1>9 DEF RejectWorkUnit, laneVars
  <2> QED BY <2>1 DEF Room
<1>10. CASE CompleteGroup
  <2>1. UNCHANGED <<work, inFlight, suffix, lane, tokens>> /\ writer = "complete"
    BY <1>10 DEF CompleteGroup, laneVars
  <2>2. writer' \in {"submit", "feedback"}
    BY <1>10 DEF CompleteGroup
  <2> QED BY <2>1, <2>2 DEF Room
<1>11. CASE SubmitUnit
  <2> DEFINE n == IF unit.kind = "Fence" THEN Len(unit.cmds) ELSE 0
             e == [n |-> n, proof |-> unit.proof]
  <2>1. /\ writer = "submit" /\ writer' \in {"feedback", "postdrain"}
        /\ inFlight' = Append(inFlight, e) /\ suffix' = suffix + n
        /\ lane' = Append(lane, unit) /\ UNCHANGED tokens
    BY <1>11 DEF SubmitUnit
  <2>2. unit \in Units /\ unit.cmds = work
    BY <2>1 DEF Handed
  <2>3. n \in Nat /\ n <= Len(work) /\ unit.proof \in BOOLEAN
    BY <2>2 DEF Units
  <2>4. e \in Tickets /\ e.n = n
    BY <2>3 DEF Tickets
  <2> HIDE DEF e, n
  <2>5. suffix' <= MaxGroup /\ suffix <= suffix' /\ n <= suffix'
    BY <2>1, <2>3 DEF Room, PipelineAssumption
  <2>6. /\ inFlight' # <<>> /\ Len(inFlight') = Len(inFlight) + 1
        /\ DOMAIN inFlight' = 1 .. Len(inFlight) + 1
        /\ \A i \in DOMAIN inFlight : inFlight'[i] = inFlight[i]
        /\ inFlight'[Len(inFlight) + 1] = e
    <3> DEFINE s == Append(inFlight, e)
    <3>1. /\ s # <<>> /\ Len(s) = Len(inFlight) + 1 /\ DOMAIN s = 1 .. Len(inFlight) + 1
          /\ \A i \in DOMAIN inFlight : s[i] = inFlight[i]
          /\ s[Len(inFlight) + 1] = e
      BY <2>4, AppendFacts
    <3>2. inFlight' = s
      BY <2>1
    <3> HIDE DEF s
    <3> QED BY <3>1, <3>2, Zenon
  <2>7. Len(lane') = Len(lane) + 1
    BY <2>1, <2>2
  <2>8. \A i \in DOMAIN inFlight' : inFlight'[i].n <= suffix'
    <3> TAKE i \in DOMAIN inFlight'
    <3>1. CASE i \in DOMAIN inFlight
      <4>1. inFlight[i] \in Tickets
        BY <3>1
      <4>2. inFlight[i].n \in Nat /\ inFlight[i].n <= suffix
        BY <3>1, <4>1 DEF Tickets, Room
      <4> QED BY <2>1, <2>3, <2>5, <2>6, <3>1, <4>2
    <3>2. CASE i \notin DOMAIN inFlight
      <4>1. i = Len(inFlight) + 1
        BY <2>6, <3>2
      <4> QED BY <2>4, <2>5, <2>6, <4>1
    <3> QED BY <3>1, <3>2
  <2>9. Len(inFlight') = Len(lane') + tokens'
    BY <2>1, <2>6, <2>7 DEF Room
  <2> QED BY <2>1, <2>5, <2>6, <2>8, <2>9 DEF Room
<1>12. CASE SendFeedback
  <2>1. writer' = "top" /\ UNCHANGED <<inFlight, suffix, lane, tokens>>
    BY <1>12 DEF SendFeedback, laneVars
  <2> QED BY <2>1 DEF Room
<1>13. CASE JournalFlush \/ Marks
  <2>1. UNCHANGED <<writerVars, work, lane, tokens, log, published>>
    BY <1>13 DEF JournalFlush, Marks, laneVars
  <2> QED BY <2>1 DEF Room, writerVars, unitVars
<1>14. CASE CompletionFence
  <2>1. UNCHANGED <<writerVars, work, lane, tokens, log>>
    BY <1>14 DEF CompletionFence
  <2>2. published <= published' /\ published' <= Len(log) /\ published' \in Nat
    BY <1>14, FenceSteps
  <2>3. published = Len(log) => published' = published
    BY <2>2
  <2> QED BY <2>1, <2>3 DEF Room, writerVars, unitVars
<1>18. CASE CompletionFails
  <2>1. UNCHANGED <<writerVars, work, tokens, log, published>>
    BY <1>18 DEF CompletionFails, storeVars
  <2>2. Len(lane') = Len(lane)
    BY <1>18, FailSteps
  <2> QED BY <2>1, <2>2 DEF Room, writerVars, unitVars
<1>15. CASE CompletionRelease
  <2>1. /\ lane # <<>> /\ lane' = Tail(lane) /\ tokens' = tokens + 1
        /\ UNCHANGED <<writerVars, work, log, published>>
    BY <1>15, Zenon DEF CompletionRelease, storeVars, fenceVars
  <2>2. Len(lane') + tokens' = Len(lane) + tokens
    BY <2>1
  <2> QED BY <2>1, <2>2 DEF Room, writerVars, unitVars
<1>16. CASE CrashAndRecover
  <2>1. /\ writer' = "top" /\ inFlight' = <<>> /\ suffix' = 0 /\ lane' = <<>> /\ tokens' = 0
    BY <1>16, Zenon DEF CrashAndRecover
  <2> QED BY <2>1 DEF Room, PipelineAssumption
<1> QED BY <1>1, <1>2, <1>3, <1>4, <1>5, <1>6, <1>7, <1>8, <1>9, <1>10, <1>11,
           <1>12, <1>13, <1>14, <1>15, <1>16, <1>17, <1>18, StepKinds

-----------------------------------------------------------------------------
(* Unpublished records are covered by the lane.                            *)

\* Publishing more, with the same records and the same lane.
LEMMA CoveredSame ==
    ASSUME StoreInv, Base' = Base, published <= published', published' \in Nat,
           writeFenced => writeFenced', UNCHANGED <<log, suffix>>,
           lane' = lane \/ writeFenced', writer' = "seal" => writer = "seal" \/ ~writeFenced
    PROVE  Covered'
<1>1. published \in Nat /\ suffix \in Nat /\ Len(log) \in Nat /\ Base \in Int
  <2>1. writer = "submit" => Len(todo) \in Nat
    BY DEF StoreInv, Types, WriterTypes
  <2> QED BY <2>1 DEF StoreInv, Types, WriterTypes, StoreTypes, Base
<1>2. ~writeFenced' => ~writeFenced
  OBVIOUS
<1>3. published' < Base' => published < Base
  BY <1>1
<1>4. ~writeFenced' \/ writer' = "seal" => Base' <= published' + suffix'
  <2>1. ~writeFenced' \/ writer' = "seal" => Base <= published + suffix
    <3>1. ~writeFenced' \/ writer' = "seal" => ~writeFenced \/ writer = "seal"
      OBVIOUS
    <3> QED BY <3>1 DEF StoreInv, Covered
  <2>2. suffix' = suffix /\ Base' = Base
    OBVIOUS
  <2>3. Base <= published + suffix => Base <= published' + suffix
    <3> DEFINE b == Base
               p == published'
    <3>1. b \in Int /\ p \in Nat /\ published <= p
      BY <1>1
    <3> HIDE DEF b, p
    <3>2. b <= published + suffix => b <= p + suffix
      BY <1>1, <3>1
    <3> QED BY <3>2 DEF b, p
  <2> QED BY <1>2, <2>1, <2>2, <2>3
<1>5. Len(log') <= published' + MaxGroup
  BY <1>1, PipelineAssumption DEF StoreInv, Covered, PipelineAssumption
<1>6. ~writeFenced' /\ published' < Base' =>
          \E i \in DOMAIN lane' : lane'[i].kind = "Fence" /\ lane'[i].upto = Base'
  BY <1>2, <1>3 DEF StoreInv, Covered
<1> QED BY <1>4, <1>5, <1>6 DEF Covered

\* Completions accepted by the writer.
LEMMA CoveredAccepted ==
    ASSUME StoreInv, NEW k \in 0 .. tokens, AfterAccepting(k), tokens' \in Nat, Base' = Base,
           writer' # "seal", UNCHANGED <<log, published, lane, writeFenced>>
    PROVE  Covered'
<1> USE DEF StoreInv, Types, WriterTypes, StoreTypes
<1>1. CASE inFlight' = <<>>
  <2>1. suffix' = 0 /\ Len(inFlight') = Len(lane) + tokens'
    BY <1>1, AcceptFacts
  <2>2. Len(inFlight') = 0 /\ Len(lane) \in Nat
    BY <1>1
  <2>3. lane = <<>>
    <3> DEFINE n == Len(lane)
               m == tokens'
    <3>1. n \in Nat /\ m \in Nat /\ n + m = 0
      BY <2>1, <2>2
    <3>2. n = 0
      <4> HIDE DEF n, m
      <4> QED BY <3>1
    <3> QED BY <3>2, EmptyFacts
  <2>4. ~writeFenced => ~(published < Base)
    BY <2>3 DEF Covered
  <2>5. Base \in Int
    BY DEF Base
  <2>6. ~writeFenced => Base <= published + suffix'
    BY <2>1, <2>4, <2>5
  <2> QED BY <2>6 DEF Covered
<1>2. CASE inFlight' # <<>>
  <2>1. suffix' = suffix
    BY <1>2 DEF AfterAccepting
  <2>2. published' \in Nat /\ published <= published'
    OBVIOUS
  <2> QED BY <2>1, <2>2, CoveredSame
<1> QED BY <1>1, <1>2

LEMMA CoveredKept ==
    ASSUME PipelineAssumption, StoreInv, [Next]_vars
    PROVE  Covered'
<1> USE DEF StoreInv, Types, WriterTypes, StoreTypes
<1>1. ASSUME writer # "submit", writer' # "submit", UNCHANGED log PROVE Base' = Base
  BY <1>1 DEF Base
<1>2. published' \in Nat /\ tokens' \in Nat /\ published \in Nat /\ Len(log) \in Nat
  BY TypesKept
<1>3. CASE Aside
  <2>1. UNCHANGED <<writer, unit, todo, log, published, lane, suffix, writeFenced>>
    BY <1>3 DEF Aside, writerVars, unitVars, laneVars, storeVars, fenceVars
  <2>2. Base' = Base
    BY <2>1 DEF Base
  <2> QED BY <1>2, <2>1, <2>2, CoveredSame
<1>20. CASE StageBegin
  <2>1. /\ writer = "stage" /\ writer' = "seal" /\ ~writeFenced
        /\ UNCHANGED <<log, published, lane, suffix, writeFenced>>
    BY <1>20 DEF StageBegin, laneVars, storeVars, fenceVars
  <2> QED BY <1>1, <1>2, <2>1, CoveredSame
<1>4. CASE AdmitGroup
  <2>1. /\ writer = "admit" /\ writer' \in {"complete", "stage"}
        /\ UNCHANGED <<log, published, lane, suffix, writeFenced>>
    BY <1>4, AdmitFacts
  <2> QED BY <1>1, <1>2, <2>1, CoveredSame
<1>5. CASE StageResolves
  <2>1. /\ writer # "submit" /\ writer' \in {"complete", "direct"}
        /\ UNCHANGED <<log, published, lane, suffix>> /\ (writeFenced => writeFenced')
    BY <1>5 DEF StageResolves, laneVars, Fences, FenceStore
  <2> QED BY <1>1, <1>2, <2>1, CoveredSame
<1>6. CASE StageSeal
  <2>1. /\ writer = "seal" /\ writer' = "submit" /\ unit'.kind = "Fence"
        /\ Len(log') = Len(log) + Len(todo) /\ Len(todo) \in Nat
        /\ UNCHANGED <<todo, published, lane, suffix, writeFenced>>
    BY <1>6, DeferredFacts
  <2>2. Base = Len(log) /\ Base' = Len(log)
    BY <1>2, <2>1 DEF Base
  <2>3. Len(log) <= published + suffix
    BY <2>1, <2>2 DEF Covered
  <2>4. suffix + Len(todo) <= MaxGroup
    BY <2>1 DEF Room, Handed, PipelineAssumption
  <2>5. Len(log') <= published' + MaxGroup
    BY <1>2, <2>1, <2>3, <2>4 DEF PipelineAssumption
  <2>6. Base' = Base /\ published' = published /\ lane' = lane
    BY <2>1, <2>2
  <2> QED BY <2>1, <2>5, <2>6 DEF Covered
<1>7. ASSUME NEW r \in Answers, DirectMoves(r)
      PROVE  writer # "submit" /\ writer' \notin {"submit", "seal"}
  BY <1>7 DEF DirectMoves
<1>8. ASSUME NEW r \in Answers, DirectMoves(r), DirectKeeps(r) PROVE Covered'
  <2>1. /\ UNCHANGED <<log, lane, suffix>> /\ published <= published'
        /\ (writeFenced => writeFenced')
    BY <1>8 DEF DirectMoves, DirectKeeps, laneVars, Fences, FenceStore
  <2> QED BY <1>1, <1>2, <1>7, <1>8, <2>1, CoveredSame
<1>9. ASSUME NEW r \in Answers, DirectMoves(r), DirectWins(r) PROVE Covered'
  <2>1. Head(todo) \in Commands
    BY <1>9 DEF DirectMoves
  <2>2. Len(log') = Len(log) + 1 /\ published' = Len(log) + 1
    BY <1>9, <2>1 DEF DirectWins
  <2>3. Base' = Len(log')
    BY <1>7, <1>9 DEF Base
  <2>4. suffix' \in Nat
    BY TypesKept
  <2> QED BY <1>2, <2>2, <2>3, <2>4 DEF Covered, PipelineAssumption
<1>10. ASSUME NEW r \in Answers, DirectMoves(r), DirectRisks(r) PROVE Covered'
  <2>1. Head(todo) \in Commands
    BY <1>10 DEF DirectMoves
  <2>2. Len(log') = Len(log) + 1 /\ published' = Len(log) /\ writeFenced'
    BY <1>10, <2>1 DEF DirectRisks
  <2> QED BY <1>2, <1>7, <1>10, <2>2 DEF Covered, PipelineAssumption
<1>11. CASE DrainReady
  <2>1. /\ AfterAccepting(tokens) /\ writer = "top" /\ writer' = "recv"
        /\ UNCHANGED <<log, published, lane, writeFenced>>
    BY <1>11 DEF DrainReady, laneVars, storeVars, fenceVars
  <2>2. tokens \in 0 .. tokens
    OBVIOUS
  <2> QED BY <1>1, <1>2, <2>1, <2>2, CoveredAccepted
<1>12. CASE DrainOne
  <2>1. /\ AfterAccepting(1) /\ tokens > 0
        /\ UNCHANGED <<unit, todo, log, published, lane, writeFenced>>
    BY <1>12 DEF DrainOne, unitVars, laneVars, storeVars, fenceVars
  <2>2. (writer' = "submit" <=> writer = "submit") /\ writer' # "seal"
    BY <1>12 DEF DrainOne
  <2>3. Base' = Base
    BY <2>1, <2>2 DEF Base
  <2>4. 1 \in 0 .. tokens
    BY <2>1
  <2> QED BY <1>2, <2>1, <2>2, <2>3, <2>4, CoveredAccepted
<1>13. CASE ReceiveUnit \/ RejectWorkUnit \/ SendFeedback
  <2>1. /\ writer # "submit" /\ writer' \notin {"submit", "seal"}
        /\ UNCHANGED <<log, published, lane, suffix, writeFenced>>
    BY <1>13 DEF ReceiveUnit, RejectWorkUnit, SendFeedback, laneVars, storeVars, fenceVars
  <2> QED BY <1>1, <1>2, <2>1, CoveredSame
<1>14. CASE CompleteGroup
  <2>1. /\ writer = "complete" /\ UNCHANGED <<log, published, lane, suffix, writeFenced>>
        /\ writer' # "seal"
    BY <1>14 DEF CompleteGroup, laneVars, storeVars, fenceVars
  <2>2. Base' = Base
    <3>1. CASE frontier = "WriterPrivate"
      BY <1>14, <2>1, <3>1, BehindFacts DEF Base
    <3>2. CASE frontier # "WriterPrivate"
      <4>1. writer' = "feedback"
        BY <1>14, <3>2 DEF CompleteGroup
      <4> QED BY <1>1, <2>1, <4>1
    <3> QED BY <3>1, <3>2
  <2> QED BY <1>2, <2>1, <2>2, CoveredSame
<1>15. CASE SubmitUnit
  <2>1. /\ writer = "submit" /\ writer' \notin {"submit", "seal"} /\ lane' = Append(lane, unit)
        /\ suffix' = suffix + IF unit.kind = "Fence" THEN Len(unit.cmds) ELSE 0
        /\ UNCHANGED <<log, published, writeFenced>>
    BY <1>15 DEF SubmitUnit, storeVars, fenceVars
  <2>2. unit \in Units /\ unit.cmds = work /\ (unit.kind = "Fence" => unit.upto = Len(log))
    BY <2>1 DEF Handed
  <2>3. /\ DOMAIN lane' = 1 .. Len(lane) + 1 /\ Len(lane) \in Nat
        /\ \A i \in DOMAIN lane : lane'[i] = lane[i]
        /\ lane'[Len(lane) + 1] = unit
    BY <2>1, <2>2
  <2>4. Base' = Len(log)
    BY <2>1 DEF Base
  <2>5. CASE unit.kind = "Fence"
    <3>1. Base = Len(log) - Len(todo) /\ Len(todo) \in Nat /\ Len(todo) <= Len(work)
      BY <2>1, <2>5 DEF Base, Handed
    <3>2. suffix' = suffix + Len(work) /\ Len(work) \in Nat
      BY <2>1, <2>2, <2>5
    <3>3. ~writeFenced => Base <= published + suffix
      BY DEF Covered
    <3>4. ~writeFenced => Base' <= published' + suffix'
      BY <1>2, <2>1, <2>4, <3>1, <3>2, <3>3, SMTT(30)
    <3>5. \E i \in DOMAIN lane' : lane'[i].kind = "Fence" /\ lane'[i].upto = Base'
      <4>1. Len(lane) + 1 \in DOMAIN lane'
        BY <2>3
      <4> QED BY <2>2, <2>3, <2>4, <2>5, <4>1
    <3>6. Len(log') <= published' + MaxGroup
      BY <2>1 DEF Covered
    <3> QED BY <2>1, <3>4, <3>5, <3>6 DEF Covered
  <2>6. CASE unit.kind # "Fence"
    <3>1. Base = Len(log)
      BY <2>6 DEF Base
    <3>2. suffix' = suffix
      BY <2>1, <2>6
    <3>3. \A i \in DOMAIN lane : i \in DOMAIN lane' /\ lane'[i] = lane[i]
      BY <2>3
    <3>4. ~writeFenced' /\ published' < Base' =>
              \E i \in DOMAIN lane' : lane'[i].kind = "Fence" /\ lane'[i].upto = Base'
      BY <2>1, <2>4, <3>1, <3>3 DEF Covered
    <3>5. ~writeFenced' => Base' <= published' + suffix'
      BY <2>1, <2>4, <3>1, <3>2 DEF Covered
    <3>6. Len(log') <= published' + MaxGroup
      BY <2>1 DEF Covered
    <3> QED BY <2>1, <3>4, <3>5, <3>6 DEF Covered
  <2> QED BY <2>5, <2>6
<1>16. CASE JournalFlush \/ Marks
  <2>1. UNCHANGED <<writer, unit, todo, log, published, lane, suffix>>
    BY <1>16 DEF JournalFlush, Marks, writerVars, unitVars, laneVars
  <2>2. Base' = Base
    BY <2>1 DEF Base
  <2>3. writeFenced => writeFenced'
    BY <1>16 DEF JournalFlush, Marks, fenceVars, FenceStore
  <2> QED BY <1>2, <2>1, <2>2, <2>3, CoveredSame
<1>17. CASE CompletionFence
  <2>1. UNCHANGED <<writer, unit, todo, log, suffix, lane, writeFenced>>
    BY <1>17 DEF CompletionFence, writerVars, unitVars, fenceVars
  <2>2. Base' = Base
    BY <2>1 DEF Base
  <2>3. published <= published'
    BY <1>17, FenceSteps
  <2> QED BY <1>2, <2>1, <2>2, <2>3, CoveredSame
<1>21. CASE CompletionFails
  <2>1. UNCHANGED <<writer, unit, todo, log, suffix, published, writeFenced>> /\ writeFenced
    BY <1>21 DEF CompletionFails, writerVars, unitVars, storeVars, fenceVars
  <2>2. Base' = Base
    BY <2>1 DEF Base
  <2> QED BY <1>2, <2>1, <2>2, CoveredSame
<1>18. CASE CompletionRelease
  <2>1. /\ lane # <<>> /\ lane' = Tail(lane) /\ (released \/ Head(lane).kind = "AfterPredecessor")
        /\ UNCHANGED <<writer, unit, todo, suffix, log, published, writeFenced>>
    BY <1>18, Zenon DEF CompletionRelease, writerVars, unitVars, storeVars, fenceVars
  <2>2. Base' = Base
    BY <2>1 DEF Base
  <2>3. /\ Head(lane) = lane[1] /\ DOMAIN lane = 1 .. Len(lane) /\ Len(lane) \in Nat
        /\ DOMAIN lane' = 1 .. Len(lane) - 1
        /\ \A i \in DOMAIN lane' : lane'[i] = lane[i + 1]
    BY <2>1
  <2>4. ASSUME ~writeFenced, published < Base
        PROVE  \E i \in DOMAIN lane' : lane'[i].kind = "Fence" /\ lane'[i].upto = Base
    <3>1. PICK i \in DOMAIN lane : lane[i].kind = "Fence" /\ lane[i].upto = Base
      BY <2>4 DEF Covered
    <3>2. i # 1
      <4>1. ASSUME i = 1 PROVE FALSE
        <5>1. released
          BY <2>1, <2>3, <3>1, <4>1
        <5>2. Base <= published
          BY <2>4, <3>1, <4>1, <5>1 DEF Carried
        <5>3. Base \in Int
          BY DEF Base
        <5> QED BY <1>2, <2>4, <5>2, <5>3
      <4> QED BY <4>1
    <3>3. i - 1 \in DOMAIN lane' /\ lane'[i - 1] = lane[i]
      <4>1. i \in Nat /\ i - 1 \in 1 .. Len(lane) - 1 /\ (i - 1) + 1 = i
        BY <2>3, <3>2
      <4> QED BY <2>3, <4>1
    <3> QED BY <3>1, <3>3
  <2> QED BY <2>1, <2>2, <2>4 DEF Covered
<1>19. CASE CrashAndRecover
  <2>1. PICK n \in Recoverable : log' = SubSeq(log, 1, n) /\ published' = n
    BY <1>19 DEF CrashAndRecover
  <2>2. n \in 0 .. Len(log)
    BY DEF Recoverable, Sealed
  <2>3. writer' = "top" /\ suffix' = 0
    BY <1>19, Zenon DEF CrashAndRecover
  <2>4. Len(log') = n /\ n \in Nat
    BY <2>1, <2>2
  <2>5. Base' = n
    BY <2>3, <2>4 DEF Base
  <2> QED BY <2>1, <2>3, <2>4, <2>5 DEF Covered, PipelineAssumption
<1> QED BY <1>3, <1>4, <1>5, <1>6, <1>8, <1>9, <1>10, <1>11, <1>12, <1>13, <1>14,
           <1>15, <1>16, <1>17, <1>18, <1>19, <1>20, <1>21, StepKinds

-----------------------------------------------------------------------------
(* First commits on their way to their callers.                            *)

\* Records are only added, published and made durable.
Grows ==
    /\ published <= published' /\ durable <= durable' /\ Len(log) <= Len(log')
    /\ \A i \in 1 .. Len(log) : log'[i] = log[i]

LEMMA GrowSteps ==
    ASSUME PipelineAssumption, StoreInv, [Next]_vars
    PROVE  Grows \/ CrashAndRecover
<1> USE DEF StoreInv, Types, WriterTypes, StoreTypes
<1>1. CASE UNCHANGED <<log, durable, published>>
  BY <1>1 DEF Grows
<1>2. CASE \/ Aside \/ AdmitGroup \/ StageResolves \/ StageBegin \/ DrainReady
           \/ ReceiveUnit \/ DrainOne \/ RejectWorkUnit \/ CompleteGroup \/ SubmitUnit
           \/ SendFeedback \/ Marks \/ CompletionFails \/ CompletionRelease
  <2>1. UNCHANGED <<log, durable, published>>
    BY <1>2 DEF Aside, AdmitGroup, StageResolves, StageBegin, DrainReady, ReceiveUnit,
       DrainOne, RejectWorkUnit, CompleteGroup, SubmitUnit, SendFeedback, Marks,
       CompletionFails, CompletionRelease, storeVars
  <2> QED BY <1>1, <2>1
<1>3. CASE StageSeal
  <2>1. /\ log' = log \o todo /\ Len(log') = Len(log) + Len(todo) /\ Len(log) \in Nat
        /\ Len(todo) \in Nat /\ UNCHANGED <<durable, published>>
    BY <1>3, DeferredFacts
  <2>2. \A i \in 1 .. Len(log) : log'[i] = log[i]
    BY <2>1
  <2> QED BY <2>1, <2>2 DEF Grows
<1>4. ASSUME NEW r \in Answers, DirectMoves(r), DirectKeeps(r) PROVE Grows
  BY <1>4 DEF DirectKeeps, Grows
<1>5. ASSUME NEW r \in Answers, DirectMoves(r), DirectWins(r) \/ DirectRisks(r) PROVE Grows
  <2>1. Head(todo) \in Commands
    BY <1>5 DEF DirectMoves
  <2>2. log' = Append(log, Head(todo)) /\ published <= published' /\ durable <= durable'
    BY <1>5, SMTT(30) DEF DirectWins, DirectRisks, Sealed
  <2> QED BY <2>1, <2>2 DEF Grows
<1>6. CASE JournalFlush
  <2>1. PICK k \in DOMAIN frames : durable' = frames[k]
    BY <1>6 DEF JournalFlush
  <2>2. UNCHANGED <<log, published>>
    BY <1>6 DEF JournalFlush
  <2>3. durable <= durable'
    BY <2>1 DEF Sealed
  <2> QED BY <2>2, <2>3 DEF Grows
<1>7. CASE CompletionFence
  <2>1. UNCHANGED <<log, durable>>
    BY <1>7 DEF CompletionFence
  <2>2. published <= published'
    BY <1>7, FenceSteps
  <2> QED BY <2>1, <2>2 DEF Grows
<1> QED BY <1>2, <1>3, <1>4, <1>5, <1>6, <1>7, StepKinds

LEMMA TruthKept ==
    ASSUME NEW res, NEW n \in Nat, NEW m \in Nat, NEW s, NEW t, n <= m,
           \A i \in 1 .. n : t[i] = s[i], Truthful(res, n, s)
    PROVE  Truthful(res, m, t)
BY DEF Truthful

LEMMA FaithKept ==
    ASSUME NEW u \in Units, NEW n \in Nat, NEW m \in Nat,
           NEW s \in Seq(Commands), NEW t \in Seq(Commands), n <= m, n <= Len(s),
           Len(s) <= Len(t), \A i \in 1 .. Len(s) : t[i] = s[i], Faithful(u, n, s)
    PROVE  Faithful(u, m, t)
<1> DEFINE a == IF u.kind = "Fence" THEN u.upto ELSE n
           b == IF u.kind = "Fence" THEN u.upto ELSE m
<1>1. u.upto \in Nat /\ Len(s) \in Nat /\ Len(t) \in Nat
  BY DEF Units
<1>2. a \in Nat /\ b \in Nat /\ a <= b /\ a <= Len(s)
  BY <1>1 DEF Faithful
<1>3. Truthful(u.results, a, s)
  BY DEF Faithful
<1>4. \A i \in 1 .. a : t[i] = s[i]
  BY <1>1, <1>2
<1> HIDE DEF a, b
<1>5. Truthful(u.results, b, t)
  BY <1>2, <1>3, <1>4, TruthKept
<1> QED BY <1>1, <1>5 DEF Faithful, b

LEMMA GrowTruth ==
    ASSUME PipelineAssumption, StoreInv, [Next]_vars, Grows
    PROVE  /\ \A res : Truthful(res, published, log) => Truthful(res, published', log')
           /\ \A res : Truthful(res, durable, log) => Truthful(res, durable', log')
           /\ \A u \in Units : Faithful(u, published, log) => Faithful(u, published', log')
<1>1. /\ published \in Nat /\ durable \in Nat /\ log \in Seq(Commands)
      /\ published <= durable /\ durable <= Len(log)
  BY DEF StoreInv, Types, StoreTypes, Sealed
<1>2. published' \in Nat /\ durable' \in Nat /\ log' \in Seq(Commands)
  BY TypesKept DEF Types, StoreTypes
<1>3. /\ published <= published' /\ durable <= durable' /\ Len(log) <= Len(log')
      /\ \A i \in 1 .. Len(log) : log'[i] = log[i]
  BY DEF Grows
<1>4. Len(log) \in Nat /\ published <= Len(log)
  BY <1>1
<1>5. \A i \in 1 .. published : log'[i] = log[i]
  BY <1>1, <1>3, <1>4
<1>6. \A i \in 1 .. durable : log'[i] = log[i]
  BY <1>1, <1>3, <1>4
<1> DEFINE p == published'
           d == durable'
           l == log'
<1> HIDE DEF p, d, l
<1>7. ASSUME NEW res, Truthful(res, published, log) PROVE Truthful(res, p, l)
  BY <1>1, <1>2, <1>3, <1>5, <1>7, TruthKept DEF p, l
<1>8. ASSUME NEW res, Truthful(res, durable, log) PROVE Truthful(res, d, l)
  BY <1>1, <1>2, <1>3, <1>6, <1>8, TruthKept DEF d, l
<1>9. ASSUME NEW u \in Units, Faithful(u, published, log) PROVE Faithful(u, p, l)
  BY <1>1, <1>2, <1>3, <1>4, <1>9, FaithKept DEF p, l
<1> QED BY <1>7, <1>8, <1>9 DEF p, d, l

\* The results of the unit that the writer drives.
LEMMA ResultsKept ==
    ASSUME PipelineAssumption, StoreInv, [Next]_vars
    PROVE  Truthful(results', published', log')
<1> USE DEF StoreInv, Types, WriterTypes, StoreTypes
<1>1. ASSUME Grows PROVE Truthful(results, published', log')
  BY <1>1, GrowTruth DEF Carried
<1>2. CASE results' = [c \in {} |-> Vacant]
  BY <1>2 DEF Truthful
<1>3. CASE UNCHANGED results /\ Grows
  BY <1>1, <1>3
<1>4. CASE AdmitGroup
  BY <1>4, AdmitFacts DEF Truthful
<1>5. CASE StageResolves
  <2>1. Truthful(results, published', log') \/ CrashAndRecover
    BY <1>1, GrowSteps
  <2>2. UNCHANGED <<published, log>>
    BY <1>5 DEF StageResolves
  <2>3. Truthful(results, published', log')
    BY <2>2 DEF Carried
  <2> QED BY <1>5, <2>3 DEF StageResolves, NoneWon, Truthful
<1>6. ASSUME NEW r \in Answers, DirectMoves(r), DirectKeeps(r) \/ DirectRisks(r)
      PROVE  Truthful(results', published', log')
  <2>1. r.kind # "FirstCommit" /\ results' = [results EXCEPT ![Head(todo)] = r]
    BY <1>6 DEF DirectMoves, DirectKeeps, DirectRisks
  <2>2. Grows
    <3>1. CASE DirectKeeps(r)
      BY <3>1 DEF DirectKeeps, Grows
    <3>2. CASE DirectRisks(r)
      <4>1. Head(todo) \in Commands
        BY <1>6 DEF DirectMoves
      <4>2. log' = Append(log, Head(todo)) /\ published <= published' /\ durable <= durable'
        BY <3>2 DEF DirectRisks, Sealed
      <4> QED BY <4>1, <4>2 DEF Grows
    <3> QED BY <1>6, <3>1, <3>2
  <2>3. Truthful(results, published', log')
    BY <1>1, <2>2
  <2> QED BY <2>1, <2>3 DEF Truthful
<1>7. ASSUME NEW r \in Answers, DirectMoves(r), DirectWins(r)
      PROVE  Truthful(results', published', log')
  <2>1. Head(todo) \in Commands
    BY <1>7 DEF DirectMoves
  <2>2. /\ r = [kind |-> "FirstCommit", seq |-> Len(log) + 1]
        /\ log' = Append(log, Head(todo)) /\ published' = Len(log) + 1
        /\ results' = [results EXCEPT ![Head(todo)] = r]
    BY <1>7 DEF DirectMoves, DirectWins
  <2>3. Grows
    <3>1. published <= published' /\ durable <= durable'
      BY <1>7 DEF DirectWins, Sealed
    <3> QED BY <2>1, <2>2, <3>1 DEF Grows
  <2>4. Truthful(results, published', log')
    BY <1>1, <2>3
  <2>5. log'[Len(log) + 1] = Head(todo) /\ Len(log) + 1 \in 1 .. published'
    BY <2>1, <2>2
  <2>6. r.seq = Len(log) + 1
    BY <2>2
  <2> QED BY <2>2, <2>4, <2>5, <2>6 DEF Truthful
<1>8. CASE SendFeedback
  BY <1>2, <1>8 DEF SendFeedback
<1>9. CASE CrashAndRecover
  <2>1. results' = [c \in {} |-> Vacant]
    BY <1>9, Zenon DEF CrashAndRecover
  <2> QED BY <1>2, <2>1
<1>10. ASSUME \/ Aside \/ StageBegin \/ StageSeal \/ DrainReady \/ ReceiveUnit \/ DrainOne
              \/ RejectWorkUnit \/ CompleteGroup \/ SubmitUnit \/ JournalFlush
              \/ Marks \/ CompletionFence \/ CompletionFails \/ CompletionRelease
       PROVE  UNCHANGED results
  BY <1>10 DEF Aside, StageBegin, StageSeal, DrainReady, ReceiveUnit, DrainOne,
     RejectWorkUnit, CompleteGroup, SubmitUnit, JournalFlush, Marks, CompletionFence,
     CompletionFails, CompletionRelease, writerVars, unitVars
<1> QED BY <1>3, <1>4, <1>5, <1>6, <1>7, <1>8, <1>9, <1>10, GrowSteps, StepKinds

\* The answers of the callers, when a unit is released.
LEMMA FinishTruth ==
    ASSUME StoreInv, NEW s \in Seq(Commands), NEW res, DOMAIN res = Members(s),
           Truthful(res, published, log), FinishCommandGroup(s, res), UNCHANGED <<published, log>>
    PROVE  Truthful(answer', published', log')
<1>1. Truthful(answer, published, log) /\ DOMAIN answer = Commands
  BY DEF StoreInv, Types, CallerTypes, Carried
<1>2. answer' = [c \in Commands |-> IF c \in Members(s) THEN res[c] ELSE answer[c]]
  BY DEF FinishCommandGroup, Reply
<1>3. Truthful(answer', published, log)
  BY <1>1, <1>2 DEF Truthful
<1> QED BY <1>3

\* Callers that learn of no first commit.
LEMMA ToldTruth ==
    ASSUME StoreInv, NoneTold, DOMAIN answer' = Commands,
           NEW n, NEW s, Truthful(answer, n, s)
    PROVE  Truthful(answer', n, s)
BY DEF StoreInv, Types, CallerTypes, NoneTold, Truthful

LEMMA AnswersKept ==
    ASSUME PipelineAssumption, StoreInv, [Next]_vars
    PROVE  Truthful(answer', published', log')
<1> USE DEF StoreInv, Types, WriterTypes, StoreTypes
<1>1. ASSUME Grows PROVE Truthful(answer, published', log')
  BY <1>1, GrowTruth DEF Carried
<1>2. DOMAIN answer' = Commands
  BY TypesKept DEF CallerTypes
<1>3. ASSUME NoneTold, Grows PROVE Truthful(answer', published', log')
  <2> DEFINE n == published'
             s == log'
  <2>1. Truthful(answer, n, s)
    BY <1>1, <1>3
  <2> HIDE DEF n, s
  <2>2. Truthful(answer', n, s)
    BY <1>2, <1>3, <2>1, ToldTruth
  <2> QED BY <2>2 DEF n, s
<1>4. ASSUME \/ Aside \/ RejectWorkUnit \/ AdmitGroup \/ StageResolves \/ StageBegin
             \/ StageSeal \/ DrainReady \/ ReceiveUnit \/ DrainOne \/ SubmitUnit
             \/ SendFeedback \/ JournalFlush \/ Marks \/ CompletionFence \/ CompletionFails
      PROVE  NoneTold
  <2>1. CASE Aside
    BY <2>1 DEF Aside
  <2>2. CASE RejectWorkUnit
    <3>1. Reply(Members(work), LAMBDA c : Says("Rejected"))
      BY <2>2, Zenon DEF RejectWorkUnit
    <3> QED BY <3>1 DEF Reply, NoneTold, Says
  <2>3. CASE ~Aside /\ ~RejectWorkUnit
    <3>1. UNCHANGED answer
      BY <1>4, <2>3 DEF AdmitGroup, StageResolves, StageBegin, StageSeal, DrainReady,
         ReceiveUnit, DrainOne, SubmitUnit, SendFeedback, JournalFlush, Marks,
         CompletionFence, CompletionFails, callerVars
    <3> QED BY <3>1 DEF NoneTold
  <2> QED BY <2>1, <2>2, <2>3
<1>5. ASSUME NEW r \in Answers, DirectMoves(r) PROVE NoneTold
  BY <1>5 DEF DirectMoves, NoneTold
<1>6. CASE CompleteGroup
  <2>1. UNCHANGED <<published, durable, log>> /\ writer = "complete"
    BY <1>6 DEF CompleteGroup, storeVars, fenceVars
  <2>2. CASE frontier = "WriterPrivate"
    <3>1. UNCHANGED answer
      BY <1>6, <2>2, BehindFacts DEF callerVars
    <3> QED BY <2>1, <3>1 DEF Carried
  <2>3. CASE frontier # "WriterPrivate"
    <3>1. FinishCommandGroup(work, results)
      BY <1>6, <2>3 DEF CompleteGroup
    <3>2. DOMAIN results = Members(work) /\ Truthful(results, published, log)
      BY <2>1 DEF Handed, Carried
    <3> QED BY <2>1, <3>1, <3>2, FinishTruth
  <2> QED BY <2>2, <2>3
<1>7. CASE CompletionRelease
  <2>1. /\ lane # <<>> /\ (released \/ Head(lane).kind = "AfterPredecessor")
        /\ FinishCommandGroup(Head(lane).cmds, Head(lane).results)
        /\ UNCHANGED <<published, log>>
    BY <1>7, Zenon DEF CompletionRelease, storeVars, fenceVars
  <2> DEFINE u == Head(lane)
  <2>2. u \in Units /\ u = lane[1] /\ 1 \in DOMAIN lane
    BY <2>1
  <2>3. Faithful(u, published, log)
    BY <2>2 DEF Carried
  <2> HIDE DEF u
  <2>4. Truthful(u.results, published, log)
    <3>1. CASE released
      BY <2>2, <3>1 DEF Carried
    <3>2. CASE u.kind = "AfterPredecessor"
      BY <2>3, <3>2 DEF Faithful
    <3> QED BY <2>1, <3>1, <3>2 DEF u
  <2>5. u.cmds \in Seq(Commands) /\ DOMAIN u.results = Members(u.cmds)
    BY <2>2, <2>3 DEF Units, Faithful
  <2>6. FinishCommandGroup(u.cmds, u.results) /\ UNCHANGED <<published, log>>
    BY <2>1 DEF u
  <2> QED BY <2>4, <2>5, <2>6, FinishTruth
<1>8. CASE CrashAndRecover
  <2>1. PICK n \in Recoverable : log' = SubSeq(log, 1, n) /\ published' = n
    BY <1>8 DEF CrashAndRecover
  <2>2. n \in 0 .. Len(log) /\ published <= n
    <3>1. n \in 0 .. Len(log) /\ durable <= n
      BY DEF Recoverable, Sealed
    <3> QED BY <3>1 DEF Sealed
  <2>3. Truthful(answer, n, SubSeq(log, 1, n))
    <3>1. \A i \in 1 .. published : SubSeq(log, 1, n)[i] = log[i]
      BY <2>2
    <3>2. Truthful(answer, published, log) /\ n \in Nat /\ published \in Nat
      BY <2>2 DEF Carried
    <3> QED BY <2>2, <3>1, <3>2, TruthKept
  <2>4. NoneTold
    <3>1. Reply({c \in Commands : client[c] \in {"reserved", "active", "queued"}},
                LAMBDA c : Says("Lost"))
      BY <1>8, Zenon DEF CrashAndRecover
    <3> QED BY <3>1 DEF Reply, NoneTold, Says
  <2>5. Truthful(answer', n, SubSeq(log, 1, n))
    BY <1>2, <2>3, <2>4, ToldTruth
  <2> QED BY <2>1, <2>5
<1> QED BY <1>3, <1>4, <1>5, <1>6, <1>7, <1>8, GrowSteps, StepKinds

\* The results of a sealed group.
LEMMA SealedTruth ==
    ASSUME PipelineAssumption, StoreInv, StageSeal
    PROVE  Faithful(unit', published', log')
<1> USE DEF StoreInv, Types, WriterTypes, StoreTypes
<1>1. /\ unit'.kind = "Fence" /\ unit'.cmds = work /\ unit'.upto = Len(log')
      /\ unit'.results = FirstCommits(todo, Len(log)) /\ log' = log \o todo
      /\ Len(log') = Len(log) + Len(todo) /\ Len(log) \in Nat /\ Len(todo) \in Nat
      /\ writer = "seal"
  BY DeferredFacts
<1>2. work # <<>> /\ DOMAIN results = Members(work)
  BY <1>1 DEF Handed
<1> DEFINE f == FirstCommits(todo, Len(log))
<1>3. /\ DOMAIN f = DOMAIN results
      /\ \A c \in DOMAIN results :
            IF c \in Members(todo)
            THEN \E i \in DOMAIN todo :
                    todo[i] = c /\ f[c] = [kind |-> "FirstCommit", seq |-> Len(log) + i]
            ELSE f[c] = results[c]
  BY <1>1, FirstCommitsFacts
<1> HIDE DEF f
<1>4. ASSUME NEW c \in DOMAIN f, f[c].kind = "FirstCommit"
      PROVE  f[c].seq \in 1 .. Len(log') /\ log'[f[c].seq] = c
  <2>1. CASE c \in Members(todo)
    <3>1. PICK i \in DOMAIN todo :
             todo[i] = c /\ f[c] = [kind |-> "FirstCommit", seq |-> Len(log) + i]
      BY <1>3, <2>1
    <3>2. f[c].seq = Len(log) + i /\ i \in 1 .. Len(todo)
      BY <3>1
    <3>3. Len(log) + i \in 1 .. Len(log') /\ log'[Len(log) + i] = todo[i]
      BY <1>1, <3>2
    <3> QED BY <3>1, <3>2, <3>3
  <2>2. CASE c \notin Members(todo)
    <3>1. results[c].kind = "FirstCommit" /\ f[c] = results[c] /\ c \in DOMAIN results
      BY <1>3, <1>4, <2>2
    <3>2. results[c].seq \in 1 .. published /\ log[results[c].seq] = c
      BY <3>1 DEF Carried, Truthful
    <3>3. published <= Len(log) /\ published \in Nat
      BY DEF Sealed
    <3>4. results[c].seq \in 1 .. Len(log)
      BY <1>1, <3>2, <3>3
    <3>5. log'[results[c].seq] = log[results[c].seq] /\ results[c].seq \in 1 .. Len(log')
      BY <1>1, <3>4
    <3> QED BY <3>1, <3>2, <3>5
  <2> QED BY <2>1, <2>2
<1>5. Truthful(f, Len(log'), log')
  BY <1>4 DEF Truthful
<1>6. unit'.upto <= Len(log')
  BY <1>1
<1> QED BY <1>1, <1>2, <1>3, <1>5, <1>6 DEF Faithful, f

LEMMA UnitKept ==
    ASSUME PipelineAssumption, StoreInv, [Next]_vars, writer' = "submit"
    PROVE  Faithful(unit', published', log')
<1> USE DEF StoreInv, Types, WriterTypes, StoreTypes
<1>1. ASSUME writer = "submit", UNCHANGED unit, Grows PROVE Faithful(unit', published', log')
  <2>1. unit \in Units /\ Faithful(unit, published, log)
    BY <1>1 DEF Handed, Carried
  <2>2. Faithful(unit, published', log')
    BY <1>1, <2>1, GrowTruth
  <2> QED BY <1>1, <2>2
<1>2. CASE StageSeal
  BY <1>2, SealedTruth
<1>3. CASE CompleteGroup
  <2>1. writer = "complete" /\ frontier = "WriterPrivate" /\ UNCHANGED <<published, log>>
    BY <1>3 DEF CompleteGroup, storeVars, fenceVars
  <2>2. /\ unit'.kind = "AfterPredecessor" /\ unit'.cmds = work
        /\ unit'.upto = 0 /\ unit'.results = results
    BY <1>3, <2>1, BehindFacts
  <2>3. work # <<>> /\ DOMAIN results = Members(work) /\ Truthful(results, published, log)
    BY <2>1 DEF Handed, Carried
  <2>4. unit'.upto <= Len(log')
    BY <2>1, <2>2
  <2> QED BY <2>1, <2>2, <2>3, <2>4 DEF Faithful
<1>4. CASE DrainOne
  <2>1. writer = "submit" /\ UNCHANGED <<unit, published, durable, log>>
    BY <1>4 DEF DrainOne, unitVars, storeVars, fenceVars
  <2>2. Grows
    BY <2>1 DEF Grows
  <2> QED BY <1>1, <2>1, <2>2
<1>5. CASE \/ Aside \/ JournalFlush \/ Marks \/ CompletionFence \/ CompletionFails
           \/ CompletionRelease
  <2>1. UNCHANGED <<writer, unit>>
    BY <1>5 DEF Aside, JournalFlush, Marks, CompletionFence, CompletionFails,
       CompletionRelease, writerVars, unitVars
  <2>2. ~CrashAndRecover
    <3>1. CrashAndRecover => writer' = "top"
      BY Zenon DEF CrashAndRecover
    <3> QED BY <3>1
  <2> QED BY <1>1, <2>1, <2>2, GrowSteps
<1>6. ~AdmitGroup /\ ~StageResolves /\ ~StageBegin /\ ~DrainReady /\ ~ReceiveUnit
      /\ ~RejectWorkUnit /\ ~SubmitUnit /\ ~SendFeedback /\ ~CrashAndRecover
  <2>1. ~CrashAndRecover
    <3>1. CrashAndRecover => writer' = "top"
      BY Zenon DEF CrashAndRecover
    <3> QED BY <3>1
  <2>2. ~AdmitGroup
    BY AdmitFacts
  <2>3. ~RejectWorkUnit
    <3>1. RejectWorkUnit => writer' = "feedback"
      BY Zenon DEF RejectWorkUnit
    <3> QED BY <3>1
  <2> QED BY <2>1, <2>2, <2>3 DEF StageResolves, StageBegin, DrainReady, ReceiveUnit,
          SubmitUnit, SendFeedback
<1>7. \A r \in Answers : ~DirectMoves(r)
  BY DEF DirectMoves
<1> QED BY <1>2, <1>3, <1>4, <1>5, <1>6, <1>7, StepKinds

\* The lane only loses its head, gets the submitted unit, or has a failed head.
LaneMoves ==
    \/ UNCHANGED <<lane, released>>
    \/ writer = "submit" /\ lane' = Append(lane, unit) /\ UNCHANGED released
    \/ CompletionFence \/ CompletionFails
    \/ lane # <<>> /\ lane' = Tail(lane) /\ released' = FALSE
    \/ lane' = <<>> /\ released' = FALSE

LEMMA LaneSteps ==
    ASSUME PipelineAssumption, StoreInv, [Next]_vars
    PROVE  LaneMoves
<1>1. CASE SubmitUnit
  BY <1>1 DEF SubmitUnit, LaneMoves
<1>2. CASE CompletionRelease
  BY <1>2, Zenon DEF CompletionRelease, LaneMoves
<1>3. CASE CrashAndRecover
  BY <1>3, Zenon DEF CrashAndRecover, LaneMoves
<1>4. CASE CompletionFence \/ CompletionFails
  BY <1>4 DEF LaneMoves
<1>5. ASSUME \/ Aside \/ AdmitGroup \/ StageResolves \/ StageBegin \/ StageSeal
             \/ DrainReady \/ ReceiveUnit \/ DrainOne \/ RejectWorkUnit \/ CompleteGroup
             \/ SendFeedback \/ JournalFlush \/ Marks
      PROVE  LaneMoves
  <2>1. UNCHANGED <<lane, released>>
    BY <1>5 DEF Aside, AdmitGroup, StageResolves, StageBegin, StageSeal, DrainReady,
       ReceiveUnit, DrainOne, RejectWorkUnit, CompleteGroup, SendFeedback, JournalFlush,
       Marks, laneVars
  <2> QED BY <2>1 DEF LaneMoves
<1>6. ASSUME NEW r \in Answers, DirectMoves(r) PROVE LaneMoves
  BY <1>6 DEF DirectMoves, laneVars, LaneMoves
<1> QED BY <1>1, <1>2, <1>3, <1>4, <1>5, <1>6, StepKinds

\* A failed fence: the head of the lane has no first commits any more.
LEMMA FailedHead ==
    ASSUME StoreInv, lane # <<>>, lane' = <<Failing(Head(lane))>> \o Tail(lane)
    PROVE  /\ lane[1] \in Units /\ Failing(lane[1]) \in Units
           /\ DOMAIN lane' = DOMAIN lane /\ 1 \in DOMAIN lane /\ lane' # <<>>
           /\ lane'[1] = Failing(lane[1])
           /\ \A i \in DOMAIN lane : i # 1 => lane'[i] = lane[i]
<1>1. lane \in Seq(Units)
  BY DEF StoreInv, Types, WriterTypes
<1>2. Head(lane) = lane[1] /\ lane[1] \in Units /\ 1 \in DOMAIN lane /\ Tail(lane) \in Seq(Units)
  BY <1>1
<1>3. Failing(lane[1]) \in Units
  BY <1>2, FailingFacts
<1> DEFINE f == Failing(lane[1])
<1>4. lane' = <<f>> \o Tail(lane) /\ f \in Units
  BY <1>2, <1>3
<1> HIDE DEF f
<1>5. Len(lane') = Len(lane) /\ lane' \in Seq(Units) /\ Len(lane) > 0 /\ lane'[1] = f
  BY <1>1, <1>2, <1>4
<1>6. \A i \in DOMAIN lane : i # 1 => lane'[i] = lane[i]
  BY <1>1, <1>2, <1>4
<1>7. DOMAIN lane' = DOMAIN lane /\ lane' # <<>>
  BY <1>1, <1>5
<1> QED BY <1>2, <1>3, <1>5, <1>6, <1>7 DEF f

LEMMA LaneKept ==
    ASSUME PipelineAssumption, StoreInv, [Next]_vars
    PROVE  \A i \in DOMAIN lane' : Faithful(lane'[i], published', log')
<1> USE DEF StoreInv, Types, WriterTypes, StoreTypes
<1>1. CASE lane' = <<>>
  BY <1>1
<1>2. CASE Grows
  <2>1. \A u \in Units : Faithful(u, published, log) => Faithful(u, published', log')
    BY <1>2, GrowTruth
  <2>2. \A i \in DOMAIN lane : lane[i] \in Units /\ Faithful(lane[i], published', log')
    BY <2>1 DEF Carried
  <2>3. CASE UNCHANGED lane
    BY <2>2, <2>3
  <2>4. CASE writer = "submit" /\ lane' = Append(lane, unit)
    <3>1. unit \in Units /\ Faithful(unit, published, log)
      BY <2>4 DEF Handed, Carried
    <3>2. Faithful(unit, published', log')
      BY <2>1, <3>1
    <3>3. \A i \in DOMAIN lane' : lane'[i] = unit \/ (i \in DOMAIN lane /\ lane'[i] = lane[i])
      <4>1. /\ DOMAIN lane' = 1 .. Len(lane) + 1 /\ DOMAIN lane = 1 .. Len(lane) /\ Len(lane) \in Nat
            /\ \A i \in DOMAIN lane : lane'[i] = lane[i]
            /\ lane'[Len(lane) + 1] = unit
        BY <2>4, <3>1
      <4>2. \A i \in DOMAIN lane' : i \in DOMAIN lane \/ i = Len(lane) + 1
        BY <4>1
      <4> QED BY <4>1, <4>2
    <3> QED BY <2>2, <3>2, <3>3
  <2>5. CASE lane # <<>> /\ lane' = Tail(lane)
    <3>1. \A i \in DOMAIN lane' : i + 1 \in DOMAIN lane /\ lane'[i] = lane[i + 1]
      BY <2>5, TailFacts
    <3> QED BY <2>2, <3>1
  <2>6. CASE lane # <<>> /\ lane' = <<Failing(Head(lane))>> \o Tail(lane)
    <3>1. /\ lane[1] \in Units /\ DOMAIN lane' = DOMAIN lane /\ 1 \in DOMAIN lane
          /\ lane'[1] = Failing(lane[1])
          /\ \A i \in DOMAIN lane : i # 1 => lane'[i] = lane[i]
      BY <2>6, FailedHead
    <3>2. Faithful(lane[1], published', log')
      BY <2>2, <3>1
    <3>3. Faithful(Failing(lane[1]), published', log')
      BY <3>1, <3>2, FailingFacts DEF Faithful, Truthful
    <3> QED BY <2>2, <3>1, <3>3
  <2>7. CompletionFence => UNCHANGED lane
    BY DEF CompletionFence
  <2>8. CompletionFails => lane # <<>> /\ lane' = <<Failing(Head(lane))>> \o Tail(lane)
    BY Zenon DEF CompletionFails, AtFence
  <2> QED BY <1>1, <2>3, <2>4, <2>5, <2>6, <2>7, <2>8, LaneSteps DEF LaneMoves
<1>3. CASE CrashAndRecover
  <2>1. lane' = <<>>
    BY <1>3, Zenon DEF CrashAndRecover
  <2> QED BY <1>1, <2>1
<1> QED BY <1>2, <1>3, GrowSteps

\* The unit whose results the completion thread has.
LEMMA ReleasedKept ==
    ASSUME PipelineAssumption, StoreInv, [Next]_vars, released'
    PROVE  /\ lane' # <<>> /\ lane'[1].kind = "Fence"
           /\ Truthful(lane'[1].results, published', log')
           /\ ~writeFenced' => lane'[1].upto <= published'
<1> USE DEF StoreInv, Types, WriterTypes, StoreTypes
<1>1. Grows
  <2>1. CrashAndRecover => released' = FALSE
    BY Zenon DEF CrashAndRecover
  <2> QED BY <2>1, GrowSteps
<1>2. \A res : Truthful(res, published, log) => Truthful(res, published', log')
  BY <1>1, GrowTruth
<1>3. published <= published' /\ published \in Nat /\ published' \in Nat
  BY <1>1, TypesKept DEF Grows
<1>4. ASSUME released, lane' # <<>>, lane'[1] = lane[1], writeFenced => writeFenced'
      PROVE  /\ lane'[1].kind = "Fence"
             /\ Truthful(lane'[1].results, published', log')
             /\ ~writeFenced' => lane'[1].upto <= published'
  <2>1. /\ lane # <<>> /\ lane[1].kind = "Fence" /\ Truthful(lane[1].results, published, log)
        /\ ~writeFenced => lane[1].upto <= published
    BY <1>4 DEF Carried
  <2>2. lane[1] \in Units
    BY <2>1
  <2>3. lane[1].upto \in Nat
    BY <2>2 DEF Units
  <2>4. Truthful(lane[1].results, published', log')
    BY <1>2, <2>1
  <2>5. lane[1].upto <= published => lane[1].upto <= published'
    <3> DEFINE a == lane[1].upto
               p == published'
    <3>1. a \in Nat /\ p \in Nat /\ published <= p
      BY <1>3, <2>3
    <3> HIDE DEF a, p
    <3>2. a <= published => a <= p
      BY <3>1
    <3> QED BY <3>2 DEF a, p
  <2> QED BY <1>4, <2>1, <2>4, <2>5
<1>5. writeFenced => writeFenced' \/ CrashAndRecover
  <2>1. LifecycleMoves => (writeFenced => writeFenced')
    BY DEF LifecycleMoves
  <2> QED BY <2>1, LifecycleSteps
<1>6. ~CrashAndRecover
  <2>1. CrashAndRecover => released' = FALSE
    BY Zenon DEF CrashAndRecover
  <2> QED BY <2>1
<1>7. CASE UNCHANGED <<lane, released>>
  <2>1. released /\ lane # <<>>
    BY <1>7 DEF Carried
  <2> QED BY <1>4, <1>5, <1>6, <1>7, <2>1
<1>8. CASE writer = "submit" /\ lane' = Append(lane, unit) /\ UNCHANGED released
  <2>1. released /\ lane # <<>> /\ unit \in Units
    BY <1>8 DEF Carried, Handed
  <2>2. lane' # <<>> /\ lane'[1] = lane[1]
    BY <1>8, <2>1, SMTT(30)
  <2> QED BY <1>4, <1>5, <1>6, <2>1, <2>2
<1>9. CASE CompletionFence
  <2>1. /\ lane # <<>> /\ lane[1].kind = "Fence" /\ lane[1] \in Units
        /\ lane[1].upto <= published' /\ published' \in Nat
    BY <1>9, FenceSteps
  <2>2. UNCHANGED <<lane, log>> /\ 1 \in DOMAIN lane
    BY <1>9, <2>1 DEF CompletionFence
  <2>3. Faithful(lane[1], published, log)
    BY <2>2 DEF Carried
  <2>4. lane[1].upto \in Nat /\ Truthful(lane[1].results, lane[1].upto, log)
    BY <2>1, <2>3 DEF Units, Faithful
  <2>5. Truthful(lane[1].results, published', log)
    <3> DEFINE a == lane[1].upto
               p == published'
    <3>1. a \in Nat /\ p \in Nat /\ a <= p /\ Truthful(lane[1].results, a, log)
      BY <2>1, <2>4
    <3> HIDE DEF a, p
    <3>2. Truthful(lane[1].results, p, log)
      BY <3>1, TruthKept
    <3> QED BY <3>2 DEF p
  <2> QED BY <2>1, <2>2, <2>5
<1>10. CASE CompletionFails
  <2>1. lane # <<>> /\ lane[1].kind = "Fence" /\ lane[1] \in Units /\ writeFenced
    BY <1>10, FailSteps
  <2>2. lane' # <<>> /\ lane'[1] = Failing(lane[1])
    <3>1. lane' = <<Failing(Head(lane))>> \o Tail(lane)
      BY <1>10, Zenon DEF CompletionFails
    <3> QED BY <2>1, <3>1, FailedHead
  <2>3. lane'[1].kind = "Fence" /\ Truthful(lane'[1].results, published', log')
    <3>1. /\ Failing(lane[1]).kind = lane[1].kind
          /\ DOMAIN Failing(lane[1]).results = DOMAIN lane[1].results
          /\ \A c \in DOMAIN lane[1].results : Failing(lane[1]).results[c].kind # "FirstCommit"
      BY <2>1, FailingFacts
    <3> DEFINE f == Failing(lane[1])
    <3>2. f.kind = "Fence" /\ \A c \in DOMAIN f.results : f.results[c].kind # "FirstCommit"
      BY <2>1, <3>1
    <3>3. lane'[1] = f
      BY <2>2
    <3> HIDE DEF f
    <3> QED BY <3>2, <3>3 DEF Truthful
  <2> QED BY <1>5, <1>6, <2>1, <2>2, <2>3
<1> QED BY <1>7, <1>8, <1>9, <1>10, LaneSteps DEF LaneMoves

LEMMA CarriedKept ==
    ASSUME PipelineAssumption, StoreInv, [Next]_vars
    PROVE  Carried'
<1>1. Truthful(results', published', log') /\ Truthful(answer', published', log')
  BY ResultsKept, AnswersKept
<1>2. writer' = "submit" => Faithful(unit', published', log')
  BY UnitKept
<1>3. \A i \in DOMAIN lane' : Faithful(lane'[i], published', log')
  BY LaneKept
<1>4. released' => /\ lane' # <<>> /\ lane'[1].kind = "Fence"
                   /\ Truthful(lane'[1].results, published', log')
                   /\ ~writeFenced' => lane'[1].upto <= published'
  BY ReleasedKept
<1> QED BY <1>1, <1>2, <1>3, <1>4 DEF Carried

-----------------------------------------------------------------------------
(* The theorems.                                                           *)

LEMMA InitStoreInv ==
    ASSUME PipelineAssumption, Init
    PROVE  StoreInv
<1>1. /\ client = [c \in Commands |-> "idle"] /\ answer = [c \in Commands |-> Unanswered]
      /\ lifecycle = "Accepting" /\ gateClosed = FALSE /\ shutdown = "no"
  BY Zenon DEF Init
<1>2. /\ channel = <<>> /\ recvClosed = FALSE /\ pending = <<>> /\ intake = "run"
      /\ busy = FALSE /\ feedback = FALSE
  BY Zenon DEF Init
<1>3. /\ work = <<>> /\ writer = "top" /\ frontier = "Published" /\ todo = <<>> /\ unit = <<>>
      /\ inFlight = <<>> /\ suffix = 0 /\ lane = <<>> /\ released = FALSE /\ tokens = 0
  BY Zenon DEF Init
<1>4. results = [c \in {} |-> Vacant]
  BY Zenon DEF Init
<1>5. /\ log = <<>> /\ durable = 0 /\ published = 0 /\ frames = <<>> /\ torn = 0
      /\ journalClosed = FALSE /\ pubFailed = FALSE /\ writeFenced = FALSE /\ fencedAt = 0
      /\ notified = <<>> /\ crashes = 0 /\ faults = 0
  BY Zenon DEF Init
<1>6. CallerTypes
  BY <1>1 DEF CallerTypes, Unanswered, Says, Answers, AnswerKinds
<1>7. IntakeTypes
  <2>1. <<>> \in Seq(Messages)
    OBVIOUS
  <2> QED BY <1>2, <2>1 DEF IntakeTypes
<1>8. WriterTypes
  <2>1. <<>> \in Seq(Commands) /\ <<>> \in Seq(Tickets) /\ <<>> \in Seq(Units)
    OBVIOUS
  <2>2. results \in Outcomes
    BY <1>4, NoOutcome
  <2> QED BY <1>3, <2>1, <2>2 DEF WriterTypes, WriterPhases, Frontiers
<1>9. StoreTypes
  <2>1. <<>> \in Seq(Commands) /\ <<>> \in Seq(Nat) /\ <<>> \in Seq(Nat \ {0})
    OBVIOUS
  <2>2. 0 \in 0 .. MaxCrashes /\ 0 \in 0 .. MaxFaults
    BY DEF PipelineAssumption
  <2> QED BY <1>5, <2>1, <2>2 DEF StoreTypes
<1>10. Sealed
  BY <1>3, <1>5 DEF Sealed, DistinctKeys
<1>16. Fencing
  BY <1>5 DEF Fencing
<1>11. Halting
  BY <1>1, <1>5 DEF Halting, Halted
<1>12. Handed
  BY <1>2, <1>3 DEF Handed, PipelineAssumption
<1>13. Room
  BY <1>3 DEF Room, PipelineAssumption
<1>14. Covered
  BY <1>3, <1>5 DEF Covered, Base, PipelineAssumption
<1>15. Carried
  <2>1. Truthful(results, published, log)
    BY <1>4 DEF Truthful
  <2>2. Truthful(answer, published, log)
    BY <1>1 DEF Truthful, Unanswered, Says
  <2> QED BY <1>3, <2>1, <2>2 DEF Carried
<1> QED BY <1>6, <1>7, <1>8, <1>9, <1>10, <1>11, <1>12, <1>13, <1>14, <1>15, <1>16
        DEF StoreInv, Types

LEMMA StoreInvKept ==
    ASSUME PipelineAssumption, StoreInv, [Next]_vars
    PROVE  StoreInv'
BY TypesKept, SealedKept, HaltingKept, FencingKept, HandedKept, RoomKept, CoveredKept,
   CarriedKept
   DEF StoreInv

\* The inductive invariant holds in every reachable state: the accounts of the
\* writer, the journal and the completion thread agree, whatever fails.
THEOREM StoreInvariant == Spec => []StoreInv
<1>1. Init => StoreInv
  BY PipelineAssumption, InitStoreInv
<1>2. StoreInv /\ [Next]_vars => StoreInv'
  BY PipelineAssumption, StoreInvKept
<1> QED BY <1>1, <1>2, PTL DEF Spec

LEMMA SeqNarrowed ==
    ASSUME NEW S, NEW T, NEW s \in Seq(S), \A i \in DOMAIN s : s[i] \in T
    PROVE  s \in Seq(T)
OBVIOUS

LEMMA UnitShape ==
    ASSUME NEW u \in Units, NEW n, Faithful(u, n, log), log \in Seq(Commands)
    PROVE  IsUnit(u)
<1>1. /\ u.kind \in UnitKinds /\ u.cmds \in Seq(Commands) /\ u.upto \in Nat
      /\ u.proof \in BOOLEAN /\ u.results \in Outcomes
  BY DEF Units
<1>2. u.cmds # <<>> /\ DOMAIN u.results = Members(u.cmds) /\ u.upto <= Len(log)
  BY DEF Faithful
<1>3. \A c \in DOMAIN u.results : u.results[c] \in Answers
  BY <1>1, OutcomeFacts
<1>4. u.upto \in 0 .. Len(log)
  BY <1>1, <1>2
<1> QED BY <1>1, <1>2, <1>3, <1>4 DEF IsUnit

LEMMA StoreInvTypeOK == StoreInv => TypeOK
<1> SUFFICES ASSUME StoreInv PROVE TypeOK
  OBVIOUS
<1>1. CallerTypes /\ IntakeTypes /\ WriterTypes /\ StoreTypes
  BY DEF StoreInv, Types
<1>2. DOMAIN results \subseteq Commands /\ \A c \in DOMAIN results : results[c] \in Answers
  BY <1>1, OutcomeFacts DEF WriterTypes
<1>3. unit # <<>> => IsUnit(unit)
  <2> HAVE unit # <<>>
  <2>1. writer = "submit" /\ unit \in Units /\ Faithful(unit, published, log)
    BY DEF StoreInv, Handed, Carried
  <2> QED BY <1>1, <2>1, UnitShape DEF StoreTypes
<1>4. \A i \in DOMAIN lane : IsUnit(lane[i])
  <2> TAKE i \in DOMAIN lane
  <2>1. lane[i] \in Units /\ Faithful(lane[i], published, log)
    BY <1>1 DEF StoreInv, WriterTypes, Carried
  <2> QED BY <1>1, <2>1, UnitShape DEF StoreTypes
<1>5. inFlight \in Seq([n : 0 .. MaxGroup, proof : BOOLEAN])
  <2>1. inFlight \in Seq(Tickets) /\ suffix \in Nat
    BY <1>1 DEF WriterTypes
  <2>2. ASSUME NEW i \in DOMAIN inFlight
        PROVE  inFlight[i] \in [n : 0 .. MaxGroup, proof : BOOLEAN]
    <3>1. inFlight[i] \in Tickets
      BY <2>1
    <3>2. inFlight[i].n <= suffix /\ suffix <= MaxGroup
      BY DEF StoreInv, Room
    <3>3. inFlight[i].n \in 0 .. MaxGroup
      BY <2>1, <3>1, <3>2, PipelineAssumption DEF Tickets, PipelineAssumption
    <3> QED BY <3>1, <3>3 DEF Tickets
  <2> DEFINE T == [n : 0 .. MaxGroup, proof : BOOLEAN]
  <2> HIDE DEF T
  <2>3. inFlight \in Seq(T)
    BY <2>1, <2>2, SeqNarrowed DEF T
  <2> QED BY <2>3 DEF T
<1>6. durable \in 0 .. Len(log) /\ published \in 0 .. Len(log)
  BY <1>1 DEF StoreTypes, StoreInv, Sealed
<1>7. frames \in Seq(1 .. Len(log))
  <2>1. frames \in Seq(Nat) /\ Len(log) \in Nat /\ durable \in Nat
    BY <1>1 DEF StoreTypes
  <2>2. \A i \in DOMAIN frames : frames[i] \in 1 .. Len(log)
    BY <2>1 DEF StoreInv, Sealed
  <2> QED BY <2>1, <2>2
<1>8. torn \in 0 .. Len(log)
  <2>1. torn # 0 => torn \in 1 .. Len(log)
    BY <1>7 DEF StoreInv, Sealed
  <2> QED BY <1>1, <2>1 DEF StoreTypes
<1>9. writer \in {"top", "recv", "drain", "admit", "stage", "seal", "direct",
                  "complete", "submit", "postdrain", "feedback"}
  BY <1>1 DEF WriterTypes, WriterPhases
<1>10. fencedAt \in 0 .. Len(log)
  BY <1>1 DEF StoreTypes, StoreInv, Fencing
<1> QED BY <1>1, <1>2, <1>3, <1>4, <1>5, <1>6, <1>7, <1>8, <1>9, <1>10, Zenon
        DEF TypeOK, CallerTypes, IntakeTypes, WriterTypes, StoreTypes

\* Every variable keeps its type, for any number of submissions and any bounds.
THEOREM TypeCorrect == Spec => []TypeOK
BY StoreInvariant, StoreInvTypeOK, PTL

\* No idempotency key is ever recorded twice, although attempts are admitted
\* against a published root that lags behind the writer.
THEOREM KeysAreUnique == Spec => []OneRecordPerKey
<1>1. StoreInv => OneRecordPerKey
  BY DEF StoreInv, Sealed, OneRecordPerKey
<1> QED BY <1>1, StoreInvariant, PTL

\* Ordinary readers see only durable records, and the frames given to the
\* journal reach exactly to the end of the private frontier.
THEOREM PublicationIsDurable == Spec => []PublishedIsDurable
<1>1. StoreInv => PublishedIsDurable
  BY DEF StoreInv, Sealed, PublishedIsDurable, LastOf
<1> QED BY <1>1, StoreInvariant, PTL

\* A caller that was told of a first commit keeps it: its record is durable and
\* visible at the sequence it was told, through failed writes, fences and
\* restarts.
THEOREM FirstCommitsKept == Spec => []FirstCommitsSurvive
<1>1. StoreInv => FirstCommitsSurvive
  <2> SUFFICES ASSUME StoreInv, NEW c \in Commands, answer[c].kind = "FirstCommit"
               PROVE  /\ answer[c].seq <= durable /\ answer[c].seq <= published
                      /\ log[answer[c].seq] = c
    BY DEF FirstCommitsSurvive
  <2>1. /\ DOMAIN answer = Commands /\ Truthful(answer, published, log)
        /\ durable \in Nat /\ published \in Nat /\ published <= durable
    BY DEF StoreInv, Types, CallerTypes, StoreTypes, Sealed, Carried
  <2>2. answer[c].seq \in 1 .. published /\ log[answer[c].seq] = c
    BY <2>1 DEF Truthful
  <2> QED BY <2>1, <2>2
<1> QED BY <1>1, StoreInvariant, PTL

\* A unit evaluated on the published frontier sees everything the writer has
\* written.
THEOREM PublishedFrontierIsWhole == Spec => []FrontierIsFaithful
<1>1. StoreInv => FrontierIsFaithful
  BY DEF StoreInv, Room, FrontierIsFaithful
<1> QED BY <1>1, StoreInvariant, PTL

\* The unpublished suffix never outgrows the group bound, so the store's own
\* bound cannot fail a seal.
THEOREM SuffixIsBounded == Spec => []UnpublishedBounded
<1>1. StoreInv => UnpublishedBounded
  <2> SUFFICES ASSUME StoreInv PROVE Len(log) - published <= MaxGroup
    BY DEF UnpublishedBounded
  <2>1. Len(log) \in Nat /\ published \in Nat /\ Len(log) <= published + MaxGroup
    BY DEF StoreInv, Types, StoreTypes, Covered
  <2> QED BY <2>1, PipelineAssumption DEF PipelineAssumption
<1> QED BY <1>1, StoreInvariant, PTL

\* The writer's account of the completion lane is exact, although it learns of
\* completions late.
THEOREM LaneIsAccounted == Spec => []LaneAccounted
<1>1. StoreInv => LaneAccounted
  BY DEF StoreInv, Room, LaneAccounted
<1> QED BY <1>1, StoreInvariant, PTL

\* Until a restart nothing that was appended behind the store's fence becomes
\* visible, although the writer may seal an epoch behind it, and a fenced
\* coordinator stands on a fenced store.
THEOREM FencedShowsNothingNew == Spec => []FenceIsFinal
<1>1. StoreInv => FenceIsFinal
  BY DEF StoreInv, Halting, Fencing, FenceIsFinal
<1> QED BY <1>1, StoreInvariant, PTL

\* The lifecycle only descends until a restart: neither a shutdown nor a stop
\* hides a fence, and nothing accepts submissions again.
THEOREM LifecycleOnlyDescends == Spec => LifecycleDescends
<1> DEFINE Descends == \E i, j \in DOMAIN LifecycleOrder :
                          /\ i <= j
                          /\ LifecycleOrder[i] = lifecycle
                          /\ LifecycleOrder[j] = lifecycle'
<1>1. ASSUME StoreInv, [Next]_vars, crashes' = crashes PROVE Descends
  <2>1. lifecycle \in {"Accepting", "Draining", "Fenced", "Stopped"}
    BY <1>1 DEF StoreInv, Types, CallerTypes
  <2>2. LifecycleMoves
    <3>1. CrashAndRecover => crashes' = crashes + 1
      BY Zenon DEF CrashAndRecover
    <3>2. crashes \in Nat
      BY <1>1, PipelineAssumption DEF StoreInv, Types, StoreTypes, PipelineAssumption
    <3> QED BY <1>1, <3>1, <3>2, LifecycleSteps
  <2>3. \/ lifecycle' = lifecycle \/ lifecycle' = "Fenced"
        \/ lifecycle = "Accepting" /\ lifecycle' = "Draining"
        \/ lifecycle \in {"Accepting", "Draining"} /\ lifecycle' = "Stopped"
    <3>1. CASE Stop
      BY <2>1, <3>1 DEF Stop, Halted
    <3>2. CASE ~Stop
      BY <2>2, <3>2, Zenon DEF LifecycleMoves, Fence
    <3> QED BY <3>1, <3>2
  <2>4. /\ DOMAIN LifecycleOrder = {1, 2, 3, 4}
        /\ LifecycleOrder[1] = "Accepting" /\ LifecycleOrder[2] = "Draining"
        /\ LifecycleOrder[3] = "Stopped" /\ LifecycleOrder[4] = "Fenced"
    BY DEF LifecycleOrder
  <2> QED BY <2>1, <2>3, <2>4
<1>2. StoreInv /\ [Next]_vars => [crashes' = crashes => Descends]_vars
  BY <1>1
<1> QED BY <1>2, StoreInvariant, PTL DEF Spec, LifecycleDescends
=============================================================================
