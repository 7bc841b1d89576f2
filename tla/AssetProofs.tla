----------------------------- MODULE AssetProofs -----------------------------
(***************************************************************************)
(* Proofs about the components of Workflow that keep what outlives a task: *)
(* the queue of candidates (Queue), the making and adoption of a candidate *)
(* (Candidate), the allocation of a job (Stage), the installed package     *)
(* (Product) and the framework in a project of the user (Project).  Each   *)
(* part proves the inductive invariant of its module; the last part lifts  *)
(* them to Workflow, whose scenes do not disturb one another.              *)
(*                                                                         *)
(* The variables of a component live in the places a to m of Workflow, so  *)
(* no bound name is one of these letters.                                  *)
(***************************************************************************)
EXTENDS Workflow, Sequences, FiniteSetTheorems, TLAPS

W == INSTANCE WellFoundedInduction

-------------------------------------------------------------------------------
(* Numbers.                                                                 *)

\* A set of numbers that is not empty has a least one.
LEMMA LeastNumber ==
  ASSUME NEW T, T \subseteq Nat, T # {}
  PROVE  \E x \in T : \A y \in T : ~(y < x)
<1> DEFINE R == W!OpToRel(<, Nat)
<1>1. W!IsWellFoundedOn(R, Nat)
  BY W!NatLessThanWellFounded
<1>2. \A x, y \in Nat : x < y => <<x, y>> \in R
  BY DEF W!OpToRel
<1> HIDE DEF R
<1>3. PICK x \in T : \A y \in T : <<y, x>> \notin R
  BY <1>1, W!WFMin
<1> QED
  BY <1>2, <1>3

\* A set of numbers up to one has a greatest one.
LEMMA GreatestNumber ==
  ASSUME NEW n \in Nat, NEW S, S \subseteq 1..n, S # {}
  PROVE  \E x \in S : \A y \in S : y <= x
<1> DEFINE T == {n - y : y \in S}
<1>1. T \subseteq Nat /\ T # {}
  <2>1. \A y \in S : y \in 1..n
    OBVIOUS
  <2>2. \A y \in S : n - y \in Nat
    BY <2>1
  <2> QED
    BY <2>2
<1>2. PICK z \in T : \A y \in T : ~(y < z)
  BY <1>1, LeastNumber
<1>3. PICK x \in S : z = n - x
  BY <1>2
<1>4. ASSUME NEW y \in S PROVE y <= x
  <2>1. ~(n - y < n - x)
    BY <1>2, <1>3, <1>4
  <2>2. x \in Nat /\ y \in Nat
    OBVIOUS
  <2> QED
    BY <2>1, <2>2
<1> QED
  BY <1>4

-------------------------------------------------------------------------------
(* Allocation: a job is given what its input allows.                        *)
(*                                                                         *)
(* a input       b evidence    c run     d edits                            *)

\* The module counts as FiniteSets does.
LEMMA StageCounts == \A S : Stage!Cardinality(S) = Cardinality(S)
<1> SUFFICES ASSUME NEW S PROVE Stage!Cardinality(S) = Cardinality(S)
  OBVIOUS
<1> QED
  BY DEF Stage!Cardinality, Cardinality

\* The sets of configurations that are compared are finite, and of one element
\* where there is one cheapest.
LEMMA StageFinite ==
  ASSUME NEW in
  PROVE  /\ IsFiniteSet(Stage!Cheapest(in))
         /\ Cardinality(Stage!Cheapest(in)) = 1 => \E x : Stage!Cheapest(in) = {x}
<1>1. Stage!Cheapest(in) \subseteq Configurations
  BY DEF Stage!Cheapest, Stage!Measured, Stage!With
<1>2. IsFiniteSet(Stage!Cheapest(in))
  BY <1>1, WorkflowAssumption, FS_Subset
<1> QED
  BY <1>2, FS_Singleton

\* Allocator and adapter agree wherever the allocator answers.
LEMMA StageAgrees ==
  ASSUME NEW in \in Stage!Inputs, Stage!Allocate(in).decision # "HELD"
  PROVE  Stage!Allocate(in) = Stage!Project(in)
<1>1. in.wanted \in Configurations \cup {Stage!None}
  BY DEF Stage!Inputs
<1>2. in.wanted # Stage!None =>
        (in.wanted \in Stage!With(in, {"source_selected"})
           <=> in.candidates[in.wanted].status = "source_selected")
  BY <1>1 DEF Stage!With
<1> QED
  BY <1>2 DEF Stage!Allocate, Stage!Project, Stage!Answer

\* What both accept is a capable configuration and the cheapest there
\* is to know of, unless it was named or is the current one.
LEMMA StageChooses ==
  ASSUME NEW in \in Stage!Inputs, NEW x, x = Stage!Project(in).chosen,
         Stage!Project(in).decision \in Stage!Successes,
         Stage!Allocate(in) = Stage!Project(in)
  PROVE  /\ x \in Stage!Capable(in)
         /\ \/ x = in.wanted
            \/ /\ x = in.current /\ in.reuse
               /\ Stage!Unavailable(in) # {} \/ x \in Stage!Cheapest(in)
            \/ Stage!Unavailable(in) = {} /\ Stage!Cheapest(in) = {x}
<1> DEFINE P == Stage!Project(in)
<1>1. CASE in.wanted # Stage!None
  <2>1. in.wanted \in Stage!With(in, {"source_selected"}) /\ x = in.wanted
    BY <1>1 DEF Stage!Project, Stage!Successes, Stage!Answer
  <2> QED
    BY <2>1 DEF Stage!With, Stage!Capable
<1>2. CASE in.wanted = Stage!None /\ Stage!Measured(in) = {}
  <2>1. x = in.current /\ in.reuse /\ in.current \in Stage!Capable(in)
    BY <1>2 DEF Stage!Project, Stage!RetainOr, Stage!Successes, Stage!Answer
  <2>2. Stage!Unavailable(in) = {} => x \in Stage!With(in, {"source_selected"})
    BY <1>2, <2>1 DEF Stage!Measured, Stage!Unavailable, Stage!With, Stage!Capable
  <2>3. Stage!With(in, {"source_selected"}) # {} => Stage!Allocate(in).decision = "HELD"
    BY <1>2 DEF Stage!Allocate, Stage!Answer
  <2>4. "HELD" \notin Stage!Successes
    BY DEF Stage!Successes
  <2> QED
    BY <2>1, <2>2, <2>3, <2>4
<1>3. CASE in.wanted = Stage!None /\ Stage!Measured(in) # {} /\ Stage!Unavailable(in) # {}
  <2>1. x = in.current /\ in.reuse /\ in.current \in Stage!Capable(in)
    BY <1>3 DEF Stage!Project, Stage!RetainOr, Stage!Successes, Stage!Answer
  <2> QED
    BY <1>3, <2>1
<1>4. CASE /\ in.wanted = Stage!None /\ Stage!Measured(in) # {} /\ Stage!Unavailable(in) = {}
           /\ Cardinality(Stage!Cheapest(in)) = 1
  <2>1. PICK y : Stage!Cheapest(in) = {y}
    BY <1>4, StageFinite
  <2>2. P = Stage!Answer("SELECTED", CHOOSE z \in Stage!Cheapest(in) : TRUE)
    BY <1>4, StageCounts DEF Stage!Project
  <2>3. x = CHOOSE z \in Stage!Cheapest(in) : TRUE
    BY <2>2 DEF Stage!Answer
  <2>5. Stage!Cheapest(in) = {x}
    BY <2>1, <2>3
  <2>4. x \in Stage!Capable(in)
    BY <2>5 DEF Stage!Cheapest, Stage!Measured, Stage!With, Stage!Capable
  <2> QED
    BY <1>4, <2>5, <2>4
<1>5. CASE /\ in.wanted = Stage!None /\ Stage!Measured(in) # {} /\ Stage!Unavailable(in) = {}
           /\ Cardinality(Stage!Cheapest(in)) # 1
  <2>3. P = Stage!RetainOr(in, Stage!Cheapest(in), Stage!Answer("USER-DECISION", Stage!None))
    BY <1>5, StageCounts DEF Stage!Project
  <2>1. x = in.current /\ in.reuse /\ x \in Stage!Cheapest(in)
    BY <2>3 DEF Stage!RetainOr, Stage!Successes, Stage!Answer
  <2>2. x \in Stage!Capable(in)
    BY <2>1 DEF Stage!Cheapest, Stage!Measured, Stage!With, Stage!Capable
  <2> QED
    BY <2>1, <2>2
<1> QED
  BY <1>1, <1>2, <1>3, <1>4, <1>5

\* At first nothing runs.
LEMMA StageStarts == Stage!Init => Stage!AllocationInv
<1> SUFFICES ASSUME Stage!Init PROVE Stage!AllocationInv
  OBVIOUS
<1>1. d = 0 /\ a \in Stage!Inputs \X {0} /\ b = [p \in EvidenceFiles |-> {}]
      /\ c = [p \in EvidenceFiles |-> Stage!Idle]
  BY DEF Stage!Init
<1>2. ASSUME NEW p \in EvidenceFiles PROVE Stage!RunKnown(p)
  BY <1>1 DEF Stage!RunKnown, Stage!Idle
<1> QED
  BY <1>1, <1>2 DEF Stage!AllocationInv

\* What one adapter does leaves the others where they are.
LEMMA StageOthers ==
  ASSUME Stage!AllocationInv, NEW p \in EvidenceFiles, NEW q \in EvidenceFiles \ {p},
         UNCHANGED <<a, d>>, c'[q] = c[q], b'[q] = b[q]
  PROVE  Stage!RunKnown(q)'
<1>1. Stage!RunKnown(q)
  BY DEF Stage!AllocationInv
<1> QED
  BY <1>1 DEF Stage!RunKnown

\* A step of an adapter keeps the invariant.
LEMMA StageAdapter ==
  ASSUME Stage!AllocationInv, NEW p \in EvidenceFiles,
         \/ Stage!Begin(p) \/ Stage!Launch(p) \/ Stage!Exit(p)
         \/ Stage!KeepRaw(p) \/ Stage!Consume(p) \/ Stage!Die(p)
  PROVE  Stage!AllocationInv'
<1> USE DEF Stage!AllocationInv
<1>1. UNCHANGED <<a, d>>
  BY DEF Stage!Begin, Stage!Launch, Stage!Exit, Stage!KeepRaw, Stage!Consume, Stage!Die
<1>2. /\ b' \in [EvidenceFiles -> SUBSET {"created", "raw", "consumption"}]
      /\ DOMAIN c' = EvidenceFiles
      /\ \A q \in EvidenceFiles \ {p} : c'[q] = c[q] /\ b'[q] = b[q]
  BY DEF Stage!Begin, Stage!Launch, Stage!Exit, Stage!KeepRaw, Stage!Consume, Stage!Die
<1>3. Stage!RunKnown(p)
  OBVIOUS
<1>4. Stage!RunKnown(p)'
  <2>1. CASE Stage!Begin(p)
    <3>1. c'[p] = [Stage!Idle EXCEPT !.at = "begun", !.bytes = a]
      BY <2>1 DEF Stage!Begin
    <3>2. c'[p].at = "begun" /\ c'[p].bytes = a /\ c'[p].output = Stage!NoOutput
      BY <3>1 DEF Stage!Idle
    <3> QED
      BY <1>1, <3>2 DEF Stage!RunKnown, Stage!NoOutput
  <2>2. CASE Stage!Launch(p)
    <3>1. PICK s \in {"running", "exited"} : c' = [c EXCEPT ![p].at = s]
      BY <2>2 DEF Stage!Launch
    <3>2. c[p].at = "begun" /\ p \in DOMAIN c
      BY <2>2 DEF Stage!Launch
    <3>3. c'[p].at = s /\ c'[p].bytes = c[p].bytes /\ c'[p].output = c[p].output
      BY <3>1, <3>2
    <3> QED
      BY <1>1, <1>3, <3>2, <3>3 DEF Stage!RunKnown
  <2>3. CASE Stage!Exit(p)
    <3>1. /\ c[p].at = "running" /\ c'[p].at = "exited" /\ c'[p].bytes = c[p].bytes
          /\ c'[p].output = [answer |-> Stage!Allocate(a[1]), stamp |-> a[2]]
      BY <2>3 DEF Stage!Exit
    <3>2. a[2] = d
      OBVIOUS
    <3> QED
      BY <1>1, <1>3, <3>1, <3>2 DEF Stage!RunKnown
  <2>4. CASE Stage!KeepRaw(p)
    <3>1. /\ c[p].at = "exited" /\ c'[p].at = "kept" /\ c'[p].bytes = c[p].bytes
          /\ c'[p].output = c[p].output /\ b'[p] = b[p] \cup {"raw"}
      BY <2>4 DEF Stage!KeepRaw
    <3> QED
      BY <1>1, <1>3, <3>1 DEF Stage!RunKnown
  <2>5. CASE Stage!Consume(p)
    <3>1. /\ c[p].at = "kept" /\ c'[p].bytes = c[p].bytes /\ c'[p].output = c[p].output
          /\ b'[p] = b[p] \cup {"consumption"} /\ c'[p].at \in {"ready", "refused"}
          /\ c'[p].at = "ready" =>
               /\ c[p].output # Stage!NoOutput /\ c[p].output.stamp = c[p].bytes[2]
               /\ c[p].output.answer = Stage!Project(c[p].bytes[1])
               /\ c[p].output.answer.decision \in Stage!Successes
      BY <2>5 DEF Stage!Consume
    <3> QED
      BY <1>1, <1>3, <3>1 DEF Stage!RunKnown
  <2>6. CASE Stage!Die(p)
    <3>1. c'[p].at = "idle" /\ b'[p] = b[p]
      BY <2>6 DEF Stage!Die
    <3> QED
      BY <3>1 DEF Stage!RunKnown
  <2> QED
    BY <2>1, <2>2, <2>3, <2>4, <2>5, <2>6
<1>5. \A q \in EvidenceFiles \ {p} : Stage!RunKnown(q)'
  BY <1>1, <1>2, StageOthers
<1> QED
  BY <1>1, <1>2, <1>4, <1>5

\* So does an edit of the input, which has another stamp.
LEMMA StageEdit == ASSUME Stage!AllocationInv, Stage!Edit PROVE Stage!AllocationInv'
<1> USE DEF Stage!AllocationInv
<1>1. d \in Nat /\ d' = d + 1 /\ UNCHANGED <<b, c>>
  BY DEF Stage!Edit
<1>2. PICK s \in BOOLEAN : a' = <<[a[1] EXCEPT !.reuse = s], d'>>
  BY DEF Stage!Edit
<1>3. [a[1] EXCEPT !.reuse = s] \in Stage!Inputs
  BY DEF Stage!Inputs
<1>4. a' \in Stage!Inputs \X {d'} /\ d' \in Nat
  BY <1>1, <1>2, <1>3
<1>5. ASSUME NEW p \in EvidenceFiles PROVE Stage!RunKnown(p)'
  <2>1. Stage!RunKnown(p)
    OBVIOUS
  <2>2. c[p].at # "idle" => c[p].bytes \in Stage!Inputs \X (0..d') /\ c[p].bytes[2] # d'
    BY <1>1, <2>1 DEF Stage!RunKnown
  <2> QED
    BY <1>1, <2>1, <2>2 DEF Stage!RunKnown
<1> QED
  BY <1>1, <1>4, <1>5

\* Every step keeps it.
LEMMA StageHolds ==
  ASSUME Stage!AllocationInv, [Stage!Next]_(Stage!vars)
  PROVE  Stage!AllocationInv'
<1>1. CASE UNCHANGED Stage!vars
  BY <1>1 DEF Stage!vars, Stage!AllocationInv, Stage!RunKnown
<1>2. CASE Stage!Next
  BY <1>2, StageEdit, StageAdapter DEF Stage!Next
<1> QED
  BY <1>1, <1>2

\* Allocator and adapter decide alike, and what is ready may be used.
LEMMA StageSound == ASSUME Stage!AllocationInv PROVE Stage!AllocationSound
<1> USE DEF Stage!AllocationInv
<1>1. Stage!TypeOK
  BY DEF Stage!TypeOK
<1>2. Stage!Allocate(a[1]).decision # "HELD" => Stage!Allocate(a[1]) = Stage!Project(a[1])
  BY StageAgrees
<1>3. ASSUME NEW p \in EvidenceFiles, c[p].at = "ready"
      PROVE  /\ "raw" \in b[p]
             /\ c[p].output.answer.chosen \in Stage!Capable(c[p].bytes[1])
             /\ \/ c[p].output.answer.chosen = c[p].bytes[1].wanted
                \/ /\ c[p].output.answer.chosen = c[p].bytes[1].current /\ c[p].bytes[1].reuse
                   /\ \/ Stage!Unavailable(c[p].bytes[1]) # {}
                      \/ c[p].output.answer.chosen \in Stage!Cheapest(c[p].bytes[1])
                \/ /\ Stage!Unavailable(c[p].bytes[1]) = {}
                   /\ Stage!Cheapest(c[p].bytes[1]) = {c[p].output.answer.chosen}
  <2>1. Stage!RunKnown(p)
    OBVIOUS
  <2>2. /\ "raw" \in b[p] /\ c[p].bytes[1] \in Stage!Inputs
        /\ c[p].output.answer = Stage!Project(c[p].bytes[1])
        /\ Stage!Allocate(c[p].bytes[1]) = Stage!Project(c[p].bytes[1])
        /\ Stage!Project(c[p].bytes[1]).decision \in Stage!Successes
    BY <1>3, <2>1 DEF Stage!RunKnown
  <2> QED
    BY <2>2, StageChooses
<1> QED
  BY <1>1, <1>2, <1>3 DEF Stage!AllocationSound

-------------------------------------------------------------------------------
(* LearningQueue: events of candidates are committed in order, once each.   *)
(*                                                                         *)
(* a row         b history      c pending     d pager                       *)

\* The module counts as FiniteSets does.
LEMMA QueueCounts ==
  \A S : Queue!Cardinality(S) = Cardinality(S) /\ Queue!IsFiniteSet(S) = IsFiniteSet(S)
<1> SUFFICES ASSUME NEW S
             PROVE  Queue!Cardinality(S) = Cardinality(S) /\ Queue!IsFiniteSet(S) = IsFiniteSet(S)
  OBVIOUS
<1>1. Queue!Cardinality(S) = Cardinality(S)
  BY DEF Queue!Cardinality, Cardinality
<1>2. Queue!IsFiniteSet(S) = IsFiniteSet(S)
  BY DEF Queue!IsFiniteSet, IsFiniteSet
<1> QED
  BY <1>1, <1>2

\* The walk from the successor of an event is a function: the first steps of it
\* are the successor, and that one's successor.
LEMMA QueueWalk ==
  ASSUME NEW q, q.candidate \in Queued, q.successor \in Queued,
         Queue!NoCycle(q), Queue!QueueTypes
  PROVE  q.successor # q.candidate /\ a[q.successor].successor # q.candidate
<1> DEFINE N == Queue!Cardinality(Queued)
           next == [x \in Queued |-> IF x = q.candidate THEN q.successor ELSE a[x].successor]
           Step(walk, n) == IF n = 0 THEN q.successor
                            ELSE IF walk[n - 1] = Queue!Nobody THEN Queue!Nobody
                                 ELSE next[walk[n - 1]]
           IsWalk(n, walk) == walk = [x \in 0..n |-> Step(walk, x)]
           Undefined == {n \in Nat : ~\E walk : IsWalk(n, walk)}
<1>1. \A n \in Nat : \E walk : IsWalk(n, walk)
  <2> SUFFICES ASSUME Undefined # {} PROVE FALSE
    OBVIOUS
  <2>1. PICK n \in Undefined : \A y \in Undefined : ~(y < n)
    BY LeastNumber
  <2>2. CASE n = 0
    <3> DEFINE g0 == [x \in 0..0 |-> q.successor]
    <3>1. IsWalk(0, g0)
      OBVIOUS
    <3> QED
      BY <2>1, <2>2, <3>1
  <2>3. CASE n # 0
    <3>1. n - 1 \in Nat /\ n - 1 < n /\ n \in Nat
      BY <2>3
    <3>2. PICK walk : IsWalk(n - 1, walk)
      BY <2>1, <3>1
    <3> DEFINE more == [x \in 0..n |-> Step(walk, x)]
    <3>3. \A x \in 0..n - 1 : more[x] = walk[x]
      <4> SUFFICES ASSUME NEW x \in 0..n - 1 PROVE more[x] = walk[x]
        OBVIOUS
      <4>1. walk[x] = Step(walk, x)
        <5> HIDE DEF Step
        <5> QED
          BY <3>2
      <4>2. more[x] = Step(walk, x)
        <5> HIDE DEF Step
        <5> QED
          BY <3>1
      <4> HIDE DEF Step, more
      <4> QED
        BY <4>1, <4>2
    <3>4. \A x \in 0..n : Step(walk, x) = Step(more, x)
      <4> SUFFICES ASSUME NEW x \in 0..n PROVE Step(walk, x) = Step(more, x)
        OBVIOUS
      <4>1. CASE x = 0
        BY <4>1
      <4>2. CASE x # 0
        <5>1. x - 1 \in 0..n - 1
          BY <3>1, <4>2
        <5>2. more[x - 1] = walk[x - 1]
          BY <3>3, <5>1
        <5> HIDE DEF more
        <5> QED
          BY <4>2, <5>2
      <4> HIDE DEF Step
      <4> QED
        BY <4>1, <4>2
    <3>5. IsWalk(n, more)
      <4> HIDE DEF Step
      <4> QED
        BY <3>4
    <3> QED
      BY <2>1, <3>5
  <2> QED
    BY <2>2, <2>3
<1> DEFINE whole == CHOOSE walk : IsWalk(N, walk)
<1>2. N \in Nat /\ N >= 1
  <2>1. IsFiniteSet(Queued) /\ Queued # {}
    BY WorkflowAssumption
  <2> QED
    BY <2>1, QueueCounts, FS_CardinalityType, FS_EmptySet
<1>3. IsWalk(N, whole)
  <2> HIDE DEF IsWalk, N
  <2> QED
    BY <1>1, <1>2
<1>4. \A n \in DOMAIN whole : whole[n] # q.candidate
  BY DEF Queue!NoCycle
<1>5. \A n \in 0..N : whole[n] = Step(whole, n) /\ n \in DOMAIN whole
  <2> HIDE DEF Step, whole, N
  <2> QED
    BY <1>3
<1> HIDE DEF whole, N
<1>6. 0 \in 0..N /\ 1 \in 0..N
  BY <1>2
<1>7. whole[0] = q.successor
  BY <1>5, <1>6
<1>8. q.successor # Queue!Nobody
  BY WorkflowAssumption DEF Queue!Nobody
<1>9. whole[1] = next[q.successor]
  BY <1>5, <1>6, <1>7, <1>8
<1>10. q.successor # q.candidate
  BY <1>4, <1>5, <1>6, <1>7
<1>11. next[q.successor] = a[q.successor].successor
  BY <1>10
<1> QED
  BY <1>4, <1>5, <1>6, <1>9, <1>10, <1>11

\* What a commit writes of the row of its candidate.
QueueRow(x, s, p) ==
  [revision |-> a[x].revision + 1, state |-> s.state, measured |-> s.measured,
   successor |-> s.successor, trigger |-> s.trigger, event |-> p.id]
QueueEvent(p, s) == [id |-> p.id, candidate |-> p.candidate, expect |-> p.expect, state |-> s.state]

\* The commit of an event that was sent with contents s.
QueueCommits(p, s) ==
  /\ p \in c /\ s \in Queue!Contents
  /\ ~Queue!Recorded(p) /\ Queue!Accepted(Queue!Said(p, s))
  /\ b' = b \cup {QueueEvent(p, s)}
  /\ a' = [a EXCEPT ![p.candidate] = QueueRow(p.candidate, s, p)]

\* What the checks of an accepted event say.
LEMMA QueueChecked ==
  ASSUME Queue!QueueInv, NEW p, NEW s, QueueCommits(p, s)
  PROVE  /\ p \in Queue!Sent /\ p.candidate \in Queued
         /\ p.expect = a[p.candidate].revision
         /\ s.measured /\ ~a[p.candidate].measured => s.state = "measured"
         /\ s.successor # p.candidate
         /\ s.successor \in Queued => a[s.successor].successor # p.candidate
<1> DEFINE q == Queue!Said(p, s)
<1>1. /\ p \in Queue!Sent /\ p.candidate \in Queued
      /\ s.successor \in Queued \cup {Queue!Nobody} /\ s.measured \in BOOLEAN
  BY DEF QueueCommits, Queue!QueueInv, Queue!QueueTypes, Queue!Sent, Queue!Contents
<1>2. /\ q.candidate = p.candidate /\ q.expect = p.expect /\ q.state = s.state
      /\ q.measured = s.measured /\ q.successor = s.successor /\ q.metadata = s.metadata
  BY DEF Queue!Said
<1>3. Queue!Accepted(q)
  BY DEF QueueCommits
<1> HIDE DEF q
<1>4. p.expect = a[p.candidate].revision
  BY <1>2, <1>3 DEF Queue!Accepted, Queue!Fresh
<1>5. s.measured /\ ~a[p.candidate].measured => s.state = "measured"
  BY <1>2, <1>3 DEF Queue!Accepted, Queue!Continues
<1>6. s.successor # p.candidate
  BY <1>2, <1>3 DEF Queue!Accepted, Queue!Normal
<1>7. ASSUME s.successor \in Queued PROVE a[s.successor].successor # p.candidate
  <2>1. s.successor # Queue!Nobody
    BY <1>7, WorkflowAssumption DEF Queue!Nobody
  <2>2. Queue!NoCycle(q)
    BY <1>2, <1>3, <2>1 DEF Queue!Accepted, Queue!References
  <2> QED
    BY <1>1, <1>2, <1>7, <2>2, QueueWalk DEF Queue!QueueInv
<1> QED
  BY <1>1, <1>4, <1>5, <1>6, <1>7

\* A commit keeps the history in order, and every row at the end of its own.
LEMMA QueueCommitKeeps ==
  ASSUME Queue!QueueInv, NEW p, NEW s, QueueCommits(p, s)
  PROVE  /\ a' \in [Queued -> Queue!Rows] /\ b' \in SUBSET Queue!Committed
         /\ \A x, y \in b' : x.id = y.id => x = y
         /\ \A x \in Queued : Queue!RowKnown(x)'
         /\ a'[p.candidate].revision = a[p.candidate].revision + 1
         /\ \A x \in Queued \ {p.candidate} : a'[x] = a[x]
<1> DEFINE z == p.candidate
           new == QueueEvent(p, s)
<1>1. /\ p \in Queue!Sent /\ z \in Queued
      /\ p.expect = a[z].revision
      /\ s.measured /\ ~a[z].measured => s.state = "measured"
      /\ s.successor # z
      /\ s.successor \in Queued => a[s.successor].successor # z
  BY QueueChecked
<1>2. a \in [Queued -> Queue!Rows] /\ b \subseteq Queue!Committed /\ Ids \subseteq Nat
  BY WorkflowAssumption DEF Queue!QueueInv, Queue!QueueTypes
<1>3. /\ new \in Queue!Committed /\ new.id = p.id /\ new.candidate = z
      /\ new.expect = a[z].revision /\ new.state = s.state
  BY <1>1 DEF QueueEvent, QueueCommits, Queue!Sent, Queue!Committed, Queue!Contents
<1>4. QueueRow(z, s, p) \in Queue!Rows
  <2>3. a[z] \in Queue!Rows
    BY <1>1, <1>2
  <2>4. a[z].revision \in Nat
    BY <2>3 DEF Queue!Rows
  <2>5. p.id \in Ids
    BY <1>1 DEF Queue!Sent
  <2>1. a[z].revision + 1 \in Nat
    BY <2>4
  <2>6. p.id \in Nat
    BY <1>2, <2>5
  <2>2. /\ s.state \in Queue!States \cup {"none"} /\ s.measured \in BOOLEAN
        /\ s.successor \in Queued \cup {Queue!Nobody} /\ s.trigger \in Queue!Triggers
    BY DEF QueueCommits, Queue!Contents
  <2> QED
    BY <2>1, <2>2, <2>6 DEF QueueRow, Queue!Rows
<1>5. /\ QueueRow(z, s, p).revision = a[z].revision + 1 /\ QueueRow(z, s, p).state = s.state
      /\ QueueRow(z, s, p).measured = s.measured /\ QueueRow(z, s, p).successor = s.successor
  BY DEF QueueRow
<1>6. b' = b \cup {new}
  BY DEF QueueCommits
<1>7. /\ a' \in [Queued -> Queue!Rows] /\ a'[z] = QueueRow(z, s, p)
      /\ \A x \in Queued \ {z} : a'[x] = a[x]
  BY <1>1, <1>2, <1>4 DEF QueueCommits
<1>8. \A x \in b : x.id # p.id
  BY DEF QueueCommits, Queue!Recorded
<1> HIDE DEF new, z
<1>9. \A x, y \in b' : x.id = y.id => x = y
  BY <1>3, <1>6, <1>8 DEF Queue!QueueInv
<1>10. /\ Queue!EventsOf(z)' = Queue!EventsOf(z) \cup {new} /\ new \notin Queue!EventsOf(z)
       /\ \A x \in Queued \ {z} : Queue!EventsOf(x)' = Queue!EventsOf(x)
  BY <1>3, <1>6, <1>8 DEF Queue!EventsOf
<1>11. \A x \in Queued : Queue!RowKnown(x) /\ a[x].revision \in Nat
  BY <1>2 DEF Queue!QueueInv, Queue!Rows
<1>12. Queue!RowKnown(z)'
  <2>1. Queue!IsFiniteSet(Queue!EventsOf(z)') /\ Queue!Cardinality(Queue!EventsOf(z)') = a'[z].revision
    <3>1. IsFiniteSet(Queue!EventsOf(z)) /\ Cardinality(Queue!EventsOf(z)) = a[z].revision
      BY <1>1, <1>11, QueueCounts DEF Queue!RowKnown
    <3>2. /\ IsFiniteSet(Queue!EventsOf(z) \cup {new})
          /\ Cardinality(Queue!EventsOf(z) \cup {new}) = Cardinality(Queue!EventsOf(z)) + 1
      BY <1>10, <3>1, FS_AddElement
    <3> QED
      BY <1>5, <1>7, <1>10, <3>1, <3>2, QueueCounts
  <2>2. {x.expect : x \in Queue!EventsOf(z)'} = 0..(a'[z].revision - 1)
    <3>1. {x.expect : x \in Queue!EventsOf(z)} = 0..(a[z].revision - 1)
      BY <1>1, <1>11 DEF Queue!RowKnown
    <3>2. {x.expect : x \in Queue!EventsOf(z)'}
             = {x.expect : x \in Queue!EventsOf(z)} \cup {a[z].revision}
      BY <1>3, <1>10
    <3>3. a[z].revision \in Nat /\ a'[z].revision = a[z].revision + 1
      BY <1>1, <1>5, <1>7, <1>11
    <3>4. (0..(a[z].revision - 1)) \cup {a[z].revision} = 0..(a'[z].revision - 1)
      BY <3>3
    <3> QED
      BY <3>1, <3>2, <3>4
  <2>3. \A x \in Queue!EventsOf(z)' : x.expect + 1 = a'[z].revision => x.state = a'[z].state
    <3> SUFFICES ASSUME NEW x \in Queue!EventsOf(z)', x.expect + 1 = a'[z].revision
                 PROVE  x.state = a'[z].state
      OBVIOUS
    <3>1. CASE x = new
      BY <1>3, <1>5, <1>7, <3>1
    <3>2. CASE x \in Queue!EventsOf(z)
      <4>1. x.expect \in 0..(a[z].revision - 1)
        BY <1>1, <1>11, <3>2 DEF Queue!RowKnown
      <4>2. x.expect + 1 = a[z].revision + 1
        BY <1>5, <1>7
      <4> QED
        BY <1>1, <1>11, <4>1, <4>2
    <3> QED
      BY <1>10, <3>1, <3>2
  <2>4. a'[z].measured => \E x \in Queue!EventsOf(z)' : x.state = "measured"
    <3>1. a[z].measured => \E x \in Queue!EventsOf(z) : x.state = "measured"
      BY <1>1, <1>11 DEF Queue!RowKnown
    <3> QED
      BY <1>1, <1>3, <1>5, <1>7, <1>10, <3>1
  <2>5. \A y \in Queued : a'[z].successor = y => a'[y].successor # z
    BY <1>1, <1>5, <1>7
  <2> QED
    BY <2>1, <2>2, <2>3, <2>4, <2>5 DEF Queue!RowKnown
<1>13. ASSUME NEW x \in Queued \ {z} PROVE Queue!RowKnown(x)'
  <2>1. Queue!RowKnown(x) /\ a'[x] = a[x] /\ Queue!EventsOf(x)' = Queue!EventsOf(x)
    BY <1>7, <1>10, <1>11
  <2>2. \A y \in Queued : a'[x].successor = y => a'[y].successor # x
    BY <1>1, <1>5, <1>7, <2>1 DEF Queue!RowKnown
  <2> QED
    BY <2>1, <2>2 DEF Queue!RowKnown
<1> QED
  BY <1>1, <1>3, <1>2, <1>5, <1>6, <1>7, <1>9, <1>12, <1>13 DEF z

-------------------------------------------------------------------------------
\* What is due depends on the rows alone.
LEMMA QueueDue ==
  ASSUME a' = a
  PROVE  Queue!Frontier' = Queue!Frontier /\ \A x : Queue!Due(x)' = Queue!Due(x)
BY DEF Queue!Frontier, Queue!Due

\* An event that is prepared or answered does not disturb the queue.
LEMMA QueueSends ==
  ASSUME Queue!QueueInv, UNCHANGED <<a, b, d>>,
         c' \in SUBSET Queue!Sent, IsFiniteSet(c'), Cardinality(c') <= MaxPending
  PROVE  Queue!QueueInv'
<1>1. Queue!QueueTypes'
  BY QueueCounts DEF Queue!QueueInv, Queue!QueueTypes
<1>2. \A x \in Queued : Queue!RowKnown(x)'
  BY DEF Queue!QueueInv, Queue!RowKnown, Queue!EventsOf
<1>3. Queue!PagerKnown'
  BY QueueDue DEF Queue!QueueInv, Queue!PagerKnown
<1> QED
  BY <1>1, <1>2, <1>3 DEF Queue!QueueInv

\* The events that wait are as few as before or one more.
LEMMA QueuePrepare == ASSUME Queue!QueueInv, Queue!Prepare PROVE Queue!QueueInv'
<1>1. PICK x \in Queued, y \in Ids :
        c' = c \cup {[id |-> y, candidate |-> x, expect |-> a[x].revision]}
  BY DEF Queue!Prepare
<1> DEFINE new == [id |-> y, candidate |-> x, expect |-> a[x].revision]
<1>2. /\ Cardinality(c) < MaxPending /\ IsFiniteSet(c) /\ c \subseteq Queue!Sent
      /\ MaxPending \in Nat
  BY QueueCounts, WorkflowAssumption DEF Queue!Prepare, Queue!QueueInv, Queue!QueueTypes
<1>3. new \in Queue!Sent
  BY DEF Queue!QueueInv, Queue!QueueTypes, Queue!Rows, Queue!Sent
<1>4. /\ IsFiniteSet(c \cup {new}) /\ Cardinality(c) \in Nat
      /\ Cardinality(c \cup {new}) \in {Cardinality(c), Cardinality(c) + 1}
  BY <1>2, FS_AddElement, FS_CardinalityType
<1>5. c' \in SUBSET Queue!Sent /\ IsFiniteSet(c') /\ Cardinality(c') <= MaxPending
  BY <1>1, <1>2, <1>3, <1>4
<1>6. UNCHANGED <<a, b, d>>
  BY DEF Queue!Prepare
<1> QED
  BY <1>5, <1>6, QueueSends

\* An event sent is committed, or answered again, or lost.
LEMMA QueueUpsert ==
  ASSUME Queue!QueueInv, NEW p \in c, Queue!Upsert(p)
  PROVE  Queue!QueueInv'
<1>1. c' \in SUBSET Queue!Sent /\ IsFiniteSet(c') /\ Cardinality(c') <= MaxPending
  <2>1. /\ Cardinality(c) <= MaxPending /\ IsFiniteSet(c) /\ c \subseteq Queue!Sent
        /\ MaxPending \in Nat
    BY QueueCounts, WorkflowAssumption DEF Queue!QueueInv, Queue!QueueTypes
  <2>2. c' = c \/ c' = c \ {p}
    BY DEF Queue!Upsert
  <2>3. /\ IsFiniteSet(c \ {p}) /\ Cardinality(c) \in Nat
        /\ Cardinality(c \ {p}) = Cardinality(c) - 1
    BY <2>1, FS_RemoveElement, FS_CardinalityType
  <2>4. Cardinality(c \ {p}) <= MaxPending
    BY <2>1, <2>3
  <2>5. CASE c' = c
    BY <2>1, <2>5
  <2>6. CASE c' = c \ {p}
    BY <2>1, <2>3, <2>4, <2>6
  <2> QED
    BY <2>2, <2>5, <2>6
<1>2. d' = d \/ d' = Queue!Resting
  BY DEF Queue!Upsert
<1>3. CASE UNCHANGED <<a, b, d>>
  BY <1>1, <1>3, QueueSends
<1>4. CASE \E s : QueueCommits(p, s)
  <2>1. PICK s : QueueCommits(p, s)
    BY <1>4
  <2>2. /\ a' \in [Queued -> Queue!Rows] /\ b' \in SUBSET Queue!Committed
        /\ \A x, y \in b' : x.id = y.id => x = y
        /\ \A x \in Queued : Queue!RowKnown(x)'
        /\ a'[p.candidate].revision = a[p.candidate].revision + 1
        /\ \A x \in Queued \ {p.candidate} : a'[x] = a[x]
    BY <2>1, QueueCommitKeeps
  <2>3. Queue!QueueTypes'
    <3>1. /\ d'.at \in {"idle", "more", "done"} /\ d'.got \subseteq Queued /\ d'.after \in Nat
          /\ d'.at # "idle" => d'.frontier \in [Queued -> Nat]
      BY <1>2 DEF Queue!QueueInv, Queue!QueueTypes, Queue!Resting
    <3> QED
      BY <1>1, <2>2, <3>1, QueueCounts DEF Queue!QueueTypes
  <2>4. p.candidate \in Queued /\ \A x \in Queued : a[x].revision \in Nat
    BY DEF Queue!QueueInv, Queue!QueueTypes, Queue!Sent, Queue!Rows
  <2>5. Queue!PagerKnown'
    <3>1. ASSUME d.at # "idle"
          PROVE  /\ \A x \in Queued : d.frontier[x] <= a'[x].revision
                 /\ d.frontier # Queue!Frontier'
      <4>1. \A x \in Queued : d.frontier[x] \in Nat /\ d.frontier[x] <= a[x].revision
        BY <3>1 DEF Queue!QueueInv, Queue!QueueTypes, Queue!PagerKnown
      <4>2. \A x \in Queued : d.frontier[x] <= a'[x].revision
        BY <2>2, <2>4, <4>1
      <4>3. d.frontier[p.candidate] # a'[p.candidate].revision
        BY <2>2, <2>4, <4>1
      <4>4. Queue!Frontier'[p.candidate] = a'[p.candidate].revision
        BY <2>4 DEF Queue!Frontier
      <4> QED
        BY <4>2, <4>3, <4>4
    <3>2. CASE d' = d
      BY <3>1, <3>2 DEF Queue!PagerKnown
    <3>3. CASE d' = Queue!Resting
      BY <3>3 DEF Queue!PagerKnown, Queue!Resting
    <3> QED
      BY <1>2, <3>2, <3>3
  <2> QED
    BY <2>2, <2>3, <2>5 DEF Queue!QueueInv
<1> QED
  BY <1>3, <1>4 DEF Queue!Upsert, Queue!Repeats, QueueCommits, QueueRow, QueueEvent

\* A page is what comes next of what is due.
LEMMA QueuePage ==
  ASSUME Queue!QueueInv, NEW got \in SUBSET Queued, NEW after \in Nat,
         got = {x \in Queued : Queue!Due(x) /\ x <= after},
         Queue!Page(got, after)
  PROVE  Queue!QueueInv'
<1> DEFINE later == {x \in Queued : Queue!Due(x) /\ x > after}
           first == {x \in later : \A y \in later : x <= y}
<1>1. Queued \subseteq Nat \ {0} /\ IsFiniteSet(later) /\ Cardinality(later) \in Nat
  <2>1. later \subseteq Queued
    OBVIOUS
  <2> HIDE DEF later
  <2> QED
    BY <2>1, WorkflowAssumption, FS_Subset, FS_CardinalityType
<1>2. UNCHANGED <<a, b, c>>
  BY DEF Queue!Page
<1>3. /\ d'.at = IF Cardinality(later) > 1 THEN "more" ELSE "done"
      /\ d'.frontier = Queue!Frontier /\ d'.got = got \cup first
      /\ d'.after = IF later = {} THEN after ELSE CHOOSE x \in first : TRUE
  BY QueueCounts DEF Queue!Page
<1>4. later # {} => \E x : first = {x} /\ x \in later
  <2> SUFFICES ASSUME later # {} PROVE \E x : first = {x} /\ x \in later
    OBVIOUS
  <2>1. later \subseteq Nat
    BY <1>1
  <2>2. PICK x \in later : \A y \in later : ~(y < x)
    <3> HIDE DEF later
    <3> QED
      BY <2>1, LeastNumber
  <2>3. \A y \in later : x <= y
    BY <2>1, <2>2
  <2>4. first = {x}
    BY <2>1, <2>2, <2>3
  <2> QED
    BY <2>2, <2>4
<1>5. later = {} => first = {}
  OBVIOUS
<1>6. later # {} => first = {d'.after} /\ d'.after \in later
  <2> HIDE DEF later, first
  <2> QED
    BY <1>3, <1>4
<1>7. d'.after \in Nat /\ d'.got \subseteq Queued
  BY <1>1, <1>3, <1>6
<1>8. Queue!Frontier \in [Queued -> Nat]
  BY DEF Queue!Frontier, Queue!QueueInv, Queue!QueueTypes, Queue!Rows
<1>9. Queue!QueueTypes'
  BY <1>2, <1>3, <1>7, <1>8 DEF Queue!QueueInv, Queue!QueueTypes
<1>10. Queue!Frontier' = Queue!Frontier /\ \A x : Queue!Due(x)' = Queue!Due(x)
  BY <1>2, QueueDue
<1>11. Cardinality(later) > 1 =>
         d'.got = {x \in Queued : Queue!Due(x) /\ x <= d'.after}
  <2> SUFFICES ASSUME Cardinality(later) > 1
               PROVE  d'.got = {x \in Queued : Queue!Due(x) /\ x <= d'.after}
    OBVIOUS
  <2>1. later # {}
    <3> HIDE DEF later
    <3> QED
      BY FS_EmptySet
  <2>2. first = {d'.after} /\ d'.after \in later /\ \A y \in later : d'.after <= y
    BY <1>6, <2>1
  <2>3. d'.got = got \cup {d'.after}
    BY <1>3, <2>2
  <2>4. \A x \in Queued :
          x \in got \cup {d'.after} <=> Queue!Due(x) /\ x <= d'.after
    <3> SUFFICES ASSUME NEW x \in Queued
                 PROVE  x \in got \cup {d'.after} <=> Queue!Due(x) /\ x <= d'.after
      OBVIOUS
    <3>1. x \in Nat /\ after \in Nat /\ d'.after \in Nat
      BY <1>1, <1>7
    <3>2. d'.after > after /\ Queue!Due(d'.after)
      BY <2>2
    <3>3. Queue!Due(x) /\ x > after => d'.after <= x
      BY <2>2
    <3>4. x \in got <=> Queue!Due(x) /\ x <= after
      OBVIOUS
    <3> HIDE DEF later, first
    <3> QED
      BY <3>1, <3>2, <3>3, <3>4
  <2> QED
    BY <1>7, <2>2, <2>3, <2>4
<1>12. ~(Cardinality(later) > 1) => d'.got = {x \in Queued : Queue!Due(x)}
  <2> SUFFICES ASSUME ~(Cardinality(later) > 1)
               PROVE  d'.got = {x \in Queued : Queue!Due(x)}
    OBVIOUS
  <2>1. CASE later = {}
    <3>1. \A x \in Queued : Queue!Due(x) => x <= after
      BY <1>1, <2>1
    <3> QED
      BY <1>3, <1>5, <2>1, <3>1
  <2>2. CASE later # {}
    <3>1. \E x : later = {x}
      <4> HIDE DEF later
      <4>1. Cardinality(later) = 1
        BY <1>1, <2>2, FS_EmptySet
      <4> QED
        BY <1>1, <4>1, FS_Singleton
    <3>2. first = later
      BY <1>1, <3>1
    <3>3. \A x \in Queued : Queue!Due(x) => x <= after \/ x \in later
      BY <1>1
    <3> QED
      BY <1>3, <3>2, <3>3
  <2> QED
    BY <2>1, <2>2
<1>13. Queue!PagerKnown'
  <2>1. \A x \in Queued : Queue!Frontier[x] <= a[x].revision
    BY DEF Queue!Frontier, Queue!QueueInv, Queue!QueueTypes, Queue!Rows
  <2> HIDE DEF later, first
  <2> QED
    BY <1>2, <1>3, <1>10, <1>11, <1>12, <2>1 DEF Queue!PagerKnown
<1>14. \A x \in Queued : Queue!RowKnown(x)'
  BY <1>2 DEF Queue!QueueInv, Queue!RowKnown, Queue!EventsOf
<1> QED
  BY <1>2, <1>9, <1>13, <1>14 DEF Queue!QueueInv

\* The reader begins, goes on from where it was, or is refused.
LEMMA QueueFindDue == ASSUME Queue!QueueInv, Queue!FindDue PROVE Queue!QueueInv'
<1>1. CASE d.at # "more"
  <2>1. {} = {x \in Queued : Queue!Due(x) /\ x <= 0}
    <3>1. \A x \in Queued : x \in Nat /\ x # 0
      BY WorkflowAssumption
    <3>2. \A x \in Queued : ~(x <= 0)
      BY <3>1
    <3> QED
      BY <3>2
  <2>2. Queue!Page({}, 0)
    BY <1>1 DEF Queue!FindDue
  <2> QED
    BY <2>1, <2>2, QueuePage
<1>2. CASE d.at = "more" /\ d.frontier = Queue!Frontier /\ Queue!Due(d.after)
  <2>1. /\ d.got \in SUBSET Queued /\ d.after \in Nat
        /\ d.got = {x \in Queued : Queue!Due(x) /\ x <= d.after}
    BY <1>2 DEF Queue!QueueInv, Queue!QueueTypes, Queue!PagerKnown
  <2>2. Queue!Page(d.got, d.after)
    BY <1>2 DEF Queue!FindDue
  <2> QED
    BY <2>1, <2>2, QueuePage
<1>3. CASE d' = Queue!Resting /\ UNCHANGED <<a, b, c>>
  <2>1. Queue!QueueTypes' /\ Queue!PagerKnown'
    BY <1>3 DEF Queue!QueueInv, Queue!QueueTypes, Queue!PagerKnown, Queue!Resting
  <2>2. \A x \in Queued : Queue!RowKnown(x)'
    BY <1>3 DEF Queue!QueueInv, Queue!RowKnown, Queue!EventsOf
  <2> QED
    BY <1>3, <2>1, <2>2 DEF Queue!QueueInv
<1> QED
  BY <1>1, <1>2, <1>3 DEF Queue!FindDue

\* At first the queue is empty.
LEMMA QueueStarts == Queue!Init => Queue!QueueInv
<1> SUFFICES ASSUME Queue!Init PROVE Queue!QueueInv
  OBVIOUS
<1>1. Queue!QueueTypes
  BY QueueCounts, FS_EmptySet, WorkflowAssumption
     DEF Queue!Init, Queue!QueueTypes, Queue!Rows, Queue!NoRow, Queue!Resting, Queue!Nobody,
         Queue!Triggers
<1>2. ASSUME NEW x \in Queued PROVE Queue!RowKnown(x)
  <2>1. a[x].revision = 0 /\ a[x].measured = FALSE /\ a[x].successor = Queue!Nobody
    BY DEF Queue!Init, Queue!NoRow
  <2>2. Queue!EventsOf(x) = {}
    BY DEF Queue!Init, Queue!EventsOf
  <2>3. \A y \in Queued : y # Queue!Nobody
    BY WorkflowAssumption DEF Queue!Nobody
  <2>4. Queue!IsFiniteSet(Queue!EventsOf(x)) /\ Queue!Cardinality(Queue!EventsOf(x)) = 0
    BY <2>2, QueueCounts, FS_EmptySet
  <2>5. {y.expect : y \in Queue!EventsOf(x)} = 0..(a[x].revision - 1)
    BY <2>1, <2>2
  <2> QED
    BY <2>1, <2>2, <2>3, <2>4, <2>5 DEF Queue!RowKnown
<1>3. Queue!PagerKnown /\ \A x, y \in b : x.id = y.id => x = y
  BY DEF Queue!Init, Queue!PagerKnown, Queue!Resting
<1> QED
  BY <1>1, <1>2, <1>3 DEF Queue!QueueInv

\* Every step keeps the invariant.
LEMMA QueueHolds ==
  ASSUME Queue!QueueInv, [Queue!Next]_(Queue!vars)
  PROVE  Queue!QueueInv'
<1>1. CASE UNCHANGED Queue!vars
  <2>1. UNCHANGED <<a, b, c, d>>
    BY <1>1 DEF Queue!vars
  <2>2. c' \in SUBSET Queue!Sent /\ IsFiniteSet(c') /\ Cardinality(c') <= MaxPending
    BY <2>1, QueueCounts DEF Queue!QueueInv, Queue!QueueTypes
  <2> QED
    BY <2>1, <2>2, QueueSends
<1>2. CASE Queue!Next
  BY <1>2, QueuePrepare, QueueUpsert, QueueFindDue DEF Queue!Next
<1> QED
  BY <1>1, <1>2

\* The invariant says what the queue promises.
LEMMA QueueSoundly == ASSUME Queue!QueueInv PROVE Queue!QueueSound
<1>1. Queue!TypeOK
  BY DEF Queue!QueueInv, Queue!QueueTypes, Queue!TypeOK, Queue!Rows, Queue!Committed
<1> QED
  BY <1>1 DEF Queue!QueueInv, Queue!QueueSound, Queue!RowKnown, Queue!PagerKnown

-------------------------------------------------------------------------------
(* SkillCandidate: packages are copied, renamed, read back and reported.    *)
(*                                                                         *)
(* a source      b registry     c candidate   d adopted                     *)
(* e stage       f run          g edits       h deaths                      *)

\* Nobody is the name of no run, and edits are counted.
LEMMA CandidateBounds == "nobody" \notin Candidate!Runs /\ MaxEdits \in Nat
BY WorkflowAssumption DEF Candidate!Runs

\* A run goes on to another place,
LEMMA CandidateGoes ==
  ASSUME Candidate!CandidateInv, NEW r \in Candidate!Runs, NEW p, Candidate!To(r, p)
  PROVE  /\ DOMAIN f' = Candidate!Runs /\ \A q \in Candidate!Runs \ {r} : f'[q] = f[q]
         /\ f'[r].at = p /\ f'[r].holds = f[r].holds /\ f'[r].report = f[r].report
<1>1. DOMAIN f = Candidate!Runs /\ f' = [f EXCEPT ![r].at = p]
  BY DEF Candidate!CandidateInv, Candidate!CandidateTypes, Candidate!To
<1> QED
  BY <1>1

\* or ends with a report.
LEMMA CandidateReports ==
  ASSUME Candidate!CandidateInv, NEW r \in Candidate!Runs, NEW p, Candidate!Report(r, p)
  PROVE  /\ DOMAIN f' = Candidate!Runs /\ \A q \in Candidate!Runs \ {r} : f'[q] = f[q]
         /\ f'[r].at = "ended" /\ f'[r].holds = f[r].holds /\ f'[r].report = p
<1>1. DOMAIN f = Candidate!Runs /\ f' = [f EXCEPT ![r].at = "ended", ![r].report = p]
  BY DEF Candidate!CandidateInv, Candidate!CandidateTypes, Candidate!Report
<1> QED
  BY <1>1

\* What a step of one run does to what the others know.
LEMMA CandidateOthers ==
  ASSUME Candidate!CandidateInv, NEW q \in Candidate!Runs,
         f'[q] = f[q], e'[q] = e[q], Candidate!Made(q)' = Candidate!Made(q),
         c # Candidate!Absent => c' = c
  PROVE  Candidate!RunKnown(q)'
<1>1. Candidate!RunKnown(q)
  BY DEF Candidate!CandidateInv
<1> QED
  BY <1>1 DEF Candidate!RunKnown

\* A step of one run that renames nothing.
LEMMA CandidateQuiet ==
  ASSUME Candidate!CandidateInv, NEW r \in Candidate!Runs, UNCHANGED <<a, b, c, d, g>>,
         DOMAIN f' = Candidate!Runs, \A q \in Candidate!Runs \ {r} : f'[q] = f[q],
         f'[r].at \in Candidate!Places, f'[r].report \in Candidate!Reports,
         f'[r].holds \in Candidate!Contents,
         Candidate!Made(r) => f'[r].holds = f[r].holds,
         e' \in [Candidate!Runs -> [files : {"none", "empty", "some", "all"},
                                    holds : Candidate!Contents]],
         \A q \in Candidate!Runs \ {r} : e'[q] = e[q],
         Candidate!RunKnown(r)'
  PROVE  Candidate!CandidateInv'
<1> USE DEF Candidate!CandidateInv
<1>1. Candidate!CandidateTypes'
  <2>1. \A q \in Candidate!Runs : /\ f'[q].at \in Candidate!Places
                                  /\ f'[q].report \in Candidate!Reports
                                  /\ f'[q].holds \in Candidate!Contents
    BY DEF Candidate!CandidateTypes
  <2> QED
    BY <2>1 DEF Candidate!CandidateTypes
<1>2. ASSUME NEW q \in Candidate!Runs PROVE Candidate!RunKnown(q)'
  <2>1. Candidate!Made(q)' = Candidate!Made(q)
    BY DEF Candidate!Made, Candidate!Destination
  <2> QED
    BY <2>1, CandidateOthers
<1>3. Candidate!PlaceKnown(c)'
  <2> SUFFICES ASSUME c # Candidate!Absent
               PROVE  c.by # "nobody" /\ c.holds = f'[c.by].holds
    BY DEF Candidate!PlaceKnown
  <2>1. c.by # "nobody" /\ c.holds = f[c.by].holds
    BY DEF Candidate!PlaceKnown
  <2>2. c.by \in Makers
    BY <2>1 DEF Candidate!CandidateTypes
  <2>3. c.by \in Candidate!Runs /\ Candidate!Made(c.by)
    BY <2>2 DEF Candidate!Runs, Candidate!Made, Candidate!Destination
  <2> QED
    BY <2>1, <2>3
<1>4. Candidate!PlaceKnown(d)'
  <2> SUFFICES ASSUME d # Candidate!Absent
               PROVE  d.by # "nobody" /\ d.holds = f'[d.by].holds
    BY DEF Candidate!PlaceKnown
  <2>1. d.by # "nobody" /\ d.holds = f[d.by].holds
    BY DEF Candidate!PlaceKnown
  <2>2. d.by \in Adopters \ Makers
    BY <2>1 DEF Candidate!CandidateTypes
  <2>3. d.by \in Candidate!Runs /\ Candidate!Made(d.by)
    BY <2>2 DEF Candidate!Runs, Candidate!Made, Candidate!Destination
  <2> QED
    BY <2>1, <2>3
<1>5. d' # Candidate!Absent =>
        c' # Candidate!Absent /\ d'.holds.package = c'.holds.package
  OBVIOUS
<1> QED
  BY <1>1, <1>2, <1>3, <1>4, <1>5

\* What a run copies has one of the versions there are.
LEMMA CandidateContents ==
  ASSUME Candidate!CandidateInv, NEW r \in Candidate!Runs
  PROVE  Candidate!Source(r) \in Candidate!Contents
<1>1. /\ a \in 0..(MaxEdits + 1) /\ b \in 0..(MaxEdits + 1)
      /\ c.holds \in Candidate!Contents
  BY CandidateBounds DEF Candidate!CandidateInv, Candidate!CandidateTypes
<1>2. c.holds.package \in 0..(MaxEdits + 1) /\ 0 \in 0..(MaxEdits + 1)
  BY <1>1, CandidateBounds DEF Candidate!Contents
<1> QED
  BY <1>1, <1>2 DEF Candidate!Source, Candidate!Contents

\* Capture, and the steps that only move on.
LEMMA CandidateCapture ==
  ASSUME Candidate!CandidateInv, NEW r \in Candidate!Runs, Candidate!Capture(r)
  PROVE  Candidate!CandidateInv'
<1>1. Candidate!RunKnown(r) /\ UNCHANGED <<a, b, c, d, e, g>>
  BY DEF Candidate!CandidateInv, Candidate!Capture
<1>2. /\ DOMAIN f' = Candidate!Runs /\ \A q \in Candidate!Runs \ {r} : f'[q] = f[q]
      /\ f[r].at = "idle" /\ f'[r].at = "captured" /\ f'[r].holds = Candidate!Source(r)
      /\ f'[r].report = f[r].report
  <2>1. /\ f' = [f EXCEPT ![r].at = "captured", ![r].holds = Candidate!Source(r),
                         ![r].seen = Candidate!Manifest(r)]
        /\ f[r].at = "idle" /\ DOMAIN f = Candidate!Runs
    BY DEF Candidate!Capture, Candidate!CandidateInv, Candidate!CandidateTypes
  <2> QED
    BY <2>1
<1>3. ~Candidate!Made(r) /\ e[r] = Candidate!NoStage /\ f[r].report = "none"
  BY <1>1, <1>2 DEF Candidate!RunKnown, Candidate!CandidateInv, Candidate!CandidateTypes
<1>4. r \notin Makers =>
        c # Candidate!Absent /\ f'[r].holds.package = c.holds.package
  BY <1>2 DEF Candidate!Capture, Candidate!Source, Candidate!Runs
<1>5. Candidate!RunKnown(r)'
  BY <1>1, <1>2, <1>3, <1>4 DEF Candidate!RunKnown, Candidate!Made, Candidate!Destination
<1>6. f'[r].at \in Candidate!Places /\ f'[r].report \in Candidate!Reports
      /\ f'[r].holds \in Candidate!Contents
  BY <1>2, <1>3, CandidateContents DEF Candidate!Places, Candidate!Reports
<1>7. e' \in [Candidate!Runs -> [files : {"none", "empty", "some", "all"},
                                 holds : Candidate!Contents]]
  BY <1>1 DEF Candidate!CandidateInv, Candidate!CandidateTypes
<1> QED
  BY <1>1, <1>2, <1>3, <1>5, <1>6, <1>7, CandidateQuiet

\* A run that goes on or ends leaves the stages as they are, up to its own.
LEMMA CandidateMoves ==
  ASSUME Candidate!CandidateInv, NEW r \in Candidate!Runs, UNCHANGED <<a, b, c, d, g>>,
         NEW p \in Candidate!Places, NEW q \in Candidate!Reports,
         \/ Candidate!To(r, p) /\ q = f[r].report
         \/ Candidate!Report(r, q) /\ p = "ended",
         e' = e \/ e' = [e EXCEPT ![r] = Candidate!NoStage],
         /\ q # "none" => p = "ended"
         /\ p \notin {"idle", "captured", "staging"}
         /\ p = "prepared" => ~Candidate!Made(r) /\ e'[r] = Candidate!NoStage
         /\ p \in {"staged", "committing", "failing-staged"} =>
              ~Candidate!Made(r) /\ e'[r] # Candidate!NoStage
         /\ p \in {"staged", "committing"} => e'[r].holds = f[r].holds
         /\ p \in {"committed", "failing-committed"} => Candidate!Made(r)
         /\ p = "failing-committing" => (Candidate!Made(r) <=> e'[r] = Candidate!NoStage)
         /\ q = "receipt" => Candidate!Made(r)
         /\ q \in {"nothing", "partial"} =>
              ~Candidate!Made(r) /\ e'[r] = Candidate!NoStage,
         f[r].at # "idle"
  PROVE  Candidate!CandidateInv'
<1>1. /\ DOMAIN f' = Candidate!Runs /\ \A x \in Candidate!Runs \ {r} : f'[x] = f[x]
      /\ f'[r].at = p /\ f'[r].holds = f[r].holds /\ f'[r].report = q
  BY CandidateGoes, CandidateReports
<1>2. Candidate!Made(r)' = Candidate!Made(r)
  BY DEF Candidate!Made, Candidate!Destination
<1>3. Candidate!RunKnown(r) /\ f[r].holds \in Candidate!Contents
  BY DEF Candidate!CandidateInv, Candidate!CandidateTypes
<1>4. Candidate!RunKnown(r)'
  BY <1>1, <1>2, <1>3 DEF Candidate!RunKnown
<1>5. Candidate!NoStage \in [files : {"none", "empty", "some", "all"},
                             holds : Candidate!Contents]
  <2>1. 0 \in 0..(MaxEdits + 1)
    BY CandidateBounds
  <2> QED
    BY <2>1 DEF Candidate!NoStage, Candidate!Nothing, Candidate!Contents
<1>6. /\ e' \in [Candidate!Runs -> [files : {"none", "empty", "some", "all"},
                                    holds : Candidate!Contents]]
      /\ \A x \in Candidate!Runs \ {r} : e'[x] = e[x]
  BY <1>5 DEF Candidate!CandidateInv, Candidate!CandidateTypes
<1> QED
  BY <1>1, <1>3, <1>4, <1>6, CandidateQuiet

\* The last look, and the checks after the copy.
LEMMA CandidateLooks ==
  ASSUME Candidate!CandidateInv, NEW r \in Candidate!Runs,
         Candidate!Recheck(r) \/ Candidate!BeforeRename(r)
  PROVE  Candidate!CandidateInv'
<1>1. Candidate!RunKnown(r)
  BY DEF Candidate!CandidateInv
<1>2. CASE Candidate!Recheck(r)
  <2>1. /\ f[r].at = "captured" /\ UNCHANGED <<a, b, c, d, e, g>>
        /\ Candidate!To(r, "prepared") \/ Candidate!Report(r, "nothing")
    BY <1>2 DEF Candidate!Recheck
  <2>2. ~Candidate!Made(r) /\ e[r] = Candidate!NoStage /\ f[r].report = "none"
    BY <1>1, <2>1 DEF Candidate!RunKnown, Candidate!CandidateInv, Candidate!CandidateTypes
  <2>3. CASE Candidate!To(r, "prepared")
    <3>1. "prepared" \in Candidate!Places /\ "none" \in Candidate!Reports
      BY DEF Candidate!Places, Candidate!Reports
    <3> QED
      BY <2>1, <2>2, <2>3, <3>1, CandidateMoves
  <2>4. CASE Candidate!Report(r, "nothing")
    <3>1. "ended" \in Candidate!Places /\ "nothing" \in Candidate!Reports
      BY DEF Candidate!Places, Candidate!Reports
    <3> QED
      BY <2>1, <2>2, <2>4, <3>1, CandidateMoves
  <2> QED
    BY <2>1, <2>3, <2>4
<1>3. CASE Candidate!BeforeRename(r)
  <2>1. /\ f[r].at = "staged" /\ UNCHANGED <<a, b, c, d, e, g>>
        /\ \E p \in {"committing", "failing-staged"} : Candidate!To(r, p)
    BY <1>3 DEF Candidate!BeforeRename
  <2>2. /\ ~Candidate!Made(r) /\ e[r] # Candidate!NoStage /\ e[r].holds = f[r].holds
        /\ f[r].report = "none"
    BY <1>1, <2>1 DEF Candidate!RunKnown, Candidate!CandidateInv, Candidate!CandidateTypes
  <2>3. {"committing", "failing-staged"} \subseteq Candidate!Places /\ "none" \in Candidate!Reports
    BY DEF Candidate!Places, Candidate!Reports
  <2> QED
    BY <2>1, <2>2, <2>3, CandidateMoves
<1> QED
  BY <1>2, <1>3

\* The stage is made and filled.
LEMMA CandidateStages ==
  ASSUME Candidate!CandidateInv, NEW r \in Candidate!Runs,
         Candidate!MakeStage(r) \/ Candidate!CopyPackage(r)
  PROVE  Candidate!CandidateInv'
<1>1. /\ Candidate!RunKnown(r) /\ UNCHANGED <<a, b, c, d, g>>
      /\ f[r].at \in {"prepared", "staging"} /\ f[r].holds \in Candidate!Contents
      /\ e \in [Candidate!Runs -> [files : {"none", "empty", "some", "all"},
                                    holds : Candidate!Contents]]
  BY DEF Candidate!CandidateInv, Candidate!CandidateTypes, Candidate!MakeStage,
         Candidate!CopyPackage
<1>2. ~Candidate!Made(r) /\ f[r].report = "none"
  BY <1>1 DEF Candidate!RunKnown, Candidate!CandidateInv, Candidate!CandidateTypes
<1>3. PICK p \in {"staging", "staged"} :
        /\ DOMAIN f' = Candidate!Runs /\ \A q \in Candidate!Runs \ {r} : f'[q] = f[q]
        /\ f'[r].at = p /\ f'[r].holds = f[r].holds /\ f'[r].report = f[r].report
  <2>1. CASE UNCHANGED f /\ f[r].at = "staging"
    BY <2>1 DEF Candidate!CandidateInv, Candidate!CandidateTypes
  <2>2. CASE Candidate!To(r, "staging") \/ Candidate!To(r, "staged")
    BY <2>2, CandidateGoes
  <2> QED
    BY <2>1, <2>2 DEF Candidate!MakeStage, Candidate!CopyPackage
<1>4. \E q \in {"empty", "some", "all"} :
        e' = [e EXCEPT ![r] = [files |-> q, holds |-> f[r].holds]]
  <2>1. CASE Candidate!MakeStage(r)
    BY <2>1 DEF Candidate!MakeStage
  <2>2. CASE Candidate!CopyPackage(r)
    <3>1. e[r].holds = f[r].holds
      BY <1>1, <2>2 DEF Candidate!CopyPackage, Candidate!RunKnown
    <3>2. PICK q \in {"some", "all"} : e' = [e EXCEPT ![r].files = q]
      BY <2>2 DEF Candidate!CopyPackage
    <3>3. [e[r] EXCEPT !.files = q] = [files |-> q, holds |-> f[r].holds]
      BY <1>1, <3>1
    <3> QED
      BY <3>2, <3>3
  <2> QED
    BY <2>1, <2>2
<1>5. PICK q \in {"empty", "some", "all"} :
        e' = [e EXCEPT ![r] = [files |-> q, holds |-> f[r].holds]]
  BY <1>4
<1>6. /\ e' \in [Candidate!Runs -> [files : {"none", "empty", "some", "all"},
                                    holds : Candidate!Contents]]
      /\ e'[r] = [files |-> q, holds |-> f[r].holds]
      /\ \A x \in Candidate!Runs \ {r} : e'[x] = e[x]
  BY <1>1, <1>5
<1>7. e'[r] # Candidate!NoStage /\ e'[r].holds = f'[r].holds
  BY <1>3, <1>6 DEF Candidate!NoStage
<1>8. Candidate!RunKnown(r)'
  <2>1. ~Candidate!Made(r)'
    BY <1>1, <1>2 DEF Candidate!Made, Candidate!Destination
  <2> QED
    BY <1>1, <1>2, <1>3, <1>7, <2>1 DEF Candidate!RunKnown
<1>9. /\ f'[r].at \in Candidate!Places /\ f'[r].report \in Candidate!Reports
      /\ f'[r].holds \in Candidate!Contents
  BY <1>1, <1>2, <1>3 DEF Candidate!Places, Candidate!Reports
<1> QED
  BY <1>1, <1>2, <1>3, <1>6, <1>8, <1>9, CandidateQuiet

\* A rename that found a directory made nothing.
LEMMA CandidatePublishFails ==
  ASSUME Candidate!CandidateInv, NEW r \in Candidate!Runs, f[r].at = "committing",
         Candidate!To(r, "failing-committing"), UNCHANGED <<a, b, c, d, e, g>>
  PROVE  Candidate!CandidateInv'
<1>1. /\ ~Candidate!Made(r) /\ e[r] # Candidate!NoStage /\ f[r].report = "none"
  BY DEF Candidate!RunKnown, Candidate!CandidateInv, Candidate!CandidateTypes
<1>2. "failing-committing" \in Candidate!Places /\ "none" \in Candidate!Reports
  BY DEF Candidate!Places, Candidate!Reports
<1> QED
  BY <1>1, <1>2, CandidateMoves

\* A rename that succeeds makes the directory of the run.
LEMMA CandidatePublishes ==
  ASSUME Candidate!CandidateInv, NEW r \in Candidate!Runs, f[r].at = "committing",
         Candidate!Destination(r) = Candidate!Absent,
         NEW made, made = [by |-> r, holds |-> e[r].holds],
         c' = (IF r \in Makers THEN made ELSE c), d' = (IF r \in Makers THEN d ELSE made),
         e' = [e EXCEPT ![r] = Candidate!NoStage],
         NEW p \in {"committed", "failing-committing"}, Candidate!To(r, p),
         UNCHANGED <<a, b, g>>
  PROVE  Candidate!CandidateInv'
<1> USE DEF Candidate!CandidateInv
<1>1. /\ DOMAIN f' = Candidate!Runs /\ \A q \in Candidate!Runs \ {r} : f'[q] = f[q]
      /\ f'[r].at = p /\ f'[r].holds = f[r].holds /\ f'[r].report = f[r].report
  BY CandidateGoes
<1>2. /\ Candidate!RunKnown(r) /\ e[r].holds = f[r].holds /\ f[r].report = "none"
      /\ f[r].holds \in Candidate!Contents
      /\ e \in [Candidate!Runs -> [files : {"none", "empty", "some", "all"},
                                    holds : Candidate!Contents]]
      /\ c \in [by : Makers \cup {"nobody"}, holds : Candidate!Contents]
      /\ d \in [by : (Adopters \ Makers) \cup {"nobody"}, holds : Candidate!Contents]
  BY DEF Candidate!RunKnown, Candidate!CandidateTypes
<1>3. r # "nobody" /\ Candidate!Absent.by = "nobody"
  BY CandidateBounds DEF Candidate!Absent
<1>4. /\ made.by = r /\ made.holds = f[r].holds /\ made # Candidate!Absent
  BY <1>2, <1>3
<1>5. Candidate!NoStage \in [files : {"none", "empty", "some", "all"},
                             holds : Candidate!Contents]
  <2>1. 0 \in 0..(MaxEdits + 1)
    BY CandidateBounds
  <2> QED
    BY <2>1 DEF Candidate!NoStage, Candidate!Nothing, Candidate!Contents
<1>6. /\ e' \in [Candidate!Runs -> [files : {"none", "empty", "some", "all"},
                                    holds : Candidate!Contents]]
      /\ e'[r] = Candidate!NoStage /\ \A x \in Candidate!Runs \ {r} : e'[x] = e[x]
  BY <1>2, <1>5
<1>7. c # Candidate!Absent => c' = c
  BY DEF Candidate!Destination
<1>8. d # Candidate!Absent => d' = d
  BY DEF Candidate!Destination
<1>9. Candidate!Made(r)'
  BY <1>4 DEF Candidate!Made, Candidate!Destination
<1>10. ASSUME NEW q \in Candidate!Runs \ {r} PROVE Candidate!RunKnown(q)'
  <2>1. q # "nobody"
    BY CandidateBounds
  <2>2. Candidate!Made(q)' = Candidate!Made(q)
    BY <1>3, <1>4, <1>7, <1>8, <2>1 DEF Candidate!Made, Candidate!Destination
  <2> QED
    BY <1>1, <1>6, <1>7, <2>2, CandidateOthers
<1>11. r \notin Makers => c # Candidate!Absent /\ f[r].holds.package = c.holds.package
  BY <1>2 DEF Candidate!RunKnown
<1>12. Candidate!RunKnown(r)'
  BY <1>1, <1>2, <1>6, <1>7, <1>9, <1>11 DEF Candidate!RunKnown
<1>13. Candidate!CandidateTypes'
  <2>1. \A q \in Candidate!Runs : /\ f'[q].at \in Candidate!Places
                                  /\ f'[q].report \in Candidate!Reports
                                  /\ f'[q].holds \in Candidate!Contents
    BY <1>1 DEF Candidate!CandidateTypes, Candidate!Places
  <2>2. made \in [by : {r}, holds : Candidate!Contents]
    BY <1>2
  <2>3. r \notin Makers => r \in Adopters \ Makers
    BY DEF Candidate!Runs
  <2>4. /\ c' \in [by : Makers \cup {"nobody"}, holds : Candidate!Contents]
        /\ d' \in [by : (Adopters \ Makers) \cup {"nobody"}, holds : Candidate!Contents]
    BY <1>2, <2>2, <2>3
  <2> QED
    BY <1>1, <1>6, <2>1, <2>4 DEF Candidate!CandidateTypes
<1>14. \A q \in Candidate!Runs : f'[q].holds = f[q].holds
  BY <1>1
<1>15. Candidate!PlaceKnown(c)'
  <2>1. CASE r \in Makers
    BY <1>1, <1>3, <1>4, <2>1 DEF Candidate!PlaceKnown
  <2>2. CASE r \notin Makers /\ c # Candidate!Absent
    <3>1. c.by # "nobody" /\ c.holds = f[c.by].holds
      BY <2>2 DEF Candidate!PlaceKnown
    <3>2. c.by \in Candidate!Runs
      BY <1>2, <3>1 DEF Candidate!Runs
    <3> QED
      BY <1>7, <1>14, <2>2, <3>1, <3>2 DEF Candidate!PlaceKnown
  <2> QED
    BY <1>11, <2>1, <2>2
<1>16. Candidate!PlaceKnown(d)'
  <2>1. CASE r \notin Makers
    BY <1>1, <1>3, <1>4, <2>1 DEF Candidate!PlaceKnown
  <2>2. CASE r \in Makers /\ d # Candidate!Absent
    <3>1. d.by # "nobody" /\ d.holds = f[d.by].holds
      BY <2>2 DEF Candidate!PlaceKnown
    <3>2. d.by \in Candidate!Runs
      BY <1>2, <3>1 DEF Candidate!Runs
    <3> QED
      BY <1>8, <1>14, <2>2, <3>1, <3>2 DEF Candidate!PlaceKnown
  <2>3. CASE r \in Makers /\ d = Candidate!Absent
    BY <2>3 DEF Candidate!PlaceKnown, Candidate!Absent
  <2> QED
    BY <2>1, <2>2, <2>3
<1>17. (d # Candidate!Absent =>
          c # Candidate!Absent /\ d.holds.package = c.holds.package)'
  <2>1. CASE r \in Makers
    BY <1>7, <2>1 DEF Candidate!Destination
  <2>2. CASE r \notin Makers
    BY <1>2, <1>4, <1>11, <2>2
  <2> QED
    BY <2>1, <2>2
<1> QED
  BY <1>10, <1>12, <1>13, <1>15, <1>16, <1>17

\* The rename, either way.
LEMMA CandidatePublish ==
  ASSUME Candidate!CandidateInv, NEW r \in Candidate!Runs, Candidate!Publish(r)
  PROVE  Candidate!CandidateInv'
<1>1. CASE Candidate!Destination(r) = Candidate!Absent
  <2> DEFINE made == [by |-> r, holds |-> e[r].holds]
  <2>1. /\ f[r].at = "committing"
        /\ c' = (IF r \in Makers THEN made ELSE c) /\ d' = (IF r \in Makers THEN d ELSE made)
        /\ e' = [e EXCEPT ![r] = Candidate!NoStage] /\ UNCHANGED <<a, b, g>>
        /\ \E p \in {"committed", "failing-committing"} : Candidate!To(r, p)
    BY <1>1 DEF Candidate!Publish
  <2> HIDE DEF made
  <2>2. made = [by |-> r, holds |-> e[r].holds]
    BY DEF made
  <2> QED
    BY <1>1, <2>1, <2>2, CandidatePublishes
<1>2. CASE Candidate!Destination(r) # Candidate!Absent
  <2>1. /\ f[r].at = "committing" /\ Candidate!To(r, "failing-committing")
        /\ UNCHANGED <<a, b, c, d, e, g>>
    BY <1>2 DEF Candidate!Publish
  <2> QED
    BY <2>1, CandidatePublishFails
<1> QED
  BY <1>1, <1>2

\* What is read back, and what fails.
LEMMA CandidateEnds ==
  ASSUME Candidate!CandidateInv, NEW r \in Candidate!Runs,
         \/ Candidate!Readback(r) \/ Candidate!Raise(r)
         \/ Candidate!FailureRecord(r) \/ Candidate!Die(r)
  PROVE  Candidate!CandidateInv'
<1>1. /\ Candidate!RunKnown(r)
      /\ {"ended", "dead", "failing-staged", "failing-committing", "failing-committed"}
           \subseteq Candidate!Places
      /\ {"none", "receipt", "partial", "unknown"} \subseteq Candidate!Reports
  BY DEF Candidate!CandidateInv, Candidate!Places, Candidate!Reports
<1>2. f[r].at # "ended" => f[r].report = "none"
  BY <1>1 DEF Candidate!RunKnown, Candidate!CandidateInv, Candidate!CandidateTypes
<1>3. CASE Candidate!Readback(r)
  <2>1. /\ f[r].at = "committed" /\ UNCHANGED <<a, b, c, d, e, g>>
        /\ Candidate!Report(r, "receipt") \/ Candidate!To(r, "failing-committed")
    BY <1>3 DEF Candidate!Readback
  <2>2. Candidate!Made(r)
    BY <1>1, <2>1 DEF Candidate!RunKnown
  <2>3. CASE Candidate!Report(r, "receipt")
    BY <1>1, <1>2, <2>1, <2>2, <2>3, CandidateMoves
  <2>4. CASE Candidate!To(r, "failing-committed")
    BY <1>1, <1>2, <2>1, <2>2, <2>4, CandidateMoves
  <2> QED
    BY <2>1, <2>3, <2>4
<1>4. CASE Candidate!Raise(r)
  <2>1. UNCHANGED <<a, b, c, d, e, g>>
    BY <1>4 DEF Candidate!Raise
  <2>2. CASE f[r].at \in {"staging", "staged"} /\ Candidate!To(r, "failing-staged")
    <3>1. ~Candidate!Made(r) /\ e[r] # Candidate!NoStage /\ f[r].report = "none"
      BY <1>1, <1>2, <2>2 DEF Candidate!RunKnown
    <3> QED
      BY <1>1, <2>1, <2>2, <3>1, CandidateMoves
  <2>3. CASE f[r].at = "committing" /\ Candidate!To(r, "failing-committing")
    BY <2>1, <2>3, CandidatePublishFails
  <2>4. CASE f[r].at = "committed" /\ Candidate!To(r, "failing-committed")
    <3>1. Candidate!Made(r) /\ f[r].report = "none"
      BY <1>1, <1>2, <2>4 DEF Candidate!RunKnown
    <3> QED
      BY <1>1, <2>1, <2>4, <3>1, CandidateMoves
  <2> QED
    BY <1>4, <2>2, <2>3, <2>4 DEF Candidate!Raise
<1>5. CASE Candidate!FailureRecord(r)
  <2>1. /\ UNCHANGED <<a, b, c, d, g>>
        /\ f[r].at \in {"failing-staged", "failing-committing", "failing-committed"}
    BY <1>5 DEF Candidate!FailureRecord
  <2>2. CASE Candidate!Report(r, "unknown") /\ UNCHANGED e
    BY <1>1, <2>1, <2>2, CandidateMoves
  <2>3. CASE /\ ~Candidate!Committed(r) /\ Candidate!Report(r, "partial")
             /\ e' = [e EXCEPT ![r] = Candidate!NoStage]
    <3>1. ~Candidate!Made(r)
      BY <1>1, <2>1, <2>3 DEF Candidate!RunKnown, Candidate!Committed, Candidate!Made
    <3>2. e'[r] = Candidate!NoStage
      BY <2>3 DEF Candidate!CandidateInv, Candidate!CandidateTypes
    <3>3. /\ "ended" \in Candidate!Places /\ "partial" \in Candidate!Reports
          /\ f[r].at # "idle" /\ Candidate!Report(r, "partial")
          /\ UNCHANGED <<a, b, c, d, g>>
          /\ e' = e \/ e' = [e EXCEPT ![r] = Candidate!NoStage]
      BY <1>1, <2>1, <2>3
    <3> DEFINE p == "ended"
               q == "partial"
    <3>4. /\ q # "none" => p = "ended"
          /\ p \notin {"idle", "captured", "staging"}
          /\ p = "prepared" => ~Candidate!Made(r) /\ e'[r] = Candidate!NoStage
          /\ p \in {"staged", "committing", "failing-staged"} =>
               ~Candidate!Made(r) /\ e'[r] # Candidate!NoStage
          /\ p \in {"staged", "committing"} => e'[r].holds = f[r].holds
          /\ p \in {"committed", "failing-committed"} => Candidate!Made(r)
          /\ p = "failing-committing" => (Candidate!Made(r) <=> e'[r] = Candidate!NoStage)
          /\ q = "receipt" => Candidate!Made(r)
          /\ q \in {"nothing", "partial"} =>
               ~Candidate!Made(r) /\ e'[r] = Candidate!NoStage
      BY <3>1, <3>2
    <3>5. p \in Candidate!Places /\ q \in Candidate!Reports
          /\ (Candidate!Report(r, q) /\ p = "ended")
      BY <3>3
    <3> HIDE DEF p, q
    <3> QED
      BY <3>3, <3>4, <3>5, CandidateMoves
  <2> QED
    BY <1>5, <2>2, <2>3 DEF Candidate!FailureRecord
<1>6. CASE Candidate!Die(r)
  <2>1. /\ UNCHANGED <<a, b, c, d, e, g>> /\ Candidate!To(r, "dead")
        /\ f[r].at \notin {"idle", "ended", "dead"}
    BY <1>6 DEF Candidate!Die
  <2> QED
    BY <1>1, <1>2, <2>1, CandidateMoves
<1> QED
  BY <1>3, <1>4, <1>5, <1>6

\* An edit of the sources touches no copy.
LEMMA CandidateEdit ==
  ASSUME Candidate!CandidateInv, Candidate!Edit
  PROVE  Candidate!CandidateInv'
<1>1. UNCHANGED <<c, d, e, f, h>>
  BY DEF Candidate!Edit
<1>2. /\ a' \in Nat /\ b' \in Nat /\ g' \in 0..MaxEdits
      /\ a' >= 1 /\ b' >= 1 /\ a' + b' = g' + 2
  BY CandidateBounds DEF Candidate!Edit, Candidate!CandidateInv, Candidate!CandidateTypes
<1>3. Candidate!CandidateTypes'
  BY <1>1, <1>2 DEF Candidate!CandidateInv, Candidate!CandidateTypes
<1>4. ASSUME NEW r \in Candidate!Runs PROVE Candidate!RunKnown(r)'
  <2>1. Candidate!Made(r)' = Candidate!Made(r)
    BY <1>1 DEF Candidate!Made, Candidate!Destination
  <2> QED
    BY <1>1, <2>1, CandidateOthers
<1> QED
  BY <1>1, <1>3, <1>4 DEF Candidate!CandidateInv, Candidate!PlaceKnown

\* At first no run has begun.
LEMMA CandidateStarts == Candidate!Init => Candidate!CandidateInv
<1> SUFFICES ASSUME Candidate!Init PROVE Candidate!CandidateInv
  OBVIOUS
<1>1. /\ a = 1 /\ b = 1 /\ g = 0 /\ c = Candidate!Absent /\ d = Candidate!Absent
      /\ e = [r \in Candidate!Runs |-> Candidate!NoStage]
      /\ f = [r \in Candidate!Runs |-> [at |-> "idle", holds |-> Candidate!Nothing,
                                        seen |-> {}, report |-> "none"]]
  BY DEF Candidate!Init
<1>2. Candidate!Nothing \in Candidate!Contents /\ 0 \in 0..MaxEdits
  <2>1. 0 \in 0..(MaxEdits + 1) /\ 0 \in 0..MaxEdits
    BY CandidateBounds
  <2> QED
    BY <2>1 DEF Candidate!Nothing, Candidate!Contents
<1>3. Candidate!CandidateTypes
  BY <1>1, <1>2 DEF Candidate!CandidateTypes, Candidate!Absent, Candidate!NoStage,
                    Candidate!Places, Candidate!Reports
<1>4. ASSUME NEW r \in Candidate!Runs PROVE Candidate!RunKnown(r)
  <2>1. ~Candidate!Made(r)
    BY <1>1, CandidateBounds DEF Candidate!Made, Candidate!Destination, Candidate!Absent
  <2> QED
    BY <1>1, <2>1 DEF Candidate!RunKnown
<1> QED
  BY <1>1, <1>3, <1>4 DEF Candidate!CandidateInv, Candidate!PlaceKnown

\* Every step keeps the invariant.
LEMMA CandidateHolds ==
  ASSUME Candidate!CandidateInv, [Candidate!Next]_(Candidate!vars)
  PROVE  Candidate!CandidateInv'
<1>1. CASE UNCHANGED Candidate!vars
  <2>1. UNCHANGED <<a, b, c, d, e, f, g, h>>
    BY <1>1 DEF Candidate!vars
  <2>2. ASSUME NEW r \in Candidate!Runs PROVE Candidate!RunKnown(r)'
    BY <2>1, CandidateOthers DEF Candidate!Made, Candidate!Destination
  <2> QED
    BY <2>1, <2>2 DEF Candidate!CandidateInv, Candidate!CandidateTypes, Candidate!PlaceKnown
<1>2. CASE Candidate!Next
  BY <1>2, CandidateEdit, CandidateCapture, CandidateLooks, CandidateStages, CandidatePublish,
     CandidateEnds DEF Candidate!Next
<1> QED
  BY <1>1, <1>2

\* The invariant says what is promised of a candidate.
LEMMA CandidateSoundly == ASSUME Candidate!CandidateInv PROVE Candidate!CandidateSound
<1>1. Candidate!TypeOK
  BY DEF Candidate!CandidateInv, Candidate!CandidateTypes, Candidate!TypeOK, Candidate!Reports
<1> QED
  BY <1>1 DEF Candidate!CandidateInv, Candidate!CandidateSound, Candidate!PlaceKnown,
              Candidate!RunKnown, Candidate!Made

-------------------------------------------------------------------------------
(* ProductInstall: a helper replaces the managed files one by one.          *)
(*                                                                         *)
(* a files   b edits   c plan   d offer   e service   f window   g helper    *)
(* h pending   i receipt   j owner   k crashes   l faults   m attempts       *)

\* The managed files are numbers, the manifest the last one, and each has one
\* content before and one after the installation.
LEMMA ProductBounds ==
  /\ Product!Manifest \in Nat \ {0} /\ Product!Paths = 1..Product!Manifest
  /\ Product!Manifest \in Product!Paths
  /\ Product!Members \subseteq Product!Paths \ {Product!Manifest}
  /\ \A x \in Product!Paths : x # Product!Manifest => x \in Product!Members
  /\ \A x : Product!Before(x) \in {"absent", "old"} /\ Product!After(x) \in {"absent", "new"}
  /\ Product!Before(Product!Manifest) = "old" /\ Product!After(Product!Manifest) = "new"
  /\ \A x \in Added : Product!Before(x) = "absent" /\ Product!After(x) = "new"
  /\ \A x \in Replaced : Product!Before(x) = "old" /\ Product!After(x) = "new"
  /\ \A x \in Withdrawn : Product!Before(x) = "old" /\ Product!After(x) = "absent"
  /\ Product!Members = Added \cup Replaced \cup Withdrawn
<1>1. Product!Members = Added \cup Replaced \cup Withdrawn
  BY DEF Product!Members
<1>2. IsFiniteSet(Product!Members) /\ Product!Members = 1..Cardinality(Product!Members)
  BY <1>1, WorkflowAssumption
<1> DEFINE n == Cardinality(Product!Members)
<1>3. n \in Nat
  BY <1>2, FS_CardinalityType
<1>4. Product!Manifest = 1 + n /\ Product!Paths = 1..(1 + n) /\ Product!Members = 1..n
  <2>1. Product!Manifest = 1 + n /\ Product!Paths = 1..Product!Manifest
    BY DEF Product!Manifest, Product!Paths, Product!Cardinality, Cardinality
  <2>2. Product!Members = 1..n
    BY <1>2
  <2> QED
    BY <2>1, <2>2
<1> HIDE DEF n
<1>5. /\ Product!Manifest \in Nat \ {0} /\ Product!Paths = 1..Product!Manifest
      /\ Product!Manifest \in Product!Paths
      /\ Product!Members \subseteq Product!Paths \ {Product!Manifest}
      /\ \A x \in Product!Paths : x # Product!Manifest => x \in Product!Members
  BY <1>3, <1>4
<1>6. Product!Manifest \notin Added \cup Replaced \cup Withdrawn
  BY <1>1, <1>5
<1>7. Added \cap Replaced = {} /\ Added \cap Withdrawn = {} /\ Replaced \cap Withdrawn = {}
  BY WorkflowAssumption
<1> QED
  BY <1>1, <1>5, <1>6, <1>7 DEF Product!Before, Product!After, Product!Absent, Product!Old,
                                Product!New

\* What the variables hold, in the words of the code.
LEMMA ProductTypes ==
  ASSUME Product!InstallInv
  PROVE  /\ a \in [Product!Paths -> {"absent", "old", "new", "user"}]
         /\ b \in [Product!Paths -> {"none", "kept", "late"}]
         /\ b[Product!Manifest] = "none" /\ a[Product!Manifest] \in {"old", "new"}
         /\ c \in [state : Product!Outcomes, backup : SUBSET Product!Paths, held : BOOLEAN]
         /\ h \in BOOLEAN /\ j \in {"none", "service", "helper"}
         /\ DOMAIN g = Helpers /\ e \in Product!Services
         /\ \A r \in Helpers : Product!HelperKnown(r)
         /\ Product!ServiceKnown /\ Product!PlanKnown /\ Product!PreimagesSaved
BY DEF Product!InstallInv, Product!InstallTypes, Product!Absent, Product!Old, Product!New,
       Product!User, Product!HelperTypes

\* A helper at work is alone: the others wait for its lock, or are none.
LEMMA ProductHelper ==
  ASSUME Product!InstallInv, NEW r \in Helpers, g[r].pc \in Product!Locked
  PROVE  /\ g[r] # Product!NoHelper
         /\ g[r] \in [pc : Product!Locked \cup {"lock"}, mode : {"install", "recover"},
                      reopen : BOOLEAN, at : 0 .. Product!Manifest + 1, failed : BOOLEAN]
         /\ \A q \in Helpers \ {r} : g[q] = Product!NoHelper \/ g[q].pc = "lock"
<1>1. g[r] # Product!NoHelper
  BY DEF Product!NoHelper, Product!Locked
<1>2. ASSUME NEW q \in Helpers, g[q] # Product!NoHelper
      PROVE  g[q] \in [pc : Product!Locked \cup {"lock"}, mode : {"install", "recover"},
                       reopen : BOOLEAN, at : 0 .. Product!Manifest + 1, failed : BOOLEAN]
  BY <1>2 DEF Product!InstallInv, Product!InstallTypes, Product!HelperTypes
<1>3. ASSUME NEW q \in Helpers \ {r}, g[q] # Product!NoHelper PROVE g[q].pc = "lock"
  <2>1. g[q].pc \notin Product!Locked
    BY DEF Product!InstallInv
  <2> QED
    BY <1>2, <1>3, <2>1
<1> QED
  BY <1>1, <1>2, <1>3

\* Nothing that matters happens.
LEMMA ProductRests ==
  ASSUME Product!InstallInv, UNCHANGED <<a, b, c, e, g, h, i, j>>
  PROVE  Product!InstallInv'
BY DEF Product!InstallInv, Product!InstallTypes, Product!HelperTypes, Product!HelperKnown,
       Product!ServiceKnown, Product!PlanKnown, Product!PreimagesSaved, Product!Underway,
       Product!Touched, Product!IsBefore, Product!IsAfter, Product!Saved

\* A helper that is none, or waits, knows nothing.
LEMMA ProductWaits ==
  ASSUME NEW q, g'[q] = Product!NoHelper \/ g'[q].pc = "lock"
  PROVE  Product!HelperKnown(q)' /\ g'[q].pc \notin Product!Locked
BY DEF Product!HelperKnown, Product!NoHelper, Product!Holding, Product!Locked

\* A step of one helper beside others that wait.
LEMMA ProductKeeps ==
  ASSUME Product!InstallInv, NEW r \in Helpers,
         \A q \in Helpers \ {r} : g[q] = Product!NoHelper \/ g[q].pc = "lock", e' = e,
         DOMAIN g' = Helpers, \A q \in Helpers \ {r} : g'[q] = g[q],
         \/ g'[r] = Product!NoHelper
         \/ g'[r] \in [pc : Product!Locked \cup {"lock"}, mode : {"install", "recover"},
                       reopen : BOOLEAN, at : 0 .. Product!Manifest + 1, failed : BOOLEAN],
         a' \in [Product!Paths -> {"absent", "old", "new", "user"}],
         a'[Product!Manifest] \in {"old", "new"}, b' = b,
         c' \in [state : Product!Outcomes, backup : SUBSET Product!Paths, held : BOOLEAN],
         h' \in BOOLEAN, j' \in {"none", "service", "helper"},
         Product!HelperKnown(r)', Product!ServiceKnown', Product!PlanKnown',
         Product!PreimagesSaved',
         \A x \in Product!Paths : b[x] = "kept"
            /\ \/ g'[r].pc = "backup" /\ g'[r].at > x
               \/ g'[r].pc = "write" /\ g'[r].at <= x
            => a'[x] # "user"
  PROVE  Product!InstallInv'
<1>1. \A q \in Helpers \ {r} : g'[q] = Product!NoHelper \/ g'[q].pc = "lock"
  OBVIOUS
<1>2. \A q \in Helpers : Product!HelperKnown(q)'
  BY <1>1, ProductWaits
<1>3. (\A x, y \in Helpers : g[x].pc \in Product!Locked /\ g[y].pc \in Product!Locked => x = y)'
  BY <1>1, ProductWaits DEF Product!Locked
<1>4. Product!InstallTypes'
  <2>1. /\ b \in [Product!Paths -> {"none", "kept", "late"}] /\ b[Product!Manifest] = "none"
        /\ e' \in Product!Services
    BY ProductTypes
  <2>2. Product!HelperTypes'
    <3>1. ASSUME NEW q \in Helpers, g'[q] # Product!NoHelper
          PROVE  g'[q] \in [pc : Product!Locked \cup {"lock"}, mode : {"install", "recover"},
                            reopen : BOOLEAN, at : 0 .. Product!Manifest + 1, failed : BOOLEAN]
      BY <3>1 DEF Product!InstallInv, Product!InstallTypes, Product!HelperTypes
    <3> QED
      BY <3>1 DEF Product!HelperTypes
  <2> QED
    BY <2>1, <2>2 DEF Product!InstallTypes, Product!Absent, Product!Old, Product!New,
                      Product!User
<1>5. ASSUME NEW x \in Product!Paths, Product!Underway(x)', b'[x] = "kept"
      PROVE  a'[x] # "user"
  <2>1. PICK q \in Helpers : \/ g'[q].pc = "backup" /\ g'[q].at > x
                             \/ g'[q].pc = "write" /\ g'[q].at <= x
    BY <1>5 DEF Product!Underway
  <2>2. q = r
    BY <1>1, <2>1 DEF Product!NoHelper
  <2> QED
    BY <1>5, <2>1, <2>2
<1> QED
  BY <1>2, <1>3, <1>4, <1>5 DEF Product!InstallInv, Product!User

\* The helper goes on, raises an error or rolls back.
LEMMA ProductGoes ==
  ASSUME Product!InstallInv, NEW r \in Helpers, g[r] # Product!NoHelper,
         NEW p \in Product!Locked, NEW x \in 0..Product!Manifest + 1, NEW y \in BOOLEAN,
         \/ Product!Goto(r, p, x)
         \/ Product!Raise(r) /\ p = "failed" /\ x = g[r].at
         \/ Product!RollBackFrom(r, y) /\ p = "rollback" /\ x = Product!Manifest
  PROVE  /\ DOMAIN g' = Helpers /\ \A q \in Helpers \ {r} : g'[q] = g[q]
         /\ g'[r] \in [pc : Product!Locked \cup {"lock"}, mode : {"install", "recover"},
                       reopen : BOOLEAN, at : 0 .. Product!Manifest + 1, failed : BOOLEAN]
         /\ g'[r].pc = p /\ g'[r].at = x
<1> DEFINE T == [pc : Product!Locked \cup {"lock"}, mode : {"install", "recover"},
                 reopen : BOOLEAN, at : 0 .. Product!Manifest + 1, failed : BOOLEAN]
<1>1. g[r] \in T /\ DOMAIN g = Helpers
  BY DEF Product!InstallInv, Product!InstallTypes, Product!HelperTypes
<1>2. CASE Product!Goto(r, p, x)
  BY <1>1, <1>2 DEF Product!Goto
<1>3. CASE Product!Raise(r) /\ p = "failed" /\ x = g[r].at
  BY <1>1, <1>3 DEF Product!Raise
<1>4. CASE Product!RollBackFrom(r, y) /\ p = "rollback" /\ x = Product!Manifest
  BY <1>1, <1>4 DEF Product!RollBackFrom
<1> QED
  BY <1>2, <1>3, <1>4

\* A helper that has the owner locks keeps the service down.
LEMMA ProductOwner ==
  ASSUME Product!InstallInv, NEW r \in Helpers, g[r].pc \in Product!Holding
  PROVE  /\ g[r].pc \in Product!Locked /\ j = "helper" /\ e.state = "down"
         /\ g[r] # Product!NoHelper
<1>1. g[r].pc \in Product!Locked
  BY DEF Product!Holding, Product!Locked
<1>2. j = "helper" /\ Product!ServiceKnown
  BY ProductTypes DEF Product!HelperKnown
<1> QED
  BY <1>1, <1>2, ProductHelper DEF Product!ServiceKnown

\* What is known of files and records, when none of them changes.
LEMMA ProductSame ==
  ASSUME Product!InstallInv, UNCHANGED <<a, b, c, h, i>>
  PROVE  /\ a' \in [Product!Paths -> {"absent", "old", "new", "user"}]
         /\ a'[Product!Manifest] \in {"old", "new"}
         /\ c' \in [state : Product!Outcomes, backup : SUBSET Product!Paths, held : BOOLEAN]
         /\ h' \in BOOLEAN /\ Product!PreimagesSaved'
         /\ e' = e \/ (e'.state = "down") => Product!PlanKnown'
<1>1. Product!PlanKnown /\ Product!PreimagesSaved
  BY ProductTypes
<1>2. Product!PreimagesSaved'
  BY <1>1 DEF Product!PreimagesSaved
<1>3. e' = e \/ (e'.state = "down") => Product!PlanKnown'
  BY <1>1 DEF Product!PlanKnown, Product!IsAfter, Product!IsBefore, Product!Touched
<1> QED
  BY <1>2, <1>3, ProductTypes

\* A service that is as it was, or down, knows what it knew.
LEMMA ProductServes ==
  ASSUME Product!InstallInv, e' = e, a' = a, j' = j \/ j # "service"
  PROVE  Product!ServiceKnown'
BY ProductTypes DEF Product!ServiceKnown

\* A helper raises an error, and gives the owner locks up or not.
LEMMA ProductRaises ==
  ASSUME Product!InstallInv, NEW r \in Helpers, g[r].pc \in Product!Locked, Product!Raise(r),
         UNCHANGED <<a, b, c, e, h, i>>, j' = j \/ (j = "helper" /\ j' = "none")
  PROVE  Product!InstallInv'
<1>1. /\ g[r] # Product!NoHelper /\ "failed" \in Product!Locked
      /\ g[r].at \in 0..Product!Manifest + 1
  BY ProductHelper DEF Product!Locked
<1>2. /\ DOMAIN g' = Helpers /\ \A q \in Helpers \ {r} : g'[q] = g[q]
      /\ g'[r] \in [pc : Product!Locked \cup {"lock"}, mode : {"install", "recover"},
                    reopen : BOOLEAN, at : 0 .. Product!Manifest + 1, failed : BOOLEAN]
      /\ g'[r].pc = "failed"
  BY <1>1, ProductGoes
<1>3. Product!HelperKnown(r)'
  BY <1>2 DEF Product!HelperKnown, Product!Holding
<1>4. Product!ServiceKnown'
  BY ProductServes
<1>5. j' \in {"none", "service", "helper"}
  BY ProductTypes
<1> QED
  BY <1>2, <1>3, <1>4, <1>5, ProductSame, ProductHelper, ProductKeeps

\* A helper begins to roll the installation back.
LEMMA ProductRollsBack ==
  ASSUME Product!InstallInv, NEW r \in Helpers, g[r].pc \in Product!Holding, NEW y \in BOOLEAN,
         Product!RollBackFrom(r, y), c.state = "applying", UNCHANGED <<a, b, c, e, h, i, j>>
  PROVE  Product!InstallInv'
<1>1. /\ g[r] # Product!NoHelper /\ "rollback" \in Product!Locked
      /\ Product!Manifest \in 0..Product!Manifest + 1 /\ j = "helper"
      /\ g[r].pc \in Product!Locked
      /\ Product!Manifest \in Nat /\ Product!Paths = 1..Product!Manifest
  BY ProductOwner, ProductBounds DEF Product!Locked
<1>2. /\ DOMAIN g' = Helpers /\ \A q \in Helpers \ {r} : g'[q] = g[q]
      /\ g'[r] \in [pc : Product!Locked \cup {"lock"}, mode : {"install", "recover"},
                    reopen : BOOLEAN, at : 0 .. Product!Manifest + 1, failed : BOOLEAN]
      /\ g'[r].pc = "rollback" /\ g'[r].at = Product!Manifest
  BY <1>1, ProductGoes
<1>3. Product!HelperKnown(r)'
  BY <1>1, <1>2 DEF Product!HelperKnown
<1>4. Product!ServiceKnown'
  BY <1>1, ProductServes
<1> QED
  BY <1>1, <1>2, <1>3, <1>4, ProductSame, ProductHelper, ProductKeeps

\* Helpers end, or begin to wait for their lock.
Fewer ==
  /\ DOMAIN g' = Helpers
  /\ \A q \in Helpers :
        \/ g'[q] = g[q]
        \/ g'[q] = Product!NoHelper
        \/ g'[q] \in [pc : {"lock"}, mode : {"install", "recover"}, reopen : BOOLEAN,
                      at : 0 .. Product!Manifest + 1, failed : BOOLEAN]

\* A step beside the helpers at work.
LEMMA ProductAround ==
  ASSUME Product!InstallInv, Fewer, UNCHANGED <<a, b>>, e' \in Product!Services,
         c' \in [state : Product!Outcomes, backup : SUBSET Product!Paths, held : BOOLEAN],
         h' \in BOOLEAN, j' \in {"none", "service", "helper"},
         \A q \in Helpers : Product!HelperKnown(q)', Product!ServiceKnown', Product!PlanKnown',
         Product!PreimagesSaved'
  PROVE  Product!InstallInv'
<1>1. ASSUME NEW q \in Helpers, g'[q].pc \in Product!Locked
      PROVE  g'[q] = g[q]
  BY <1>1 DEF Fewer, Product!NoHelper, Product!Locked
<1>2. (\A x, y \in Helpers : g[x].pc \in Product!Locked /\ g[y].pc \in Product!Locked => x = y)'
  BY <1>1 DEF Product!InstallInv
<1>3. Product!HelperTypes'
  BY DEF Product!HelperTypes, Product!InstallInv, Product!InstallTypes, Fewer
<1>4. Product!InstallTypes'
  BY <1>3 DEF Product!InstallInv, Product!InstallTypes
<1>5. ASSUME NEW x \in Product!Paths, Product!Underway(x)', b'[x] = "kept"
      PROVE  a'[x] # "user"
  <2>1. PICK q \in Helpers : \/ g'[q].pc = "backup" /\ g'[q].at > x
                             \/ g'[q].pc = "write" /\ g'[q].at <= x
    BY <1>5 DEF Product!Underway
  <2>2. g'[q] = g[q]
    BY <1>1, <2>1 DEF Product!Locked
  <2>3. Product!Underway(x)
    BY <2>1, <2>2 DEF Product!Underway
  <2> QED
    BY <1>5, <2>3 DEF Product!InstallInv, Product!User
<1> QED
  BY <1>2, <1>4, <1>5 DEF Product!InstallInv, Product!User

\* What helpers know, while none has the owner locks.
LEMMA ProductNobody ==
  ASSUME Product!InstallInv, Fewer, j # "helper", i' = i, c' = c \/ c'.state = "prepared"
  PROVE  \A q \in Helpers : Product!HelperKnown(q)'
<1> SUFFICES ASSUME NEW q \in Helpers PROVE Product!HelperKnown(q)'
  OBVIOUS
<1>1. CASE g'[q] = g[q]
  <2>1. Product!HelperKnown(q) /\ g[q].pc \notin Product!Holding
    BY ProductTypes DEF Product!HelperKnown
  <2> QED
    BY <1>1, <2>1 DEF Product!HelperKnown, Product!Holding
<1>2. CASE g'[q] # g[q]
  BY <1>2, ProductWaits DEF Fewer
<1> QED
  BY <1>1, <1>2

\* What helpers know, while files, plan and owner stay.
LEMMA ProductOthers ==
  ASSUME Product!InstallInv, Fewer, UNCHANGED <<a, b, c, i>>,
         NEW q \in Helpers, j' = j \/ g'[q].pc \notin Product!Locked
  PROVE  Product!HelperKnown(q)'
<1>1. CASE g'[q] = g[q] /\ g'[q].pc \in Product!Locked
  BY <1>1, ProductTypes DEF Product!HelperKnown, Product!IsAfter, Product!IsBefore,
                            Product!Touched, Product!Saved
<1>2. CASE g'[q] # g[q] \/ g'[q].pc \notin Product!Locked
  <2>1. g'[q] # g[q] => g'[q].pc \notin Product!Locked
    BY DEF Fewer, Product!NoHelper, Product!Locked
  <2>2. g'[q].pc \notin Product!Locked
    BY <1>2, <2>1
  <2> QED
    BY <2>2 DEF Product!HelperKnown, Product!Locked, Product!Holding
<1> QED
  BY <1>1, <1>2

\* One helper ends, or dies.
LEMMA ProductEnds ==
  ASSUME Product!InstallInv, NEW r \in Helpers, g' = [g EXCEPT ![r] = Product!NoHelper],
         UNCHANGED <<a, b, c, e, h, i>>,
         \/ j' = j
         \/ j = "helper" /\ j' = "none" /\ g[r].pc \in Product!Locked
  PROVE  Product!InstallInv'
<1>1. Fewer /\ g'[r] = Product!NoHelper /\ \A q \in Helpers \ {r} : g'[q] = g[q]
  BY ProductTypes DEF Fewer
<1>2. ASSUME NEW q \in Helpers PROVE Product!HelperKnown(q)'
  <2>1. j' = j \/ g'[q].pc \notin Product!Locked
    BY <1>1, ProductHelper DEF Product!NoHelper, Product!Locked
  <2> QED
    BY <1>1, <2>1, ProductOthers
<1>3. Product!ServiceKnown' /\ j' \in {"none", "service", "helper"}
  BY ProductTypes, ProductServes
<1> QED
  BY <1>1, <1>2, <1>3, ProductSame, ProductAround, ProductTypes

\* A helper is started.
LEMMA ProductSpawns ==
  ASSUME Product!InstallInv, NEW x \in {"install", "recover"}, NEW y \in BOOLEAN,
         Product!Spawn(x, y)
  PROVE  Fewer
<1>1. PICK r \in Helpers :
        g' = [g EXCEPT ![r] = [pc |-> "lock", mode |-> x, reopen |-> y, at |-> 0,
                               failed |-> FALSE]]
  BY DEF Product!Spawn
<1>2. DOMAIN g = Helpers /\ 0 \in 0..Product!Manifest + 1
  BY ProductTypes, ProductBounds
<1> QED
  BY <1>1, <1>2 DEF Fewer

LEMMA ProductRecovers ==
  ASSUME Product!InstallInv, NEW y \in BOOLEAN, Product!Spawn("recover", y),
         UNCHANGED <<a, b, c, e, h, i, j>>
  PROVE  Product!InstallInv'
<1>1. Fewer
  BY ProductSpawns
<1>2. ASSUME NEW q \in Helpers PROVE Product!HelperKnown(q)'
  BY <1>1, ProductOthers
<1>3. Product!ServiceKnown' /\ j' \in {"none", "service", "helper"}
  BY ProductTypes, ProductServes
<1> QED
  BY <1>1, <1>2, <1>3, ProductSame, ProductAround, ProductTypes

\* A service that runs keeps every helper from the files, and as long as it is of
\* the old version no update has been installed.
LEMMA ProductRuns ==
  ASSUME Product!InstallInv, e.state # "down"
  PROVE  /\ j = "service" /\ (c.state = "applying" => c.held = FALSE)
         /\ e.version = 1 => /\ a[Product!Manifest] = "old" /\ c.state # "installed"
                             /\ i # "installed"
         /\ e.prepared \/ e.state # "up" => e.version = 1
<1>1. /\ j = "service" /\ (c.state = "applying" => ~c.held)
      /\ e.version = 1 => a[Product!Manifest] = "old"
      /\ e.prepared \/ e.state # "up" => e.version = 1
      /\ c.held \in BOOLEAN
  BY ProductTypes DEF Product!ServiceKnown, Product!PlanKnown, Product!Old
<1>2. a[Product!Manifest] = "old" => c.state # "installed"
  BY ProductTypes, ProductBounds DEF Product!PlanKnown, Product!IsAfter, Product!Touched
<1>3. i = "installed" => c.state = "installed"
  BY ProductTypes DEF Product!PlanKnown
<1> QED
  BY <1>1, <1>2, <1>3

\* A release is downloaded and staged.
LEMMA ProductPrepare ==
  ASSUME Product!InstallInv, Product!Prepare PROVE Product!InstallInv'
<1>1. /\ e.state = "up" /\ ~e.prepared /\ e.version = 1 /\ UNCHANGED <<a, b, g, h, i, j>>
      /\ Product!Verified /\ ~Product!Collision
      /\ c' = [state |-> "prepared", backup |-> {}, held |-> TRUE]
      /\ e' = [e EXCEPT !.prepared = TRUE]
  BY DEF Product!Prepare, Product!Offered, Product!NoPlan
<1>2. j = "service" /\ a[Product!Manifest] = "old" /\ i # "installed"
  BY <1>1, ProductRuns
<1>3. ASSUME NEW x \in Product!Paths PROVE a[x] = Product!Before(x)
  <2>1. \A y \in Replaced \cup Withdrawn : a[y] = "old"
    BY <1>1, <1>2 DEF Product!Verified, Product!Old
  <2>2. \A y \in Added : a[y] = "absent"
    BY <1>1 DEF Product!Collision, Product!Absent
  <2> QED
    BY <1>2, <2>1, <2>2, ProductBounds
<1>4. Product!PlanKnown'
  BY <1>1, <1>2, <1>3 DEF Product!PlanKnown, Product!IsBefore
<1>5. /\ c' \in [state : Product!Outcomes, backup : SUBSET Product!Paths, held : BOOLEAN]
      /\ Product!PreimagesSaved'
  BY <1>1 DEF Product!Outcomes, Product!PreimagesSaved
<1>6. /\ e' \in Product!Services /\ e'.state = "up" /\ e'.version = 1 /\ e'.prepared = TRUE
  <2>1. e \in [state : {"up", "dispatching", "exiting"}, prepared : BOOLEAN, version : {1, 2}]
    BY <1>1, ProductTypes DEF Product!Services, Product!Stopped
  <2>2. e' = [e EXCEPT !.prepared = TRUE] /\ e.state = "up" /\ e.version = 1
    BY <1>1
  <2>3. e' \in [state : {"up", "dispatching", "exiting"}, prepared : BOOLEAN, version : {1, 2}]
        /\ e'.state = "up" /\ e'.version = 1 /\ e'.prepared = TRUE
    BY <2>1, <2>2
  <2> QED
    BY <2>3 DEF Product!Services
<1>9. Product!ServiceKnown'
  BY <1>1, <1>2, <1>6 DEF Product!ServiceKnown, Product!Old
<1>7. Fewer
  BY <1>1, ProductTypes DEF Fewer
<1>8. \A q \in Helpers : Product!HelperKnown(q)'
  BY <1>1, <1>2, <1>7, ProductNobody
<1> QED
  BY <1>1, <1>4, <1>5, <1>6, <1>7, <1>8, <1>9, ProductAround, ProductTypes

\* The update is put on record as pending, and the helper is started, or is not.
LEMMA ProductInstallSelected ==
  ASSUME Product!InstallInv, Product!InstallSelected PROVE Product!InstallInv'
<1>1. /\ e.state = "up" /\ e.prepared /\ UNCHANGED <<a, b, c, g, i, j>> /\ h' = TRUE
      /\ e' = [e EXCEPT !.state = "dispatching"]
  BY DEF Product!InstallSelected
<1>2. /\ j = "service" /\ (c.state = "applying" => c.held = FALSE)
      /\ e.version = 1 /\ a[Product!Manifest] = "old"
  BY <1>1, ProductRuns
<1>3. e' \in Product!Services /\ e'.state = "dispatching" /\ e'.version = 1
  BY <1>1, <1>2, ProductTypes DEF Product!Services, Product!Stopped
<1>4. Product!ServiceKnown'
  BY <1>1, <1>2, <1>3 DEF Product!ServiceKnown, Product!Old
<1>5. Product!PlanKnown'
  BY <1>1, <1>2, ProductTypes DEF Product!PlanKnown, Product!IsAfter, Product!IsBefore,
                                  Product!Touched
<1>6. Product!PreimagesSaved'
  BY <1>1, ProductTypes DEF Product!PreimagesSaved
<1>7. Fewer
  BY <1>1, ProductTypes DEF Fewer
<1>8. \A q \in Helpers : Product!HelperKnown(q)'
  BY <1>1, <1>2, <1>7, ProductNobody
<1> QED
  BY <1>1, <1>3, <1>4, <1>5, <1>6, <1>7, <1>8, ProductAround, ProductTypes

LEMMA ProductDispatch ==
  ASSUME Product!InstallInv, Product!Dispatch PROVE Product!InstallInv'
<1>1. /\ e.state = "dispatching" /\ UNCHANGED <<a, b, c, h, i, j>>
      /\ e' = [e EXCEPT !.state = "exiting"] /\ Product!Spawn("install", TRUE)
  BY DEF Product!Dispatch
<1>2. /\ j = "service" /\ (c.state = "applying" => c.held = FALSE)
      /\ e.version = 1 /\ a[Product!Manifest] = "old"
  BY <1>1, ProductRuns
<1>3. e' \in Product!Services /\ e'.state = "exiting" /\ e'.version = 1
  BY <1>1, <1>2, ProductTypes DEF Product!Services, Product!Stopped
<1>4. Product!ServiceKnown'
  BY <1>1, <1>2, <1>3 DEF Product!ServiceKnown, Product!Old
<1>5. Product!PlanKnown'
  BY <1>1, <1>2, ProductTypes DEF Product!PlanKnown, Product!IsAfter, Product!IsBefore,
                                  Product!Touched
<1>6. Product!PreimagesSaved'
  BY <1>1, ProductTypes DEF Product!PreimagesSaved
<1>7. Fewer
  BY <1>1, ProductSpawns
<1>8. \A q \in Helpers : Product!HelperKnown(q)'
  BY <1>1, <1>2, <1>7, ProductNobody
<1> QED
  BY <1>1, <1>3, <1>4, <1>5, <1>6, <1>7, <1>8, ProductAround, ProductTypes

LEMMA ProductDispatchFails ==
  ASSUME Product!InstallInv, Product!DispatchFails PROVE Product!InstallInv'
<1>1. /\ e.state = "dispatching" /\ UNCHANGED <<a, b, c, g, i, j>> /\ h' = FALSE
      /\ e' = [e EXCEPT !.state = "up"]
  BY DEF Product!DispatchFails
<1>2. /\ j = "service" /\ (c.state = "applying" => c.held = FALSE)
      /\ e.version = 1 /\ a[Product!Manifest] = "old" /\ c.state # "installed"
  BY <1>1, ProductRuns
<1>3. e' \in Product!Services /\ e'.state = "up" /\ e'.version = 1
  BY <1>1, <1>2, ProductTypes DEF Product!Services, Product!Stopped
<1>4. Product!ServiceKnown'
  BY <1>1, <1>2, <1>3 DEF Product!ServiceKnown, Product!Old
<1>5. Product!PlanKnown'
  BY <1>1, <1>2, ProductTypes DEF Product!PlanKnown, Product!IsAfter, Product!IsBefore,
                                  Product!Touched
<1>6. Product!PreimagesSaved'
  BY <1>1, ProductTypes DEF Product!PreimagesSaved
<1>7. Fewer
  BY <1>1, ProductTypes DEF Fewer
<1>8. \A q \in Helpers : Product!HelperKnown(q)'
  BY <1>1, <1>2, <1>7, ProductNobody
<1> QED
  BY <1>1, <1>3, <1>4, <1>5, <1>6, <1>7, <1>8, ProductAround, ProductTypes

\* The service exits, or dies.
LEMMA ProductServiceEnds ==
  ASSUME Product!InstallInv, e.state # "down", e' = Product!Stopped, j' = "none",
         UNCHANGED <<a, b, c, g, h, i>>
  PROVE  Product!InstallInv'
<1>1. j = "service" /\ e'.state = "down" /\ e' \in Product!Services
  BY ProductRuns DEF Product!Stopped, Product!Services
<1>2. Fewer
  BY ProductTypes DEF Fewer
<1>3. \A q \in Helpers : Product!HelperKnown(q)'
  BY <1>1, <1>2, ProductNobody
<1>4. Product!ServiceKnown'
  BY <1>1 DEF Product!ServiceKnown
<1> QED
  BY <1>1, <1>2, <1>3, <1>4, ProductSame, ProductAround

\* The service starts: an installation that is not whole is on record as pending.
LEMMA ProductStartService ==
  ASSUME Product!InstallInv, Product!StartService PROVE Product!InstallInv'
<1>1. /\ ~h /\ j = "none" /\ j' = "service" /\ UNCHANGED <<a, b, c, g, h, i>>
      /\ e' = [state |-> "up", prepared |-> FALSE,
               version |-> IF a[Product!Manifest] = Product!New THEN 2 ELSE 1]
  BY DEF Product!StartService
<1>2. /\ e' \in Product!Services
      /\ Product!ServiceKnown'
  BY <1>1, ProductTypes DEF Product!Services, Product!ServiceKnown, Product!New, Product!Old
<1>3. ~(c.state = "applying" /\ c.held)
  BY <1>1, ProductTypes DEF Product!PlanKnown
<1>4. Product!PlanKnown'
  BY <1>1, <1>3, ProductTypes DEF Product!PlanKnown, Product!IsAfter, Product!IsBefore,
                                  Product!Touched
<1>5. Fewer
  BY <1>1, ProductTypes DEF Fewer
<1>6. \A q \in Helpers : Product!HelperKnown(q)'
  BY <1>1, <1>5, ProductNobody
<1> QED
  BY <1>1, <1>2, <1>4, <1>5, <1>6, ProductSame, ProductAround

\* A helper goes on, and files and records stay.
LEMMA ProductMoves ==
  ASSUME Product!InstallInv, NEW r \in Helpers, g[r] # Product!NoHelper,
         \A q \in Helpers \ {r} : g[q] = Product!NoHelper \/ g[q].pc = "lock",
         NEW p \in Product!Locked \ {"backup", "write", "rollback"},
         Product!Goto(r, p, 0), UNCHANGED <<a, b, c, e, h, i>>,
         j' = j \/ (j = "none" /\ j' = "helper"),
         p \in Product!Holding => j' = "helper",
         p \in {"result", "clear"} => c.state # "applying",
         p = "clear" /\ c.state = "installed" => i = "installed"
  PROVE  Product!InstallInv'
<1>1. 0 \in 0..Product!Manifest + 1
  BY ProductBounds
<1>2. /\ DOMAIN g' = Helpers /\ \A q \in Helpers \ {r} : g'[q] = g[q]
      /\ g'[r] \in [pc : Product!Locked \cup {"lock"}, mode : {"install", "recover"},
                    reopen : BOOLEAN, at : 0 .. Product!Manifest + 1, failed : BOOLEAN]
      /\ g'[r].pc = p /\ g'[r].at = 0
  BY <1>1, ProductGoes
<1>3. Product!HelperKnown(r)'
  BY <1>2 DEF Product!HelperKnown
<1>4. Product!ServiceKnown' /\ j' \in {"none", "service", "helper"}
  BY ProductTypes, ProductServes
<1> QED
  BY <1>2, <1>3, <1>4, ProductSame, ProductKeeps

\* The lock of the helpers of a work, then the owner locks, then the files.
LEMMA ProductTakeHelperLock ==
  ASSUME Product!InstallInv, NEW r \in Helpers, Product!TakeHelperLock(r)
  PROVE  Product!InstallInv'
<1>1. g[r].pc = "lock" /\ UNCHANGED <<a, b, c, e, h, i, j>> /\ g[r] # Product!NoHelper
  BY DEF Product!TakeHelperLock, Product!NoHelper
<1>2. CASE Product!HelperLocked
  BY <1>1, <1>2, ProductEnds DEF Product!TakeHelperLock
<1>3. CASE ~Product!HelperLocked
  <2>1. Product!Goto(r, "owners", 0) /\ "owners" \in Product!Locked \ {"backup", "write", "rollback"}
        /\ "owners" \notin Product!Holding
    BY <1>3 DEF Product!TakeHelperLock, Product!Locked, Product!Holding
  <2>2. ASSUME NEW q \in Helpers \ {r} PROVE g[q] = Product!NoHelper \/ g[q].pc = "lock"
    <3>1. g[q].pc \in {"none", "lock"}
      BY <1>3 DEF Product!HelperLocked
    <3>2. g[q] # Product!NoHelper => g[q].pc # "none"
      BY DEF Product!InstallInv, Product!InstallTypes, Product!HelperTypes, Product!Locked
    <3> QED
      BY <3>1, <3>2
  <2> QED
    BY <1>1, <2>1, <2>2, ProductMoves
<1> QED
  BY <1>2, <1>3

LEMMA ProductTakeOwnerLocks ==
  ASSUME Product!InstallInv, NEW r \in Helpers, Product!TakeOwnerLocks(r)
  PROVE  Product!InstallInv'
<1>1. g[r].pc = "owners" /\ UNCHANGED <<a, b, c, e, h, i>> /\ g[r].pc \in Product!Locked
  BY DEF Product!TakeOwnerLocks, Product!Locked
<1>2. CASE j = "none" /\ j' = "helper" /\ Product!Goto(r, "files", 0)
  <2>1. "files" \in Product!Locked \ {"backup", "write", "rollback"}
    BY DEF Product!Locked
  <2> QED
    BY <1>1, <1>2, <2>1, ProductHelper, ProductMoves
<1>3. CASE Product!Raise(r) /\ j' = j
  BY <1>1, <1>3, ProductRaises
<1> QED
  BY <1>2, <1>3 DEF Product!TakeOwnerLocks

LEMMA ProductWaitWindowsFiles ==
  ASSUME Product!InstallInv, NEW r \in Helpers, Product!WaitWindowsFiles(r)
  PROVE  Product!InstallInv'
<1>1. g[r].pc = "files" /\ UNCHANGED <<a, b, c, e, h, i>> /\ g[r].pc \in Product!Holding
  BY DEF Product!WaitWindowsFiles, Product!Holding
<1>2. j = "helper" /\ g[r].pc \in Product!Locked
  BY <1>1, ProductOwner
<1>3. CASE Product!Raise(r) /\ j' = "none"
  BY <1>1, <1>2, <1>3, ProductRaises
<1>4. CASE Product!Goto(r, "plan", 0) /\ j' = j
  <2>1. "plan" \in Product!Locked \ {"backup", "write", "rollback"}
    BY DEF Product!Locked
  <2> QED
    BY <1>1, <1>2, <1>4, <2>1, ProductHelper, ProductMoves
<1> QED
  BY <1>3, <1>4 DEF Product!WaitWindowsFiles

\* The plan is read.
LEMMA ProductReadPlan ==
  ASSUME Product!InstallInv, NEW r \in Helpers, Product!ReadPlan(r)
  PROVE  Product!InstallInv'
<1>1. g[r].pc = "plan" /\ UNCHANGED <<a, b, c, e, h, i, j>> /\ g[r].pc \in Product!Holding
  BY DEF Product!ReadPlan, Product!Holding
<1>2. /\ j = "helper" /\ g[r].pc \in Product!Locked /\ g[r] # Product!NoHelper
      /\ \A q \in Helpers \ {r} : g[q] = Product!NoHelper \/ g[q].pc = "lock"
  BY <1>1, ProductOwner, ProductHelper
<1>3. CASE Product!Raise(r)
  BY <1>1, <1>2, <1>3, ProductRaises
<1>4. CASE c.state # "applying" /\ Product!Goto(r, "result", 0)
  <2>1. "result" \in Product!Locked \ {"backup", "write", "rollback"}
    BY DEF Product!Locked
  <2> QED
    BY <1>1, <1>2, <1>4, <2>1, ProductMoves
<1>5. CASE c.state = "applying" /\ Product!RollBackFrom(r, FALSE)
  BY <1>1, <1>5, ProductRollsBack
<1>6. CASE c.state = "prepared" /\ Product!Goto(r, "backup", 1)
  <2>1. /\ "backup" \in Product!Locked /\ 1 \in 0..Product!Manifest + 1
        /\ Product!Manifest \in Nat \ {0} /\ Product!Paths = 1..Product!Manifest
    BY ProductBounds DEF Product!Locked
  <2>2. /\ DOMAIN g' = Helpers /\ \A q \in Helpers \ {r} : g'[q] = g[q]
        /\ g'[r] \in [pc : Product!Locked \cup {"lock"}, mode : {"install", "recover"},
                      reopen : BOOLEAN, at : 0 .. Product!Manifest + 1, failed : BOOLEAN]
        /\ g'[r].pc = "backup" /\ g'[r].at = 1
    BY <1>2, <1>6, <2>1, ProductGoes
  <2>3. Product!HelperKnown(r)'
    BY <1>1, <1>2, <1>6, <2>1, <2>2 DEF Product!HelperKnown
  <2>4. Product!ServiceKnown'
    BY <1>1, ProductServes
  <2> QED
    BY <1>1, <1>2, <2>1, <2>2, <2>3, <2>4, ProductSame, ProductTypes, ProductKeeps
<1> QED
  BY <1>3, <1>4, <1>5, <1>6 DEF Product!ReadPlan

\* Every managed file is backed up before the first is written over.
LEMMA ProductBackUp ==
  ASSUME Product!InstallInv, NEW r \in Helpers, Product!BackUp(r)
  PROVE  Product!InstallInv'
<1> DEFINE x == g[r].at
<1>1. /\ g[r].pc = "backup" /\ UNCHANGED <<a, b, e, h, i, j>> /\ g[r].pc \in Product!Holding
  BY DEF Product!BackUp, Product!Holding
<1>2. /\ j = "helper" /\ e.state = "down" /\ g[r].pc \in Product!Locked
      /\ g[r] # Product!NoHelper
      /\ \A q \in Helpers \ {r} : g[q] = Product!NoHelper \/ g[q].pc = "lock"
  BY <1>1, ProductOwner, ProductHelper
<1>3. x \in 0..Product!Manifest + 1
  BY <1>2, ProductHelper
<1>4. /\ c.state = "prepared" /\ x # 0
      /\ \A y \in Product!Paths : y < x => Product!Before(y) = "absent" \/ y \in c.backup
  BY <1>1, ProductTypes DEF Product!HelperKnown, Product!Saved, Product!Absent
<1>5. /\ Product!Manifest \in Nat \ {0} /\ Product!Paths = 1..Product!Manifest
      /\ c \in [state : Product!Outcomes, backup : SUBSET Product!Paths, held : BOOLEAN]
      /\ {"backup", "write"} \subseteq Product!Locked /\ h \in BOOLEAN
      /\ Product!ServiceKnown'
  BY <1>1, ProductBounds, ProductTypes, ProductServes DEF Product!Locked
<1> HIDE DEF x
<1>6. CASE x > Product!Manifest
  <2>1. /\ c' = [c EXCEPT !.state = "applying", !.held = h] /\ Product!Goto(r, "write", 1)
    BY <1>6 DEF Product!BackUp, x
  <2>2. 1 \in 0..Product!Manifest + 1
    BY <1>5
  <2>3. /\ DOMAIN g' = Helpers /\ \A q \in Helpers \ {r} : g'[q] = g[q]
        /\ g'[r] \in [pc : Product!Locked \cup {"lock"}, mode : {"install", "recover"},
                      reopen : BOOLEAN, at : 0 .. Product!Manifest + 1, failed : BOOLEAN]
        /\ g'[r].pc = "write" /\ g'[r].at = 1
    BY <1>2, <1>5, <2>1, <2>2, ProductGoes
  <2>4. /\ c' \in [state : Product!Outcomes, backup : SUBSET Product!Paths, held : BOOLEAN]
        /\ c'.state = "applying" /\ c'.held = h /\ c'.backup = c.backup
    BY <1>5, <2>1 DEF Product!Outcomes
  <2>5. Product!HelperKnown(r)'
    BY <1>1, <1>2, <1>5, <2>3, <2>4 DEF Product!HelperKnown
  <2>6. i # "installed"
    BY <1>4, ProductTypes DEF Product!PlanKnown
  <2>7. Product!PlanKnown'
    BY <1>1, <1>2, <2>4, <2>6 DEF Product!PlanKnown
  <2>8. Product!PreimagesSaved'
    <3>1. \A y \in Product!Paths : y < x
      BY <1>3, <1>5, <1>6
    <3> QED
      BY <1>4, <2>4, <3>1 DEF Product!PreimagesSaved, Product!Absent
  <2>9. \A y \in Product!Paths : b[y] = "kept" => a'[y] # "user"
    <3>1. \A y \in Product!Paths : Product!Underway(y)
      BY <1>1, <1>3, <1>5, <1>6 DEF Product!Underway, x
    <3> QED
      BY <1>1, <3>1 DEF Product!InstallInv, Product!User
  <2> QED
    BY <1>1, <1>2, <1>5, <2>3, <2>4, <2>5, <2>7, <2>8, <2>9, ProductTypes, ProductKeeps
<1>7. CASE ~(x > Product!Manifest) /\ (a[x] # Product!Before(x) \/ x \in c.backup)
  BY <1>1, <1>2, <1>7, ProductRaises DEF Product!BackUp, x
<1>8. CASE ~(x > Product!Manifest) /\ ~(a[x] # Product!Before(x) \/ x \in c.backup)
  <2>1. /\ c' = IF Product!Before(x) = "absent" THEN c
                ELSE [c EXCEPT !.backup = c.backup \cup {x}]
        /\ Product!Goto(r, "backup", x + 1)
    BY <1>8 DEF Product!BackUp, x, Product!Absent
  <2>2. x + 1 \in 0..Product!Manifest + 1 /\ x \in Product!Paths
    BY <1>3, <1>4, <1>5, <1>8
  <2>3. /\ DOMAIN g' = Helpers /\ \A q \in Helpers \ {r} : g'[q] = g[q]
        /\ g'[r] \in [pc : Product!Locked \cup {"lock"}, mode : {"install", "recover"},
                      reopen : BOOLEAN, at : 0 .. Product!Manifest + 1, failed : BOOLEAN]
        /\ g'[r].pc = "backup" /\ g'[r].at = x + 1
    BY <1>2, <1>5, <2>1, <2>2, ProductGoes
  <2>4. /\ c' \in [state : Product!Outcomes, backup : SUBSET Product!Paths, held : BOOLEAN]
        /\ c'.state = "prepared" /\ c'.held = c.held
        /\ c'.backup = c.backup \/ c'.backup = c.backup \cup {x}
        /\ Product!Before(x) # "absent" => x \in c'.backup
    BY <1>4, <1>5, <2>1, <2>2
  <2>5. ASSUME NEW y \in Product!Paths, y < x + 1
        PROVE  Product!Before(y) = "absent" \/ y \in c'.backup
    BY <1>3, <1>4, <1>5, <2>4, <2>5
  <2>6. Product!HelperKnown(r)'
    BY <1>1, <1>2, <1>3, <2>3, <2>4, <2>5 DEF Product!HelperKnown, Product!Saved,
                                              Product!Absent
  <2>7. Product!PlanKnown'
    BY <1>1, <1>4, <2>4, ProductTypes DEF Product!PlanKnown, Product!IsBefore, Product!Touched
  <2>8. Product!PreimagesSaved'
    BY <2>4 DEF Product!PreimagesSaved
  <2>9. ASSUME NEW y \in Product!Paths, b[y] = "kept", x + 1 > y PROVE a'[y] # "user"
    <3>1. CASE y = x
      BY <1>1, <1>8, <3>1, ProductBounds
    <3>2. CASE y # x
      <4>1. Product!Underway(y)
        BY <1>1, <1>3, <1>5, <2>9, <3>2 DEF Product!Underway, x
      <4> QED
        BY <1>1, <2>9, <4>1 DEF Product!InstallInv, Product!User
    <3> QED
      BY <3>1, <3>2
  <2> QED
    BY <1>1, <1>2, <1>5, <2>3, <2>4, <2>6, <2>7, <2>8, <2>9, ProductTypes, ProductKeeps
<1> QED
  BY <1>6, <1>7, <1>8

\* A file is replaced, or cannot be.
LEMMA ProductWrite ==
  ASSUME Product!InstallInv, NEW r \in Helpers, Product!Write(r)
  PROVE  Product!InstallInv'
<1> DEFINE x == g[r].at
<1>1. /\ g[r].pc = "write" /\ UNCHANGED <<e, h, i, j>> /\ g[r].pc \in Product!Holding
  BY DEF Product!Write, Product!Holding
<1>2. /\ j = "helper" /\ e.state = "down" /\ g[r].pc \in Product!Locked
      /\ g[r] # Product!NoHelper
      /\ \A q \in Helpers \ {r} : g[q] = Product!NoHelper \/ g[q].pc = "lock"
  BY <1>1, ProductOwner, ProductHelper
<1>3. x \in 0..Product!Manifest + 1
  BY <1>2, ProductHelper
<1>4. /\ c.state = "applying" /\ x # 0 /\ Product!PlanKnown /\ Product!PreimagesSaved
      /\ \A y \in Product!Paths : y < x => Product!IsAfter(y)
  BY <1>1, ProductTypes DEF Product!HelperKnown
<1>5. /\ Product!Manifest \in Nat \ {0} /\ Product!Paths = 1..Product!Manifest
      /\ c \in [state : Product!Outcomes, backup : SUBSET Product!Paths, held : BOOLEAN]
      /\ {"result", "write"} \subseteq Product!Locked /\ h \in BOOLEAN
      /\ Product!ServiceKnown'
  <2>1. {"result", "write"} \subseteq Product!Locked
    BY DEF Product!Locked
  <2>2. Product!ServiceKnown'
    BY <1>1, <1>2 DEF Product!ServiceKnown
  <2> QED
    BY <2>1, <2>2, ProductBounds, ProductTypes
<1> HIDE DEF x
<1>6. CASE UNCHANGED <<a, b, c>> /\ Product!RollBackFrom(r, TRUE)
  BY <1>1, <1>4, <1>6, ProductRollsBack
<1>7. CASE /\ x > Product!Manifest /\ UNCHANGED <<a, b>>
           /\ c' = [c EXCEPT !.state = "installed"] /\ Product!Goto(r, "result", 0)
  <2>1. 0 \in 0..Product!Manifest + 1
    BY <1>5
  <2>2. /\ DOMAIN g' = Helpers /\ \A q \in Helpers \ {r} : g'[q] = g[q]
        /\ g'[r] \in [pc : Product!Locked \cup {"lock"}, mode : {"install", "recover"},
                      reopen : BOOLEAN, at : 0 .. Product!Manifest + 1, failed : BOOLEAN]
        /\ g'[r].pc = "result" /\ g'[r].at = 0
    BY <1>2, <1>5, <1>7, <2>1, ProductGoes
  <2>3. /\ c' \in [state : Product!Outcomes, backup : SUBSET Product!Paths, held : BOOLEAN]
        /\ c'.state = "installed" /\ c'.held = c.held /\ c'.backup = c.backup
    BY <1>5, <1>7 DEF Product!Outcomes
  <2>4. Product!HelperKnown(r)'
    BY <1>1, <1>2, <2>2, <2>3 DEF Product!HelperKnown
  <2>5. \A y \in Product!Paths : Product!IsAfter(y)
    BY <1>3, <1>4, <1>5, <1>7
  <2>6. Product!PlanKnown'
    BY <1>1, <1>4, <1>7, <2>3, <2>5 DEF Product!PlanKnown, Product!IsAfter, Product!Touched
  <2>7. Product!PreimagesSaved'
    BY <1>4, <2>3 DEF Product!PreimagesSaved
  <2> QED
    BY <1>1, <1>2, <1>5, <1>7, <2>2, <2>3, <2>4, <2>6, <2>7, ProductTypes, ProductKeeps
<1>8. CASE /\ ~(x > Product!Manifest) /\ a' = [a EXCEPT ![x] = Product!After(x)]
           /\ b' = Product!Overwritten(x) /\ Product!Goto(r, "write", x + 1) /\ c' = c
  <2>1. x + 1 \in 0..Product!Manifest + 1 /\ x \in Product!Paths
    BY <1>3, <1>4, <1>5, <1>8
  <2>2. /\ DOMAIN g' = Helpers /\ \A q \in Helpers \ {r} : g'[q] = g[q]
        /\ g'[r] \in [pc : Product!Locked \cup {"lock"}, mode : {"install", "recover"},
                      reopen : BOOLEAN, at : 0 .. Product!Manifest + 1, failed : BOOLEAN]
        /\ g'[r].pc = "write" /\ g'[r].at = x + 1
    BY <1>2, <1>5, <1>8, <2>1, ProductGoes
  <2>3. /\ a' \in [Product!Paths -> {"absent", "old", "new", "user"}]
        /\ a'[x] = Product!After(x) /\ \A y \in Product!Paths \ {x} : a'[y] = a[y]
    BY <1>8, <2>1, ProductTypes, ProductBounds
  <2>4. a'[Product!Manifest] \in {"old", "new"}
    BY <2>3, ProductTypes, ProductBounds
  <2>5. \A y \in Product!Paths : b[y] = "kept" /\ x <= y => a[y] # "user"
    <3>1. \A y \in Product!Paths : x <= y => Product!Underway(y)
      BY <1>1 DEF Product!Underway, x
    <3> QED
      BY <3>1 DEF Product!InstallInv, Product!User
  <2>6. b' = b
    <3>1. ~(b[x] = "kept" /\ a[x] = "user")
      BY <1>3, <2>1, <2>5
    <3>2. b' = [b EXCEPT ![x] = b[x]]
      BY <1>8, <3>1 DEF Product!Overwritten, Product!User
    <3> QED
      BY <2>1, <3>2, ProductTypes
  <2>7. ASSUME NEW y \in Product!Paths, y < x + 1 PROVE Product!IsAfter(y)'
    <3>1. CASE y = x
      BY <2>3, <3>1 DEF Product!IsAfter
    <3>2. CASE y # x
      BY <1>3, <1>4, <1>5, <2>3, <2>6, <2>7, <3>2 DEF Product!IsAfter, Product!Touched
    <3> QED
      BY <3>1, <3>2
  <2>8. Product!HelperKnown(r)'
    BY <1>1, <1>2, <1>3, <1>4, <1>8, <2>2, <2>7 DEF Product!HelperKnown
  <2>9. Product!PlanKnown'
    BY <1>1, <1>4, <1>8 DEF Product!PlanKnown
  <2>10. Product!PreimagesSaved'
    BY <1>4, <1>8 DEF Product!PreimagesSaved
  <2>11. \A y \in Product!Paths : b[y] = "kept" /\ x + 1 <= y => a'[y] # "user"
    BY <1>3, <1>5, <2>3, <2>5
  <2> QED
    BY <1>1, <1>2, <1>5, <1>8, <2>2, <2>3, <2>4, <2>6, <2>8, <2>9, <2>10, <2>11,
       ProductTypes, ProductKeeps
<1> QED
  BY <1>6, <1>7, <1>8 DEF Product!Write, x

\* A file gets its preimage back, unless it is not what was installed.
LEMMA ProductRollback ==
  ASSUME Product!InstallInv, NEW r \in Helpers, Product!Rollback(r)
  PROVE  Product!InstallInv'
<1> DEFINE x == g[r].at
<1>1. /\ g[r].pc = "rollback" /\ UNCHANGED <<e, h, i, j>> /\ g[r].pc \in Product!Holding
  BY DEF Product!Rollback, Product!Holding
<1>2. /\ j = "helper" /\ e.state = "down" /\ g[r].pc \in Product!Locked
      /\ g[r] # Product!NoHelper
      /\ \A q \in Helpers \ {r} : g[q] = Product!NoHelper \/ g[q].pc = "lock"
  BY <1>1, ProductOwner, ProductHelper
<1>3. /\ c.state = "applying" /\ x \in 0..Product!Manifest /\ Product!PlanKnown
      /\ Product!PreimagesSaved /\ \A y \in Product!Paths : y > x => Product!IsBefore(y)
  BY <1>1, ProductTypes DEF Product!HelperKnown
<1>4. /\ Product!Manifest \in Nat \ {0} /\ Product!Paths = 1..Product!Manifest
      /\ c \in [state : Product!Outcomes, backup : SUBSET Product!Paths, held : BOOLEAN]
      /\ {"failed", "result", "rollback"} \subseteq Product!Locked /\ h \in BOOLEAN
      /\ Product!ServiceKnown'
  <2>1. {"failed", "result", "rollback"} \subseteq Product!Locked
    BY DEF Product!Locked
  <2>2. Product!ServiceKnown'
    BY <1>1, <1>2 DEF Product!ServiceKnown
  <2> QED
    BY <2>1, <2>2, ProductBounds, ProductTypes
<1> HIDE DEF x
<1>5. CASE UNCHANGED <<a, b, c>> /\ Product!Raise(r)
  BY <1>1, <1>2, <1>5, ProductRaises
<1>6. CASE /\ x = 0 /\ c' = [c EXCEPT !.state = "rolled_back"] /\ UNCHANGED <<a, b>>
           /\ \E p \in {"failed", "result"} : Product!Goto(r, p, 0)
  <2>1. PICK p \in {"failed", "result"} : Product!Goto(r, p, 0)
    BY <1>6
  <2>2. 0 \in 0..Product!Manifest + 1 /\ p \in Product!Locked
    BY <1>4
  <2>3. /\ DOMAIN g' = Helpers /\ \A q \in Helpers \ {r} : g'[q] = g[q]
        /\ g'[r] \in [pc : Product!Locked \cup {"lock"}, mode : {"install", "recover"},
                      reopen : BOOLEAN, at : 0 .. Product!Manifest + 1, failed : BOOLEAN]
        /\ g'[r].pc = p /\ g'[r].at = 0
    BY <1>2, <1>4, <2>1, <2>2, ProductGoes
  <2>4. /\ c' \in [state : Product!Outcomes, backup : SUBSET Product!Paths, held : BOOLEAN]
        /\ c'.state = "rolled_back" /\ c'.held = c.held
    BY <1>4, <1>6 DEF Product!Outcomes
  <2>5. Product!HelperKnown(r)'
    BY <1>1, <1>2, <2>3, <2>4 DEF Product!HelperKnown
  <2>6. \A y \in Product!Paths : Product!IsBefore(y)
    BY <1>3, <1>4, <1>6
  <2>7. Product!PlanKnown'
    BY <1>1, <1>3, <1>6, <2>4, <2>6 DEF Product!PlanKnown, Product!IsBefore, Product!Touched
  <2>8. Product!PreimagesSaved'
    BY <2>4 DEF Product!PreimagesSaved
  <2> QED
    BY <1>1, <1>2, <1>4, <1>6, <2>3, <2>4, <2>5, <2>7, <2>8, ProductTypes, ProductKeeps
<1>7. CASE /\ x # 0 /\ a' = [a EXCEPT ![x] = Product!Before(x)] /\ UNCHANGED <<b, c>>
           /\ Product!Goto(r, "rollback", x - 1)
  <2>1. x - 1 \in 0..Product!Manifest + 1 /\ x \in Product!Paths
    BY <1>3, <1>4, <1>7
  <2>2. /\ DOMAIN g' = Helpers /\ \A q \in Helpers \ {r} : g'[q] = g[q]
        /\ g'[r] \in [pc : Product!Locked \cup {"lock"}, mode : {"install", "recover"},
                      reopen : BOOLEAN, at : 0 .. Product!Manifest + 1, failed : BOOLEAN]
        /\ g'[r].pc = "rollback" /\ g'[r].at = x - 1
    BY <1>2, <1>4, <1>7, <2>1, ProductGoes
  <2>3. /\ a' \in [Product!Paths -> {"absent", "old", "new", "user"}]
        /\ a'[x] = Product!Before(x) /\ \A y \in Product!Paths \ {x} : a'[y] = a[y]
    BY <1>7, <2>1, ProductTypes, ProductBounds
  <2>4. a'[Product!Manifest] \in {"old", "new"}
    BY <2>3, ProductTypes, ProductBounds
  <2>5. ASSUME NEW y \in Product!Paths, y > x - 1 PROVE Product!IsBefore(y)'
    <3>1. CASE y = x
      BY <2>3, <3>1 DEF Product!IsBefore
    <3>2. CASE y # x
      BY <1>3, <1>4, <1>7, <2>3, <2>5, <3>2 DEF Product!IsBefore, Product!Touched
    <3> QED
      BY <3>1, <3>2
  <2>6. x - 1 \in 0..Product!Manifest
    BY <1>3, <1>4, <1>7
  <2>7. Product!HelperKnown(r)'
    BY <1>1, <1>2, <1>3, <1>7, <2>2, <2>5, <2>6 DEF Product!HelperKnown
  <2>8. Product!PlanKnown'
    BY <1>1, <1>3, <1>7 DEF Product!PlanKnown
  <2>9. Product!PreimagesSaved'
    BY <1>3, <1>7 DEF Product!PreimagesSaved
  <2> QED
    BY <1>1, <1>2, <1>4, <1>7, <2>2, <2>3, <2>4, <2>7, <2>8, <2>9, ProductTypes, ProductKeeps
<1>8. CASE x # 0 /\ a[x] = Product!Before(x)
  <2>1. UNCHANGED <<a, b, c>> /\ Product!Goto(r, "rollback", x - 1)
    BY <1>8 DEF Product!Rollback, x
  <2>2. a' = [a EXCEPT ![x] = Product!Before(x)]
    BY <1>8, <2>1, ProductTypes
  <2> QED
    BY <1>7, <1>8, <2>1, <2>2
<1>9. CASE /\ x # 0 /\ a[x] = Product!After(x)
           /\ a' = [a EXCEPT ![x] = Product!Before(x)] /\ b' = Product!Overwritten(x) /\ c' = c
           /\ Product!Goto(r, "rollback", x - 1)
  <2>1. b' = b
    <3>1. a[x] # "user"
      BY <1>9, ProductBounds
    <3>2. b' = [b EXCEPT ![x] = b[x]]
      BY <1>9, <3>1 DEF Product!Overwritten, Product!User
    <3> QED
      BY <3>2, ProductTypes
  <2> QED
    BY <1>7, <1>9, <2>1
<1> QED
  <2>1. CASE x = 0
    BY <1>6, <2>1 DEF Product!Rollback, x
  <2>2. CASE x # 0
    BY <1>5, <1>8, <1>9, <2>2 DEF Product!Rollback, Product!Restorable, x
  <2> QED
    BY <2>1, <2>2

\* The outcome is recorded once the owner locks are given up.
LEMMA ProductResult ==
  ASSUME Product!InstallInv, NEW r \in Helpers, Product!Result(r)
  PROVE  Product!InstallInv'
<1>1. /\ g[r].pc = "result" /\ UNCHANGED <<a, b, c, e, h>> /\ j' = "none" /\ i' = c.state
      /\ Product!Goto(r, "clear", 0) /\ g[r].pc \in Product!Holding
  BY DEF Product!Result, Product!Holding
<1>2. /\ j = "helper" /\ e.state = "down" /\ g[r].pc \in Product!Locked
      /\ g[r] # Product!NoHelper
      /\ \A q \in Helpers \ {r} : g[q] = Product!NoHelper \/ g[q].pc = "lock"
  BY <1>1, ProductOwner, ProductHelper
<1>3. c.state # "applying"
  BY <1>1, ProductTypes DEF Product!HelperKnown
<1>4. "clear" \in Product!Locked /\ 0 \in 0..Product!Manifest + 1 /\ "clear" \notin Product!Holding
  BY ProductBounds DEF Product!Locked, Product!Holding
<1>5. /\ DOMAIN g' = Helpers /\ \A q \in Helpers \ {r} : g'[q] = g[q]
      /\ g'[r] \in [pc : Product!Locked \cup {"lock"}, mode : {"install", "recover"},
                    reopen : BOOLEAN, at : 0 .. Product!Manifest + 1, failed : BOOLEAN]
      /\ g'[r].pc = "clear" /\ g'[r].at = 0
  BY <1>1, <1>2, <1>4, ProductGoes
<1>6. Product!HelperKnown(r)'
  BY <1>1, <1>3, <1>4, <1>5 DEF Product!HelperKnown
<1>7. Product!ServiceKnown'
  BY <1>1, <1>2 DEF Product!ServiceKnown
<1>8. Product!PlanKnown'
  BY <1>1, <1>3, ProductTypes DEF Product!PlanKnown, Product!IsBefore, Product!IsAfter,
                                  Product!Touched
<1>9. Product!PreimagesSaved'
  BY <1>1, ProductTypes DEF Product!PreimagesSaved
<1> QED
  BY <1>1, <1>2, <1>5, <1>6, <1>7, <1>8, <1>9, ProductTypes, ProductKeeps

LEMMA ProductClearPending ==
  ASSUME Product!InstallInv, NEW r \in Helpers, Product!ClearPending(r)
  PROVE  Product!InstallInv'
<1>1. /\ g[r].pc = "clear" /\ UNCHANGED <<a, b, c, e, i, j>> /\ h' = FALSE
      /\ Product!Goto(r, "reopen", 0) /\ g[r].pc \in Product!Locked
  BY DEF Product!ClearPending, Product!Locked
<1>2. /\ g[r] # Product!NoHelper
      /\ \A q \in Helpers \ {r} : g[q] = Product!NoHelper \/ g[q].pc = "lock"
  BY <1>1, ProductHelper
<1>3. c.state # "applying" /\ (c.state = "installed" => i = "installed")
  BY <1>1, ProductTypes DEF Product!HelperKnown
<1>4. /\ "reopen" \in Product!Locked /\ 0 \in 0..Product!Manifest + 1
      /\ "reopen" \notin Product!Holding
  BY ProductBounds DEF Product!Locked, Product!Holding
<1>5. /\ DOMAIN g' = Helpers /\ \A q \in Helpers \ {r} : g'[q] = g[q]
      /\ g'[r] \in [pc : Product!Locked \cup {"lock"}, mode : {"install", "recover"},
                    reopen : BOOLEAN, at : 0 .. Product!Manifest + 1, failed : BOOLEAN]
      /\ g'[r].pc = "reopen" /\ g'[r].at = 0
  BY <1>1, <1>2, <1>4, ProductGoes
<1>6. Product!HelperKnown(r)'
  BY <1>1, <1>3, <1>4, <1>5 DEF Product!HelperKnown
<1>7. Product!ServiceKnown'
  BY <1>1, ProductServes
<1>8. Product!PlanKnown'
  BY <1>1, <1>3, ProductTypes DEF Product!PlanKnown, Product!IsBefore, Product!IsAfter,
                                  Product!Touched
<1>9. Product!PreimagesSaved'
  BY <1>1, ProductTypes DEF Product!PreimagesSaved
<1> QED
  BY <1>1, <1>2, <1>5, <1>6, <1>7, <1>8, <1>9, ProductTypes, ProductKeeps

\* A failure is recorded; the launch hold stays while files may be mixed.
LEMMA ProductRecordFailure ==
  ASSUME Product!InstallInv, NEW r \in Helpers, Product!RecordFailure(r)
  PROVE  Product!InstallInv'
<1>1. /\ g[r].pc = "failed" /\ UNCHANGED <<a, b, c, e>> /\ i' = "failed"
      /\ j' = (IF j = "helper" THEN "none" ELSE j)
      /\ h' = (h /\ ~(c.state \in {"prepared", "rolled_back"}))
      /\ Product!Goto(r, "reopen", 0) /\ g[r].pc \in Product!Locked
  BY DEF Product!RecordFailure, Product!Locked, Product!Clears
<1>2. /\ g[r] # Product!NoHelper
      /\ \A q \in Helpers \ {r} : g[q] = Product!NoHelper \/ g[q].pc = "lock"
  BY <1>1, ProductHelper
<1>3. /\ "reopen" \in Product!Locked /\ 0 \in 0..Product!Manifest + 1
      /\ "reopen" \notin Product!Holding
  BY ProductBounds DEF Product!Locked, Product!Holding
<1>4. h' \in BOOLEAN /\ j' \in {"none", "service", "helper"}
      /\ (c.state = "applying" => h' = h)
  BY <1>1, ProductTypes
<1>5. /\ DOMAIN g' = Helpers /\ \A q \in Helpers \ {r} : g'[q] = g[q]
      /\ g'[r] \in [pc : Product!Locked \cup {"lock"}, mode : {"install", "recover"},
                    reopen : BOOLEAN, at : 0 .. Product!Manifest + 1, failed : BOOLEAN]
      /\ g'[r].pc = "reopen" /\ g'[r].at = 0
  BY <1>1, <1>2, <1>3, ProductGoes
<1>6. Product!HelperKnown(r)'
  BY <1>3, <1>5 DEF Product!HelperKnown
<1>7. Product!ServiceKnown'
  BY <1>1, ProductServes
<1>8. Product!PlanKnown'
  BY <1>1, <1>4, ProductTypes DEF Product!PlanKnown, Product!IsBefore, Product!IsAfter,
                                  Product!Touched
<1>9. Product!PreimagesSaved'
  BY <1>1, ProductTypes DEF Product!PreimagesSaved
<1> QED
  BY <1>1, <1>2, <1>4, <1>5, <1>6, <1>7, <1>8, <1>9, ProductTypes, ProductKeeps

\* A helper ends; a helper dies, and the locks it had are free.
LEMMA ProductReopen ==
  ASSUME Product!InstallInv, NEW r \in Helpers, Product!Reopen(r)
  PROVE  Product!InstallInv'
BY ProductEnds DEF Product!Reopen

LEMMA ProductHelperDies ==
  ASSUME Product!InstallInv, NEW r \in Helpers, Product!HelperDies(r)
  PROVE  Product!InstallInv'
<1>1. /\ UNCHANGED <<a, b, c, e, h, i>> /\ g[r] # Product!NoHelper
      /\ g' = [g EXCEPT ![r] = Product!NoHelper]
      /\ j' = IF g[r].pc # "lock" /\ j = "helper" THEN "none" ELSE j
  BY DEF Product!HelperDies
<1>2. g[r].pc # "lock" => g[r].pc \in Product!Locked
  BY <1>1 DEF Product!InstallInv, Product!InstallTypes, Product!HelperTypes
<1> QED
  BY <1>1, <1>2, ProductEnds

\* The user edits a managed file.
LEMMA ProductEdit ==
  ASSUME Product!InstallInv, NEW x \in Product!Members, Product!Edit(x)
  PROVE  Product!InstallInv'
<1>1. PICK y \in {"user", "absent"} :
        /\ b[x] = "none" /\ a' = [a EXCEPT ![x] = y]
        /\ b' = [b EXCEPT ![x] = IF y = "user" /\ ~Product!Underway(x) THEN "kept" ELSE "late"]
  BY DEF Product!Edit, Product!User, Product!Absent
<1>2. UNCHANGED <<c, e, g, h, i, j>>
  BY DEF Product!Edit
<1>3. x \in Product!Paths /\ x # Product!Manifest /\ Product!Manifest \in Product!Paths
  BY ProductBounds
<1>4. /\ a' \in [Product!Paths -> {"absent", "old", "new", "user"}] /\ a'[x] = y
      /\ \A z \in Product!Paths \ {x} : a'[z] = a[z]
      /\ b' \in [Product!Paths -> {"none", "kept", "late"}] /\ b'[x] # "none"
      /\ b'[x] = "kept" => ~Product!Underway(x)
      /\ \A z \in Product!Paths \ {x} : b'[z] = b[z]
  BY <1>1, <1>3, ProductTypes
<1>5. Product!InstallTypes'
  BY <1>2, <1>3, <1>4 DEF Product!InstallInv, Product!InstallTypes, Product!HelperTypes,
     Product!Absent, Product!Old, Product!New, Product!User
<1>6. ASSUME NEW z \in Product!Paths
      PROVE  /\ Product!IsBefore(z) => Product!IsBefore(z)'
             /\ Product!IsAfter(z) => Product!IsAfter(z)'
  <2>1. CASE z = x
    BY <1>4, <2>1 DEF Product!IsBefore, Product!IsAfter, Product!Touched, Product!User,
                      Product!Absent
  <2>2. CASE z # x
    BY <1>4, <2>2 DEF Product!IsBefore, Product!IsAfter, Product!Touched
  <2> QED
    BY <2>1, <2>2
<1>7. Product!PlanKnown'
  BY <1>2, <1>6, ProductTypes DEF Product!PlanKnown
<1>8. \A q \in Helpers : Product!HelperKnown(q)'
  BY <1>2, <1>6, ProductTypes DEF Product!HelperKnown, Product!Saved
<1>9. Product!ServiceKnown' /\ Product!PreimagesSaved'
  BY <1>2, <1>3, <1>4, ProductTypes DEF Product!ServiceKnown, Product!PreimagesSaved
<1>10. ASSUME NEW z \in Product!Paths, Product!Underway(z)', b'[z] = "kept"
       PROVE  a'[z] # "user"
  <2>1. Product!Underway(z)
    BY <1>2, <1>10 DEF Product!Underway
  <2>2. z # x
    BY <1>4, <1>10, <2>1
  <2> QED
    BY <1>4, <1>10, <2>1, <2>2 DEF Product!InstallInv, Product!User
<1> QED
  BY <1>2, <1>5, <1>7, <1>8, <1>9, <1>10 DEF Product!InstallInv, Product!User

\* Nothing is installed at first, and every step keeps what is known.
LEMMA ProductStarts ==
  ASSUME Product!Init PROVE Product!InstallInv
<1>1. /\ a = [x \in Product!Paths |-> Product!Before(x)]
      /\ b = [x \in Product!Paths |-> "none"]
      /\ c = [state |-> "none", backup |-> {}, held |-> TRUE]
      /\ e = Product!Stopped /\ e.state = "down" /\ h = FALSE /\ i = "none" /\ j = "none"
      /\ g = [x \in Helpers |-> Product!NoHelper]
  BY DEF Product!Init, Product!NoPlan, Product!Stopped
<1>2. Product!InstallTypes
  BY <1>1, ProductBounds DEF Product!InstallTypes, Product!HelperTypes, Product!Outcomes,
     Product!Services, Product!Absent, Product!Old, Product!New, Product!User
<1>3. Product!PlanKnown /\ Product!ServiceKnown /\ Product!PreimagesSaved
  BY <1>1 DEF Product!PlanKnown, Product!ServiceKnown, Product!PreimagesSaved, Product!IsBefore
<1>4. \A q \in Helpers : Product!HelperKnown(q) /\ g[q].pc \notin Product!Locked
  BY <1>1 DEF Product!HelperKnown, Product!NoHelper, Product!Holding, Product!Locked
<1> QED
  BY <1>1, <1>2, <1>3, <1>4 DEF Product!InstallInv

LEMMA ProductSteps ==
  ASSUME Product!InstallInv, Product!Next PROVE Product!InstallInv'
<1>1. CASE Product!Check \/ Product!OpenWindow \/ Product!CloseWindow
  BY <1>1, ProductRests DEF Product!Check, Product!OpenWindow, Product!CloseWindow
<1>2. CASE Product!HandlePendingUpdate \/ Product!RecoverBeforeStart
  BY <1>2, ProductRecovers DEF Product!HandlePendingUpdate, Product!RecoverBeforeStart
<1>3. CASE Product!ServiceExits \/ Product!ServiceDies
  BY <1>3, ProductServiceEnds DEF Product!ServiceExits, Product!ServiceDies
<1>4. CASE Product!Prepare \/ Product!InstallSelected \/ Product!Dispatch
           \/ Product!DispatchFails \/ Product!StartService
  BY <1>4, ProductPrepare, ProductInstallSelected, ProductDispatch, ProductDispatchFails,
     ProductStartService
<1>5. ASSUME NEW r \in Helpers, Product!HelperStep(r) \/ Product!HelperDies(r)
      PROVE  Product!InstallInv'
  BY <1>5, ProductTakeHelperLock, ProductTakeOwnerLocks, ProductWaitWindowsFiles,
     ProductReadPlan, ProductBackUp, ProductWrite, ProductRollback, ProductResult,
     ProductClearPending, ProductRecordFailure, ProductReopen, ProductHelperDies
     DEF Product!HelperStep
<1>6. CASE \E x \in Product!Members : Product!Edit(x)
  BY <1>6, ProductEdit
<1> QED
  BY <1>1, <1>2, <1>3, <1>4, <1>5, <1>6 DEF Product!Next

LEMMA ProductSoundly ==
  ASSUME Product!InstallInv PROVE Product!InstallSound
<1>1. /\ c.state \in {"none", "prepared", "applying", "installed", "rolled_back"}
      /\ c.held \in BOOLEAN /\ h \in BOOLEAN
      /\ Product!PlanKnown /\ Product!PreimagesSaved
      /\ b \in [Product!Paths -> {"none", "kept", "late"}]
  BY ProductTypes DEF Product!Outcomes
<1>2. Product!MixIsPending
  <2>1. SUFFICES ASSUME Product!Mixed, c.held PROVE h
    BY DEF Product!MixIsPending
  <2>2. PICK x \in Product!Paths :
          Product!Before(x) # Product!After(x) /\ a[x] = Product!After(x) /\ a[x] # "absent"
    BY <2>1 DEF Product!Mixed, Product!Absent
  <2>3. PICK y \in Product!Paths :
          Product!Before(y) # Product!After(y) /\ a[y] = Product!Before(y) /\ a[y] # "absent"
    BY <2>1 DEF Product!Mixed, Product!Absent
  <2>4. ~Product!IsBefore(x) /\ ~Product!IsAfter(y)
    BY <2>2, <2>3, ProductBounds DEF Product!IsBefore, Product!IsAfter, Product!Touched,
       Product!User, Product!Absent
  <2> QED
    BY <1>1, <2>1, <2>4 DEF Product!PlanKnown
<1>3. Product!EditsKept
  BY <1>1 DEF Product!EditsKept
<1>4. Product!ReceiptIsTrue
  BY <1>1 DEF Product!ReceiptIsTrue, Product!PlanKnown, Product!IsBefore, Product!IsAfter,
              Product!Touched
<1> QED
  BY <1>1, <1>2, <1>3, <1>4 DEF Product!InstallSound

\* The inductive invariant, at every step.
LEMMA ProductHolds ==
  ASSUME Product!InstallInv, [Product!Next]_(Product!vars) PROVE Product!InstallInv'
<1>1. CASE UNCHANGED Product!vars
  BY <1>1, ProductRests DEF Product!vars
<1> QED
  BY <1>1, ProductSteps

-------------------------------------------------------------------------------
(* ProjectInstall: a run replaces files one by one, under the lock.         *)
(*                                                                         *)
(* a source   b files   c backups   d lock   e run   f owed   g edits       *)

\* Paths are numbers, as many as there are; no run has the name of a lock state.
LEMMA ProjectBounds ==
  /\ \E n \in Nat : Project!Paths = 1..n
  /\ "free" \notin Project!Runs /\ "dead" \notin Project!Runs
<1>1. Project!Paths = Guides \cup Common \cup Dropped
  BY DEF Project!Paths
<1>2. IsFiniteSet(Project!Paths) /\ Project!Paths = 1..Cardinality(Project!Paths)
  BY <1>1, WorkflowAssumption
<1>3. Cardinality(Project!Paths) \in Nat
  BY <1>2, FS_CardinalityType
<1> QED
  BY <1>2, <1>3, WorkflowAssumption DEF Project!Runs

\* A set of paths has a first and a last one.
LEMMA ProjectEnds ==
  ASSUME NEW S, S \subseteq Project!Paths, S # {}
  PROVE  Project!First(S) \in S /\ Project!Last(S) \in S
<1>1. PICK n \in Nat : Project!Paths = 1..n
  BY ProjectBounds
<1>2. \E x \in S : \A y \in S : x <= y
  <2>1. S \subseteq Nat
    BY <1>1
  <2>2. PICK x \in S : \A y \in S : ~(y < x)
    BY <2>1, LeastNumber
  <2> QED
    BY <2>1, <2>2
<1>3. \E x \in S : \A y \in S : y <= x
  BY <1>1, GreatestNumber
<1> QED
  BY <1>2, <1>3 DEF Project!First, Project!Last

\* A plan has entries for some of the paths.
LEMMA ProjectPlans ==
  ASSUME NEW p \in Project!Plans
  PROVE  /\ DOMAIN p \subseteq Project!Paths
         /\ \A x \in DOMAIN p : p[x].before \in 0..4 /\ p[x].after \in 0..2
<1>1. PICK S \in SUBSET Project!Paths : p \in [S -> Project!Entry]
  BY DEF Project!Plans
<1> QED
  BY <1>1 DEF Project!Entry

\* The backups there were are there, with their entries, and as recorded as before.
Grown == \A y \in DOMAIN c : /\ y \in DOMAIN c' /\ c'[y].entries = c[y].entries
                             /\ c[y].state # "unrecorded" => c'[y].state # "unrecorded"

\* What is saved stays saved.
LEMMA ProjectSaved ==
  ASSUME Grown, NEW o, Project!Saved(o) PROVE Project!Saved(o)'
BY DEF Grown, Project!Saved

\* A run that waits for the lock knows what it knew.
LEMMA ProjectWaits ==
  ASSUME Project!InstallationInv, NEW q \in Project!Runs, e'[q] = e[q],
         e[q] = Project!Idle \/ e[q].pc = "lock", Grown
  PROVE  Project!RunKnown(q)'
<1>1. Project!RunKnown(q)
  BY DEF Project!InstallationInv
<1>2. CASE e[q] = Project!Idle
  BY <1>2 DEF Project!RunKnown
<1>3. CASE e[q].pc = "lock"
  BY <1>1, <1>3 DEF Project!RunKnown, Grown, Project!Active, Project!Installing,
                    Project!RollingBack
<1> QED
  BY <1>2, <1>3

\* Beside the run that has the lock the others wait for it.
LEMMA ProjectHolder ==
  ASSUME Project!InstallationInv, NEW r \in Project!Runs, e[r].pc \in Project!Active
  PROVE  /\ e[r] # Project!Idle /\ d = r
         /\ \A q \in Project!Runs \ {r} : e[q] = Project!Idle \/ e[q].pc = "lock"
<1>1. e[r] # Project!Idle
  BY DEF Project!Idle, Project!Active, Project!Installing, Project!RollingBack
<1> QED
  BY <1>1 DEF Project!InstallationInv, Project!RunKnown

\* A manifest is written.
LEMMA ProjectSets ==
  ASSUME Project!InstallationInv, NEW r \in Project!Runs, e[r].backup \in DOMAIN c,
         NEW p \in Project!States \ {"unrecorded"}, Project!SetState(r, p)
  PROVE  /\ c' \in Seq(Project!Backup) /\ Len(c') = Len(c) /\ DOMAIN c' = DOMAIN c
         /\ c'[e[r].backup].state = p /\ Grown
         /\ \A y \in DOMAIN c : /\ c'[y].entries = c[y].entries
                                /\ y # e[r].backup => c'[y] = c[y]
<1> DEFINE n == e[r].backup
<1>1. c \in Seq(Project!Backup) /\ c' = [c EXCEPT ![n].state = p] /\ n \in DOMAIN c
  BY DEF Project!InstallationInv, Project!InstallationTypes, Project!SetState
<1>2. c[n] \in Project!Backup
  BY <1>1
<1>3. [c[n] EXCEPT !.state = p] \in Project!Backup
  BY <1>2 DEF Project!Backup
<1>4. c' = [c EXCEPT ![n] = [c[n] EXCEPT !.state = p]]
  BY <1>1
<1> HIDE DEF n
<1>5. /\ c' \in Seq(Project!Backup) /\ Len(c') = Len(c) /\ DOMAIN c' = DOMAIN c
      /\ \A y \in DOMAIN c : y # n => c'[y] = c[y]
  BY <1>1, <1>3, <1>4
<1>6. c'[n].state = p /\ c'[n].entries = c[n].entries
  BY <1>1, <1>2, <1>4 DEF Project!Backup
<1>7. \A y \in DOMAIN c : c'[y].entries = c[y].entries
  BY <1>5, <1>6
<1>8. Grown
  BY <1>5, <1>6, <1>7 DEF Grown
<1> QED
  BY <1>1, <1>5, <1>6, <1>7, <1>8 DEF n

\* A step of one run beside others that wait.
LEMMA ProjectKeeps ==
  ASSUME Project!InstallationInv, NEW r \in Project!Runs,
         \A q \in Project!Runs \ {r} : e[q] = Project!Idle \/ e[q].pc = "lock",
         DOMAIN e' = Project!Runs, \A q \in Project!Runs \ {r} : e'[q] = e[q],
         Grown, c' \in Seq(Project!Backup), a' = a, b' \in [Project!Paths -> 0..4], f' = f,
         Project!RunKnown(r)', \A o \in f : b'[o[1]] = o[2] \/ Project!Saved(o)',
         Project!AppliedKnown'
  PROVE  Project!InstallationInv'
<1>1. Project!InstallationTypes'
  BY DEF Project!InstallationInv, Project!InstallationTypes
<1>2. \A q \in Project!Runs : Project!RunKnown(q)'
  BY ProjectWaits
<1>3. (\A o \in f : b[o[1]] = o[2] \/ Project!Saved(o))'
  OBVIOUS
<1> QED
  BY <1>1, <1>2, <1>3 DEF Project!InstallationInv

\* A step of one run that changes neither files nor backups nor another's lock.
LEMMA ProjectBeside ==
  ASSUME Project!InstallationInv, NEW r \in Project!Runs, UNCHANGED <<a, b, c, f>>,
         d' = d \/ (d = r /\ d' \notin Project!Runs) \/ (d \notin Project!Runs),
         DOMAIN e' = Project!Runs, \A q \in Project!Runs \ {r} : e'[q] = e[q],
         Project!RunKnown(r)'
  PROVE  Project!InstallationInv'
<1>1. ASSUME NEW q \in Project!Runs \ {r} PROVE Project!RunKnown(q)'
  <2>1. Project!RunKnown(q)
    BY DEF Project!InstallationInv
  <2>2. e[q] # Project!Idle /\ e[q].pc \in Project!Active => d' = q
    BY <2>1 DEF Project!RunKnown
  <2> QED
    BY <2>1, <2>2 DEF Project!RunKnown, Project!Installed, Project!Saved
<1>2. Project!InstallationTypes'
  BY DEF Project!InstallationInv, Project!InstallationTypes
<1>3. (\A o \in f : b[o[1]] = o[2] \/ Project!Saved(o))'
  BY DEF Project!InstallationInv, Project!Saved
<1>4. Project!AppliedKnown'
  BY DEF Project!InstallationInv, Project!AppliedKnown, Project!Installed
<1> QED
  BY <1>1, <1>2, <1>3, <1>4 DEF Project!InstallationInv

\* A run ends, and nothing else happens but to a manifest.
LEMMA ProjectLeaves ==
  ASSUME Project!InstallationInv, NEW r \in Project!Runs, e[r].pc \in Project!Active,
         Project!Leave(r), UNCHANGED <<a, b, f>>, Grown, c' \in Seq(Project!Backup),
         Project!AppliedKnown'
  PROVE  Project!InstallationInv'
<1>1. DOMAIN e' = Project!Runs /\ e'[r] = Project!Idle
      /\ \A q \in Project!Runs \ {r} : e'[q] = e[q]
  BY DEF Project!Leave, Project!InstallationInv, Project!InstallationTypes
<1>2. Project!RunKnown(r)'
  BY <1>1 DEF Project!RunKnown
<1>3. \A o \in f : b'[o[1]] = o[2] \/ Project!Saved(o)'
  BY ProjectSaved DEF Project!InstallationInv
<1>4. b' \in [Project!Paths -> 0..4]
  BY DEF Project!InstallationInv, Project!InstallationTypes
<1> QED
  BY <1>1, <1>2, <1>3, <1>4, ProjectHolder, ProjectKeeps

\* Backups that stay as they are.
LEMMA ProjectSameBackups ==
  ASSUME Project!InstallationInv, UNCHANGED c
  PROVE  Grown /\ c' \in Seq(Project!Backup)
  BY DEF Grown, Project!InstallationInv, Project!InstallationTypes

\* What a run knows, taken apart.
LEMMA ProjectRun ==
  ASSUME Project!InstallationInv, NEW r \in Project!Runs, e[r] # Project!Idle
  PROVE  /\ e[r] \in [pc : Project!Active \cup {"lock"},
                      kind : {"minimal", "complete", "update", "rollback"},
                      entries : Project!Plans, base : {e[r].base}, backup : Nat,
                      left : SUBSET Project!Paths, seen : {e[r].seen}]
         /\ DOMAIN e = Project!Runs
  BY DEF Project!InstallationInv, Project!InstallationTypes, Project!RunKnown

\* A backup is one.
LEMMA ProjectBackup ==
  ASSUME Project!InstallationInv
  PROVE  /\ c \in Seq(Project!Backup) /\ Len(c) \in Nat /\ DOMAIN c = 1..Len(c)
         /\ \A y \in DOMAIN c : c[y].state \in Project!States /\ c[y].entries \in Project!Plans
<1>1. c \in Seq(Project!Backup)
  BY DEF Project!InstallationInv, Project!InstallationTypes
<1>2. Len(c) \in Nat /\ DOMAIN c = 1..Len(c) /\ \A y \in DOMAIN c : c[y] \in Project!Backup
  BY <1>1
<1> QED
  BY <1>1, <1>2 DEF Project!Backup

\* An entry of a plan.
LEMMA ProjectEntries ==
  ASSUME Project!InstallationInv, NEW S, S \subseteq Project!Paths, NEW p \in [S -> 0..2]
  PROVE  Project!Entries(p) \in Project!Plans
<1>1. Project!Entries(p) = [x \in S |-> [before |-> b[x], after |-> p[x]]]
  BY DEF Project!Entries
<1>2. \A x \in S : b[x] \in 0..4
  BY DEF Project!InstallationInv, Project!InstallationTypes
<1>3. Project!Entries(p) \in [S -> Project!Entry]
  BY <1>1, <1>2 DEF Project!Entry
<1> QED
  BY <1>3 DEF Project!Plans

\* The preview of an installation.
LEMMA ProjectPlanInstall ==
  ASSUME Project!InstallationInv, NEW r \in Project!Runs, Project!PlanInstall(r)
  PROVE  Project!InstallationInv'
<1>1. /\ e[r] = Project!Idle /\ UNCHANGED <<a, b, c, d, f, g, h>>
      /\ DOMAIN e = Project!Runs /\ a \in {1, 2} /\ Grown
  BY DEF Project!PlanInstall, Project!InstallationInv, Project!InstallationTypes, Grown
<1>2. \E kind \in {"minimal", "complete", "update"}, x \in Project!Plans : \E y :
        /\ Project!Start(r, kind, x, y)
        /\ kind = "update" => y # <<>> /\ y[1] \in DOMAIN c /\ y[2].state = "APPLIED"
  <2>1. CASE Project!Start(r, "minimal", Project!Minimal, <<>>)
    <3>1. Project!Minimal \in Project!Plans
      BY <1>1, ProjectEntries DEF Project!Minimal, Project!Paths
    <3> QED
      BY <2>1, <3>1
  <2>2. CASE Project!Start(r, "complete", Project!Complete, <<>>)
    <3>1. Project!Complete \in Project!Plans
      BY <1>1, ProjectEntries DEF Project!Complete, Project!Paths, Project!Package
    <3> QED
      BY <2>2, <3>1
  <2>3. CASE /\ Project!Baseline
             /\ Project!Start(r, "update", Project!Update,
                              <<Project!Latest, c[Project!Latest]>>)
    <3>1. Project!Latest \in DOMAIN c /\ c[Project!Latest].state = "APPLIED"
      <4>1. Project!Candidates \subseteq 1..Len(c) /\ Project!Candidates # {} /\ Len(c) \in Nat
        BY <2>3 DEF Project!Candidates, Project!Baseline, Project!InstallationInv,
                    Project!InstallationTypes
      <4>2. \E x \in Project!Candidates : \A y \in Project!Candidates : y <= x
        BY <4>1, GreatestNumber
      <4>3. Project!Latest \in Project!Candidates
        BY <4>2 DEF Project!Latest
      <4> QED
        BY <2>3, <4>3 DEF Project!Baseline, Project!Candidates
    <3>2. Project!Owned(Project!Latest) \subseteq Project!Paths
      <4>1. c[Project!Latest].entries \in Project!Plans
        BY <3>1, ProjectBackup
      <4> QED
        BY <4>1, ProjectPlans DEF Project!Owned
    <3>3. Project!Update \in Project!Plans
      <4> DEFINE S == Project!Package \cup Project!Owned(Project!Latest)
                 p == [x \in S |-> IF x \in Project!Package THEN a ELSE Project!Absent]
      <4>1. S \subseteq Project!Paths
        BY <3>2 DEF Project!Package, Project!Paths
      <4>2. p \in [S -> 0..2]
        BY <1>1 DEF Project!Absent
      <4>3. Project!Update = Project!Entries(p)
        BY DEF Project!Update
      <4> HIDE DEF S, p
      <4> QED
        BY <4>1, <4>2, <4>3, ProjectEntries
    <3> QED
      BY <2>3, <3>1, <3>3
  <2> QED
    BY <2>1, <2>2, <2>3 DEF Project!PlanInstall
<1>3. PICK kind \in {"minimal", "complete", "update"}, x \in Project!Plans :
        \E y : /\ Project!Start(r, kind, x, y)
               /\ kind = "update" => y # <<>> /\ y[1] \in DOMAIN c /\ y[2].state = "APPLIED"
  BY <1>2
<1>4. PICK y : /\ Project!Start(r, kind, x, y)
               /\ kind = "update" => y # <<>> /\ y[1] \in DOMAIN c /\ y[2].state = "APPLIED"
  BY <1>3
<1>5. /\ e'[r] = [pc |-> "lock", kind |-> kind, entries |-> x, base |-> y, backup |-> 0,
                  left |-> {}, seen |-> <<>>]
      /\ DOMAIN e' = Project!Runs /\ \A q \in Project!Runs \ {r} : e'[q] = e[q]
  BY <1>1, <1>4 DEF Project!Start
<1>6. Project!RunKnown(r)'
  BY <1>1, <1>4, <1>5 DEF Project!RunKnown, Project!Active, Project!Installing,
                          Project!RollingBack
<1> QED
  BY <1>1, <1>5, <1>6, ProjectBeside

\* The preview of a rollback.
LEMMA ProjectPlanRollback ==
  ASSUME Project!InstallationInv, NEW r \in Project!Runs, Project!PlanRollback(r)
  PROVE  Project!InstallationInv'
<1>1. PICK y \in DOMAIN c :
        /\ c[y].state # "unrecorded"
        /\ e' = [e EXCEPT ![r] = [pc |-> "lock", kind |-> "rollback", entries |-> c[y].entries,
                                  base |-> <<>>, backup |-> y, left |-> {}, seen |-> <<>>]]
  BY DEF Project!PlanRollback
<1>2. /\ UNCHANGED <<a, b, c, d, f>> /\ DOMAIN e = Project!Runs
      /\ c[y].entries \in Project!Plans /\ y \in Nat
  BY ProjectBackup DEF Project!PlanRollback, Project!InstallationInv, Project!InstallationTypes
<1>3. /\ e'[r] = [pc |-> "lock", kind |-> "rollback", entries |-> c[y].entries,
                  base |-> <<>>, backup |-> y, left |-> {}, seen |-> <<>>]
      /\ DOMAIN e' = Project!Runs /\ \A q \in Project!Runs \ {r} : e'[q] = e[q]
  BY <1>1, <1>2
<1>4. Project!RunKnown(r)'
  BY <1>1, <1>2, <1>3 DEF Project!RunKnown, Project!Active, Project!Installing,
                          Project!RollingBack
<1> QED
  BY <1>2, <1>3, <1>4, ProjectBeside

\* The lock is taken, or found taken.
LEMMA ProjectTakeLock ==
  ASSUME Project!InstallationInv, NEW r \in Project!Runs, Project!TakeLock(r)
  PROVE  Project!InstallationInv'
<1>1. /\ UNCHANGED <<a, b, c, f>> /\ e[r].pc = "lock" /\ Project!RunKnown(r)
      /\ DOMAIN e = Project!Runs
  BY DEF Project!TakeLock, Project!InstallationInv, Project!InstallationTypes
<1>2. CASE d = "free"
  <2>1. d' = r /\ e' = [e EXCEPT ![r].pc = "compare"] /\ d \notin Project!Runs
    BY <1>2, ProjectBounds DEF Project!TakeLock
  <2>2. CASE e[r] # Project!Idle
    <3>1. e'[r] = [e[r] EXCEPT !.pc = "compare"]
          /\ DOMAIN e' = Project!Runs /\ \A q \in Project!Runs \ {r} : e'[q] = e[q]
      BY <1>1, <2>1
    <3>2. /\ e'[r] \in [pc : Project!Active \cup {"lock"},
                      kind : {"minimal", "complete", "update", "rollback"},
                      entries : Project!Plans, base : {e[r].base}, backup : Nat,
                      left : SUBSET Project!Paths, seen : {e[r].seen}]
          /\ e'[r].pc = "compare" /\ e'[r].kind = e[r].kind /\ e'[r].entries = e[r].entries
          /\ e'[r].base = e[r].base /\ e'[r].backup = e[r].backup /\ e'[r].seen = e[r].seen
      BY <2>2, <3>1, ProjectRun DEF Project!Active
    <3>3. Project!RunKnown(r)'
      BY <1>1, <2>1, <2>2, <3>2 DEF Project!RunKnown, Project!Active, Project!Installing,
                             Project!RollingBack
    <3> QED
      BY <1>1, <2>1, <3>1, <3>3, ProjectBeside
  <2>3. CASE e[r] = Project!Idle
    BY <1>1, <2>3 DEF Project!Idle
  <2> QED
    BY <2>2, <2>3
<1>3. CASE d # "free"
  <2>1. /\ d' = d /\ e'[r] = Project!Idle
        /\ DOMAIN e' = Project!Runs /\ \A q \in Project!Runs \ {r} : e'[q] = e[q]
    BY <1>1, <1>3 DEF Project!TakeLock
  <2>2. Project!RunKnown(r)'
    BY <2>1 DEF Project!RunKnown
  <2> QED
    BY <1>1, <2>1, <2>2, ProjectBeside
<1> QED
  BY <1>2, <1>3

\* A run dies; the user removes its lock; a new distribution arrives.
LEMMA ProjectCrash ==
  ASSUME Project!InstallationInv, NEW r \in Project!Runs, Project!Crash(r)
  PROVE  Project!InstallationInv'
<1>1. /\ UNCHANGED <<a, b, c, f>> /\ e'[r] = Project!Idle
      /\ d' = d \/ (d = r /\ d' = "dead")
      /\ DOMAIN e' = Project!Runs /\ \A q \in Project!Runs \ {r} : e'[q] = e[q]
  BY DEF Project!Crash, Project!InstallationInv, Project!InstallationTypes
<1>2. Project!RunKnown(r)'
  BY <1>1 DEF Project!RunKnown
<1> QED
  BY <1>1, <1>2, ProjectBeside, ProjectBounds

LEMMA ProjectReconcile ==
  ASSUME Project!InstallationInv, Project!ReconcileLock
  PROVE  Project!InstallationInv'
<1>1. UNCHANGED <<a, b, c, e, f>> /\ d = "dead" /\ d' = "free"
  BY DEF Project!ReconcileLock
<1>2. ASSUME NEW q \in Project!Runs PROVE Project!RunKnown(q)'
  <2>1. Project!RunKnown(q) /\ d # q
    BY <1>1, ProjectBounds DEF Project!InstallationInv
  <2> QED
    BY <1>1, <2>1 DEF Project!RunKnown, Project!Installed, Project!Saved
<1> QED
  BY <1>1, <1>2 DEF Project!InstallationInv, Project!InstallationTypes, Project!Saved,
                    Project!AppliedKnown, Project!Installed

LEMMA ProjectNewDistribution ==
  ASSUME Project!InstallationInv, Project!NewDistribution
  PROVE  Project!InstallationInv'
<1>1. UNCHANGED <<b, c, d, e, f>> /\ a' \in {1, 2}
  BY DEF Project!NewDistribution
<1>2. ASSUME NEW q \in Project!Runs PROVE Project!RunKnown(q)'
  <2>1. Project!RunKnown(q)
    BY DEF Project!InstallationInv
  <2> QED
    BY <1>1, <2>1 DEF Project!RunKnown, Project!Installed, Project!Saved
<1> QED
  BY <1>1, <1>2 DEF Project!InstallationInv, Project!InstallationTypes, Project!Saved,
                    Project!AppliedKnown, Project!Installed

\* A run that goes on.
LEMMA ProjectGoes ==
  ASSUME Project!InstallationInv, NEW r \in Project!Runs, e[r] # Project!Idle,
         NEW p \in Project!Active, e' = [e EXCEPT ![r].pc = p]
  PROVE  /\ DOMAIN e' = Project!Runs /\ \A q \in Project!Runs \ {r} : e'[q] = e[q]
         /\ e'[r] \in [pc : Project!Active \cup {"lock"},
                       kind : {"minimal", "complete", "update", "rollback"},
                       entries : Project!Plans, base : {e[r].base}, backup : Nat,
                       left : SUBSET Project!Paths, seen : {e[r].seen}]
         /\ e'[r].pc = p /\ e'[r].kind = e[r].kind /\ e'[r].entries = e[r].entries
         /\ e'[r].base = e[r].base /\ e'[r].backup = e[r].backup /\ e'[r].left = e[r].left
         /\ e'[r].seen = e[r].seen
<1>1. e'[r] = [e[r] EXCEPT !.pc = p]
  BY ProjectRun
<1> QED
  BY <1>1, ProjectRun

\* The plan is compared with the project once more.
LEMMA ProjectCompare ==
  ASSUME Project!InstallationInv, NEW r \in Project!Runs, Project!Compare(r)
  PROVE  Project!InstallationInv'
<1>1. /\ e[r].pc = "compare" /\ e[r].kind # "rollback" /\ UNCHANGED <<a, b, f>>
      /\ e[r].pc \in Project!Active
  BY DEF Project!Compare, Project!Active
<1>2. CASE Project!Leave(r) /\ UNCHANGED c
  <2>1. Project!AppliedKnown'
    BY <1>1, <1>2 DEF Project!AppliedKnown, Project!Installed, Project!InstallationInv
  <2> QED
    BY <1>1, <1>2, <2>1, ProjectLeaves, ProjectSameBackups
<1>3. CASE ~(Project!Leave(r) /\ UNCHANGED c)
  <2> DEFINE new == [state |-> "unrecorded", complete |-> e[r].kind # "minimal",
                     entries |-> e[r].entries]
  <2>1. /\ Project!SameBase(r) /\ Project!SameFiles(r) /\ d' = d
        /\ c' = Append(c, new)
        /\ e' = [e EXCEPT ![r].pc = "save", ![r].backup = Len(c) + 1,
                          ![r].left = DOMAIN e[r].entries]
    BY <1>3 DEF Project!Compare
  <2>2. /\ e[r] # Project!Idle /\ d = r /\ Project!RunKnown(r)
        /\ \A q \in Project!Runs \ {r} : e[q] = Project!Idle \/ e[q].pc = "lock"
    BY <1>1, ProjectHolder DEF Project!InstallationInv
  <2>3. /\ DOMAIN e[r].entries \subseteq Project!Paths /\ e[r].entries \in Project!Plans
        /\ DOMAIN e = Project!Runs
    BY <2>2, ProjectRun, ProjectPlans
  <2>4. new \in Project!Backup
    BY <2>3 DEF Project!Backup, Project!States
  <2>5. new.state = "unrecorded" /\ new.entries = e[r].entries
    OBVIOUS
  <2> HIDE DEF new
  <2>6. /\ c' \in Seq(Project!Backup) /\ Len(c') = Len(c) + 1 /\ Len(c) \in Nat
        /\ DOMAIN c = 1..Len(c) /\ DOMAIN c' = 1..(Len(c) + 1)
        /\ \A y \in DOMAIN c : c'[y] = c[y]
        /\ c'[Len(c) + 1] = new
    BY <2>1, <2>4, ProjectBackup
  <2>7. Grown
    BY <2>6 DEF Grown
  <2>10. /\ DOMAIN e' = Project!Runs /\ \A q \in Project!Runs \ {r} : e'[q] = e[q]
         /\ e'[r] \in [pc : Project!Active \cup {"lock"},
                       kind : {"minimal", "complete", "update", "rollback"},
                       entries : Project!Plans, base : {e[r].base}, backup : Nat,
                       left : SUBSET Project!Paths, seen : {e[r].seen}]
         /\ e'[r].pc = "save" /\ e'[r].kind = e[r].kind /\ e'[r].entries = e[r].entries
         /\ e'[r].base = e[r].base /\ e'[r].backup = Len(c) + 1
         /\ e'[r].left = DOMAIN e[r].entries /\ e'[r].seen = e[r].seen
    <3>1. "save" \in Project!Active /\ Len(c) + 1 \in Nat
      BY <2>6 DEF Project!Active, Project!Installing
    <3>2. e'[r] = [e[r] EXCEPT !.pc = "save", !.backup = Len(c) + 1,
                               !.left = DOMAIN e[r].entries]
      BY <2>1, <2>3
    <3>3. DOMAIN e' = Project!Runs /\ \A q \in Project!Runs \ {r} : e'[q] = e[q]
      BY <2>1, <2>3
    <3> QED
      BY <2>2, <2>3, <3>1, <3>2, <3>3, ProjectRun
  <2>11. e[r].kind = "update" => /\ e[r].base # <<>> /\ e[r].base[1] \in DOMAIN c
                                 /\ c[e[r].base[1]].state = "APPLIED"
    BY <2>1, <2>2 DEF Project!RunKnown, Project!SameBase
  <2>12. Project!RunKnown(r)'
    BY <1>1, <2>1, <2>2, <2>5, <2>6, <2>10, <2>11 DEF Project!RunKnown, Project!Active,
       Project!Installing, Project!RollingBack
  <2>13. Project!AppliedKnown'
    BY <2>5, <2>6 DEF Project!AppliedKnown
  <2>14. \A o \in f : b'[o[1]] = o[2] \/ Project!Saved(o)'
    BY <1>1, <2>7, ProjectSaved DEF Project!InstallationInv
  <2>15. b' \in [Project!Paths -> 0..4]
    BY <1>1 DEF Project!InstallationInv, Project!InstallationTypes
  <2> QED
    BY <1>1, <2>2, <2>6, <2>7, <2>10, <2>12, <2>13, <2>14, <2>15, ProjectKeeps
<1> QED
  BY <1>2, <1>3

\* The preimages are saved.
LEMMA ProjectSave ==
  ASSUME Project!InstallationInv, NEW r \in Project!Runs, Project!SavePreimages(r)
  PROVE  Project!InstallationInv'
<1>1. /\ e[r].pc = "save" /\ UNCHANGED <<a, b, f>> /\ e[r].pc \in Project!Active
  BY DEF Project!SavePreimages, Project!Active, Project!Installing
<1>2. CASE Project!Leave(r) /\ UNCHANGED c
  <2>1. Project!AppliedKnown'
    BY <1>1, <1>2 DEF Project!AppliedKnown, Project!Installed, Project!InstallationInv
  <2> QED
    BY <1>1, <1>2, <2>1, ProjectLeaves, ProjectSameBackups
<1>3. CASE ~(Project!Leave(r) /\ UNCHANGED c)
  <2>1. /\ Project!SetState(r, "PREPARED") /\ e' = [e EXCEPT ![r].pc = "next"] /\ d' = d
    BY <1>3 DEF Project!SavePreimages
  <2>2. /\ e[r] # Project!Idle /\ d = r /\ Project!RunKnown(r)
        /\ \A q \in Project!Runs \ {r} : e[q] = Project!Idle \/ e[q].pc = "lock"
    BY <1>1, ProjectHolder DEF Project!InstallationInv
  <2>3. /\ e[r].backup \in DOMAIN c /\ e[r].backup = Len(c) /\ e[r].kind # "rollback"
        /\ e[r].left = DOMAIN e[r].entries /\ e[r].entries = c[e[r].backup].entries
        /\ e[r].kind = "update" => /\ e[r].base # <<>> /\ e[r].base[1] \in DOMAIN c
                                   /\ e[r].base[1] < Len(c) /\ e[r].base[2].state = "APPLIED"
                                   /\ c[e[r].base[1]].state = "APPLIED"
    BY <1>1, <2>2 DEF Project!RunKnown, Project!Installing
  <2>4. /\ c' \in Seq(Project!Backup) /\ Len(c') = Len(c) /\ DOMAIN c' = DOMAIN c
        /\ c'[e[r].backup].state = "PREPARED" /\ Grown
        /\ \A y \in DOMAIN c : /\ c'[y].entries = c[y].entries
                               /\ y # e[r].backup => c'[y] = c[y]
    <3>1. "PREPARED" \in Project!States \ {"unrecorded"}
      BY DEF Project!States
    <3> QED
      BY <2>1, <2>3, <3>1, ProjectSets
  <2>5. /\ DOMAIN e' = Project!Runs /\ \A q \in Project!Runs \ {r} : e'[q] = e[q]
        /\ e'[r] \in [pc : Project!Active \cup {"lock"},
                      kind : {"minimal", "complete", "update", "rollback"},
                      entries : Project!Plans, base : {e[r].base}, backup : Nat,
                      left : SUBSET Project!Paths, seen : {e[r].seen}]
        /\ e'[r].pc = "next" /\ e'[r].kind = e[r].kind /\ e'[r].entries = e[r].entries
        /\ e'[r].base = e[r].base /\ e'[r].backup = e[r].backup
        /\ e'[r].left = e[r].left /\ e'[r].seen = e[r].seen
    <3>1. "next" \in Project!Active
      BY DEF Project!Active, Project!Installing
    <3> QED
      BY <2>1, <2>2, <3>1, ProjectGoes
  <2>6. Project!RunKnown(r)'
    BY <2>1, <2>2, <2>3, <2>4, <2>5 DEF Project!RunKnown, Project!Active,
       Project!Installing, Project!RollingBack
  <2>7. Project!AppliedKnown'
    BY <2>3, <2>4 DEF Project!AppliedKnown
  <2>8. \A o \in f : b'[o[1]] = o[2] \/ Project!Saved(o)'
    BY <1>1, <2>4, ProjectSaved DEF Project!InstallationInv
  <2>9. b' \in [Project!Paths -> 0..4]
    BY <1>1 DEF Project!InstallationInv, Project!InstallationTypes
  <2> QED
    BY <1>1, <2>2, <2>4, <2>5, <2>6, <2>7, <2>8, <2>9, ProjectKeeps
<1> QED
  BY <1>2, <1>3

\* One file is compared and announced.
LEMMA ProjectAnnounce ==
  ASSUME Project!InstallationInv, NEW r \in Project!Runs, Project!Announce(r)
  PROVE  Project!InstallationInv'
<1>1. /\ e[r].pc = "next" /\ UNCHANGED <<a, b, f>> /\ e[r].pc \in Project!Active
  BY DEF Project!Announce, Project!Active, Project!Installing
<1>2. /\ e[r] # Project!Idle /\ d = r /\ Project!RunKnown(r)
      /\ \A q \in Project!Runs \ {r} : e[q] = Project!Idle \/ e[q].pc = "lock"
  BY <1>1, ProjectHolder DEF Project!InstallationInv
<1>3. /\ e[r].backup \in DOMAIN c /\ e[r].backup = Len(c) /\ e[r].kind # "rollback"
      /\ e[r].left \subseteq DOMAIN e[r].entries /\ e[r].entries = c[e[r].backup].entries
      /\ e[r].kind = "update" => /\ e[r].base # <<>> /\ e[r].base[1] \in DOMAIN c
                                 /\ e[r].base[1] < Len(c) /\ e[r].base[2].state = "APPLIED"
                                 /\ c[e[r].base[1]].state = "APPLIED"
      /\ \A x \in DOMAIN e[r].entries \ e[r].left : Project!Installed(e[r].entries, x)
  BY <1>1, <1>2 DEF Project!RunKnown, Project!Installing
<1>4. /\ DOMAIN e[r].entries \subseteq Project!Paths /\ e[r].entries \in Project!Plans
      /\ DOMAIN e = Project!Runs
  BY <1>2, ProjectRun, ProjectPlans
<1>5. {"APPLIED", "APPLYING", "INTERRUPTED"} \subseteq Project!States \ {"unrecorded"}
  BY DEF Project!States
<1>6. CASE e[r].left = {}
  <2>1. Project!SetState(r, "APPLIED") /\ Project!Leave(r)
    BY <1>6 DEF Project!Announce
  <2>2. /\ c' \in Seq(Project!Backup) /\ Len(c') = Len(c) /\ Grown
        /\ c'[Len(c)].entries = e[r].entries
    BY <1>3, <1>5, <2>1, ProjectSets
  <2>3. Project!AppliedKnown'
    BY <1>1, <1>3, <1>6, <2>2 DEF Project!AppliedKnown, Project!Installed
  <2> QED
    BY <1>1, <2>1, <2>2, <2>3, ProjectLeaves
<1>7. CASE e[r].left # {}
  <2> DEFINE x == Project!First(e[r].left)
  <2>1. x \in e[r].left
    BY <1>3, <1>4, <1>7, ProjectEnds
  <2>2. CASE b[x] = e[r].entries[x].before
    <3>1. /\ Project!SetState(r, "APPLYING") /\ e' = [e EXCEPT ![r].pc = "write"] /\ d' = d
      BY <1>7, <2>2 DEF Project!Announce
    <3> HIDE DEF x
    <3>2. /\ c' \in Seq(Project!Backup) /\ Len(c') = Len(c) /\ DOMAIN c' = DOMAIN c
          /\ c'[Len(c)].state = "APPLYING" /\ Grown
          /\ \A y \in DOMAIN c : /\ c'[y].entries = c[y].entries
                                 /\ y # e[r].backup => c'[y] = c[y]
      BY <1>3, <1>5, <3>1, ProjectSets
    <3>3. /\ DOMAIN e' = Project!Runs /\ \A q \in Project!Runs \ {r} : e'[q] = e[q]
          /\ e'[r] \in [pc : Project!Active \cup {"lock"},
                        kind : {"minimal", "complete", "update", "rollback"},
                        entries : Project!Plans, base : {e[r].base}, backup : Nat,
                        left : SUBSET Project!Paths, seen : {e[r].seen}]
          /\ e'[r].pc = "write" /\ e'[r].kind = e[r].kind /\ e'[r].entries = e[r].entries
          /\ e'[r].base = e[r].base /\ e'[r].backup = e[r].backup
          /\ e'[r].left = e[r].left /\ e'[r].seen = e[r].seen
      <4>1. "write" \in Project!Active
        BY DEF Project!Active, Project!Installing
      <4> QED
        BY <1>2, <3>1, <4>1, ProjectGoes
    <3>4. ASSUME NEW o \in f, o[1] = x PROVE Project!Saved(o)'
      <4>1. CASE Project!Saved(o)
        BY <3>2, <4>1, ProjectSaved
      <4>2. CASE b[o[1]] = o[2]
        <5>1. /\ Len(c) \in DOMAIN c' /\ c'[Len(c)].state # "unrecorded"
              /\ o[1] \in DOMAIN c'[Len(c)].entries
              /\ c'[Len(c)].entries[o[1]].before = o[2]
          BY <1>3, <2>1, <2>2, <3>2, <3>4, <4>2
        <5> QED
          BY <5>1 DEF Project!Saved
      <4> QED
        BY <4>1, <4>2 DEF Project!InstallationInv
    <3>5. (e'[r].pc = "write" => \A o \in f' : o[1] = Project!First(e'[r].left) =>
                                   Project!Saved(o)')
      BY <1>1, <3>3, <3>4 DEF x
    <3>6. \A y \in DOMAIN e[r].entries \ e[r].left : Project!Installed(e[r].entries, y)'
      BY <1>1, <1>3, <3>3 DEF Project!Installed
    <3>7. Project!RunKnown(r)'
      BY <1>2, <1>3, <1>7, <3>1, <3>2, <3>3, <3>5, <3>6 DEF Project!RunKnown, Project!Active,
         Project!Installing, Project!RollingBack
    <3>8. Project!AppliedKnown'
      BY <3>2 DEF Project!AppliedKnown
    <3>9. \A o \in f : b'[o[1]] = o[2] \/ Project!Saved(o)'
      BY <1>1, <3>2, ProjectSaved DEF Project!InstallationInv
    <3>10. b' \in [Project!Paths -> 0..4]
      BY <1>1 DEF Project!InstallationInv, Project!InstallationTypes
    <3> QED
      BY <1>1, <1>2, <3>2, <3>3, <3>7, <3>8, <3>9, <3>10, ProjectKeeps
  <2>3. CASE b[x] # e[r].entries[x].before
    <3>1. Project!SetState(r, "INTERRUPTED") /\ Project!Leave(r)
      BY <1>7, <2>3 DEF Project!Announce
    <3>2. /\ c' \in Seq(Project!Backup) /\ Len(c') = Len(c) /\ Grown
          /\ c'[Len(c)].state = "INTERRUPTED"
      BY <1>3, <1>5, <3>1, ProjectSets
    <3>3. Project!AppliedKnown'
      BY <3>2 DEF Project!AppliedKnown
    <3> QED
      BY <1>1, <3>1, <3>2, <3>3, ProjectLeaves
  <2> QED
    BY <2>2, <2>3
<1> QED
  BY <1>6, <1>7

\* The file is replaced or removed.
LEMMA ProjectReplace ==
  ASSUME Project!InstallationInv, NEW r \in Project!Runs, Project!Replace(r)
  PROVE  Project!InstallationInv'
<1> DEFINE x == Project!First(e[r].left)
<1>1. /\ e[r].pc = "write" /\ UNCHANGED <<a, c, d, f>> /\ e[r].pc \in Project!Active
      /\ b' = [b EXCEPT ![x] = e[r].entries[x].after]
      /\ e' = [e EXCEPT ![r].pc = "next", ![r].left = @ \ {x}]
  BY DEF Project!Replace, Project!Active, Project!Installing
<1>2. /\ e[r] # Project!Idle /\ d = r /\ Project!RunKnown(r)
      /\ \A q \in Project!Runs \ {r} : e[q] = Project!Idle \/ e[q].pc = "lock"
  BY <1>1, ProjectHolder DEF Project!InstallationInv
<1>3. /\ e[r].backup \in DOMAIN c /\ e[r].backup = Len(c) /\ e[r].kind # "rollback"
      /\ e[r].left \subseteq DOMAIN e[r].entries /\ e[r].entries = c[e[r].backup].entries
      /\ e[r].kind = "update" => /\ e[r].base # <<>> /\ e[r].base[1] \in DOMAIN c
                                 /\ e[r].base[1] < Len(c) /\ e[r].base[2].state = "APPLIED"
                                 /\ c[e[r].base[1]].state = "APPLIED"
      /\ \A y \in DOMAIN e[r].entries \ e[r].left : Project!Installed(e[r].entries, y)
      /\ c[e[r].backup].state = "APPLYING" /\ e[r].left # {}
      /\ \A o \in f : o[1] = x => Project!Saved(o)
  BY <1>1, <1>2 DEF Project!RunKnown, Project!Installing
<1>4. /\ DOMAIN e[r].entries \subseteq Project!Paths /\ e[r].entries \in Project!Plans
      /\ DOMAIN e = Project!Runs
  BY <1>2, ProjectRun, ProjectPlans
<1>5. x \in e[r].left
  BY <1>3, <1>4, ProjectEnds
<1> HIDE DEF x
<1>6. /\ b \in [Project!Paths -> 0..4] /\ e[r].entries[x].after \in 0..4
  BY <1>3, <1>4, <1>5, ProjectPlans DEF Project!InstallationInv, Project!InstallationTypes
<1>7. /\ b' \in [Project!Paths -> 0..4] /\ b'[x] = e[r].entries[x].after
      /\ \A y \in Project!Paths \ {x} : b'[y] = b[y]
  BY <1>1, <1>3, <1>4, <1>5, <1>6
<1>8. /\ DOMAIN e' = Project!Runs /\ \A q \in Project!Runs \ {r} : e'[q] = e[q]
      /\ e'[r] \in [pc : Project!Active \cup {"lock"},
                    kind : {"minimal", "complete", "update", "rollback"},
                    entries : Project!Plans, base : {e[r].base}, backup : Nat,
                    left : SUBSET Project!Paths, seen : {e[r].seen}]
      /\ e'[r].pc = "next" /\ e'[r].kind = e[r].kind /\ e'[r].entries = e[r].entries
      /\ e'[r].base = e[r].base /\ e'[r].backup = e[r].backup
      /\ e'[r].left = e[r].left \ {x} /\ e'[r].seen = e[r].seen
  <2>1. "next" \in Project!Active
    BY DEF Project!Active, Project!Installing
  <2>2. e'[r] = [e[r] EXCEPT !.pc = "next", !.left = e[r].left \ {x}]
    BY <1>1, <1>4
  <2>3. DOMAIN e' = Project!Runs /\ \A q \in Project!Runs \ {r} : e'[q] = e[q]
    BY <1>1, <1>4
  <2>4. e[r].left \ {x} \in SUBSET Project!Paths
    BY <1>3, <1>4
  <2> QED
    BY <1>2, <2>1, <2>2, <2>3, <2>4, ProjectRun
<1>9. ASSUME NEW y \in DOMAIN e[r].entries \ (e[r].left \ {x})
      PROVE  Project!Installed(e[r].entries, y)'
  BY <1>1, <1>3, <1>4, <1>7 DEF Project!Installed
<1>10. Project!RunKnown(r)'
  BY <1>1, <1>2, <1>3, <1>8, <1>9 DEF Project!RunKnown, Project!Active,
     Project!Installing, Project!RollingBack
<1>11. Project!AppliedKnown'
  BY <1>1, <1>3 DEF Project!AppliedKnown
<1>12. Grown /\ c' \in Seq(Project!Backup)
  BY <1>1, ProjectSameBackups
<1>13. ASSUME NEW o \in f PROVE b'[o[1]] = o[2] \/ Project!Saved(o)'
  <2>1. o[1] \in Project!Paths /\ (b[o[1]] = o[2] \/ Project!Saved(o))
    BY DEF Project!InstallationInv, Project!InstallationTypes
  <2> QED
    BY <1>3, <1>7, <1>12, <2>1, ProjectSaved
<1> QED
  BY <1>1, <1>2, <1>7, <1>8, <1>10, <1>11, <1>12, <1>13, ProjectKeeps

\* What a run that restores knows.
LEMMA ProjectRestores ==
  ASSUME NEW r,
         e'[r] \in [pc : Project!Active \cup {"lock"},
                    kind : {"minimal", "complete", "update", "rollback"},
                    entries : Project!Plans, base : {e[r].base}, backup : Nat,
                    left : SUBSET Project!Paths, seen : {e'[r].seen}],
         e'[r].pc = "restore", e'[r].kind = "rollback", e'[r].base = e[r].base, d' = r,
         e'[r].backup \in DOMAIN c', e'[r].entries = c'[e'[r].backup].entries,
         c'[e'[r].backup].state = "ROLLING_BACK", e'[r].left \subseteq DOMAIN e'[r].entries,
         \A y \in DOMAIN e'[r].entries :
            e'[r].seen[y] \in {e'[r].entries[y].before, e'[r].entries[y].after}
  PROVE  Project!RunKnown(r)'
BY DEF Project!RunKnown, Project!Active, Project!Installing, Project!RollingBack

\* A rollback compares all files, and begins.
LEMMA ProjectCompareRollback ==
  ASSUME Project!InstallationInv, NEW r \in Project!Runs, Project!CompareRollback(r)
  PROVE  Project!InstallationInv'
<1>1. /\ e[r].pc = "compare" /\ e[r].kind = "rollback" /\ UNCHANGED <<a, b, f>>
      /\ e[r].pc \in Project!Active
  BY DEF Project!CompareRollback, Project!Active
<1>2. CASE Project!Leave(r) /\ UNCHANGED c
  <2>1. Project!AppliedKnown'
    BY <1>1, <1>2 DEF Project!AppliedKnown, Project!Installed, Project!InstallationInv
  <2> QED
    BY <1>1, <1>2, <2>1, ProjectLeaves, ProjectSameBackups
<1>3. CASE ~(Project!Leave(r) /\ UNCHANGED c)
  <2> DEFINE seen == [x \in DOMAIN e[r].entries |-> b[x]]
  <2>1. /\ Project!SetState(r, "ROLLING_BACK") /\ d' = d /\ Project!Restorable(r)
        /\ e' = [e EXCEPT ![r].pc = "restore", ![r].left = DOMAIN e[r].entries,
                          ![r].seen = seen]
    BY <1>3 DEF Project!CompareRollback
  <2>2. \A x \in DOMAIN e[r].entries :
          seen[x] \in {e[r].entries[x].before, e[r].entries[x].after}
    BY <2>1 DEF Project!Restorable
  <2> HIDE DEF seen
  <2>3. /\ e[r] # Project!Idle /\ d = r /\ Project!RunKnown(r)
        /\ \A q \in Project!Runs \ {r} : e[q] = Project!Idle \/ e[q].pc = "lock"
    BY <1>1, ProjectHolder DEF Project!InstallationInv
  <2>4. /\ e[r].backup \in DOMAIN c /\ e[r].entries = c[e[r].backup].entries
    BY <1>1, <2>3 DEF Project!RunKnown
  <2>5. /\ DOMAIN e[r].entries \subseteq Project!Paths /\ DOMAIN e = Project!Runs
    BY <2>3, ProjectRun, ProjectPlans
  <2>6. /\ c' \in Seq(Project!Backup) /\ Len(c') = Len(c) /\ DOMAIN c' = DOMAIN c
        /\ c'[e[r].backup].state = "ROLLING_BACK" /\ Grown
        /\ \A y \in DOMAIN c : c'[y].entries = c[y].entries
    <3>1. "ROLLING_BACK" \in Project!States \ {"unrecorded"}
      BY DEF Project!States
    <3> QED
      BY <2>1, <2>4, <3>1, ProjectSets
  <2>7. /\ DOMAIN e' = Project!Runs /\ \A q \in Project!Runs \ {r} : e'[q] = e[q]
        /\ e'[r] \in [pc : Project!Active \cup {"lock"},
                      kind : {"minimal", "complete", "update", "rollback"},
                      entries : Project!Plans, base : {e[r].base}, backup : Nat,
                      left : SUBSET Project!Paths, seen : {seen}]
        /\ e'[r].pc = "restore" /\ e'[r].kind = e[r].kind /\ e'[r].entries = e[r].entries
        /\ e'[r].base = e[r].base /\ e'[r].backup = e[r].backup
        /\ e'[r].left = DOMAIN e[r].entries /\ e'[r].seen = seen
    <3>1. "restore" \in Project!Active
      BY DEF Project!Active, Project!RollingBack
    <3>2. e'[r] = [e[r] EXCEPT !.pc = "restore", !.left = DOMAIN e[r].entries, !.seen = seen]
      BY <2>1, <2>5
    <3>3. DOMAIN e' = Project!Runs /\ \A q \in Project!Runs \ {r} : e'[q] = e[q]
      BY <2>1, <2>5
    <3> QED
      BY <2>3, <2>5, <3>1, <3>2, <3>3, ProjectRun
  <2>8. Project!RunKnown(r)'
    <3>1. /\ e'[r].kind = "rollback" /\ d' = r /\ e'[r].backup \in DOMAIN c'
          /\ c'[e'[r].backup].state = "ROLLING_BACK"
      BY <1>1, <2>1, <2>3, <2>4, <2>6, <2>7
    <3>3. e'[r].entries = c'[e'[r].backup].entries
      BY <2>4, <2>6, <2>7
    <3>4. \A y \in DOMAIN e'[r].entries :
             e'[r].seen[y] \in {e'[r].entries[y].before, e'[r].entries[y].after}
      BY <2>2, <2>7
    <3> HIDE DEF Grown
    <3>2. e'[r].seen \in {e'[r].seen} /\ e'[r].left \subseteq DOMAIN e'[r].entries
      BY <2>7
    <3> QED
      BY <2>7, <3>1, <3>2, <3>3, <3>4, ProjectRestores
  <2>9. Project!AppliedKnown'
    <3>1. Len(c) \in Nat /\ DOMAIN c = 1..Len(c)
      BY ProjectBackup
    <3> QED
      BY <2>4, <2>6, <3>1 DEF Project!AppliedKnown
  <2>10. \A o \in f : b'[o[1]] = o[2] \/ Project!Saved(o)'
    BY <1>1, <2>6, ProjectSaved DEF Project!InstallationInv
  <2>11. b' \in [Project!Paths -> 0..4]
    BY <1>1 DEF Project!InstallationInv, Project!InstallationTypes
  <2> QED
    BY <1>1, <2>3, <2>6, <2>7, <2>8, <2>9, <2>10, <2>11, ProjectKeeps
<1> QED
  BY <1>2, <1>3

\* A rollback ends, or stops at a file that was changed.
LEMMA ProjectRollbackEnds ==
  ASSUME Project!InstallationInv, NEW r \in Project!Runs, e[r].pc = "restore",
         NEW p \in {"ROLLED_BACK", "ROLLBACK_INTERRUPTED"}, Project!SetState(r, p),
         Project!Leave(r), UNCHANGED <<a, b, f>>
  PROVE  Project!InstallationInv'
<1>1. e[r].pc \in Project!Active /\ p \in Project!States \ {"unrecorded"}
  BY DEF Project!Active, Project!RollingBack, Project!States
<1>2. e[r].backup \in DOMAIN c /\ c[e[r].backup].state = "ROLLING_BACK"
  BY <1>1, ProjectHolder DEF Project!InstallationInv, Project!RunKnown, Project!RollingBack
<1>3. /\ c' \in Seq(Project!Backup) /\ Len(c') = Len(c) /\ Grown /\ Len(c) \in Nat
      /\ DOMAIN c = 1..Len(c) /\ c'[e[r].backup].state = p
  BY <1>1, <1>2, ProjectSets, ProjectBackup
<1>4. Project!AppliedKnown'
  BY <1>2, <1>3 DEF Project!AppliedKnown
<1> QED
  BY <1>1, <1>3, <1>4, ProjectLeaves

\* The next file of a rollback.
LEMMA ProjectRestore ==
  ASSUME Project!InstallationInv, NEW r \in Project!Runs, Project!Restore(r)
  PROVE  Project!InstallationInv'
<1> DEFINE x == Project!Last(e[r].left)
<1>1. /\ e[r].pc = "restore" /\ UNCHANGED <<a, b, f>> /\ e[r].pc \in Project!Active
  BY DEF Project!Restore, Project!Active, Project!RollingBack
<1>2. /\ e[r] # Project!Idle /\ d = r /\ Project!RunKnown(r)
      /\ \A q \in Project!Runs \ {r} : e[q] = Project!Idle \/ e[q].pc = "lock"
  BY <1>1, ProjectHolder DEF Project!InstallationInv
<1>3. /\ e[r].backup \in DOMAIN c /\ e[r].kind = "rollback"
      /\ e[r].left \subseteq DOMAIN e[r].entries /\ e[r].entries = c[e[r].backup].entries
      /\ c[e[r].backup].state = "ROLLING_BACK"
      /\ \A y \in DOMAIN e[r].entries :
            e[r].seen[y] \in {e[r].entries[y].before, e[r].entries[y].after}
  BY <1>1, <1>2 DEF Project!RunKnown, Project!RollingBack
<1>4. /\ DOMAIN e[r].entries \subseteq Project!Paths /\ DOMAIN e = Project!Runs
      /\ Len(c) \in Nat /\ DOMAIN c = 1..Len(c)
  BY <1>2, ProjectRun, ProjectPlans, ProjectBackup
<1>5. CASE e[r].left = {}
  BY <1>1, <1>5, ProjectRollbackEnds DEF Project!Restore
<1>6. CASE e[r].left # {} /\ ~Project!StillSeen(r, x)
  BY <1>1, <1>6, ProjectRollbackEnds DEF Project!Restore
<1>7. CASE e[r].left # {} /\ Project!StillSeen(r, x)
  <2>1. /\ x \in e[r].left /\ b[x] = e[r].seen[x] /\ UNCHANGED <<c, d>>
        /\ e' = IF b[x] = e[r].entries[x].before THEN [e EXCEPT ![r].left = @ \ {x}]
                ELSE [e EXCEPT ![r].pc = "put"]
    BY <1>3, <1>4, <1>7, ProjectEnds DEF Project!Restore, Project!StillSeen
  <2> HIDE DEF x
  <2>2. Project!AppliedKnown' /\ b' \in [Project!Paths -> 0..4]
    BY <1>1, <2>1 DEF Project!AppliedKnown, Project!Installed, Project!InstallationInv,
                      Project!InstallationTypes
  <2>3. Grown /\ c' \in Seq(Project!Backup)
    BY <2>1, ProjectSameBackups
  <2>4. \A o \in f : b'[o[1]] = o[2] \/ Project!Saved(o)'
    BY <1>1, <2>3, ProjectSaved DEF Project!InstallationInv
  <2>5. /\ DOMAIN e' = Project!Runs /\ \A q \in Project!Runs \ {r} : e'[q] = e[q]
    BY <1>4, <2>1
  <2>6. CASE b[x] = e[r].entries[x].before
    <3>1. e'[r] = [e[r] EXCEPT !.left = e[r].left \ {x}]
      BY <1>4, <2>1, <2>6
    <3>2. /\ e'[r] \in [pc : Project!Active \cup {"lock"},
                        kind : {"minimal", "complete", "update", "rollback"},
                        entries : Project!Plans, base : {e[r].base}, backup : Nat,
                        left : SUBSET Project!Paths, seen : {e[r].seen}]
          /\ e'[r].pc = "restore" /\ e'[r].kind = e[r].kind /\ e'[r].entries = e[r].entries
          /\ e'[r].base = e[r].base /\ e'[r].backup = e[r].backup
          /\ e'[r].left = e[r].left \ {x} /\ e'[r].seen = e[r].seen
      BY <1>1, <1>2, <3>1, ProjectRun
    <3>3. Project!RunKnown(r)'
      BY <1>1, <1>2, <1>3, <2>1, <3>2 DEF Project!RunKnown, Project!Active,
         Project!Installing, Project!RollingBack
    <3> QED
      BY <1>1, <1>2, <2>2, <2>3, <2>4, <2>5, <3>3, ProjectKeeps
  <2>7. CASE b[x] # e[r].entries[x].before
    <3>1. e' = [e EXCEPT ![r].pc = "put"]
      BY <2>1, <2>7
    <3>2. /\ e'[r] \in [pc : Project!Active \cup {"lock"},
                        kind : {"minimal", "complete", "update", "rollback"},
                        entries : Project!Plans, base : {e[r].base}, backup : Nat,
                        left : SUBSET Project!Paths, seen : {e[r].seen}]
          /\ e'[r].pc = "put" /\ e'[r].kind = e[r].kind /\ e'[r].entries = e[r].entries
          /\ e'[r].base = e[r].base /\ e'[r].backup = e[r].backup
          /\ e'[r].left = e[r].left /\ e'[r].seen = e[r].seen
      <4>1. "put" \in Project!Active
        BY DEF Project!Active, Project!RollingBack
      <4> QED
        BY <1>2, <3>1, <4>1, ProjectGoes
    <3>3. b[x] \in 0..2
      BY <1>2, <1>3, <2>1, <2>7, ProjectRun, ProjectPlans
    <3>4. ASSUME NEW o \in f, o[1] = x PROVE Project!Saved(o)'
      <4>1. o[2] \in {3, 4}
        BY DEF Project!InstallationInv, Project!InstallationTypes, Project!Users,
               Project!Theirs, Project!Edited
      <4>2. Project!Saved(o)
        BY <3>3, <3>4, <4>1 DEF Project!InstallationInv
      <4> QED
        BY <2>3, <4>2, ProjectSaved
    <3>5. \A o \in f' : o[1] = Project!Last(e'[r].left) => Project!Saved(o)'
      BY <1>1, <3>2, <3>4 DEF x
    <3>6. Project!RunKnown(r)'
      BY <1>1, <1>2, <1>3, <1>7, <2>1, <3>2, <3>5 DEF Project!RunKnown, Project!Active,
         Project!Installing, Project!RollingBack
    <3> QED
      BY <1>1, <1>2, <2>2, <2>3, <2>4, <2>5, <3>6, ProjectKeeps
  <2> QED
    BY <2>6, <2>7
<1> QED
  BY <1>5, <1>6, <1>7

\* A file gets its preimage back.
LEMMA ProjectPut ==
  ASSUME Project!InstallationInv, NEW r \in Project!Runs, Project!Put(r)
  PROVE  Project!InstallationInv'
<1> DEFINE x == Project!Last(e[r].left)
<1>1. /\ e[r].pc = "put" /\ UNCHANGED <<a, c, d, f>> /\ e[r].pc \in Project!Active
      /\ b' = [b EXCEPT ![x] = e[r].entries[x].before]
      /\ e' = [e EXCEPT ![r].pc = "restore", ![r].left = @ \ {x}]
  BY DEF Project!Put, Project!Active, Project!RollingBack
<1>2. /\ e[r] # Project!Idle /\ d = r /\ Project!RunKnown(r)
      /\ \A q \in Project!Runs \ {r} : e[q] = Project!Idle \/ e[q].pc = "lock"
  BY <1>1, ProjectHolder DEF Project!InstallationInv
<1>3. /\ e[r].backup \in DOMAIN c /\ e[r].kind = "rollback"
      /\ e[r].left \subseteq DOMAIN e[r].entries /\ e[r].entries = c[e[r].backup].entries
      /\ c[e[r].backup].state = "ROLLING_BACK" /\ e[r].left # {}
      /\ \A y \in DOMAIN e[r].entries :
            e[r].seen[y] \in {e[r].entries[y].before, e[r].entries[y].after}
      /\ \A o \in f : o[1] = x => Project!Saved(o)
  BY <1>1, <1>2 DEF Project!RunKnown, Project!RollingBack
<1>4. /\ DOMAIN e[r].entries \subseteq Project!Paths /\ e[r].entries \in Project!Plans
      /\ DOMAIN e = Project!Runs
  BY <1>2, ProjectRun, ProjectPlans
<1>5. x \in e[r].left
  BY <1>3, <1>4, ProjectEnds
<1> HIDE DEF x
<1>6. /\ b \in [Project!Paths -> 0..4] /\ e[r].entries[x].before \in 0..4
  BY <1>3, <1>4, <1>5, ProjectPlans DEF Project!InstallationInv, Project!InstallationTypes
<1>7. /\ b' \in [Project!Paths -> 0..4]
      /\ \A y \in Project!Paths \ {x} : b'[y] = b[y]
  BY <1>1, <1>3, <1>4, <1>5, <1>6
<1>8. /\ DOMAIN e' = Project!Runs /\ \A q \in Project!Runs \ {r} : e'[q] = e[q]
      /\ e'[r] \in [pc : Project!Active \cup {"lock"},
                    kind : {"minimal", "complete", "update", "rollback"},
                    entries : Project!Plans, base : {e[r].base}, backup : Nat,
                    left : SUBSET Project!Paths, seen : {e[r].seen}]
      /\ e'[r].pc = "restore" /\ e'[r].kind = e[r].kind /\ e'[r].entries = e[r].entries
      /\ e'[r].base = e[r].base /\ e'[r].backup = e[r].backup
      /\ e'[r].left = e[r].left \ {x} /\ e'[r].seen = e[r].seen
  <2>1. "restore" \in Project!Active
    BY DEF Project!Active, Project!RollingBack
  <2>2. e'[r] = [e[r] EXCEPT !.pc = "restore", !.left = e[r].left \ {x}]
    BY <1>1, <1>4
  <2>3. DOMAIN e' = Project!Runs /\ \A q \in Project!Runs \ {r} : e'[q] = e[q]
    BY <1>1, <1>4
  <2>4. e[r].left \ {x} \in SUBSET Project!Paths
    BY <1>3, <1>4
  <2> QED
    BY <1>2, <2>1, <2>2, <2>3, <2>4, ProjectRun
<1>9. Project!RunKnown(r)'
  BY <1>1, <1>2, <1>3, <1>8, ProjectRestores
<1>10. Project!AppliedKnown'
  <2>1. Len(c) \in Nat /\ DOMAIN c = 1..Len(c)
    BY ProjectBackup
  <2> QED
    BY <1>1, <1>3, <2>1 DEF Project!AppliedKnown
<1>11. Grown /\ c' \in Seq(Project!Backup)
  BY <1>1, ProjectSameBackups
<1>12. ASSUME NEW o \in f PROVE b'[o[1]] = o[2] \/ Project!Saved(o)'
  <2>1. o[1] \in Project!Paths /\ (b[o[1]] = o[2] \/ Project!Saved(o))
    BY DEF Project!InstallationInv, Project!InstallationTypes
  <2> QED
    BY <1>3, <1>7, <1>11, <2>1, ProjectSaved
<1> QED
  BY <1>1, <1>2, <1>7, <1>8, <1>9, <1>10, <1>11, <1>12, ProjectKeeps

\* The user edits a file.
LEMMA ProjectEdit ==
  ASSUME Project!InstallationInv, NEW x \in Project!Paths, Project!Edit(x)
  PROVE  Project!InstallationInv'
<1>1. /\ UNCHANGED <<a, c, d, e>> /\ b' = [b EXCEPT ![x] = 4] /\ b[x] # 4
      /\ f' = (f \ {<<x, b[x]>>}) \cup (IF Project!AboutToReplace(x) THEN {} ELSE {<<x, 4>>})
      /\ b \in [Project!Paths -> 0..4] /\ f \subseteq Project!Paths \X {3, 4}
  BY DEF Project!Edit, Project!Edited, Project!InstallationInv, Project!InstallationTypes,
         Project!Users, Project!Theirs
<1>2. /\ b' \in [Project!Paths -> 0..4] /\ b'[x] = 4
      /\ \A y \in Project!Paths \ {x} : b'[y] = b[y]
  BY <1>1
<1>3. Project!InstallationTypes'
  BY <1>1, <1>2 DEF Project!InstallationInv, Project!InstallationTypes, Project!Users,
                    Project!Theirs, Project!Edited
<1>4. ASSUME NEW o \in f' PROVE b'[o[1]] = o[2] \/ Project!Saved(o)'
  <2>1. CASE o = <<x, 4>>
    BY <1>2, <2>1
  <2>2. CASE o # <<x, 4>>
    <3>1. o \in f /\ o # <<x, b[x]>> /\ o = <<o[1], o[2]>> /\ o[1] \in Project!Paths
      BY <1>1, <2>2
    <3>2. CASE o[1] = x
      <4>1. Project!Saved(o)
        BY <3>1, <3>2 DEF Project!InstallationInv
      <4> QED
        BY <1>1, <4>1 DEF Project!Saved
    <3>3. CASE o[1] # x
      <4>1. b'[o[1]] = b[o[1]]
        BY <1>2, <3>1, <3>3
      <4> QED
        BY <1>1, <3>1, <4>1 DEF Project!Saved, Project!InstallationInv
    <3> QED
      BY <3>2, <3>3
  <2> QED
    BY <2>1, <2>2
<1>5. ASSUME NEW p \in Project!Plans, NEW y \in DOMAIN p, Project!Installed(p, y),
             ~Project!AboutToReplace(x) \/ y # x
      PROVE  Project!Installed(p, y)'
  <2>1. y \in Project!Paths
    BY <1>5, ProjectPlans
  <2>2. CASE y = x
    BY <1>1, <1>5, <2>2 DEF Project!Installed, Project!Edited
  <2>3. CASE y # x
    BY <1>1, <1>2, <1>5, <2>1, <2>3 DEF Project!Installed, Project!Edited
  <2> QED
    BY <2>2, <2>3
<1>6. ASSUME NEW q \in Project!Runs PROVE Project!RunKnown(q)'
  <2>1. Project!RunKnown(q) /\ e' = e /\ e'[q] = e[q] /\ c' = c /\ d' = d
    BY <1>1 DEF Project!InstallationInv
  <2>2. CASE e[q] = Project!Idle
    BY <2>1, <2>2 DEF Project!RunKnown
  <2>3. CASE e[q] # Project!Idle
    <3>1. e[q].entries \in Project!Plans
      BY <2>3, ProjectRun
    <3>2. ASSUME e[q].pc \in {"next", "write"}, NEW y \in DOMAIN e[q].entries \ e[q].left
          PROVE  Project!Installed(e[q].entries, y)'
      <4>1. Project!Installed(e[q].entries, y)
        BY <2>1, <2>3, <3>2 DEF Project!RunKnown
      <4>2. ~Project!AboutToReplace(x) \/ y # x
        <5>1. SUFFICES ASSUME Project!AboutToReplace(x) PROVE y # x
          OBVIOUS
        <5>2. PICK r \in Project!Runs :
                \/ e[r].pc = "write" /\ Project!First(e[r].left) = x
                \/ e[r].pc = "put" /\ Project!Last(e[r].left) = x
          BY <5>1 DEF Project!AboutToReplace
        <5>3. e[r].pc \in Project!Active /\ e[q].pc \in Project!Active
          BY <3>2, <5>2 DEF Project!Active, Project!Installing, Project!RollingBack
        <5>4. r = q
          BY <5>3, ProjectHolder
        <5>5. e[q].left # {} /\ e[q].left \subseteq DOMAIN e[q].entries
              /\ Project!First(e[q].left) = x
          BY <2>1, <2>3, <3>2, <5>2, <5>4 DEF Project!RunKnown, Project!Installing
        <5>6. DOMAIN e[q].entries \subseteq Project!Paths
          BY <3>1, ProjectPlans
        <5>7. x \in e[q].left
          BY <5>5, <5>6, ProjectEnds
        <5> QED
          BY <3>2, <5>7
      <4> QED
        BY <1>1, <1>5, <3>1, <3>2, <4>1, <4>2 DEF Project!Installed
    <3>3. ASSUME NEW o \in f', \/ e[q].pc = "write" /\ o[1] = Project!First(e[q].left)
                               \/ e[q].pc = "put" /\ o[1] = Project!Last(e[q].left)
          PROVE  Project!Saved(o)'
      <4>1. o \in f
        BY <1>1, <3>3 DEF Project!AboutToReplace
      <4>2. Project!Saved(o)
        BY <2>1, <2>3, <3>3, <4>1 DEF Project!RunKnown
      <4> QED
        BY <1>1, <4>2 DEF Project!Saved
    <3>4. e[q].pc \in {"next", "write"} =>
             \A y \in DOMAIN e[q].entries \ e[q].left : Project!Installed(e[q].entries, y)'
      BY <3>2
    <3>5. ASSUME e[q].pc = "write", NEW o \in f', o[1] = Project!First(e[q].left)
          PROVE  Project!Saved(o)'
      BY <3>3, <3>5
    <3>6. ASSUME e[q].pc = "put", NEW o \in f', o[1] = Project!Last(e[q].left)
          PROVE  Project!Saved(o)'
      BY <3>3, <3>6
    <3> QED
      BY <2>1, <2>3, <3>4, <3>5, <3>6 DEF Project!RunKnown
  <2> QED
    BY <2>2, <2>3
<1>7. Project!AppliedKnown'
  <2> DEFINE n == Len(c)
  <2>1. n \in Nat /\ DOMAIN c = 1..n /\ \A y \in DOMAIN c : c[y].entries \in Project!Plans
    BY ProjectBackup
  <2>2. SUFFICES ASSUME n > 0, c[n].state = "APPLIED",
                        \A y \in 1..n - 1 : c[y].state # "ROLLING_BACK",
                        NEW y \in DOMAIN c[n].entries,
                        Project!Installed(c[n].entries, y)
                 PROVE  Project!Installed(c[n].entries, y)'
    BY <1>1 DEF Project!AppliedKnown, Project!InstallationInv
  <2>3. ~Project!AboutToReplace(x)
    <3>1. SUFFICES ASSUME NEW r \in Project!Runs, e[r].pc \in {"write", "put"} PROVE FALSE
      BY DEF Project!AboutToReplace
    <3>2. e[r].pc \in Project!Active
      BY <3>1 DEF Project!Active, Project!Installing, Project!RollingBack
    <3>3. e[r] # Project!Idle /\ Project!RunKnown(r)
      BY <3>2, ProjectHolder DEF Project!InstallationInv
    <3>4. CASE e[r].pc = "write"
      <4>1. e[r].backup = n /\ c[e[r].backup].state = "APPLYING"
        BY <3>3, <3>4 DEF Project!RunKnown, Project!Installing
      <4> QED
        BY <2>2, <4>1
    <3>5. CASE e[r].pc = "put"
      <4>1. e[r].kind = "rollback" /\ c[e[r].backup].state = "ROLLING_BACK"
        BY <3>3, <3>5 DEF Project!RunKnown, Project!RollingBack
      <4>2. e[r].backup \in DOMAIN c
        BY <3>3, <4>1 DEF Project!RunKnown
      <4> QED
        BY <2>1, <2>2, <4>1, <4>2
    <3> QED
      BY <3>1, <3>4, <3>5
  <2>4. c[n].entries \in Project!Plans
    BY <2>1, <2>2
  <2> QED
    BY <1>1, <1>5, <2>2, <2>3, <2>4 DEF Project!Installed
<1>8. (\A o \in f : b[o[1]] = o[2] \/ Project!Saved(o))'
  BY <1>4
<1> QED
  BY <1>3, <1>6, <1>7, <1>8 DEF Project!InstallationInv

\* Nothing is installed at first, and every step keeps what is known.
LEMMA ProjectStarts ==
  ASSUME Project!Init PROVE Project!InstallationInv
<1>1. /\ a = 1 /\ c = <<>> /\ e = [r \in Project!Runs |-> Project!Idle]
      /\ b \in [Project!Paths -> 0..4]
      /\ f = {<<x, 3>> : x \in {y \in Project!Paths : b[y] = 3}}
  BY DEF Project!Init, Project!Theirs, Project!Absent
<1>2. Project!InstallationTypes
  BY <1>1 DEF Project!InstallationTypes, Project!Users, Project!Theirs
<1>3. \A r \in Project!Runs : Project!RunKnown(r)
  BY <1>1 DEF Project!RunKnown
<1>4. \A o \in f : b[o[1]] = o[2]
  BY <1>1
<1>5. Project!AppliedKnown
  BY <1>1 DEF Project!AppliedKnown
<1> QED
  BY <1>2, <1>3, <1>4, <1>5 DEF Project!InstallationInv

LEMMA ProjectSteps ==
  ASSUME Project!InstallationInv, Project!Next PROVE Project!InstallationInv'
<1>1. Installers \subseteq Project!Runs /\ Rollers \subseteq Project!Runs
  BY DEF Project!Runs
<1>2. CASE \E r \in Installers : Project!PlanInstall(r)
  BY <1>1, <1>2, ProjectPlanInstall
<1>3. CASE \E r \in Rollers : Project!PlanRollback(r)
  BY <1>1, <1>3, ProjectPlanRollback
<1>4. ASSUME NEW r \in Project!Runs,
             \/ Project!TakeLock(r) \/ Project!Compare(r) \/ Project!SavePreimages(r)
             \/ Project!Announce(r) \/ Project!Replace(r) \/ Project!CompareRollback(r)
             \/ Project!Restore(r) \/ Project!Put(r) \/ Project!Crash(r)
      PROVE  Project!InstallationInv'
  BY <1>4, ProjectTakeLock, ProjectCompare, ProjectSave, ProjectAnnounce, ProjectReplace,
     ProjectCompareRollback, ProjectRestore, ProjectPut, ProjectCrash
<1>5. CASE Project!NewDistribution \/ Project!ReconcileLock
  BY <1>5, ProjectNewDistribution, ProjectReconcile
<1>6. CASE \E x \in Project!Paths : Project!Edit(x)
  BY <1>6, ProjectEdit
<1> QED
  BY <1>2, <1>3, <1>4, <1>5, <1>6 DEF Project!Next

\* A state that changes nothing keeps it as well.
LEMMA ProjectRests ==
  ASSUME Project!InstallationInv, UNCHANGED <<a, b, c, d, e, f, g, h>>
  PROVE  Project!InstallationInv'
BY DEF Project!InstallationInv, Project!InstallationTypes, Project!RunKnown, Project!AppliedKnown,
       Project!Installed, Project!Saved

LEMMA ProjectSoundly ==
  ASSUME Project!InstallationInv PROVE Project!InstallationSound
<1>1. Project!NothingLost
  BY DEF Project!InstallationInv, Project!NothingLost, Project!Saved
<1>2. Project!UpdateOwnsItsBase
  <2>1. SUFFICES ASSUME NEW r \in Project!Runs, e[r] # Project!Idle, e[r].kind = "update",
                        e[r].pc \in {"save", "next", "write"}
                 PROVE  c[e[r].base[1]].state = "APPLIED"
    BY DEF Project!UpdateOwnsItsBase
  <2> QED
    BY <2>1 DEF Project!InstallationInv, Project!RunKnown, Project!Installing
<1>3. Project!AppliedIsWhole
  BY DEF Project!InstallationInv, Project!AppliedKnown, Project!AppliedIsWhole,
         Project!Installed, Project!Edited
<1> QED
  BY <1>1, <1>2, <1>3 DEF Project!InstallationSound

\* The inductive invariant, at every step.
LEMMA ProjectHolds ==
  ASSUME Project!InstallationInv, [Project!Next]_(Project!vars) PROVE Project!InstallationInv'
<1>1. CASE UNCHANGED Project!vars
  BY <1>1, ProjectRests DEF Project!vars
<1> QED
  BY <1>1, ProjectSteps

-------------------------------------------------------------------------------
(* The theorems.                                                            *)

\* A job is given a configuration that its bytes allow, the same by allocator and
\* adapter, whatever evidence arrives or changes meanwhile.
THEOREM AllocationKeepsPromises == Stage!Spec => []Stage!AllocationInv
  BY StageStarts, StageHolds, PTL DEF Stage!Spec

\* Every candidate keeps its history in order and is queued once, whatever its
\* writers interleave.
THEOREM QueueKeepsPromises == Queue!Spec => []Queue!QueueInv
  BY QueueStarts, QueueHolds, PTL DEF Queue!Spec

\* A candidate and its adoption appear whole, with the captured bytes of the run
\* that reports them, whatever runs race, fail and die.
THEOREM CandidateKeepsPromises == Candidate!Spec => []Candidate!CandidateInv
  BY CandidateStarts, CandidateHolds, PTL DEF Candidate!Spec

\* An installed package is kept whole by the in-app update, with any number of
\* helpers, crashes, refused writes and edits between their steps.
THEOREM ProductKeepsPromises == Product!Spec => []Product!InstallInv
  BY ProductStarts, ProductHolds, PTL DEF Product!Spec

\* A project is kept whole by any number of installations, updates and rollbacks
\* of tools/bootstrap.py, with any number of crashes and edits between their steps.
THEOREM ProjectKeepsPromises == Project!Spec => []Project!InstallationInv
  BY ProjectStarts, ProjectHolds, PTL DEF Project!Spec

\* What each component keeps, in its scene.
LearningInv ==
  /\ scene = "queue" => Queue!QueueInv
  /\ scene = "candidate" => Candidate!CandidateInv
  /\ scene = "allocation" => Stage!AllocationInv

\* A step of a scene is a step of its component, or leaves it alone.
LEMMA LearningSteps ==
  ASSUME [WorkflowNext]_places
  PROVE  /\ scene' = scene
         /\ scene = "queue" => [Queue!Next]_(Queue!vars)
         /\ scene = "candidate" => [Candidate!Next]_(Candidate!vars)
         /\ scene = "allocation" => [Stage!Next]_(Stage!vars)
<1>1. CASE WorkflowNext
  BY <1>1 DEF WorkflowNext
<1>2. CASE UNCHANGED places
  BY <1>2 DEF places, Queue!vars, Candidate!vars, Stage!vars
<1> QED
  BY <1>1, <1>2

\* The inductive invariant of the learning components, for Workflow.
LEMMA LearningKeepsInv ==
  ASSUME LearningInv, [WorkflowNext]_places
  PROVE  LearningInv'
<1>1. (scene = "queue" => Queue!QueueInv)'
  BY LearningSteps, QueueHolds DEF LearningInv
<1>2. (scene = "candidate" => Candidate!CandidateInv)'
  BY LearningSteps, CandidateHolds DEF LearningInv
<1>3. (scene = "allocation" => Stage!AllocationInv)'
  BY LearningSteps, StageHolds DEF LearningInv
<1> QED
  BY <1>1, <1>2, <1>3 DEF LearningInv

\* The queue of candidates keeps its history and order whatever its writers
\* interleave, and a candidate is adopted as it was built and measured: whatever
\* the number of candidates, runs, edits and deaths.
THEOREM LearningStaysSound == WorkflowSpec => []LearningSound
<1>1. WorkflowInit => LearningInv
  <2> SUFFICES ASSUME WorkflowInit PROVE LearningInv
    OBVIOUS
  <2>1. /\ scene = "queue" => Queue!Init
        /\ scene = "candidate" => Candidate!Init
        /\ scene = "allocation" => Stage!Init
    BY DEF WorkflowInit
  <2> QED
    BY <2>1, QueueStarts, CandidateStarts, StageStarts DEF LearningInv
<1>2. LearningInv /\ [WorkflowNext]_places => LearningInv'
  BY LearningKeepsInv
<1>3. LearningInv => LearningSound
  BY QueueSoundly, CandidateSoundly, StageSound DEF LearningInv, LearningSound
<1> QED
  BY <1>1, <1>2, <1>3, PTL DEF WorkflowSpec

\* What the installers keep, in their scenes.
InstallingInv ==
  /\ scene = "product" => Product!InstallInv
  /\ scene = "project" => Project!InstallationInv

\* A step of a scene is a step of its installer, or leaves it alone.
LEMMA InstallingSteps ==
  ASSUME [WorkflowNext]_places
  PROVE  /\ scene' = scene
         /\ scene = "product" => [Product!Next]_(Product!vars)
         /\ scene = "project" => [Project!Next]_(Project!vars)
<1>1. CASE WorkflowNext
  BY <1>1 DEF WorkflowNext
<1>2. CASE UNCHANGED places
  BY <1>2 DEF places, Product!vars, Project!vars
<1> QED
  BY <1>1, <1>2

\* The inductive invariant of the installers, for Workflow.
LEMMA InstallingKeepsInv ==
  ASSUME InstallingInv, [WorkflowNext]_places
  PROVE  InstallingInv'
<1>1. (scene = "product" => Product!InstallInv)'
  BY InstallingSteps, ProductHolds DEF InstallingInv
<1>2. (scene = "project" => Project!InstallationInv)'
  BY InstallingSteps, ProjectHolds DEF InstallingInv
<1> QED
  BY <1>1, <1>2 DEF InstallingInv

\* An installation that dies or races an edit can be finished or undone: nothing
\* the user wrote is lost, what is on record as installed is, and a mix of two
\* versions is known as such, whatever the number of files, processes, edits,
\* faults and crashes.
THEOREM InstallationsStaySound == WorkflowSpec => []InstallSound
<1>1. WorkflowInit => InstallingInv
  <2> SUFFICES ASSUME WorkflowInit PROVE InstallingInv
    OBVIOUS
  <2>1. /\ scene = "product" => Product!Init
        /\ scene = "project" => Project!Init
    BY DEF WorkflowInit
  <2> QED
    BY <2>1, ProductStarts, ProjectStarts DEF InstallingInv
<1>2. InstallingInv /\ [WorkflowNext]_places => InstallingInv'
  BY InstallingKeepsInv
<1>3. InstallingInv => InstallSound
  BY ProductSoundly, ProjectSoundly DEF InstallingInv, InstallSound
<1> QED
  BY <1>1, <1>2, <1>3, PTL DEF WorkflowSpec
=============================================================================
