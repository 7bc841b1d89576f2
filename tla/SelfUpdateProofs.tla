---------------------------- MODULE SelfUpdateProofs ----------------------------
(***************************************************************************)
(* Proofs about SelfUpdate, for any files, candidates, tasks and bounds:   *)
(* only what passed its tests is installed, observed uses are real, files  *)
(* of other programs survive, and a tree that is part old and part new is  *)
(* known and serves no operation.                                          *)
(***************************************************************************)
EXTENDS SelfUpdate, TLAPS

W == INSTANCE WellFoundedInduction

\* Every set of numbers that is not empty has a least element.
LEMMA LeastNumber ==
  ASSUME NEW T, T \subseteq Nat, T # {}
  PROVE  \E m \in T : \A k \in T : ~(k < m)
<1> DEFINE R == W!OpToRel(<, Nat)
<1>1. W!IsWellFoundedOn(R, Nat)
  BY W!NatLessThanWellFounded
<1>2. \A a, b \in Nat : a < b => <<a, b>> \in R
  BY DEF W!OpToRel
<1> HIDE DEF R
<1>3. PICK m \in T : \A k \in T : <<k, m>> \notin R
  BY <1>1, W!WFMin
<1> QED
  BY <1>2, <1>3

-------------------------------------------------------------------------------
(***************************************************************************)
(* The rows that matter: Kept is defined by recursion, so what it returns  *)
(* is shown for the least number of rows for which it could be otherwise.  *)
(***************************************************************************)
\* The definition of Kept defines a function.
LEMMA KeptIsDefined ==
  ASSUME NEW S, NEW rows \in Seq(S)
  PROVE  \E kept :
           /\ Kept(rows) = kept[Len(rows)]
           /\ \A n \in 0..Len(rows) :
                kept[n] = IF n = 0 THEN <<>>
                          ELSE IF Matters(rows[n]) THEN Append(kept[n - 1], rows[n])
                                                   ELSE kept[n - 1]
<1> DEFINE Step(f, n) == IF n = 0 THEN <<>>
                         ELSE IF Matters(rows[n]) THEN Append(f[n - 1], rows[n]) ELSE f[n - 1]
           IsKept(N, f) == f = [n \in 0..N |-> Step(f, n)]
           Undefined == {N \in Nat : ~\E f : IsKept(N, f)}
<1>1. \A N \in Nat : \E f : IsKept(N, f)
  <2> SUFFICES ASSUME Undefined # {} PROVE FALSE
    OBVIOUS
  <2>1. PICK m \in Undefined : \A k \in Undefined : ~(k < m)
    BY LeastNumber
  <2>2. CASE m = 0
    <3> DEFINE g == [n \in 0..0 |-> <<>>]
    <3>1. IsKept(0, g)
      OBVIOUS
    <3> QED
      BY <2>1, <2>2, <3>1
  <2>3. CASE m # 0
    <3>1. m - 1 \in Nat /\ m - 1 < m /\ m \in Nat
      BY <2>3
    <3>2. PICK f : IsKept(m - 1, f)
      BY <2>1, <3>1
    <3> DEFINE g == [n \in 0..m |-> Step(f, n)]
    <3>3. \A n \in 0..m - 1 : g[n] = f[n]
      <4> SUFFICES ASSUME NEW n \in 0..m - 1 PROVE g[n] = f[n]
        OBVIOUS
      <4>1. f[n] = Step(f, n)
        BY <3>2
      <4>2. g[n] = Step(f, n)
        BY <3>1
      <4> QED
        BY <4>1, <4>2
    <3>4. \A n \in 0..m : Step(f, n) = Step(g, n)
      <4> SUFFICES ASSUME NEW n \in 0..m PROVE Step(f, n) = Step(g, n)
        OBVIOUS
      <4>1. CASE n = 0
        BY <4>1
      <4>2. CASE n # 0
        <5>1. n - 1 \in 0..m - 1
          BY <3>1, <4>2
        <5>2. g[n - 1] = f[n - 1]
          BY <3>3, <5>1
        <5> HIDE DEF g
        <5> QED
          BY <4>2, <5>2
      <4> QED
        BY <4>1, <4>2
    <3>5. IsKept(m, g)
      <4> HIDE DEF Step
      <4> QED
        BY <3>4
    <3> QED
      BY <2>1, <3>5
  <2> QED
    BY <2>2, <2>3
<1> DEFINE whole == CHOOSE f : IsKept(Len(rows), f)
<1>2. Len(rows) \in Nat
  OBVIOUS
<1>3. IsKept(Len(rows), whole)
  BY <1>1, <1>2
<1>4. Kept(rows) = whole[Len(rows)]
  BY DEF Kept
<1>5. \A n \in 0..Len(rows) : whole[n] = Step(whole, n)
  <2> HIDE DEF Step, whole
  <2> QED
    BY <1>3
<1> HIDE DEF whole
<1> QED
  BY <1>4, <1>5

\* It keeps rows, no more of them, and of those only ones that matter.
LEMMA KeptTypes ==
  ASSUME NEW S, NEW Q, NEW rows \in Seq(S),
         \A x \in S : Matters(x) => x \in Q
  PROVE  Kept(rows) \in Seq(Q) /\ Len(Kept(rows)) <= Len(rows)
<1>1. PICK kept :
        /\ Kept(rows) = kept[Len(rows)]
        /\ \A n \in 0..Len(rows) :
             kept[n] = IF n = 0 THEN <<>>
                       ELSE IF Matters(rows[n]) THEN Append(kept[n - 1], rows[n])
                                                ELSE kept[n - 1]
  BY KeptIsDefined
<1> DEFINE Wrong == {N \in 0..Len(rows) : ~(kept[N] \in Seq(Q) /\ Len(kept[N]) <= N)}
<1>2. Wrong = {}
  <2> SUFFICES ASSUME Wrong # {} PROVE FALSE
    OBVIOUS
  <2>1. PICK m \in Wrong : \A k \in Wrong : ~(k < m)
    <3>1. Wrong \subseteq Nat
      OBVIOUS
    <3> HIDE DEF Wrong
    <3> QED
      BY <3>1, LeastNumber
  <2>2. m \in 0..Len(rows)
    OBVIOUS
  <2>3. CASE m = 0
    <3>1. kept[0] = <<>>
      BY <1>1, <2>2, <2>3
    <3>2. <<>> \in Seq(Q) /\ Len(<<>>) = 0
      OBVIOUS
    <3>3. kept[m] \in Seq(Q) /\ Len(kept[m]) <= m
      BY <2>3, <3>1, <3>2
    <3> QED
      BY <2>1, <3>3
  <2>4. CASE m # 0
    <3>1. m - 1 \in 0..Len(rows) /\ m - 1 < m /\ m \in 1..Len(rows)
      BY <2>2, <2>4
    <3>2. kept[m - 1] \in Seq(Q) /\ Len(kept[m - 1]) <= m - 1
      BY <2>1, <3>1
    <3>3. rows[m] \in S
      BY <3>1
    <3>4. kept[m] = IF Matters(rows[m]) THEN Append(kept[m - 1], rows[m]) ELSE kept[m - 1]
      BY <1>1, <2>2, <2>4
    <3>5. kept[m] \in Seq(Q) /\ Len(kept[m]) <= m
      BY <3>1, <3>2, <3>3, <3>4
    <3> QED
      BY <2>1, <3>5
  <2> QED
    BY <2>3, <2>4
<1> QED
  <2>1. Len(rows) \in 0..Len(rows)
    OBVIOUS
  <2>2. kept[Len(rows)] \in Seq(Q) /\ Len(kept[Len(rows)]) <= Len(rows)
    BY <1>2, <2>1
  <2> QED
    BY <1>1, <2>2

\* Two sequences, one after the other.
LEMMA Joined ==
  ASSUME NEW S, NEW a \in Seq(S), NEW b \in Seq(S)
  PROVE  /\ a \o b \in Seq(S) /\ Len(a \o b) = Len(a) + Len(b)
         /\ DOMAIN (a \o b) = 1..Len(a) + Len(b)
         /\ \A j \in 1..Len(a) + Len(b) :
              (a \o b)[j] = IF j <= Len(a) THEN a[j] ELSE b[j - Len(a)]
<1>1. a \o b \in Seq(S) /\ Len(a \o b) = Len(a) + Len(b)
  OBVIOUS
<1>2. DOMAIN (a \o b) = 1..Len(a \o b)
  BY <1>1
<1>3. \A j \in 1..Len(a) + Len(b) :
        (a \o b)[j] = IF j <= Len(a) THEN a[j] ELSE b[j - Len(a)]
  OBVIOUS
<1> QED
  BY <1>1, <1>2, <1>3

\* What removing a row leaves.
LEMMA RemovedRow ==
  ASSUME NEW S, NEW rows \in Seq(S), NEW r \in DOMAIN rows
  PROVE  /\ RemoveAt(rows, r) \in Seq(S) /\ Len(RemoveAt(rows, r)) = Len(rows) - 1
         /\ DOMAIN RemoveAt(rows, r) = 1..Len(rows) - 1
         /\ \A j \in 1..Len(rows) - 1 :
              RemoveAt(rows, r)[j] = IF j < r THEN rows[j] ELSE rows[j + 1]
<1> DEFINE before == SubSeq(rows, 1, r - 1)
           after == SubSeq(rows, r + 1, Len(rows))
<1>1. r \in 1..Len(rows) /\ Len(rows) \in Nat
  OBVIOUS
<1>2. /\ before \in Seq(S) /\ Len(before) = r - 1
      /\ \A j \in 1..r - 1 : before[j] = rows[j]
  BY <1>1
<1>3. /\ after \in Seq(S) /\ Len(after) = Len(rows) - r
      /\ \A j \in 1..Len(rows) - r : after[j] = rows[r + j]
  BY <1>1
<1>4. RemoveAt(rows, r) = before \o after
  BY DEF RemoveAt
<1> HIDE DEF before, after
<1>5. /\ DOMAIN (before \o after) = 1..Len(rows) - 1
      /\ \A j \in 1..Len(rows) - 1 :
           (before \o after)[j] = IF j < r THEN before[j] ELSE after[j - (r - 1)]
  <2>1. Len(before) + Len(after) = Len(rows) - 1
    BY <1>1, <1>2, <1>3
  <2>2. DOMAIN (before \o after) = 1..Len(before) + Len(after)
    BY <1>2, <1>3, Joined
  <2>3. \A j \in 1..Len(before) + Len(after) :
          (before \o after)[j] = IF j <= Len(before) THEN before[j] ELSE after[j - Len(before)]
    BY <1>2, <1>3, Joined
  <2>4. \A j \in 1..Len(rows) - 1 : j <= Len(before) <=> j < r
    BY <1>1, <1>2
  <2> QED
    BY <1>2, <2>1, <2>2, <2>3, <2>4
<1>6. ASSUME NEW j \in 1..Len(rows) - 1
      PROVE  RemoveAt(rows, r)[j] = IF j < r THEN rows[j] ELSE rows[j + 1]
  <2>1. CASE j < r
    <3>1. j \in 1..r - 1
      BY <1>1, <2>1
    <3> QED
      BY <1>2, <1>4, <1>5, <2>1, <3>1
  <2>2. CASE ~(j < r)
    <3>1. j - (r - 1) \in 1..Len(rows) - r /\ r + (j - (r - 1)) = j + 1
      BY <1>1, <2>2
    <3>2. after[j - (r - 1)] = rows[j + 1]
      BY <1>3, <3>1
    <3> QED
      BY <1>4, <1>5, <2>2, <3>2
  <2> QED
    BY <2>1, <2>2
<1>7. before \o after \in Seq(S) /\ Len(before \o after) = Len(rows) - 1
  <2>1. Len(before) + Len(after) = Len(rows) - 1
    BY <1>1, <1>2, <1>3
  <2> QED
    BY <1>2, <1>3, <2>1, Joined
<1> QED
  BY <1>4, <1>5, <1>6, <1>7


-------------------------------------------------------------------------------
(***************************************************************************)
(* Types.                                                                  *)
(***************************************************************************)
\* Rows before those that failed are dropped.
AnyRows == [kind : {"verify", "apply", "rollback"}, task : Tasks, cand : Candidates,
            result : {"none", "unknown", "succeeded", "failed"}]

\* What is done to the rows leaves rows, no more than there were.
LEMMA RowsKept ==
  ASSUME ops \in Seq(Rows), NEW rows \in Seq(AnyRows), Len(rows) = Len(ops),
         Len(ops) <= MaxRows
  PROVE  Kept(rows) \in Seq(Rows) /\ Len(Kept(rows)) <= MaxRows
<1>1. \A x \in AnyRows : Matters(x) => x \in Rows
  BY DEF AnyRows, Rows, Matters
<1>2. Kept(rows) \in Seq(Rows) /\ Len(Kept(rows)) <= Len(rows)
  BY <1>1, KeptTypes
<1>3. Len(Kept(rows)) \in Nat /\ Len(ops) \in Nat /\ MaxRows \in Nat
  BY <1>2, SelfUpdateAssumption
<1> QED
  BY <1>2, <1>3

\* So does giving one of them its result.
LEMMA RowSet ==
  ASSUME ops \in Seq(Rows), Len(ops) <= MaxRows, NEW i \in DOMAIN ops,
         NEW result \in {"none", "unknown", "succeeded", "failed"}
  PROVE  /\ Kept(Set(ops, i, result)) \in Seq(Rows)
         /\ Len(Kept(Set(ops, i, result))) <= MaxRows
         /\ result # "failed" => Set(ops, i, result) \in Seq(Rows)
         /\ Len(Set(ops, i, result)) = Len(ops)
<1> DEFINE row == [ops[i] EXCEPT !.result = result]
<1>1. ops[i] \in Rows /\ i \in 1..Len(ops)
  OBVIOUS
<1>2. row \in AnyRows /\ (result # "failed" => row \in Rows)
  BY <1>1 DEF Rows, AnyRows
<1>3. Set(ops, i, result) = [ops EXCEPT ![i] = row]
  BY DEF Set
<1>4. ops \in Seq(AnyRows)
  <2>1. Rows \subseteq AnyRows
    BY DEF Rows, AnyRows
  <2>2. \A j \in 1..Len(ops) : ops[j] \in AnyRows
    BY <2>1
  <2> QED
    BY <2>2
<1> HIDE DEF row
<1>5. Set(ops, i, result) \in Seq(AnyRows) /\ Len(Set(ops, i, result)) = Len(ops)
  BY <1>1, <1>2, <1>3, <1>4
<1>6. result # "failed" => Set(ops, i, result) \in Seq(Rows)
  BY <1>1, <1>2, <1>3
<1> QED
  BY <1>5, <1>6, RowsKept

\* A row of which only the result is changed.
LEMMA RowResult ==
  ASSUME NEW row \in Rows, NEW result \in {"none", "unknown", "succeeded", "failed"}
  PROVE  [row EXCEPT !.result = result] \in AnyRows
BY DEF Rows, AnyRows

\* Every row is a row.
LEMMA RowParts ==
  ASSUME ops \in Seq(Rows), NEW i \in DOMAIN ops
  PROVE  /\ ops[i].cand \in Candidates /\ ops[i].task \in Tasks
         /\ ops[i].kind \in {"verify", "apply", "rollback"}
         /\ ops[i].result \in {"none", "unknown", "succeeded"}
<1>1. ops[i] \in Rows
  OBVIOUS
<1> QED
  BY <1>1 DEF Rows

\* What is concluded of a row is one of the results.
LEMMA OutcomeTypes ==
  ASSUME NEW kind, NEW c, NEW verified
  PROVE  Outcome(kind, c, verified) \in {"none", "unknown", "succeeded", "failed"}
BY DEF Outcome

\* What reconcile() makes of a test.
LEMMA ReconciledTypes ==
  ASSUME verification \in [Candidates -> {"none", "started", "succeeded", "failed", "unknown"}],
         NEW c \in Candidates
  PROVE  Reconciled(c) \subseteq {"none", "started", "succeeded", "failed", "unknown"}
BY DEF Reconciled

\* The shipped tree and a tree with a candidate's files are trees.
LEMMA ContentTypes ==
  /\ Base \in Manifests
  /\ \A tree \in Manifests, c \in Candidates : Patched(tree, c) \in Manifests
BY SelfUpdateAssumption DEF Base, Manifests, Contents, Patched

\* The program starts with all in its place.
LEMMA TypeInit == Init => TypeOK
<1> SUFFICES ASSUME Init PROVE TypeOK
  OBVIOUS
<1>1. code \in Manifests /\ loaded \in Manifests
  BY ContentTypes DEF Init
<1>2. /\ edits \in 0..MaxOutside /\ epoch \in 0..MaxOutside
      /\ pid \in 1..MaxBoots /\ 0 \in 0..MaxBoots
  BY SelfUpdateAssumption DEF Init
<1>3. /\ ops \in Seq(Rows) /\ Len(ops) <= MaxRows
      /\ torn \subseteq Candidates
  BY SelfUpdateAssumption DEF Init
<1>4. use \in [Uses -> Records]
  BY ContentTypes, SelfUpdateAssumption DEF Init, Records, NoUse, Pointers
<1> QED
  BY <1>1, <1>2, <1>3, <1>4 DEF Init, TypeOK, Activations, Pointers, Jobs

-------------------------------------------------------------------------------
\* Candidates and their tests keep the types.
LEMMA CandidateTypes ==
  ASSUME TypeOK, NEW t \in Tasks, NEW c \in Candidates, CandidateStep(t, c)
  PROVE  TypeOK'
<1> USE DEF TypeOK, diskVars, updateVars, processVars, Run, KillBox
<1>1. CASE Propose(t, c)
  <2>1. [kind |-> "candidate", before |-> code, after |-> Patched(code, c), epoch |-> epoch]
          \in [kind : {"candidate"}, before : Manifests, after : Manifests,
               epoch : 0..MaxOutside]
    BY ContentTypes
  <2> QED
    BY <1>1, <2>1 DEF Propose
<1>2. CASE BeginVerify(t, c)
  <2>1. [kind |-> "verify", task |-> t, cand |-> c, result |-> "none"] \in Rows
    BY DEF Rows
  <2>2. ops' \in Seq(Rows) /\ Len(ops') <= MaxRows
    BY <1>2, <2>1, SelfUpdateAssumption DEF BeginVerify
  <2>3. job' \in Jobs
    BY <1>2 DEF BeginVerify, Jobs
  <2> QED
    BY <1>2, <2>2, <2>3 DEF BeginVerify
<1>3. ASSUME NEW status \in {"succeeded", "failed", "unknown"}, Conclude(t, c, status),
             box' \in [Candidates -> {"none", "running", "passed", "failed"}]
      PROVE  TypeOK'
  <2>1. ops' \in Seq(Rows) /\ Len(ops') <= MaxRows
    BY <1>3, RowSet DEF Conclude
  <2>2. job' \in Jobs
    BY <1>3 DEF Conclude, Jobs
  <2> QED
    BY <1>3, <2>1, <2>2 DEF Conclude
<1>4. CASE VerifyPasses(t, c)
  BY <1>3, <1>4 DEF VerifyPasses
<1>5. CASE VerifyFails(t, c)
  <2>1. box' \in [Candidates -> {"none", "running", "passed", "failed"}]
    BY <1>5 DEF VerifyFails
  <2> QED
    BY <1>3, <1>5, <2>1 DEF VerifyFails
<1>6. ASSUME NEW kind \in {"apply", "rollback"}, Request(t, kind, c)
      PROVE  TypeOK'
  <2>1. [kind |-> kind, task |-> t, cand |-> c, result |-> "none"] \in Rows
    BY DEF Rows
  <2>2. ops' \in Seq(Rows) /\ Len(ops') <= MaxRows
    BY <1>6, <2>1, SelfUpdateAssumption DEF Request
  <2> QED
    BY <1>6, <2>2 DEF Request
<1> QED
  BY <1>1, <1>2, <1>4, <1>5, <1>6 DEF CandidateStep

\* So does what is observed of a row after an error.
LEMMA ObserveTypes ==
  ASSUME TypeOK, NEW t \in Tasks, NEW i \in DOMAIN ops, Observe(t, i)
  PROVE  /\ ops' \in Seq(Rows) /\ Len(ops') <= MaxRows
         /\ verification' \in
              [Candidates -> {"none", "started", "succeeded", "failed", "unknown"}]
         /\ box' \in [Candidates -> {"none", "running", "passed", "failed"}]
         /\ running' \in [Tasks -> {"off", "resuming", "restarting", "working", "reviewing",
                                    "verifying", "applying", "using"}]
<1> USE DEF TypeOK
<1>1. ops[i].cand \in Candidates
  BY RowParts
<1>2. PICK verified \in Reconciled(ops[i].cand) :
        /\ ops' = Kept(Set(ops, i, Outcome(ops[i].kind, ops[i].cand, verified)))
        /\ verification' = [verification EXCEPT ![ops[i].cand] = verified]
        /\ IF verified # verification[ops[i].cand] THEN KillBox(ops[i].cand)
                                                   ELSE UNCHANGED box
  BY DEF Observe
<1>3. running' = [running EXCEPT ![t] = "working"] \/ running' = [running EXCEPT ![t] = "off"]
  BY DEF Observe, Run
<1>4. verified \in {"none", "started", "succeeded", "failed", "unknown"}
  BY <1>1, <1>2, ReconciledTypes
<1>5. ops' \in Seq(Rows) /\ Len(ops') <= MaxRows
  <2> DEFINE result == Outcome(ops[i].kind, ops[i].cand, verified)
  <2>1. result \in {"none", "unknown", "succeeded", "failed"}
    BY OutcomeTypes
  <2>2. ops' = Kept(Set(ops, i, result))
    BY <1>2
  <2> HIDE DEF result
  <2> QED
    BY <2>1, <2>2, RowSet
<1> QED
  BY <1>1, <1>2, <1>3, <1>4, <1>5 DEF KillBox

\* Recovery gives several rows their result at once.
LEMMA RowsSettled ==
  ASSUME ops \in Seq(Rows), Len(ops) <= MaxRows, NEW result, DOMAIN result = DOMAIN ops,
         \A i \in DOMAIN ops : result[i] \in {"none", "unknown", "succeeded", "failed"}
  PROVE  /\ Kept([i \in DOMAIN ops |-> [ops[i] EXCEPT !.result = result[i]]]) \in Seq(Rows)
         /\ Len(Kept([i \in DOMAIN ops |-> [ops[i] EXCEPT !.result = result[i]]])) <= MaxRows
<1> DEFINE rows == [i \in DOMAIN ops |-> [ops[i] EXCEPT !.result = result[i]]]
<1>1. \A i \in 1..Len(ops) : [ops[i] EXCEPT !.result = result[i]] \in AnyRows
  <2> SUFFICES ASSUME NEW i \in 1..Len(ops)
               PROVE  [ops[i] EXCEPT !.result = result[i]] \in AnyRows
    OBVIOUS
  <2>1. ops[i] \in Rows /\ result[i] \in {"none", "unknown", "succeeded", "failed"}
    OBVIOUS
  <2> QED
    BY <2>1, RowResult
<1>2. rows \in Seq(AnyRows) /\ Len(rows) = Len(ops)
  <2>1. DOMAIN ops = 1..Len(ops) /\ Len(ops) \in Nat
    OBVIOUS
  <2>2. rows \in [1..Len(ops) -> AnyRows]
    BY <1>1, <2>1
  <2> HIDE DEF rows
  <2> QED
    BY <2>1, <2>2
<1> HIDE DEF rows
<1>3. Kept(rows) \in Seq(Rows) /\ Len(Kept(rows)) <= MaxRows
  BY <1>2, RowsKept
<1> QED
  BY <1>3 DEF rows

\* An activation and a pointer to it, as records.
LEMMA ActivationTypes ==
  ASSUME TypeOK, NEW c \in Candidates
  PROVE  /\ [kind |-> "activation", status |-> "activating", by |-> pid, undoneBy |-> 0]
              \in Activations
         /\ activation[c] # None =>
              /\ \A status \in {"activated", "interrupted", "rolled_back",
                                "rollback_interrupted"} :
                   [activation[c] EXCEPT !.status = status] \in Activations
              /\ [activation[c] EXCEPT !.status = "rolling_back", !.undoneBy = pid]
                   \in Activations
         /\ [kind |-> "pointer", cand |-> c, row |-> activation[c]] \in Pointers
<1>1. pid \in 1..MaxBoots /\ pid \in 0..MaxBoots /\ 0 \in 0..MaxBoots
  BY SelfUpdateAssumption DEF TypeOK
<1>2. activation[c] \in Activations
  BY DEF TypeOK
<1>3. [kind |-> "activation", status |-> "activating", by |-> pid, undoneBy |-> 0]
        \in Activations
  BY <1>1 DEF Activations
<1>4. ASSUME activation[c] # None
      PROVE  /\ \A status \in {"activated", "interrupted", "rolled_back",
                               "rollback_interrupted"} :
                  [activation[c] EXCEPT !.status = status] \in Activations
             /\ [activation[c] EXCEPT !.status = "rolling_back", !.undoneBy = pid]
                  \in Activations
  BY <1>1, <1>2, <1>4 DEF Activations
<1>5. [kind |-> "pointer", cand |-> c, row |-> activation[c]] \in Pointers
  BY <1>2 DEF Pointers
<1> QED
  BY <1>3, <1>4, <1>5

\* Who writes the tree goes on to the next file.
LEMMA JobAdvances ==
  ASSUME job \in Jobs, job # None, job.kind # "verify", Advance
  PROVE  /\ job' \in Jobs /\ job' # None /\ job'.kind = job.kind /\ job'.task = job.task
         /\ job'.cand = job.cand /\ job'.next = job.next + 1 /\ job'.seen = None
         /\ job.cand \in Candidates /\ job.next \in Nat
<1> DEFINE Working == [kind : {"activate", "rollback"}, task : Tasks, cand : Candidates,
                       next : Nat, seen : {None} \cup Contents]
           onward == [job EXCEPT !.next = @ + 1]
<1>1. job \in Working
  BY DEF Jobs
<1>2. /\ onward \in Working /\ onward.kind = job.kind /\ onward.task = job.task
      /\ onward.cand = job.cand /\ onward.next = job.next + 1
  BY <1>1
<1>3. job' = [onward EXCEPT !.seen = None]
  BY DEF Advance
<1> HIDE DEF onward
<1>4. /\ job' \in Working /\ job'.kind = job.kind /\ job'.task = job.task
      /\ job'.cand = job.cand /\ job'.next = job.next + 1 /\ job'.seen = None
  BY <1>2, <1>3
<1>5. job' # None /\ job' \in Jobs
  <2>1. job'.kind # "none"
    BY <1>4
  <2> QED
    BY <1>4, <2>1 DEF Jobs, None
<1> QED
  BY <1>1, <1>4, <1>5

\* Activation, rollback and the writing of files keep the types.
LEMMA UpdateTypes ==
  ASSUME TypeOK, LockedFor, \A c \in Candidates : Proven(c), NEW t \in Tasks, UpdateStep(t)
  PROVE  TypeOK'
<1> USE DEF TypeOK, diskVars, updateVars, processVars, Run
<1>1. CASE Activate(t)
  <2>1. PICK i \in DOMAIN ops :
          /\ activation' = [activation EXCEPT ![ops[i].cand] =
               [kind |-> "activation", status |-> "activating", by |-> pid, undoneBy |-> 0]]
          /\ job' = [kind |-> "activate", task |-> t, cand |-> ops[i].cand, next |-> 1,
                    seen |-> None]
    BY <1>1 DEF Activate
  <2>2. ops[i].cand \in Candidates
    BY RowParts
  <2>3. activation' \in [Candidates -> Activations]
    BY <2>1, <2>2, ActivationTypes
  <2>4. job' \in Jobs
    BY <2>1, <2>2 DEF Jobs
  <2> QED
    BY <1>1, <2>3, <2>4 DEF Activate
<1>2. CASE ReuseActivation(t)
  <2>1. PICK i \in DOMAIN ops : ops' = Set(ops, i, "succeeded")
    BY <1>2 DEF ReuseActivation
  <2>2. ops' \in Seq(Rows) /\ Len(ops') <= MaxRows
    BY <2>1, RowSet
  <2> QED
    BY <1>2, <2>2 DEF ReuseActivation
<1>3. CASE RollBack(t)
  <2>1. PICK i \in DOMAIN ops :
          /\ activation[ops[i].cand] # None
          /\ activation' = [activation EXCEPT ![ops[i].cand] =
               [activation[ops[i].cand] EXCEPT !.status = "rolling_back", !.undoneBy = pid]]
          /\ job' = [kind |-> "rollback", task |-> t, cand |-> ops[i].cand, next |-> 1,
                    seen |-> None]
    BY <1>3, RowParts DEF RollBack, MayRollBack
  <2>2. ops[i].cand \in Candidates
    BY RowParts
  <2>3. activation' \in [Candidates -> Activations]
    BY <2>1, <2>2, ActivationTypes
  <2>4. job' \in Jobs
    BY <2>1, <2>2 DEF Jobs
  <2> QED
    BY <1>3, <2>3, <2>4 DEF RollBack
<1>4. CASE Refuse(t)
  <2>1. PICK i \in DOMAIN ops : Observe(t, i)
    BY <1>4 DEF Refuse
  <2>2. pending' \in BOOLEAN
    BY <1>4 DEF Refuse
  <2> QED
    BY <1>4, <2>1, <2>2, ObserveTypes DEF Refuse
<1>5. CASE WriteNew(t)
  <2>1. job.cand \in Candidates /\ job.cand \in Contents /\ job' \in Jobs
    BY <1>5, JobAdvances DEF WriteNew, Writing, Contents
  <2> QED
    BY <1>5, <2>1 DEF WriteNew, Manifests
<1>10. CASE LookNew(t) \/ LookOld(t)
  <2>1. /\ job \in Jobs /\ job # None /\ job.kind \in {"activate", "rollback"}
        /\ job' = [job EXCEPT !.seen = code[Target]] /\ Todo
    BY <1>10 DEF LookNew, LookOld, Writing, See
  <2>2. Target \in Files
    BY <2>1, SelfUpdateAssumption DEF Todo, Target, Files, Jobs, LockedFor
  <2>3. code[Target] \in Contents
    BY <2>2 DEF Manifests
  <2>4. job' \in Jobs
    BY <2>1, <2>3 DEF Jobs
  <2> QED
    BY <1>10, <2>4 DEF LookNew, LookOld
<1>11. CASE PassOver(t)
  <2>1. job' \in Jobs
    BY <1>11, JobAdvances DEF PassOver, Writing
  <2> QED
    BY <1>11, <2>1 DEF PassOver
<1>6. CASE WriteOld(t)
  <2>1. job.cand \in Candidates /\ job' \in Jobs /\ job.next \in Nat /\ job.next >= 1
    BY <1>6, JobAdvances DEF WriteOld, Writing, LockedFor
  <2>2. Target \in Files
    BY <1>6, <2>1, SelfUpdateAssumption DEF WriteOld, Todo, Target, Files
  <2>3. Staged(job.cand)
    BY <1>6, <2>1 DEF WriteOld, Writing, LockedFor, Proven
  <2>4. cand[job.cand].before \in Manifests
    BY <2>1, <2>3 DEF Staged
  <2>5. cand[job.cand].before[Target] \in Contents
    BY <2>2, <2>4 DEF Manifests
  <2> QED
    BY <1>6, <2>1, <2>2, <2>5 DEF WriteOld, Manifests
<1>7. CASE Confirm(t)
  <2>1. job.cand \in Candidates /\ job' \in Jobs /\ activation[job.cand] # None
    BY <1>7, JobAdvances DEF Confirm, Writing, LockedFor
  <2>2. PICK status \in {"activated", "rolled_back"} :
          activation' = [activation EXCEPT ![job.cand] =
            [activation[job.cand] EXCEPT !.status = status]]
    BY <1>7 DEF Confirm
  <2>3. activation' \in [Candidates -> Activations]
    BY <2>1, <2>2, ActivationTypes
  <2> QED
    BY <1>7, <2>1, <2>3 DEF Confirm
<1>8. CASE Publish(t)
  <2>1. job.cand \in Candidates /\ job' \in Jobs
    BY <1>8, JobAdvances DEF Publish, Writing
  <2>2. active' \in Pointers
    BY <1>8, <2>1, ActivationTypes DEF Publish
  <2> QED
    BY <1>8, <2>1, <2>2 DEF Publish
<1>12. CASE SaveResult(t)
  <2>1. job.cand \in Candidates
    BY <1>12 DEF SaveResult, Writing, Jobs
  <2> DEFINE Settled(i) ==
               IF IsLatest(t, i) THEN "succeeded"
               ELSE IF /\ job.kind = "rollback" /\ i \in Open(t)
                       /\ ops[i].kind # "verify" /\ ops[i].cand = job.cand
                    THEN Outcome(ops[i].kind, job.cand, verification[job.cand])
                    ELSE ops[i].result
             result == [i \in DOMAIN ops |-> Settled(i)]
  <2>3. ops' = Kept([i \in DOMAIN ops |-> [ops[i] EXCEPT !.result = result[i]]])
    <3>1. ops' = Kept([i \in DOMAIN ops |-> [ops[i] EXCEPT !.result = Settled(i)]])
      BY <1>12 DEF SaveResult
    <3> HIDE DEF Settled
    <3>2. [i \in DOMAIN ops |-> [ops[i] EXCEPT !.result = Settled(i)]]
            = [i \in DOMAIN ops |-> [ops[i] EXCEPT !.result = result[i]]]
      OBVIOUS
    <3> QED
      BY <3>1, <3>2
  <2>4. \A i \in DOMAIN ops : result[i] \in {"none", "unknown", "succeeded", "failed"}
    BY RowParts, OutcomeTypes
  <2>5. DOMAIN result = DOMAIN ops
    OBVIOUS
  <2> HIDE DEF result
  <2>6. ops' \in Seq(Rows) /\ Len(ops') <= MaxRows
    BY <2>3, <2>4, <2>5, RowsSettled
  <2> QED
    BY <1>12, <2>6 DEF SaveResult, Jobs
<1>9. CASE BreakOff(t)
  <2>1. job.cand \in Candidates /\ activation[job.cand] # None
    BY <1>9 DEF BreakOff, Writing, Jobs, LockedFor
  <2>2. PICK status \in {"interrupted", "rollback_interrupted"} :
          activation' = [activation EXCEPT ![job.cand] =
            [activation[job.cand] EXCEPT !.status = status]]
    BY <1>9 DEF BreakOff
  <2>3. activation' \in [Candidates -> Activations]
    BY <2>1, <2>2, ActivationTypes
  <2>4. ops' \in Seq(Rows) /\ Len(ops') <= MaxRows
    BY <1>9, RowSet DEF BreakOff
  <2>5. running' \in [Tasks -> {"off", "resuming", "restarting", "working", "reviewing",
                                "verifying", "applying", "using"}]
    BY <1>9 DEF BreakOff
  <2> QED
    BY <1>9, <2>3, <2>4, <2>5 DEF BreakOff, Jobs
<1> QED
  BY <1>1, <1>2, <1>3, <1>4, <1>5, <1>6, <1>7, <1>8, <1>9, <1>10, <1>11, <1>12
  DEF UpdateStep

\* Tasks keep the types,
LEMMA TaskTypes ==
  ASSUME TypeOK, NEW t \in Tasks, TaskStep(t)
  PROVE  TypeOK'
<1> USE DEF TypeOK, diskVars, updateVars, processVars, Run
<1>1. CASE StartTask(t)
  BY <1>1 DEF StartTask
<1>2. CASE RecoverRows(t)
  <2> DEFINE Result(i) == IF i \in Open(t)
                          THEN Outcome(ops[i].kind, ops[i].cand, verification'[ops[i].cand])
                          ELSE ops[i].result
             result == [i \in DOMAIN ops |-> Result(i)]
  <2>1. ops' = Kept([i \in DOMAIN ops |-> [ops[i] EXCEPT !.result = result[i]]])
    <3>1. ops' = Kept([i \in DOMAIN ops |-> [ops[i] EXCEPT !.result = Result(i)]])
      BY <1>2 DEF RecoverRows
    <3> HIDE DEF Result
    <3>2. [i \in DOMAIN ops |-> [ops[i] EXCEPT !.result = Result(i)]]
            = [i \in DOMAIN ops |-> [ops[i] EXCEPT !.result = result[i]]]
      OBVIOUS
    <3> QED
      BY <3>1, <3>2
  <2>2. \A i \in DOMAIN ops : result[i] \in {"none", "unknown", "succeeded", "failed"}
    BY RowParts, OutcomeTypes
  <2>3. DOMAIN result = DOMAIN ops
    OBVIOUS
  <2> HIDE DEF result
  <2>4. ops' \in Seq(Rows) /\ Len(ops') <= MaxRows
    BY <2>1, <2>2, <2>3, RowsSettled
  <2>5. /\ verification' \in
             [Candidates -> {"none", "started", "succeeded", "failed", "unknown"}]
        /\ pending' \in BOOLEAN
    BY <1>2 DEF RecoverRows
  <2>6. box' \in [Candidates -> {"none", "running", "passed", "failed"}]
    BY <1>2 DEF RecoverRows
  <2>7. running' \in [Tasks -> {"off", "resuming", "restarting", "working", "reviewing",
                                "verifying", "applying", "using"}]
    BY <1>2 DEF RecoverRows
  <2> QED
    BY <1>2, <2>4, <2>5, <2>6, <2>7 DEF RecoverRows
<1>3. CASE RecoverRefused(t) \/ NothingToRestart(t) \/ RestartRefused(t) \/ LeaveTask(t)
  BY <1>3 DEF RecoverRefused, NothingToRestart, RestartRefused, LeaveTask
<1>4. CASE RestartDone(t)
  <2>1. PICK i \in DOMAIN ops : ops' = RemoveAt(ops, i)
    BY <1>4 DEF RestartDone
  <2>2. ops' \in Seq(Rows) /\ Len(ops') <= MaxRows
    <3>1. ops' \in Seq(Rows) /\ Len(ops') = Len(ops) - 1
      BY <2>1, RemovedRow
    <3>2. Len(ops) \in Nat /\ MaxRows \in Nat
      BY SelfUpdateAssumption
    <3> QED
      BY <3>1, <3>2
  <2> QED
    BY <1>4, <2>2 DEF RestartDone
<1>5. CASE HandOver(t)
  BY <1>5 DEF HandOver, EndProcess, Jobs
<1>6. CASE EndUse(t)
  <2>1. use' \in [Uses -> Records]
    <3> DEFINE Seen(u, known) == /\ known /\ loaded = code
                                 /\ Binding # None /\ Binding = use[u].under
                                 /\ Actor(Binding) # pid
                                 /\ Binding.row.status = "activated"
                                 /\ loaded = Expected(Binding)
    <3>1. PICK u \in Uses, known \in BOOLEAN :
            IF Mismatch THEN UNCHANGED use
            ELSE use' = [use EXCEPT ![u].status = "recorded", ![u].observed = Seen(u, known)]
      BY <1>6 DEF EndUse
    <3>2. Seen(u, known) \in BOOLEAN
      OBVIOUS
    <3> HIDE DEF Seen
    <3> DEFINE record == [use[u] EXCEPT !.status = "recorded", !.observed = Seen(u, known)]
    <3>3. use[u] \in Records
      OBVIOUS
    <3>4. record \in Records
      BY <3>2, <3>3 DEF Records
    <3>5. use' = use \/ use' = [use EXCEPT ![u] = record]
      BY <3>1
    <3> HIDE DEF record
    <3> QED
      BY <3>4, <3>5
  <2> QED
    BY <1>6, <2>1 DEF EndUse
<1>7. CASE Withdraw(t)
  <2>1. CASE job = None
    <3>1. PICK i \in DOMAIN ops : Observe(t, i)
      BY <1>7, <2>1 DEF Withdraw
    <3> QED
      BY <1>7, <3>1, ObserveTypes DEF Withdraw
  <2>2. CASE job # None
    BY <1>7, <2>2 DEF Withdraw
  <2> QED
    BY <2>1, <2>2
<1> QED
  BY <1>1, <1>2, <1>3, <1>4, <1>5, <1>6, <1>7 DEF TaskStep

\* and so do uses of the harness, and what happens around it.
LEMMA OtherTypes ==
  ASSUME TypeOK,
         \/ \E t \in Tasks, u \in Uses : BeginUse(t, u)
         \/ \E c \in Candidates : BoxEnds(c)
         \/ \E p \in Paths : Edit(p)
         \/ Crash \/ Boot \/ Enroll
  PROVE  TypeOK'
<1> USE DEF TypeOK, diskVars, updateVars, processVars, Run
<1>1. ASSUME NEW t \in Tasks, NEW u \in Uses, BeginUse(t, u) PROVE TypeOK'
  <2>1. pid \in 0..MaxBoots /\ Binding \in Pointers
    BY SelfUpdateAssumption DEF Binding, Pointers
  <2>2. [status |-> "started", task |-> t, pid |-> pid, ran |-> loaded, under |-> Binding,
         observed |-> FALSE] \in Records
    BY <2>1 DEF Records
  <2> QED
    BY <1>1, <2>2 DEF BeginUse
<1>2. ASSUME NEW c \in Candidates, BoxEnds(c) PROVE TypeOK'
  BY <1>2 DEF BoxEnds
<1>3. ASSUME NEW p \in Paths, Edit(p) PROVE TypeOK'
  BY <1>3, SelfUpdateAssumption DEF Edit, Manifests, Files, Contents
<1>4. CASE Crash
  <2>1. code' \in Manifests
    BY <1>4 DEF Crash, Manifests, Files, Contents
  <2>2. torn' \subseteq Candidates
    BY <1>4 DEF Crash, Jobs
  <2> QED
    BY <1>4, <2>1, <2>2 DEF Crash, EndProcess, Jobs
<1>5. CASE Boot
  BY <1>5, SelfUpdateAssumption DEF Boot
<1>6. CASE Enroll
  BY <1>6, SelfUpdateAssumption DEF Enroll
<1> QED
  BY <1>1, <1>2, <1>3, <1>4, <1>5, <1>6

-------------------------------------------------------------------------------
(***************************************************************************)
(* The invariant.                                                          *)
(***************************************************************************)
\* All of UpdateInv but the types.
Facts ==
  /\ \A c \in Candidates : Proven(c)
  /\ TreeActivated /\ LockedFor /\ PointsBack
  /\ \A u \in Uses : UseKnown(u)

\* It holds of the program as it is shipped.
LEMMA FactsInit == Init => Facts
<1> SUFFICES ASSUME Init PROVE Facts
  OBVIOUS
<1>1. \A c \in Candidates : Proven(c)
  BY DEF Init, Proven, Staged
<1>2. TreeActivated
  BY SelfUpdateAssumption DEF Init, TreeActivated, Base, Files
<1>3. \A u \in Uses : UseKnown(u)
  BY SelfUpdateAssumption DEF Init, UseKnown, NoUse
<1> QED
  BY <1>1, <1>2, <1>3 DEF Init, Facts, LockedFor, PointsBack

\* The parts that a step does not touch stay.
LEMMA ProvenStays ==
  ASSUME UpdateInv, UNCHANGED <<cand, verification, box>>,
         \A c \in Candidates : /\ activation[c] # None => activation'[c] # None
                               /\ activation'[c] # None => /\ activation[c] # None
                                                           /\ activation'[c].by <= pid'
  PROVE  \A c \in Candidates : Proven(c)'
BY DEF UpdateInv, Proven, Staged

\* The tree holds what was activated, as before.
LEMMA TreeStays ==
  ASSUME UpdateInv, UNCHANGED code,
         \A c \in Candidates : activation[c] # None => activation'[c] # None
  PROVE  TreeActivated'
BY DEF UpdateInv, TreeActivated

\* The pointer still names an activation.
LEMMA PointerStays ==
  ASSUME UpdateInv, UNCHANGED active, pid' >= pid, pid' \in Nat,
         \A c \in Candidates : activation[c] # None => activation'[c] # None
  PROVE  PointsBack'
<1>1. active # None => active.cand \in Candidates /\ active.row \in Activations /\ pid \in Nat
  BY DEF UpdateInv, TypeOK, Pointers
<1>2. active # None => active.row.by \in Nat
  BY <1>1 DEF UpdateInv, PointsBack, Activations
<1> QED
  BY <1>1, <1>2 DEF UpdateInv, PointsBack

\* What is known of a use is still known.
LEMMA UseStays ==
  ASSUME UpdateInv, UNCHANGED <<use, pid, loaded>>,
         \A c \in Candidates : Staged(c) => cand'[c] = cand[c],
         \A c \in Candidates : activation[c] # None => activation'[c] # None
  PROVE  \A u \in Uses : UseKnown(u)'
<1> SUFFICES ASSUME NEW u \in Uses PROVE UseKnown(u)'
  OBVIOUS
<1>1. UseKnown(u) /\ use[u] \in Records
  BY DEF UpdateInv, TypeOK
<1>2. use[u].under # None => use[u].under.cand \in Candidates
  BY <1>1 DEF Records, Pointers
<1>3. ASSUME NEW c \in Candidates, activation[c] # None
      PROVE  Staged(c)
  BY <1>3 DEF UpdateInv, Proven
<1> QED
  BY <1>1, <1>2, <1>3 DEF UseKnown, Staged

\* Candidates and their tests.
LEMMA CandidateFacts ==
  ASSUME UpdateInv, NEW t \in Tasks, NEW c \in Candidates, CandidateStep(t, c)
  PROVE  Facts'
<1> USE DEF diskVars, updateVars, processVars
<1>0. TypeOK /\ LockedFor /\ PointsBack /\ pid \in Nat /\ \A d \in Candidates : Proven(d)
  BY SelfUpdateAssumption DEF UpdateInv, TypeOK
<1>1. CASE Propose(t, c)
  <2>1. /\ UNCHANGED <<code, verification, box, activation, active, use, pid, loaded, job>>
        /\ ~Staged(c)
        /\ cand' = [cand EXCEPT ![c] = [kind |-> "candidate", before |-> code,
                                  after |-> Patched(code, c), epoch |-> epoch]]
    BY <1>1 DEF Propose
  <2>2. \A d \in Candidates : Proven(d)'
    <3>1. TreeActivated /\ cand \in [Candidates -> {None} \cup
            [kind : {"candidate"}, before : Manifests, after : Manifests, epoch : 0..MaxOutside]]
      BY DEF UpdateInv, TypeOK
    <3>2. cand'[c].before = code /\ cand'[c] # None
      BY <2>1, <3>1 DEF None
    <3>3. \A d \in Candidates \ {c} : cand'[d] = cand[d]
      BY <2>1, <3>1
    <3> QED
      BY <1>0, <2>1, <3>1, <3>2, <3>3 DEF Proven, Staged, TreeActivated
  <2>3. \A d \in Candidates : Staged(d) => cand'[d] = cand[d]
    BY <1>0, <2>1 DEF TypeOK
  <2>4. \A u \in Uses : UseKnown(u)'
    BY <2>1, <2>3, UseStays
  <2> QED
    BY <1>0, <2>1, <2>2, <2>4, TreeStays, PointerStays DEF Facts, LockedFor
<1>2. CASE BeginVerify(t, c)
  <2>1. /\ UNCHANGED <<code, cand, activation, active, use, pid, loaded>>
        /\ Staged(c) /\ verification[c] \in {"none", "failed"}
        /\ verification' = [verification EXCEPT ![c] = "started"]
        /\ \A d \in Candidates \ {c} : box'[d] = box[d]
        /\ job' = [kind |-> "verify", task |-> t, cand |-> c]
    BY <1>0, <1>2 DEF BeginVerify, TypeOK
  <2>2. \A d \in Candidates : Proven(d)'
    BY <1>0, <2>1 DEF TypeOK, Proven, Staged
  <2>3. LockedFor'
    BY <1>0, <2>1 DEF TypeOK, LockedFor
  <2> QED
    BY <1>0, <2>1, <2>2, <2>3, TreeStays, PointerStays, UseStays DEF Facts
<1>3. ASSUME NEW status \in {"succeeded", "failed", "unknown"}, Conclude(t, c, status),
             Verifying(t, c), \A d \in Candidates : box[d] = "passed" => box'[d] = "passed",
             status = "succeeded" => box'[c] = "passed"
      PROVE  Facts'
  <2>1. /\ UNCHANGED <<code, cand, activation, active, use, pid, loaded>> /\ job' = None
        /\ verification' = [verification EXCEPT ![c] = status]
        /\ verification[c] = "started"
    BY <1>0, <1>3 DEF Conclude, Verifying, LockedFor
  <2>2. \A d \in Candidates : Proven(d)'
    BY <1>0, <1>3, <2>1 DEF TypeOK, Proven, Staged
  <2>3. LockedFor'
    BY <2>1 DEF LockedFor
  <2> QED
    BY <1>0, <2>1, <2>2, <2>3, TreeStays, PointerStays, UseStays DEF Facts
<1>4. CASE VerifyPasses(t, c)
  BY <1>3, <1>4 DEF VerifyPasses
<1>5. CASE VerifyFails(t, c)
  <2>1. \A d \in Candidates : box[d] = "passed" => box'[d] = "passed"
    BY <1>0, <1>5 DEF VerifyFails, KillBox, TypeOK
  <2> QED
    BY <1>3, <1>5, <2>1 DEF VerifyFails
<1>6. ASSUME NEW kind \in {"apply", "rollback"}, Request(t, kind, c)
      PROVE  Facts'
  <2>1. UNCHANGED <<code, cand, verification, box, activation, active, use, pid, loaded, job>>
    BY <1>6 DEF Request
  <2> QED
    BY <1>0, <2>1, ProvenStays, TreeStays, PointerStays, UseStays
    DEF Facts, LockedFor, Proven
<1> QED
  BY <1>1, <1>2, <1>4, <1>5, <1>6 DEF CandidateStep

\* What is observed of tests after the fact turns nothing into a success.
LEMMA ReconcileFacts ==
  ASSUME UpdateInv, NEW c \in Candidates, NEW verified \in Reconciled(c)
  PROVE  /\ verification[c] = "succeeded" <=> verified = "succeeded"
         /\ verification[c] = "none" <=> verified = "none"
         /\ verification[c] = "succeeded" => verified = verification[c]
BY DEF Reconciled, UpdateInv, TypeOK

\* Observing a row keeps all the facts.
LEMMA ObserveFacts ==
  ASSUME UpdateInv, NEW t \in Tasks, NEW i \in DOMAIN ops, Observe(t, i), job = None, job' = None,
         UNCHANGED <<code, cand, activation, active, use, pid, loaded>>
  PROVE  Facts'
<1>0. ops \in Seq(Rows) /\ pid \in Nat
  BY SelfUpdateAssumption DEF UpdateInv, TypeOK
<1>1. ops[i].cand \in Candidates
  BY <1>0, RowParts
<1>2. PICK verified \in Reconciled(ops[i].cand) :
        /\ verification' = [verification EXCEPT ![ops[i].cand] = verified]
        /\ IF verified # verification[ops[i].cand] THEN KillBox(ops[i].cand)
                                                   ELSE UNCHANGED box
  BY DEF Observe
<1>3. \A d \in Candidates : /\ verification[d] = "succeeded" <=> verification'[d] = "succeeded"
                            /\ verification[d] = "none" <=> verification'[d] = "none"
                            /\ box[d] = "passed" => box'[d] = "passed"
  BY <1>1, <1>2, ReconcileFacts DEF UpdateInv, TypeOK, KillBox
<1>4. \A d \in Candidates : Proven(d)'
  BY <1>3 DEF UpdateInv, Proven, Staged
<1> QED
  BY <1>0, <1>4, TreeStays, PointerStays, UseStays DEF Facts, LockedFor

\* Activation, rollback and the writing of files.
LEMMA UpdateFacts ==
  ASSUME UpdateInv, NEW t \in Tasks, UpdateStep(t)
  PROVE  Facts'
<1> USE DEF diskVars, updateVars, processVars
<1>0. /\ TypeOK /\ LockedFor /\ PointsBack /\ TreeActivated /\ pid \in Nat
      /\ \A d \in Candidates : Proven(d)
  BY SelfUpdateAssumption DEF UpdateInv, TypeOK
<1>1. CASE Activate(t)
  <2>1. PICK i \in DOMAIN ops :
          /\ verification[ops[i].cand] = "succeeded" /\ activation[ops[i].cand] = None
          /\ activation' = [activation EXCEPT ![ops[i].cand] =
               [kind |-> "activation", status |-> "activating", by |-> pid, undoneBy |-> 0]]
          /\ job' = [kind |-> "activate", task |-> t, cand |-> ops[i].cand, next |-> 1,
                    seen |-> None]
    BY <1>1 DEF Activate, MayActivate
  <2> DEFINE c == ops[i].cand
  <2>2. c \in Candidates
    BY <1>0, RowParts DEF TypeOK
  <2> HIDE DEF c
  <2>3. /\ \A d \in Candidates \ {c} : activation'[d] = activation[d]
        /\ activation'[c] # None /\ activation'[c].by = pid
        /\ verification[c] = "succeeded"
    BY <1>0, <2>1, <2>2 DEF TypeOK, None, c
  <2>4. UNCHANGED <<code, cand, verification, box, active, use, pid, loaded>>
    BY <1>1 DEF Activate
  <2>5. \A d \in Candidates : Proven(d)'
    BY <1>0, <2>2, <2>3, <2>4 DEF Proven, Staged
  <2>6. LockedFor'
    BY <2>1, <2>3 DEF LockedFor, c
  <2>7. \A d \in Candidates : activation[d] # None => activation'[d] # None
    BY <2>3
  <2> QED
    BY <1>0, <2>4, <2>5, <2>6, <2>7, TreeStays, PointerStays, UseStays DEF Facts
<1>2. CASE ReuseActivation(t)
  <2>1. UNCHANGED <<code, cand, verification, box, activation, active, use, pid, loaded, job>>
    BY <1>2 DEF ReuseActivation
  <2> QED
    BY <1>0, <2>1, ProvenStays, TreeStays, PointerStays, UseStays
    DEF Facts, LockedFor, Proven
<1>3. ASSUME NEW c \in Candidates, activation[c] # None,
             activation' = [activation EXCEPT ![c] = activation'[c]],
             activation'[c] # None, activation'[c].by = activation[c].by,
             UNCHANGED <<code, cand, verification, box, active, use, pid, loaded>>,
             LockedFor'
      PROVE  Facts'
  <2>1. \A d \in Candidates : /\ activation'[d] # None <=> activation[d] # None
                              /\ activation'[d].by = activation[d].by
    BY <1>0, <1>3 DEF TypeOK
  <2>2. \A d \in Candidates : Proven(d)'
    BY <1>0, <1>3, <2>1 DEF Proven, Staged
  <2> QED
    BY <1>0, <1>3, <2>1, <2>2, TreeStays, PointerStays, UseStays DEF Facts
<1>4. ASSUME NEW c \in Candidates, activation[c] # None
      PROVE  /\ activation[c].by = activation[c].by
             /\ \A status \in {"activated", "interrupted", "rolled_back",
                               "rollback_interrupted"} :
                  /\ [activation[c] EXCEPT !.status = status] # None
                  /\ [activation[c] EXCEPT !.status = status].by = activation[c].by
             /\ [activation[c] EXCEPT !.status = "rolling_back", !.undoneBy = pid] # None
             /\ [activation[c] EXCEPT !.status = "rolling_back", !.undoneBy = pid].by
                  = activation[c].by
  <2>1. activation[c] \in Activations
    BY <1>0 DEF TypeOK
  <2> QED
    BY <1>4, <2>1 DEF Activations, None
<1>5. CASE RollBack(t)
  <2>1. PICK i \in DOMAIN ops :
          /\ activation[ops[i].cand] # None
          /\ activation' = [activation EXCEPT ![ops[i].cand] =
               [activation[ops[i].cand] EXCEPT !.status = "rolling_back", !.undoneBy = pid]]
          /\ job' = [kind |-> "rollback", task |-> t, cand |-> ops[i].cand, next |-> 1,
                    seen |-> None]
    BY <1>5 DEF RollBack, MayRollBack
  <2> DEFINE c == ops[i].cand
  <2>2. c \in Candidates
    BY <1>0, RowParts DEF TypeOK
  <2> HIDE DEF c
  <2>3. /\ activation[c] # None /\ activation' = [activation EXCEPT ![c] = activation'[c]]
        /\ activation'[c] = [activation[c] EXCEPT !.status = "rolling_back", !.undoneBy = pid]
    BY <1>0, <2>1, <2>2 DEF TypeOK, c
  <2>4. activation'[c] # None /\ activation'[c].by = activation[c].by
    BY <1>4, <2>2, <2>3
  <2>5. UNCHANGED <<code, cand, verification, box, active, use, pid, loaded>>
    BY <1>5 DEF RollBack
  <2>6. LockedFor'
    BY <2>1, <2>4 DEF LockedFor, c
  <2> QED
    BY <1>3, <2>2, <2>3, <2>4, <2>5, <2>6
<1>6. CASE Refuse(t)
  <2>1. PICK i \in DOMAIN ops : Observe(t, i) /\ job = None
    BY <1>6 DEF Refuse, Approved
  <2>2. UNCHANGED <<code, cand, activation, active, use, pid, loaded, job>>
    BY <1>6 DEF Refuse
  <2> QED
    BY <2>1, <2>2, ObserveFacts
<1>7. ASSUME NEW kind \in {"activate", "rollback"}, Writing(t, kind)
      PROVE  /\ job.cand \in Candidates /\ job # None /\ job.kind = kind
             /\ activation[job.cand] # None /\ Staged(job.cand)
             /\ job.next \in Nat /\ job.next >= 1
             /\ Advance => /\ job' # None /\ job'.kind = kind /\ job'.cand = job.cand
                           /\ job'.next >= 1
  <2>1. job \in Jobs /\ job # None /\ job.kind = kind /\ kind # "verify"
    BY <1>0, <1>7 DEF Writing, TypeOK
  <2>2. job.cand \in Candidates /\ job.next \in Nat
    BY <2>1 DEF Jobs
  <2>3. activation[job.cand] # None /\ Staged(job.cand) /\ job.next >= 1
    BY <1>0, <2>1, <2>2 DEF LockedFor, Proven
  <2> QED
    BY <2>1, <2>2, <2>3, JobAdvances
<1>8. ASSUME Advance \/ job' = None, \E kind \in {"activate", "rollback"} : Writing(t, kind),
             activation'[job.cand] # None
      PROVE  LockedFor'
  BY <1>7, <1>8 DEF LockedFor
<1>9. ASSUME \E kind \in {"activate", "rollback"} : Writing(t, kind), Advance,
             UNCHANGED <<cand, verification, box, activation, active, use, pid, loaded>>,
             Target \in Paths, NEW content,
             content \in Candidates => activation[content] # None,
             code' = [code EXCEPT ![Target] = content]
      PROVE  Facts'
  <2>1. LockedFor'
    BY <1>7, <1>8, <1>9
  <2>2. TreeActivated'
    BY <1>0, <1>9 DEF TreeActivated, TypeOK, Manifests
  <2>3. \A d \in Candidates : Proven(d)'
    BY <1>0, <1>9 DEF Proven, Staged
  <2> QED
    BY <1>0, <1>9, <2>1, <2>2, <2>3, PointerStays, UseStays DEF Facts
<1>10. CASE WriteNew(t)
  <2>1. Writing(t, "activate") /\ Advance /\ code' = [code EXCEPT ![Target] = job.cand]
        /\ UNCHANGED <<cand, verification, box, activation, active, use, pid, loaded>>
    BY <1>10 DEF WriteNew
  <2>2. Target \in Paths
    BY <1>7, <1>10, SelfUpdateAssumption DEF WriteNew, Todo, Target
  <2> QED
    BY <1>7, <1>9, <2>1, <2>2
<1>11. CASE WriteOld(t)
  <2>1. Writing(t, "rollback") /\ Advance
        /\ code' = [code EXCEPT ![Target] = cand[job.cand].before[Target]]
        /\ UNCHANGED <<cand, verification, box, activation, active, use, pid, loaded>>
    BY <1>11 DEF WriteOld
  <2>2. Target \in Paths
    BY <1>7, <1>11, SelfUpdateAssumption DEF WriteOld, Todo, Target
  <2>3. cand[job.cand].before[Target] \in Candidates
          => activation[cand[job.cand].before[Target]] # None
    BY <1>0, <1>7, <2>1, <2>2 DEF Proven
  <2> QED
    BY <1>9, <2>1, <2>2, <2>3
<1>12. CASE Confirm(t)
  <2>1. \E kind \in {"activate", "rollback"} : Writing(t, kind)
    BY <1>12 DEF Confirm
  <2>2. PICK status \in {"activated", "rolled_back"} :
          activation' = [activation EXCEPT ![job.cand] =
            [activation[job.cand] EXCEPT !.status = status]]
    BY <1>12 DEF Confirm
  <2>3. job.cand \in Candidates /\ activation[job.cand] # None
    BY <1>7, <2>1
  <2>4. /\ activation' = [activation EXCEPT ![job.cand] = activation'[job.cand]]
        /\ activation'[job.cand] = [activation[job.cand] EXCEPT !.status = status]
    BY <1>0, <2>2, <2>3 DEF TypeOK
  <2>5. activation'[job.cand] # None /\ activation'[job.cand].by = activation[job.cand].by
    <3>1. /\ [activation[job.cand] EXCEPT !.status = status] # None
          /\ [activation[job.cand] EXCEPT !.status = status].by = activation[job.cand].by
      BY <1>4, <2>3
    <3> QED
      BY <2>4, <3>1
  <2>6. UNCHANGED <<code, cand, verification, box, active, use, pid, loaded>> /\ Advance
    BY <1>12 DEF Confirm
  <2>7. LockedFor'
    BY <1>8, <2>1, <2>5, <2>6
  <2> QED
    BY <1>3, <2>3, <2>4, <2>5, <2>6, <2>7
<1>13. CASE Publish(t)
  <2>1. \E kind \in {"activate", "rollback"} : Writing(t, kind)
    BY <1>13 DEF Publish
  <2>2. job.cand \in Candidates /\ activation[job.cand] # None
    BY <1>7, <2>1
  <2>3. /\ active' = [kind |-> "pointer", cand |-> job.cand, row |-> activation[job.cand]]
        /\ UNCHANGED <<code, cand, verification, box, activation, use, pid, loaded>>
        /\ Advance
    BY <1>13 DEF Publish
  <2>4. PointsBack'
    BY <1>0, <2>2, <2>3 DEF PointsBack, Proven
  <2>5. LockedFor'
    BY <1>8, <2>1, <2>2, <2>3
  <2> QED
    BY <1>0, <2>3, <2>4, <2>5, ProvenStays, TreeStays, UseStays DEF Facts, Proven
<1>15. ASSUME UNCHANGED <<code, cand, verification, box, activation, active, use, pid, loaded>>,
              LockedFor'
       PROVE  Facts'
  BY <1>0, <1>15, ProvenStays, TreeStays, PointerStays, UseStays DEF Facts, Proven
<1>16. CASE SaveResult(t)
  BY <1>15, <1>16 DEF SaveResult, LockedFor
<1>17. CASE LookNew(t) \/ LookOld(t)
  <2>1. /\ \E kind \in {"activate", "rollback"} : Writing(t, kind)
        /\ UNCHANGED <<code, cand, verification, box, activation, active, use, pid, loaded>>
        /\ job' = [job EXCEPT !.seen = code[Target]]
    BY <1>17 DEF LookNew, LookOld, See
  <2>2. /\ job' # None /\ job'.kind = job.kind /\ job'.cand = job.cand /\ job'.next = job.next
    BY <1>0, <1>7, <2>1 DEF TypeOK, Jobs, None
  <2>3. LockedFor'
    BY <1>0, <1>7, <2>1, <2>2 DEF LockedFor
  <2> QED
    BY <1>15, <2>1, <2>3
<1>18. CASE PassOver(t)
  <2>1. /\ \E kind \in {"activate", "rollback"} : Writing(t, kind)
        /\ UNCHANGED <<code, cand, verification, box, activation, active, use, pid, loaded>>
        /\ Advance
    BY <1>18 DEF PassOver
  <2>2. LockedFor'
    BY <1>7, <1>8, <2>1
  <2> QED
    BY <1>15, <2>1, <2>2
<1>14. CASE BreakOff(t)
  <2>1. \E kind \in {"activate", "rollback"} : Writing(t, kind)
    BY <1>14 DEF BreakOff
  <2>2. PICK status \in {"interrupted", "rollback_interrupted"} :
          activation' = [activation EXCEPT ![job.cand] =
            [activation[job.cand] EXCEPT !.status = status]]
    BY <1>14 DEF BreakOff
  <2>3. job.cand \in Candidates /\ activation[job.cand] # None
    BY <1>7, <2>1
  <2>4. /\ activation' = [activation EXCEPT ![job.cand] = activation'[job.cand]]
        /\ activation'[job.cand] = [activation[job.cand] EXCEPT !.status = status]
    BY <1>0, <2>2, <2>3 DEF TypeOK
  <2>5. activation'[job.cand] # None /\ activation'[job.cand].by = activation[job.cand].by
    <3>1. /\ [activation[job.cand] EXCEPT !.status = status] # None
          /\ [activation[job.cand] EXCEPT !.status = status].by = activation[job.cand].by
      BY <1>4, <2>3
    <3> QED
      BY <2>4, <3>1
  <2>6. UNCHANGED <<code, cand, verification, box, active, use, pid, loaded>> /\ job' = None
    BY <1>14 DEF BreakOff
  <2>7. LockedFor'
    BY <2>6 DEF LockedFor
  <2> QED
    BY <1>3, <2>3, <2>4, <2>5, <2>6, <2>7
<1> QED
  BY <1>1, <1>2, <1>5, <1>6, <1>10, <1>11, <1>12, <1>13, <1>14, <1>16, <1>17, <1>18
  DEF UpdateStep

\* Tasks.
LEMMA TaskFacts ==
  ASSUME UpdateInv, NEW t \in Tasks, TaskStep(t)
  PROVE  Facts'
<1> USE DEF diskVars, updateVars, processVars
<1>0. /\ TypeOK /\ LockedFor /\ PointsBack /\ TreeActivated /\ pid \in Nat
      /\ \A d \in Candidates : Proven(d)
  BY SelfUpdateAssumption DEF UpdateInv, TypeOK
<1>1. ASSUME UNCHANGED <<code, cand, verification, box, activation, active, use, pid, loaded>>,
             job' = job \/ job' = None
      PROVE  Facts'
  <2>1. LockedFor'
    BY <1>0, <1>1 DEF LockedFor
  <2> QED
    BY <1>0, <1>1, <2>1, ProvenStays, TreeStays, PointerStays, UseStays DEF Facts, Proven
<1>2. CASE StartTask(t) \/ RecoverRefused(t) \/ NothingToRestart(t)
  BY <1>1, <1>2 DEF StartTask, RecoverRefused, NothingToRestart
<1>3. CASE RestartDone(t) \/ HandOver(t) \/ RestartRefused(t) \/ LeaveTask(t)
  BY <1>1, <1>3 DEF RestartDone, HandOver, EndProcess, RestartRefused, LeaveTask
<1>4. CASE RecoverRows(t)
  <2>1. UNCHANGED <<code, cand, activation, active, use, pid, loaded, job>> /\ job = None
    BY <1>4 DEF RecoverRows
  <2>2. \A d \in Candidates : verification'[d] \in Reconciled(d) \cup {verification[d]}
    BY <1>4 DEF RecoverRows
  <2>3. \A d \in Candidates : /\ verification[d] = "succeeded" <=> verification'[d] = "succeeded"
                              /\ verification[d] = "none" <=> verification'[d] = "none"
    BY <2>2, ReconcileFacts
  <2>4. \A d \in Candidates : box[d] = "passed" => box'[d] = "passed"
    BY <1>4 DEF RecoverRows
  <2>5. \A d \in Candidates : Proven(d)'
    BY <1>0, <2>1, <2>3, <2>4 DEF Proven, Staged
  <2> QED
    BY <1>0, <2>1, <2>5, TreeStays, PointerStays, UseStays DEF Facts, LockedFor
<1>5. CASE EndUse(t)
  <2>1. /\ UNCHANGED <<code, cand, verification, box, activation, active, pid, loaded, job>>
    BY <1>5 DEF EndUse
  <2>2. CASE use' = use
    BY <1>1, <2>1, <2>2
  <2>3. ASSUME NEW u \in Uses, NEW known \in BOOLEAN,
               use[u].status = "started" /\ use[u].pid = pid,
               use' = [use EXCEPT ![u].status = "recorded",
                 ![u].observed = /\ known /\ loaded = code
                                 /\ Binding # None /\ Binding = use[u].under
                                 /\ Actor(Binding) # pid
                                 /\ Binding.row.status = "activated"
                                 /\ loaded = Expected(Binding)]
        PROVE  Facts'
    <3> DEFINE seen == /\ known /\ loaded = code
                       /\ Binding # None /\ Binding = use[u].under
                       /\ Actor(Binding) # pid
                       /\ Binding.row.status = "activated"
                       /\ loaded = Expected(Binding)
    <3>1. use[u] \in Records /\ UseKnown(u)
      BY <1>0 DEF TypeOK, UpdateInv
    <3>2. use' = [use EXCEPT ![u] = [use[u] EXCEPT !.status = "recorded", !.observed = seen]]
      BY <2>3
    <3>3. seen => /\ use[u].under # None /\ use[u].under.row # None
                  /\ activation[use[u].under.cand] # None
                  /\ loaded = cand[use[u].under.cand].after
                  /\ pid > use[u].under.row.by
      <4> SUFFICES ASSUME seen
                   PROVE  /\ use[u].under # None /\ use[u].under.row # None
                          /\ activation[use[u].under.cand] # None
                          /\ loaded = cand[use[u].under.cand].after
                          /\ pid > use[u].under.row.by
        OBVIOUS
      <4>1. use[u].under = active /\ active # None
        BY DEF Binding
      <4>2. active.row # None /\ active.row \in Activations /\ active.row.by <= pid
            /\ activation[active.cand] # None
        BY <1>0, <4>1 DEF PointsBack, TypeOK, Pointers
      <4>3. active.row.by \in Nat /\ active.row.status = "activated"
        BY <4>1, <4>2 DEF Activations
      <4>4. Actor(active) = active.row.by /\ Expected(active) = cand[active.cand].after
        BY <4>3 DEF Actor, Expected
      <4>5. Actor(active) # pid /\ loaded = Expected(active)
        BY <4>1
      <4> QED
        BY <1>0, <4>1, <4>2, <4>3, <4>4, <4>5
    <3> HIDE DEF seen
    <3>4. use'[u] = [use[u] EXCEPT !.status = "recorded", !.observed = seen]
      BY <1>0, <3>2 DEF TypeOK
    <3>5. /\ use'[u].status = "recorded" /\ use'[u].observed = seen
          /\ use'[u].pid = use[u].pid /\ use'[u].ran = use[u].ran /\ use'[u].under = use[u].under
      BY <3>1, <3>4 DEF Records
    <3>6. UseKnown(u)'
      BY <2>1, <2>3, <3>1, <3>3, <3>5 DEF UseKnown
    <3>7. ASSUME NEW v \in Uses, v # u PROVE UseKnown(v)'
      <4>1. UseKnown(v) /\ use'[v] = use[v]
        BY <1>0, <3>2, <3>7 DEF TypeOK, UpdateInv
      <4> QED
        BY <2>1, <4>1 DEF UseKnown
    <3> QED
      BY <1>0, <2>1, <3>6, <3>7, ProvenStays, TreeStays, PointerStays
      DEF Facts, LockedFor, Proven
  <2> QED
    BY <1>5, <2>2, <2>3 DEF EndUse
<1>6. CASE Withdraw(t)
  <2>1. CASE job = None
    <3>1. PICK i \in DOMAIN ops : Observe(t, i)
      BY <1>6, <2>1 DEF Withdraw
    <3> QED
      BY <1>6, <2>1, <3>1, ObserveFacts DEF Withdraw
  <2>2. CASE job # None
    BY <1>1, <1>6, <2>2 DEF Withdraw
  <2> QED
    BY <2>1, <2>2
<1> QED
  BY <1>2, <1>3, <1>4, <1>5, <1>6 DEF TaskStep

\* Uses of the harness, processes, and other programs.
LEMMA OtherFacts ==
  ASSUME UpdateInv,
         \/ \E t \in Tasks, u \in Uses : BeginUse(t, u)
         \/ \E c \in Candidates : BoxEnds(c)
         \/ \E p \in Paths : Edit(p)
         \/ Crash \/ Boot \/ Enroll
  PROVE  Facts'
<1> USE DEF diskVars, updateVars, processVars
<1>0. /\ TypeOK /\ LockedFor /\ PointsBack /\ TreeActivated /\ pid \in Nat
      /\ \A d \in Candidates : Proven(d)
  BY SelfUpdateAssumption DEF UpdateInv, TypeOK
<1>1. ASSUME NEW t \in Tasks, NEW u \in Uses, BeginUse(t, u) PROVE Facts'
  <2>1. /\ UNCHANGED <<code, cand, verification, box, activation, active, pid, loaded, job>>
        /\ use' = [use EXCEPT ![u] = [status |-> "started", task |-> t, pid |-> pid,
                                      ran |-> loaded, under |-> Binding, observed |-> FALSE]]
    BY <1>1 DEF BeginUse
  <2>2. UseKnown(u)'
    BY <1>0, <2>1 DEF UseKnown, TypeOK
  <2>3. ASSUME NEW v \in Uses, v # u PROVE UseKnown(v)'
    <3>1. UseKnown(v) /\ use'[v] = use[v]
      BY <1>0, <2>1, <2>3 DEF TypeOK, UpdateInv
    <3> QED
      BY <2>1, <3>1 DEF UseKnown
  <2> QED
    BY <1>0, <2>1, <2>2, <2>3, ProvenStays, TreeStays, PointerStays
    DEF Facts, LockedFor, Proven
<1>2. ASSUME NEW c \in Candidates, BoxEnds(c) PROVE Facts'
  <2>1. /\ UNCHANGED <<code, cand, verification, activation, active, use, pid, loaded, job>>
        /\ \A d \in Candidates : box[d] = "passed" => box'[d] = "passed"
    BY <1>0, <1>2 DEF BoxEnds, TypeOK
  <2>2. \A d \in Candidates : Proven(d)'
    BY <1>0, <2>1 DEF Proven, Staged
  <2> QED
    BY <1>0, <2>1, <2>2, TreeStays, PointerStays, UseStays DEF Facts, LockedFor
<1>3. ASSUME UNCHANGED <<cand, verification, box, activation, active, use, pid, loaded>>,
             job' = job \/ job' = None,
             \A p \in Paths : code'[p] = code[p] \/ code'[p] = Foreign
      PROVE  Facts'
  <2>1. TreeActivated'
    BY <1>0, <1>3, SelfUpdateAssumption DEF TreeActivated
  <2>2. LockedFor'
    BY <1>0, <1>3 DEF LockedFor
  <2> QED
    BY <1>0, <1>3, <2>1, <2>2, ProvenStays, PointerStays, UseStays DEF Facts, Proven
<1>4. ASSUME NEW p \in Paths, Edit(p) PROVE Facts'
  <2>1. \A q \in Paths : code'[q] = code[q] \/ code'[q] = Foreign
    BY <1>0, <1>4 DEF Edit, TypeOK, Manifests, Files
  <2> QED
    BY <1>3, <1>4, <2>1 DEF Edit
<1>5. CASE Crash
  <2>1. \A q \in Paths : code'[q] = code[q]
    BY <1>0, <1>5, SelfUpdateAssumption DEF Crash, TypeOK, Manifests, Files
  <2> QED
    BY <1>3, <1>5, <2>1 DEF Crash, EndProcess
<1>6. CASE Enroll
  BY <1>3, <1>6 DEF Enroll
<1>7. CASE Boot
  <2>1. /\ UNCHANGED <<code, cand, verification, box, activation, active, use, job>>
        /\ pid' = pid + 1
    BY <1>7 DEF Boot
  <2>2. \A d \in Candidates : Proven(d)'
    <3>1. ASSUME NEW d \in Candidates, activation[d] # None PROVE activation[d].by \in Nat
      BY <1>0, <3>1 DEF TypeOK, Activations
    <3> QED
      BY <1>0, <2>1, <3>1 DEF Proven, Staged
  <2>3. \A u \in Uses : UseKnown(u)'
    <3> SUFFICES ASSUME NEW u \in Uses PROVE UseKnown(u)'
      OBVIOUS
    <3>1. UseKnown(u) /\ use[u].pid \in Nat
      BY <1>0 DEF TypeOK, UpdateInv, Records
    <3> QED
      BY <1>0, <2>1, <3>1 DEF UseKnown
  <2> QED
    BY <1>0, <2>1, <2>2, <2>3, TreeStays, PointerStays DEF Facts, LockedFor
<1> QED
  BY <1>1, <1>2, <1>4, <1>5, <1>6, <1>7

\* What was seen at the file that is replaced next is one of the two images: no other
\* handler runs, and no candidate changes, between the look and the replacement.
LEMMA LookedStays ==
  ASSUME UpdateInv, Next
  PROVE  LookedAt'
<1> USE DEF diskVars, updateVars, processVars
<1>0. TypeOK /\ LockedFor /\ LookedAt /\ \A c \in Candidates : Proven(c)
  BY DEF UpdateInv
<1>1. ASSUME UNCHANGED <<job, cand>> PROVE LookedAt'
  BY <1>0, <1>1 DEF LookedAt, Todo, Target
<1>2. ASSUME job' = None \/ (job' # None /\ (job'.kind = "verify" \/ job'.seen = None))
      PROVE  LookedAt'
  BY <1>2 DEF LookedAt
<1>3. ASSUME NEW t \in Tasks, TaskStep(t) PROVE LookedAt'
  <2>1. UNCHANGED <<job, cand>> \/ job' = None
    BY <1>3 DEF TaskStep, StartTask, RecoverRows, RecoverRefused, NothingToRestart,
       RestartDone, HandOver, EndProcess, RestartRefused, LeaveTask, EndUse, Withdraw
  <2> QED
    BY <1>1, <1>2, <2>1
<1>4. ASSUME NEW t \in Tasks, UpdateStep(t) PROVE LookedAt'
  <2>1. CASE \/ WriteNew(t) \/ PassOver(t) \/ WriteOld(t) \/ Confirm(t) \/ Publish(t)
    <3>1. job \in Jobs /\ job # None /\ job.kind # "verify" /\ Advance
      BY <1>0, <2>1 DEF TypeOK, WriteNew, PassOver, WriteOld, Confirm, Publish, Writing
    <3>2. job'.seen = None
      BY <3>1 DEF Advance, Jobs
    <3> QED
      BY <1>2, <3>2
  <2>2. CASE LookNew(t) \/ LookOld(t)
    <3>1. /\ job \in Jobs /\ job # None /\ job.kind # "verify" /\ See /\ Todo
          /\ code[Target] \in {cand[job.cand].before[Target], job.cand} /\ UNCHANGED cand
      BY <1>0, <2>2 DEF TypeOK, LookNew, LookOld, Writing
    <3>2. /\ job'.seen = code[Target] /\ job'.next = job.next /\ job'.cand = job.cand
      BY <3>1 DEF See, Jobs
    <3> QED
      BY <3>1, <3>2 DEF LookedAt, Todo, Target
  <2>3. CASE Activate(t) \/ RollBack(t)
    <3>1. \E kind \in {"activate", "rollback"}, c \in Candidates :
            job' = [kind |-> kind, task |-> t, cand |-> c, next |-> 1, seen |-> None]
      <4>1. CASE Activate(t)
        <5>1. PICK i \in DOMAIN ops :
                job' = [kind |-> "activate", task |-> t, cand |-> ops[i].cand, next |-> 1,
                        seen |-> None]
          BY <4>1 DEF Activate
        <5> QED
          BY <1>0, <5>1, RowParts DEF TypeOK
      <4>2. CASE RollBack(t)
        <5>1. PICK i \in DOMAIN ops :
                job' = [kind |-> "rollback", task |-> t, cand |-> ops[i].cand, next |-> 1,
                        seen |-> None]
          BY <4>2 DEF RollBack
        <5> QED
          BY <1>0, <5>1, RowParts DEF TypeOK
      <4> QED
        BY <2>3, <4>1, <4>2
    <3>2. job'.seen = None
      BY <3>1
    <3> QED
      BY <1>2, <3>2
  <2>4. CASE ReuseActivation(t) \/ Refuse(t) \/ SaveResult(t) \/ BreakOff(t)
    BY <1>1, <1>2, <2>4 DEF ReuseActivation, Refuse, SaveResult, BreakOff
  <2> QED
    BY <1>4, <2>1, <2>2, <2>3, <2>4 DEF UpdateStep
<1>5. ASSUME NEW t \in Tasks, NEW c \in Candidates, CandidateStep(t, c) PROVE LookedAt'
  <2>1. CASE Propose(t, c)
    BY <1>2, <2>1 DEF Propose
  <2>2. CASE BeginVerify(t, c)
    <3>1. job'.kind = "verify"
      BY <2>2 DEF BeginVerify
    <3> QED
      BY <1>2, <3>1
  <2>3. CASE VerifyPasses(t, c) \/ VerifyFails(t, c)
    BY <1>2, <2>3 DEF VerifyPasses, VerifyFails, Conclude
  <2>4. ASSUME NEW kind \in {"apply", "rollback"}, Request(t, kind, c) PROVE LookedAt'
    BY <1>1, <2>4 DEF Request
  <2> QED
    BY <1>5, <2>1, <2>2, <2>3, <2>4 DEF CandidateStep
<1>6. ASSUME \/ \E t \in Tasks, u \in Uses : BeginUse(t, u)
             \/ \E c \in Candidates : BoxEnds(c)
             \/ \E p \in Paths : Edit(p)
             \/ Crash \/ Boot \/ Enroll
      PROVE  LookedAt'
  BY <1>1, <1>2, <1>6 DEF BeginUse, BoxEnds, Edit, Crash, EndProcess, Boot, Enroll
<1> QED
  BY <1>3, <1>4, <1>5, <1>6 DEF Next

-------------------------------------------------------------------------------
\* The invariant holds: what is verified was staged, what is activated has
\* passed, the tree holds what was activated, and uses know what they ran.
THEOREM UpdateInvariant == Spec => []UpdateInv
<1>1. Init => UpdateInv
  BY TypeInit, FactsInit DEF UpdateInv, Facts, LookedAt, Init
<1>2. UpdateInv /\ [Next]_vars => UpdateInv'
  <2> SUFFICES ASSUME UpdateInv, [Next]_vars PROVE UpdateInv'
    OBVIOUS
  <2>0. TypeOK /\ LockedFor /\ \A c \in Candidates : Proven(c)
    BY DEF UpdateInv
  <2>1. CASE UNCHANGED vars
    BY <2>1 DEF UpdateInv, TypeOK, Proven, Staged, TreeActivated, LockedFor, PointsBack,
       LookedAt, Todo, Target, UseKnown, vars, diskVars, updateVars, processVars
  <2>2. ASSUME NEW t \in Tasks, TaskStep(t) PROVE UpdateInv'
    BY <2>0, <2>2, TaskTypes, TaskFacts, LookedStays
    DEF UpdateInv, Facts, Next
  <2>3. ASSUME NEW t \in Tasks, UpdateStep(t) PROVE UpdateInv'
    BY <2>0, <2>3, UpdateTypes, UpdateFacts, LookedStays
    DEF UpdateInv, Facts, Next
  <2>4. ASSUME NEW t \in Tasks, NEW c \in Candidates, CandidateStep(t, c) PROVE UpdateInv'
    BY <2>0, <2>4, CandidateTypes, CandidateFacts, LookedStays
    DEF UpdateInv, Facts, Next
  <2>5. CASE \/ \E t \in Tasks, u \in Uses : BeginUse(t, u)
             \/ \E c \in Candidates : BoxEnds(c)
             \/ \E p \in Paths : Edit(p)
             \/ Crash \/ Boot \/ Enroll
    BY <2>0, <2>5, OtherTypes, OtherFacts, LookedStays
    DEF UpdateInv, Facts, Next
  <2> QED
    BY <2>1, <2>2, <2>3, <2>4, <2>5 DEF Next
<1> QED
  BY <1>1, <1>2, PTL DEF Spec

\* The bytes of a candidate reach the controller's tree only after its own
\* container exited cleanly (updates.py: verify, activate, rollback).
THEOREM OnlyPassedIsInstalled == Spec => []PassedBeforeInstalled
<1>1. UpdateInv => PassedBeforeInstalled
  BY DEF UpdateInv, TreeActivated, Proven, PassedBeforeInstalled
<1> QED
  BY <1>1, UpdateInvariant, PTL

\* A use counts as observed only of an update that passed its tests, was
\* installed by an earlier process and is what ran (updates.py:
\* before_execution, after_actual_result).
THEOREM ObservedUsesAreReal == Spec => []ObservedIsReal
<1>1. UpdateInv => ObservedIsReal
  <2> SUFFICES ASSUME UpdateInv, NEW u \in Uses, use[u].observed
               PROVE  /\ use[u].ran = cand[use[u].under.cand].after
                      /\ box[use[u].under.cand] = "passed"
                      /\ use[u].pid > use[u].under.row.by
    BY DEF ObservedIsReal
  <2>1. UseKnown(u) /\ use[u] \in Records
    BY DEF UpdateInv, TypeOK
  <2>2. use[u].under # None /\ activation[use[u].under.cand] # None
    BY <2>1 DEF UseKnown
  <2>3. use[u].under.cand \in Candidates
    BY <2>1, <2>2 DEF Records, Pointers
  <2> QED
    BY <2>1, <2>2, <2>3 DEF UpdateInv, UseKnown, Proven
<1> QED
  BY <1>1, UpdateInvariant, PTL

\* A file of another program is replaced only if it is the very preimage of the
\* candidate, or if the edit came after the harness had looked at the file
\* (updates.py: _apply_files, rollback, _write).
THEOREM ForeignFilesStay == Spec => ForeignKept
<1> DEFINE Lost(p) == /\ job # None
                      /\ \/ cand[job.cand].before[p] = Foreign
                         \/ p = Target /\ job.seen \in {cand[job.cand].before[p], job.cand}
<1>1. UpdateInv /\ [Next]_vars =>
        [\A p \in Paths : code[p] = Foreign /\ code'[p] # Foreign => Lost(p)]_vars
  <2> SUFFICES ASSUME UpdateInv, Next, NEW p \in Paths, code[p] = Foreign, code'[p] # Foreign
               PROVE  Lost(p)
    OBVIOUS
  <2>1. code \in [Files -> Contents] /\ Paths \subseteq Files
    BY DEF UpdateInv, TypeOK, Manifests, Files
  <2>2. ASSUME NEW t \in Tasks, WriteNew(t) \/ WriteOld(t)
        PROVE  Lost(p)
    <3>1. /\ job # None /\ job.kind # "verify" /\ job.seen # None
          /\ \E content : code' = [code EXCEPT ![Target] = content]
      BY <2>2 DEF WriteNew, WriteOld, Writing
    <3>2. p = Target
      BY <2>1, <3>1
    <3> QED
      BY <3>1, <3>2 DEF UpdateInv, LookedAt
  <2>4. ASSUME NEW q \in Paths, Edit(q) PROVE FALSE
    BY <2>1, <2>4 DEF Edit
  <2>5. CASE Crash
    BY <2>1, <2>5, SelfUpdateAssumption DEF Crash
  <2>6. CASE Boot \/ Enroll \/ \E c \in Candidates : BoxEnds(c)
    BY <2>6 DEF Boot, Enroll, BoxEnds, diskVars
  <2>7. ASSUME NEW t \in Tasks, NEW c \in Candidates, CandidateStep(t, c)
        PROVE  FALSE
    BY <2>7 DEF CandidateStep, Propose, BeginVerify, VerifyPasses, VerifyFails, Conclude,
       Request, diskVars
  <2>8. ASSUME NEW t \in Tasks, TaskStep(t)
        PROVE  FALSE
    BY <2>8 DEF TaskStep, StartTask, RecoverRows, RecoverRefused, NothingToRestart,
       RestartDone, HandOver, RestartRefused, LeaveTask, EndUse, Withdraw, diskVars
  <2>9. ASSUME NEW t \in Tasks, UpdateStep(t), ~WriteNew(t), ~WriteOld(t)
        PROVE  FALSE
    BY <2>9 DEF UpdateStep, Activate, ReuseActivation, RollBack, Refuse, LookNew, LookOld,
       PassOver, Confirm, Publish, SaveResult, BreakOff, diskVars
  <2>10. ASSUME NEW t \in Tasks, NEW u \in Uses, BeginUse(t, u)
         PROVE  FALSE
    BY <2>10 DEF BeginUse, diskVars
  <2> QED
    BY <2>2, <2>4, <2>5, <2>6, <2>7, <2>8, <2>9, <2>10 DEF Next
<1> QED
  BY <1>1, UpdateInvariant, PTL DEF Spec, ForeignKept

-------------------------------------------------------------------------------
(***************************************************************************)
(* What Kept keeps: every row that matters, in order.  Then what a step    *)
(* does to the rows of unfinished updates and to the newest row of a task. *)
(***************************************************************************)
\* A row of T with no row of T after it.
LastOf(rows, T, i) ==
  /\ i \in DOMAIN rows /\ rows[i] \in T
  /\ \A j \in DOMAIN rows : rows[j] \in T => j <= i

\* No row that matters is lost.
LEMMA KeptHits ==
  ASSUME NEW S, NEW rows \in Seq(S), NEW i \in DOMAIN rows, Matters(rows[i])
  PROVE  \E j \in DOMAIN Kept(rows) : Kept(rows)[j] = rows[i]
<1>1. PICK kept :
        /\ Kept(rows) = kept[Len(rows)]
        /\ \A n \in 0..Len(rows) :
             kept[n] = IF n = 0 THEN <<>>
                       ELSE IF Matters(rows[n]) THEN Append(kept[n - 1], rows[n])
                                                ELSE kept[n - 1]
  BY KeptIsDefined
<1> DEFINE Good(n) == /\ kept[n] \in Seq(S)
                      /\ i <= n => \E j \in DOMAIN kept[n] : kept[n][j] = rows[i]
           Wrong == {n \in 0..Len(rows) : ~Good(n)}
<1>2. Wrong = {}
  <2> SUFFICES ASSUME Wrong # {} PROVE FALSE
    OBVIOUS
  <2>1. PICK m \in Wrong : \A k \in Wrong : ~(k < m)
    <3>1. Wrong \subseteq Nat
      OBVIOUS
    <3> HIDE DEF Wrong
    <3> QED
      BY <3>1, LeastNumber
  <2>2. m \in 0..Len(rows) /\ i \in 1..Len(rows)
    OBVIOUS
  <2>3. CASE m = 0
    <3>1. kept[m] = <<>>
      BY <1>1, <2>2, <2>3
    <3>2. Good(m)
      BY <2>2, <2>3, <3>1
    <3> QED
      BY <2>1, <3>2
  <2>4. CASE m # 0
    <3>1. m - 1 \in 0..Len(rows) /\ m - 1 < m /\ m \in 1..Len(rows)
      BY <2>2, <2>4
    <3>2. Good(m - 1)
      BY <2>1, <3>1
    <3>3. kept[m] = IF Matters(rows[m]) THEN Append(kept[m - 1], rows[m]) ELSE kept[m - 1]
      BY <1>1, <2>2, <2>4
    <3>4. rows[m] \in S
      BY <3>1
    <3>5. CASE ~Matters(rows[m])
      <4>1. i # m /\ kept[m] = kept[m - 1]
        BY <3>3, <3>5
      <4>2. Good(m)
        BY <2>2, <3>1, <3>2, <4>1
      <4> QED
        BY <2>1, <4>2
    <3>6. CASE Matters(rows[m])
      <4> DEFINE short == kept[m - 1]
      <4>1. short \in Seq(S) /\ (i <= m - 1 => \E j \in DOMAIN short : short[j] = rows[i])
        BY <3>2
      <4>2. kept[m] = Append(short, rows[m])
        BY <3>3, <3>6
      <4> HIDE DEF short
      <4>3. /\ kept[m] \in Seq(S)
            /\ \A j \in DOMAIN short : j \in DOMAIN kept[m] /\ kept[m][j] = short[j]
            /\ Len(short) + 1 \in DOMAIN kept[m] /\ kept[m][Len(short) + 1] = rows[m]
        BY <3>4, <4>1, <4>2
      <4>4. Good(m)
        <5>1. i <= m => i <= m - 1 \/ i = m
          BY <2>2, <3>1
        <5> QED
          BY <4>1, <4>3, <5>1
      <4> QED
        BY <2>1, <4>4
    <3> QED
      BY <3>5, <3>6
  <2> QED
    BY <2>3, <2>4
<1>3. Len(rows) \in 0..Len(rows) /\ i <= Len(rows)
  OBVIOUS
<1>4. Good(Len(rows))
  BY <1>2, <1>3
<1> QED
  BY <1>1, <1>3, <1>4

\* If all rows of T matter, the last one of those kept was the last one before.
LEMMA KeptLast ==
  ASSUME NEW S, NEW rows \in Seq(S), NEW T,
         \A i \in DOMAIN rows : rows[i] \in T => Matters(rows[i]),
         NEW k, LastOf(Kept(rows), T, k)
  PROVE  \E i \in DOMAIN rows : LastOf(rows, T, i) /\ rows[i] = Kept(rows)[k]
<1>1. PICK kept :
        /\ Kept(rows) = kept[Len(rows)]
        /\ \A n \in 0..Len(rows) :
             kept[n] = IF n = 0 THEN <<>>
                       ELSE IF Matters(rows[n]) THEN Append(kept[n - 1], rows[n])
                                                ELSE kept[n - 1]
  BY KeptIsDefined
<1> DEFINE LastUpTo(n, i) == /\ i \in 1..n /\ rows[i] \in T
                             /\ \A j \in 1..n : rows[j] \in T => j <= i
           Good(n) == /\ kept[n] \in Seq(S)
                      /\ \A q : LastOf(kept[n], T, q) =>
                           \E i \in 1..n : LastUpTo(n, i) /\ rows[i] = kept[n][q]
           Wrong == {n \in 0..Len(rows) : ~Good(n)}
<1>2. Wrong = {}
  <2> SUFFICES ASSUME Wrong # {} PROVE FALSE
    OBVIOUS
  <2>1. PICK m \in Wrong : \A j \in Wrong : ~(j < m)
    <3>1. Wrong \subseteq Nat
      OBVIOUS
    <3> HIDE DEF Wrong
    <3> QED
      BY <3>1, LeastNumber
  <2>2. m \in 0..Len(rows)
    OBVIOUS
  <2>3. CASE m = 0
    <3>1. kept[m] = <<>>
      BY <1>1, <2>2, <2>3
    <3>2. Good(m)
      BY <3>1 DEF LastOf
    <3> QED
      BY <2>1, <3>2
  <2>4. CASE m # 0
    <3>1. m - 1 \in 0..Len(rows) /\ m - 1 < m /\ m \in 1..Len(rows)
      BY <2>2, <2>4
    <3>2. Good(m - 1)
      BY <2>1, <3>1
    <3>3. kept[m] = IF Matters(rows[m]) THEN Append(kept[m - 1], rows[m]) ELSE kept[m - 1]
      BY <1>1, <2>2, <2>4
    <3>4. rows[m] \in S
      BY <3>1
    <3> DEFINE short == kept[m - 1]
    <3>5. /\ short \in Seq(S)
          /\ \A q : LastOf(short, T, q) =>
               \E i \in 1..m - 1 : LastUpTo(m - 1, i) /\ rows[i] = short[q]
      BY <3>2
    <3>6. CASE ~Matters(rows[m])
      <4>1. kept[m] = short
        BY <3>3, <3>6
      <4>2. rows[m] \notin T
        BY <3>1, <3>6
      <4> HIDE DEF short
      <4>3. \A i \in 1..m - 1 : LastUpTo(m - 1, i) => LastUpTo(m, i) /\ i \in 1..m
        BY <3>1, <4>2
      <4> HIDE DEF LastUpTo
      <4>4. Good(m)
        BY <3>5, <4>1, <4>3
      <4> QED
        BY <2>1, <4>4
    <3>7. CASE Matters(rows[m])
      <4>1. kept[m] = Append(short, rows[m])
        BY <3>3, <3>7
      <4> HIDE DEF short
      <4>2. /\ kept[m] \in Seq(S) /\ Len(kept[m]) = Len(short) + 1 /\ Len(short) \in Nat
            /\ \A j \in 1..Len(short) : kept[m][j] = short[j]
            /\ kept[m][Len(short) + 1] = rows[m]
            /\ DOMAIN kept[m] = 1..Len(short) + 1 /\ DOMAIN short = 1..Len(short)
        BY <3>4, <3>5, <4>1
      <4>3. ASSUME NEW q, LastOf(kept[m], T, q)
            PROVE  \E i \in 1..m : LastUpTo(m, i) /\ rows[i] = kept[m][q]
        <5>1. q \in 1..Len(short) + 1
          BY <4>2, <4>3 DEF LastOf
        <5>2. CASE q = Len(short) + 1
          <6>1. rows[m] = kept[m][q] /\ rows[m] \in T
            BY <4>2, <4>3, <5>2 DEF LastOf
          <6> QED
            BY <3>1, <6>1
        <5>3. CASE q # Len(short) + 1
          <6>1. q \in 1..Len(short) /\ rows[m] \notin T
            BY <4>2, <4>3, <5>1, <5>3 DEF LastOf
          <6>2. LastOf(short, T, q)
            <7>1. kept[m][q] \in T /\ \A j \in DOMAIN kept[m] : kept[m][j] \in T => j <= q
              BY <4>3 DEF LastOf
            <7>2. short[q] \in T /\ q \in DOMAIN short
              BY <4>2, <6>1, <7>1
            <7>3. ASSUME NEW j \in DOMAIN short, short[j] \in T PROVE j <= q
              BY <4>2, <7>1, <7>3
            <7> QED
              BY <7>2, <7>3 DEF LastOf
          <6>3. PICK i \in 1..m - 1 : LastUpTo(m - 1, i) /\ rows[i] = short[q]
            BY <3>5, <6>2
          <6>4. i \in 1..m /\ LastUpTo(m, i) /\ rows[i] = kept[m][q]
            BY <3>1, <4>2, <6>1, <6>3
          <6> QED
            BY <6>4
        <5> QED
          BY <5>2, <5>3
      <4>4. Good(m)
        BY <4>2, <4>3
      <4> QED
        BY <2>1, <4>4
    <3> QED
      BY <3>6, <3>7
  <2> QED
    BY <2>3, <2>4
<1>3. Len(rows) \in 0..Len(rows) /\ DOMAIN rows = 1..Len(rows)
  OBVIOUS
<1>4. Good(Len(rows))
  BY <1>2, <1>3
<1>5. PICK i \in 1..Len(rows) : LastUpTo(Len(rows), i) /\ rows[i] = Kept(rows)[k]
  BY <1>1, <1>4
<1> QED
  BY <1>3, <1>5 DEF LastOf

\* Rows of a task; the rows of an unfinished update stay; so does the newest of a task.
RowsOf(t) == {row \in AnyRows : row.task = t}
SameUpdate(row, other) ==
  row.kind = other.kind /\ row.task = other.task /\ row.cand = other.cand
TargetsKept ==
  \A i \in RecoveryTargets : \E j \in DOMAIN ops' :
    SameUpdate(ops'[j], ops[i]) /\ ops'[j].result # "succeeded"
LatestKept(t) ==
  \A i \in DOMAIN ops' : IsLatest(t, i)' =>
    \E j \in DOMAIN ops : IsLatest(t, j) /\ ops[j] = ops'[i]

\* The newest row of a task is the last one of its rows.
LEMMA LatestIsLast ==
  ASSUME ops \in Seq(Rows), NEW t, NEW i
  PROVE  IsLatest(t, i) <=> LastOf(ops, RowsOf(t), i)
<1>1. \A j \in DOMAIN ops : ops[j] \in AnyRows
  <2>1. \A j \in DOMAIN ops : ops[j] \in Rows
    OBVIOUS
  <2>2. Rows \subseteq AnyRows
    BY DEF Rows, AnyRows
  <2> QED
    BY <2>1, <2>2
<1> QED
  BY <1>1 DEF IsLatest, LastOf, RowsOf

\* Results are given to rows, and those that failed dropped.
LEMMA ChangedRows ==
  ASSUME ops \in Seq(Rows), NEW rows \in Seq(AnyRows), Len(rows) = Len(ops),
         \A i \in DOMAIN ops : SameUpdate(rows[i], ops[i]),
         \A i \in RecoveryTargets : rows[i].result \in {"none", "unknown"},
         ops' = rows \/ ops' = Kept(rows)
  PROVE  TargetsKept
<1> SUFFICES ASSUME NEW i \in RecoveryTargets
             PROVE  \E j \in DOMAIN ops' : SameUpdate(ops'[j], ops[i])
                                           /\ ops'[j].result # "succeeded"
  BY DEF TargetsKept
<1>1. i \in DOMAIN ops /\ i \in DOMAIN rows /\ ops[i].kind # "verify"
  BY DEF RecoveryTargets, IsTarget
<1>2. Matters(rows[i]) /\ SameUpdate(rows[i], ops[i]) /\ rows[i].result # "succeeded"
  BY <1>1 DEF Matters, SameUpdate
<1>3. \E j \in DOMAIN ops' : ops'[j] = rows[i]
  <2>1. \E j \in DOMAIN Kept(rows) : Kept(rows)[j] = rows[i]
    BY <1>1, <1>2, KeptHits
  <2> QED
    BY <1>1, <2>1
<1> QED
  BY <1>2, <1>3

\* A task none of whose rows changes keeps its newest row.
LEMMA ChangedLatest ==
  ASSUME ops \in Seq(Rows), ops' \in Seq(Rows), RowsMatter,
         NEW rows \in Seq(AnyRows), Len(rows) = Len(ops),
         NEW t, \A i \in DOMAIN ops : /\ rows[i].task = ops[i].task
                                      /\ ops[i].task = t => rows[i] = ops[i],
         ops' = rows \/ ops' = Kept(rows)
  PROVE  LatestKept(t)
<1> SUFFICES ASSUME NEW k \in DOMAIN ops', IsLatest(t, k)'
             PROVE  \E j \in DOMAIN ops : IsLatest(t, j) /\ ops[j] = ops'[k]
  BY DEF LatestKept
<1>1. LastOf(ops', RowsOf(t), k)
  <2>1. \A j \in DOMAIN ops' : ops'[j] \in AnyRows
    <3>1. \A j \in DOMAIN ops' : ops'[j] \in Rows
      OBVIOUS
    <3>2. Rows \subseteq AnyRows
      BY DEF Rows, AnyRows
    <3> QED
      BY <3>1, <3>2
  <2> QED
    BY <2>1 DEF IsLatest, LastOf, RowsOf
<1>2. DOMAIN rows = DOMAIN ops /\ \A i \in DOMAIN rows : rows[i] \in AnyRows
  OBVIOUS
<1>3. \A i \in DOMAIN rows : rows[i] \in RowsOf(t) => Matters(rows[i])
  BY <1>2 DEF RowsOf, RowsMatter
<1>4. PICK i \in DOMAIN rows : LastOf(rows, RowsOf(t), i) /\ rows[i] = ops'[k]
  <2>1. CASE ops' = rows
    BY <1>1, <2>1
  <2>2. CASE ops' = Kept(rows)
    BY <1>1, <1>3, <2>2, KeptLast
  <2> QED
    BY <2>1, <2>2
<1>5. i \in DOMAIN ops /\ ops[i].task = t /\ ops[i] = ops'[k]
  BY <1>2, <1>4 DEF LastOf, RowsOf
<1>6. IsLatest(t, i)
  BY <1>2, <1>4, <1>5 DEF IsLatest, LastOf, RowsOf
<1> QED
  BY <1>5, <1>6

\* What is kept matters.
LEMMA KeptMatter ==
  ASSUME NEW rows \in Seq(AnyRows)
  PROVE  \A i \in DOMAIN Kept(rows) : Matters(Kept(rows)[i])
<1> DEFINE Q == {row \in AnyRows : Matters(row)}
<1>1. Kept(rows) \in Seq(Q)
  <2>1. \A x \in AnyRows : Matters(x) => x \in Q
    OBVIOUS
  <2> HIDE DEF Q
  <2> QED
    BY <2>1, KeptTypes
<1>2. \A i \in DOMAIN Kept(rows) : Kept(rows)[i] \in Q
  <2> HIDE DEF Q
  <2> QED
    BY <1>1
<1> QED
  BY <1>2

\* One row gets its result.
LEMMA OneChanged ==
  ASSUME ops \in Seq(Rows), Len(ops) <= MaxRows, NEW i \in DOMAIN ops,
         NEW result \in {"none", "unknown", "succeeded", "failed"}
  PROVE  /\ Set(ops, i, result) \in Seq(AnyRows)
         /\ Len(Set(ops, i, result)) = Len(ops)
         /\ \A j \in DOMAIN ops : SameUpdate(Set(ops, i, result)[j], ops[j])
         /\ \A j \in DOMAIN ops : j # i => Set(ops, i, result)[j] = ops[j]
         /\ Set(ops, i, result)[i].result = result
<1> DEFINE row == [ops[i] EXCEPT !.result = result]
<1>1. ops[i] \in Rows /\ i \in 1..Len(ops)
  OBVIOUS
<1>2. row \in AnyRows /\ SameUpdate(row, ops[i]) /\ row.result = result
  BY <1>1 DEF Rows, AnyRows, SameUpdate
<1>3. Set(ops, i, result) = [ops EXCEPT ![i] = row]
  BY DEF Set
<1>4. ops \in Seq(AnyRows)
  <2>1. Rows \subseteq AnyRows
    BY DEF Rows, AnyRows
  <2>2. \A j \in 1..Len(ops) : ops[j] \in AnyRows
    BY <2>1
  <2> QED
    BY <2>2
<1> HIDE DEF row
<1>5. Set(ops, i, result) \in Seq(AnyRows) /\ Len(Set(ops, i, result)) = Len(ops)
  BY <1>1, <1>2, <1>3, <1>4
<1>6. Set(ops, i, result)[i] = row /\ \A j \in DOMAIN ops : j # i => Set(ops, i, result)[j] = ops[j]
  BY <1>3
<1> QED
  BY <1>2, <1>5, <1>6 DEF SameUpdate

\* Several rows get theirs.
Given(rows, result) ==
  /\ DOMAIN result = DOMAIN ops
  /\ \A i \in DOMAIN ops : result[i] \in {"none", "unknown", "succeeded", "failed"}
  /\ rows = [i \in DOMAIN ops |-> [ops[i] EXCEPT !.result = result[i]]]

\* All of them keep their kind, task and candidate.
LEMMA SeveralChanged ==
  ASSUME ops \in Seq(Rows), NEW result, NEW rows, Given(rows, result)
  PROVE  /\ rows \in Seq(AnyRows) /\ Len(rows) = Len(ops)
         /\ \A i \in DOMAIN ops : /\ SameUpdate(rows[i], ops[i])
                                  /\ rows[i].result = result[i]
                                  /\ result[i] = ops[i].result => rows[i] = ops[i]
<1>1. ASSUME NEW i \in DOMAIN ops
      PROVE  /\ rows[i] \in AnyRows /\ SameUpdate(rows[i], ops[i])
             /\ rows[i].result = result[i]
             /\ result[i] = ops[i].result => rows[i] = ops[i]
  <2>1. ops[i] \in Rows /\ result[i] \in {"none", "unknown", "succeeded", "failed"}
    BY DEF Given
  <2>2. rows[i] = [ops[i] EXCEPT !.result = result[i]]
    BY DEF Given
  <2> QED
    BY <2>1, <2>2 DEF Rows, AnyRows, SameUpdate
<1>2. DOMAIN ops = 1..Len(ops) /\ Len(ops) \in Nat /\ DOMAIN rows = DOMAIN ops
  BY DEF Given
<1>3. rows \in [1..Len(ops) -> AnyRows]
  <2>1. \A i \in 1..Len(ops) : rows[i] \in AnyRows
    BY <1>1, <1>2
  <2>2. rows = [i \in 1..Len(ops) |-> rows[i]]
    BY <1>2 DEF Given
  <2> QED
    BY <2>1, <2>2
<1> QED
  BY <1>1, <1>2, <1>3

-------------------------------------------------------------------------------
(***************************************************************************)
(* The parts of SourceInv in a step that leaves tree and activations alone.*)
(***************************************************************************)
\* Rows that stay as they are.
LEMMA SameRows ==
  ASSUME RowsMatter, ops' = ops
  PROVE  TargetsKept /\ RowsMatter' /\ \A t \in Tasks : LatestKept(t)
BY DEF TargetsKept, RowsMatter, LatestKept, SameUpdate, RecoveryTargets, IsTarget, Unresolved,
   IsLatest, Matters

\* A new row is the newest of its task.
LEMMA NewRow ==
  ASSUME ops \in Seq(Rows), RowsMatter, NEW row \in Rows, Matters(row), ops' = Append(ops, row)
  PROVE  /\ TargetsKept /\ RowsMatter'
         /\ \A t \in Tasks : t # row.task => LatestKept(t)
         /\ \A i \in DOMAIN ops' : IsLatest(row.task, i)' => ops'[i] = row
<1>1. /\ DOMAIN ops' = 1..Len(ops) + 1 /\ DOMAIN ops = 1..Len(ops) /\ Len(ops) \in Nat
      /\ \A i \in DOMAIN ops : i \in DOMAIN ops' /\ ops'[i] = ops[i]
      /\ Len(ops) + 1 \in DOMAIN ops' /\ ops'[Len(ops) + 1] = row
  OBVIOUS
<1>2. TargetsKept
  BY <1>1 DEF TargetsKept, SameUpdate, RecoveryTargets, IsTarget, Unresolved
<1>3. RowsMatter'
  <2> SUFFICES ASSUME NEW i \in DOMAIN ops' PROVE Matters(ops'[i])
    BY DEF RowsMatter, Matters
  <2>1. i \in DOMAIN ops \/ i = Len(ops) + 1
    BY <1>1
  <2> QED
    BY <1>1, <2>1 DEF RowsMatter
<1>4. ASSUME NEW t \in Tasks, t # row.task PROVE LatestKept(t)
  <2> SUFFICES ASSUME NEW i \in DOMAIN ops', IsLatest(t, i)'
               PROVE  \E j \in DOMAIN ops : IsLatest(t, j) /\ ops[j] = ops'[i]
    BY DEF LatestKept
  <2>1. ops'[i].task = t /\ \A j \in DOMAIN ops' : ops'[j].task = t => j <= i
    BY DEF IsLatest
  <2>2. i \in DOMAIN ops /\ ops[i] = ops'[i]
    BY <1>1, <1>4, <2>1
  <2>3. ASSUME NEW j \in DOMAIN ops, ops[j].task = t PROVE j <= i
    BY <1>1, <2>1, <2>3
  <2> QED
    BY <2>1, <2>2, <2>3 DEF IsLatest
<1>5. ASSUME NEW i \in DOMAIN ops', IsLatest(row.task, i)' PROVE ops'[i] = row
  <2>1. \A j \in DOMAIN ops' : ops'[j].task = row.task => j <= i
    BY <1>5 DEF IsLatest
  <2>2. Len(ops) + 1 <= i
    BY <1>1, <2>1
  <2> QED
    BY <1>1, <2>2
<1> QED
  BY <1>2, <1>3, <1>4, <1>5

\* A row that belongs to no unfinished update is removed.
LEMMA RowGone ==
  ASSUME ops \in Seq(Rows), RowsMatter, NEW r \in DOMAIN ops, r \notin RecoveryTargets,
         ops' = RemoveAt(ops, r)
  PROVE  /\ TargetsKept /\ RowsMatter'
         /\ \A t \in Tasks : t # ops[r].task => LatestKept(t)
<1>1. /\ DOMAIN ops' = 1..Len(ops) - 1
      /\ \A j \in 1..Len(ops) - 1 : ops'[j] = IF j < r THEN ops[j] ELSE ops[j + 1]
  BY RemovedRow
<1>2. DOMAIN ops = 1..Len(ops) /\ Len(ops) \in Nat /\ r \in 1..Len(ops)
  OBVIOUS
<1>3. ASSUME NEW i \in DOMAIN ops, i # r
      PROVE  \E j \in DOMAIN ops' : ops'[j] = ops[i] /\ (i < r => j = i) /\ (i > r => j = i - 1)
  <2>1. CASE i < r
    <3>1. i \in 1..Len(ops) - 1
      BY <1>2, <2>1
    <3>2. i \in DOMAIN ops' /\ ops'[i] = ops[i]
      BY <1>1, <2>1, <3>1
    <3> QED
      BY <1>2, <2>1, <3>2
  <2>2. CASE i > r
    <3>1. i - 1 \in 1..Len(ops) - 1 /\ ~(i - 1 < r) /\ (i - 1) + 1 = i
      BY <1>2, <2>2
    <3>2. i - 1 \in DOMAIN ops' /\ ops'[i - 1] = ops[i]
      BY <1>1, <3>1
    <3> QED
      BY <1>2, <2>2, <3>2
  <2> QED
    BY <1>2, <1>3, <2>1, <2>2
<1>4. TargetsKept
  <2> SUFFICES ASSUME NEW i \in RecoveryTargets
               PROVE  \E j \in DOMAIN ops' : SameUpdate(ops'[j], ops[i])
                                             /\ ops'[j].result # "succeeded"
    BY DEF TargetsKept
  <2>1. i \in DOMAIN ops /\ i # r /\ ops[i].result # "succeeded"
    BY DEF RecoveryTargets, IsTarget, Unresolved
  <2> QED
    BY <1>3, <2>1 DEF SameUpdate
<1>5. RowsMatter'
  <2> SUFFICES ASSUME NEW j \in DOMAIN ops' PROVE Matters(ops'[j])
    BY DEF RowsMatter, Matters
  <2>1. j \in DOMAIN ops /\ j + 1 \in DOMAIN ops
    BY <1>1, <1>2
  <2> QED
    BY <1>1, <2>1 DEF RowsMatter
<1>6. ASSUME NEW t \in Tasks, t # ops[r].task PROVE LatestKept(t)
  <2> SUFFICES ASSUME NEW k \in DOMAIN ops', IsLatest(t, k)'
               PROVE  \E j \in DOMAIN ops : IsLatest(t, j) /\ ops[j] = ops'[k]
    BY DEF LatestKept
  <2>1. ops'[k].task = t /\ \A j \in DOMAIN ops' : ops'[j].task = t => j <= k
    BY DEF IsLatest
  <2>2. k \in 1..Len(ops) - 1
    BY <1>1
  <2> DEFINE old == IF k < r THEN k ELSE k + 1
  <2>3. old \in DOMAIN ops /\ ops[old] = ops'[k]
    BY <1>1, <1>2, <2>2
  <2>4. ASSUME NEW i \in DOMAIN ops, ops[i].task = t PROVE i <= old
    <3>1. i # r
      BY <1>6, <2>4
    <3>2. PICK j \in DOMAIN ops' : /\ ops'[j] = ops[i]
                                   /\ i < r => j = i
                                   /\ i > r => j = i - 1
      BY <1>3, <3>1
    <3>3. j <= k /\ j \in Nat /\ k \in Nat
      BY <1>1, <1>2, <2>1, <2>2, <2>4, <3>2
    <3> QED
      BY <1>2, <3>1, <3>2, <3>3
  <2> HIDE DEF old
  <2> QED
    BY <2>1, <2>3, <2>4 DEF IsLatest
<1> QED
  BY <1>4, <1>5, <1>6

\* One row gets its result; that of an unfinished update stays unresolved.
LEMMA ResultGiven ==
  ASSUME UpdateInv, UpdateInv', RowsMatter, NEW i \in DOMAIN ops,
         NEW result \in {"none", "unknown", "succeeded", "failed"},
         i \in RecoveryTargets => result \in {"none", "unknown"},
         \/ ops' = Kept(Set(ops, i, result))
         \/ ops' = Set(ops, i, result) /\ result # "failed" /\ ops[i].kind # "verify"
  PROVE  TargetsKept /\ RowsMatter' /\ \A t \in Tasks : t # ops[i].task => LatestKept(t)
<1> DEFINE rows == Set(ops, i, result)
<1>0. ops \in Seq(Rows) /\ ops' \in Seq(Rows) /\ Len(ops) <= MaxRows
  BY DEF UpdateInv, TypeOK
<1>1. /\ rows \in Seq(AnyRows) /\ Len(rows) = Len(ops)
      /\ \A j \in DOMAIN ops : SameUpdate(rows[j], ops[j])
      /\ \A j \in DOMAIN ops : j # i => rows[j] = ops[j]
      /\ rows[i].result = result
  BY <1>0, OneChanged
<1>2. \/ ops' = Kept(rows)
      \/ ops' = rows /\ result # "failed" /\ ops[i].kind # "verify"
  OBVIOUS
<1> HIDE DEF rows
<1>3. \A j \in RecoveryTargets : rows[j].result \in {"none", "unknown"}
  <2> SUFFICES ASSUME NEW j \in RecoveryTargets PROVE rows[j].result \in {"none", "unknown"}
    OBVIOUS
  <2>1. j \in DOMAIN ops /\ ops[j].result # "succeeded"
    BY DEF RecoveryTargets, IsTarget, Unresolved
  <2>2. ops[j].result \in {"none", "unknown", "succeeded"}
    BY <1>0, <2>1, RowParts
  <2> QED
    BY <1>1, <2>1, <2>2
<1>4. TargetsKept
  BY <1>0, <1>1, <1>2, <1>3, ChangedRows
<1>5. RowsMatter'
  <2>1. CASE ops' = Kept(rows)
    <3>1. \A j \in DOMAIN Kept(rows) : Matters(Kept(rows)[j])
      BY <1>1, KeptMatter
    <3> QED
      BY <2>1, <3>1 DEF RowsMatter, Matters
  <2>2. CASE ops' = rows /\ result # "failed" /\ ops[i].kind # "verify"
    <3> SUFFICES ASSUME NEW j \in DOMAIN ops' PROVE Matters(ops'[j])
      BY DEF RowsMatter, Matters
    <3>1. j \in DOMAIN ops
      BY <1>0, <1>1, <2>2
    <3>2. CASE j = i
      BY <1>1, <2>2, <3>1, <3>2 DEF Matters, SameUpdate
    <3>3. CASE j # i
      BY <1>1, <2>2, <3>1, <3>3 DEF RowsMatter
    <3> QED
      BY <3>2, <3>3
  <2> QED
    BY <1>2, <2>1, <2>2
<1>6. ASSUME NEW t \in Tasks, t # ops[i].task PROVE LatestKept(t)
  <2>1. \A j \in DOMAIN ops : /\ rows[j].task = ops[j].task
                              /\ ops[j].task = t => rows[j] = ops[j]
    BY <1>1, <1>6 DEF SameUpdate
  <2> QED
    BY <1>0, <1>1, <1>2, <2>1, ChangedLatest
<1> QED
  BY <1>4, <1>5, <1>6

\* Nothing is said of the tree, of candidates and of uses that could change.
LEMMA KnownStays ==
  ASSUME MixKnown, UNCHANGED <<code, cand, activation, use>>
  PROVE  MixKnown'
BY DEF MixKnown, AllKnown, Unknown, Confirmed, Sane, Whole, HasForeign, Staged

\* Unfinished updates stay on record, and who runs is to settle them.
LEMMA HeldStays ==
  ASSUME UpdateInv, MixHeld, activation' = activation, TargetsKept, ops' \in Seq(Rows),
         ~AllKnown /\ up' => pending' /\ \A t \in Tasks : running'[t] # "off" => TargetsOf(t) # {}
  PROVE  MixHeld'
<1>1. \A c \in Candidates : Unknown(c)' <=> Unknown(c)
  BY DEF Unknown, Confirmed
<1>2. ASSUME NEW i \in RecoveryTargets
      PROVE  \E j \in RecoveryTargets' : SameUpdate(ops'[j], ops[i])
  <2>1. PICK j \in DOMAIN ops' : SameUpdate(ops'[j], ops[i]) /\ ops'[j].result # "succeeded"
    BY DEF TargetsKept
  <2>2. ops[i].kind # "verify" /\ Unknown(ops[i].cand)
    BY DEF RecoveryTargets, IsTarget
  <2>3. ops'[j].kind # "verify" /\ ops'[j].cand = ops[i].cand
    BY <2>1, <2>2 DEF SameUpdate
  <2>5. j \in RecoveryTargets'
    BY <2>1, <2>2, <2>3 DEF RecoveryTargets, IsTarget, Unresolved, Unknown, Confirmed
  <2> QED
    BY <2>1, <2>5
<1>3. ASSUME NEW c \in Candidates, Unknown(c) PROVE Claimed(c)'
  <2>1. PICK i \in RecoveryTargets : ops[i].cand = c
    BY <1>3 DEF MixHeld, Claimed
  <2>2. PICK j \in RecoveryTargets' : SameUpdate(ops'[j], ops[i])
    BY <1>2
  <2> QED
    BY <2>1, <2>2 DEF Claimed, SameUpdate
<1>4. ASSUME NEW t \in Tasks, TargetsOf(t) # {} PROVE TargetsOf(t)' # {}
  <2>1. PICK i \in RecoveryTargets : ops[i].task = t
    BY <1>4 DEF TargetsOf
  <2>2. PICK j \in RecoveryTargets' : SameUpdate(ops'[j], ops[i])
    BY <1>2
  <2> QED
    BY <2>1, <2>2 DEF TargetsOf, SameUpdate
<1> QED
  BY <1>1, <1>3, <1>4 DEF MixHeld, AllKnown

\* A review of which the newest row stays is the same review.
LEMMA ReviewStays ==
  ASSUME NEW t \in Tasks, UnderReview(t), activation' = activation, LatestKept(t),
         running'[t] = "reviewing" => running[t] = "reviewing"
  PROVE  UnderReview(t)'
<1> SUFFICES ASSUME running'[t] = "reviewing", NEW i \in DOMAIN ops', IsLatest(t, i)'
             PROVE  /\ ops'[i].kind # "verify" /\ ops'[i].result # "succeeded"
                    /\ \A c \in Candidates : Unknown(c) =>
                         ops'[i].kind = "rollback" /\ ops'[i].cand = c
  BY DEF UnderReview, Unresolved, Unknown, Confirmed
<1>1. PICK j \in DOMAIN ops : IsLatest(t, j) /\ ops[j] = ops'[i]
  BY DEF LatestKept
<1> QED
  BY <1>1 DEF UnderReview, Unresolved

\* A task goes on, and the tree is not written.
LEMMA TaskQuiet ==
  ASSUME SourceInv, UpdateInv', NEW t \in Tasks, NEW phase,
         UNCHANGED <<code, cand, activation, use>>, up, up',
         running' = [running EXCEPT ![t] = phase],
         phase \in {"off", "reviewing"} \/ running[t] # "off" \/ AllKnown \/ TargetsOf(t) # {},
         phase = "reviewing" => running[t] # "off" /\ UnderReview(t)',
         AllKnown \/ pending' = pending \/ pending',
         \/ job' = None
         \/ job' = job /\ job.kind = "verify" /\ running[t] # "verifying"
         \/ job'.kind = "verify" /\ job'.task = t /\ phase = "verifying",
         TargetsKept, RowsMatter', \A s \in Tasks : s # t => LatestKept(s)
  PROVE  SourceInv'
<1>0. /\ TypeOK /\ ops' \in Seq(Rows) /\ UpdateInv
      /\ MixKnown /\ MixHeld /\ \A s \in Tasks : UnderReview(s)
  BY DEF SourceInv, UpdateInv, TypeOK
<1>1. running'[t] = phase /\ \A s \in Tasks : s # t => running'[s] = running[s]
  BY <1>0 DEF TypeOK
<1>2. MixHeld'
  <2>1. ASSUME ~AllKnown
        PROVE  pending' /\ \A s \in Tasks : running'[s] # "off" => TargetsOf(s) # {}
    <3>1. pending /\ \A s \in Tasks : running[s] # "off" => TargetsOf(s) # {}
      BY <1>0, <2>1 DEF AllKnown, MixHeld
    <3> QED
      BY <1>1, <2>1, <3>1
  <2> QED
    BY <1>0, <2>1, HeldStays
<1>3. \A s \in Tasks : UnderReview(s)'
  <2>1. ASSUME NEW s \in Tasks, s # t PROVE UnderReview(s)'
    BY <1>0, <1>1, <2>1, ReviewStays
  <2>2. UnderReview(t)'
    BY <1>1 DEF UnderReview
  <2> QED
    BY <2>1, <2>2
<1>4. WritesAlone' /\ LockAttended'
  BY <1>1 DEF WritesAlone, LockAttended, SourceInv
<1> QED
  BY <1>0, <1>2, <1>3, <1>4, KnownStays DEF SourceInv

-------------------------------------------------------------------------------
(***************************************************************************)
(* SourceInv in each step.                                                 *)
(***************************************************************************)
\* It holds of the program as it is shipped.
LEMMA SourceInit == Init => SourceInv
<1> SUFFICES ASSUME Init PROVE SourceInv
  OBVIOUS
<1>1. UpdateInv
  BY TypeInit, FactsInit DEF UpdateInv, Facts, LookedAt, Init
<1>2. MixKnown
  BY DEF Init, MixKnown, AllKnown, Sane, Whole, Staged, NoUse
<1>3. MixHeld /\ \A t \in Tasks : UnderReview(t)
  BY DEF Init, MixHeld, Unknown, UnderReview
<1>4. WritesAlone /\ RowsMatter /\ LockAttended
  BY DEF Init, WritesAlone, RowsMatter, LockAttended
<1> QED
  BY <1>1, <1>2, <1>3, <1>4 DEF SourceInv

\* With an unfinished update only tasks run that are to settle it.
LEMMA NothingOpen ==
  ASSUME SourceInv, up, NEW t \in Tasks, running[t] # "off", Open(t) = {} \/ TargetsOf(t) = {}
  PROVE  AllKnown
<1> SUFFICES ASSUME ~AllKnown PROVE FALSE
  OBVIOUS
<1>1. TargetsOf(t) # {}
  BY DEF SourceInv, MixHeld, AllKnown
<1>2. TargetsOf(t) \subseteq Open(t)
  BY DEF TargetsOf, RecoveryTargets, Open, IsTarget
<1> QED
  BY <1>1, <1>2

\* What is observed of a row settles no unfinished update.
LEMMA Observed ==
  ASSUME SourceInv, UpdateInv', NEW t \in Tasks, NEW i \in DOMAIN ops, ops[i].task = t,
         Observe(t, i)
  PROVE  /\ TargetsKept /\ RowsMatter' /\ \A s \in Tasks : s # t => LatestKept(s)
         /\ \E phase \in {"off", "working"} : running' = [running EXCEPT ![t] = phase]
<1>1. PICK verified \in Reconciled(ops[i].cand) :
        ops' = Kept(Set(ops, i, Outcome(ops[i].kind, ops[i].cand, verified)))
  BY DEF Observe
<1> DEFINE result == Outcome(ops[i].kind, ops[i].cand, verified)
<1>2. result \in {"none", "unknown", "succeeded", "failed"}
  BY OutcomeTypes
<1>3. i \in RecoveryTargets => result = "unknown"
  BY DEF RecoveryTargets, IsTarget, Outcome
<1>4. ops' = Kept(Set(ops, i, result))
  BY <1>1
<1> HIDE DEF result
<1>5. TargetsKept /\ RowsMatter' /\ \A s \in Tasks : s # t => LatestKept(s)
  BY <1>2, <1>3, <1>4, ResultGiven DEF SourceInv
<1>6. \E phase \in {"off", "working"} : running' = [running EXCEPT ![t] = phase]
  BY DEF Observe, Run
<1> QED
  BY <1>5, <1>6

\* The row of a test gets its result.
LEMMA VerifyMix ==
  ASSUME SourceInv, UpdateInv', NEW t \in Tasks, NEW c \in Candidates,
         VerifyPasses(t, c) \/ VerifyFails(t, c)
  PROVE  SourceInv'
<1> USE DEF diskVars, updateVars, processVars
<1>0. job # None /\ job.kind = "verify" /\ up /\ job.task = t
  BY DEF VerifyPasses, VerifyFails, Verifying
<1>1. PICK status \in {"succeeded", "failed", "unknown"} : Conclude(t, c, status)
  BY DEF VerifyPasses, VerifyFails
<1>2. PICK i \in DOMAIN ops : /\ ops[i].task = t /\ ops[i].kind = "verify"
                              /\ ops' = Kept(Set(ops, i, status))
  BY <1>1 DEF Conclude
<1>3. i \notin RecoveryTargets
  BY <1>2 DEF RecoveryTargets, IsTarget
<1>4. TargetsKept /\ RowsMatter' /\ \A s \in Tasks : s # t => LatestKept(s)
  BY <1>2, <1>3, ResultGiven DEF SourceInv
<1>5. running[t] # "off"
  BY <1>0 DEF SourceInv, LockAttended
<1>6. UNCHANGED <<code, cand, activation, use, up, pending>> /\ job' = None
      /\ \E phase \in {"off", "working"} : running' = [running EXCEPT ![t] = phase]
  BY <1>1 DEF Conclude, Run
<1> QED
  BY <1>0, <1>4, <1>5, <1>6, TaskQuiet

\* A candidate is made of a sane tree, its test begins, its use is asked for.
LEMMA CandidateMix ==
  ASSUME SourceInv, UpdateInv', NEW t \in Tasks, NEW c \in Candidates, CandidateStep(t, c)
  PROVE  SourceInv'
<1> USE DEF diskVars, updateVars, processVars
<1>0. /\ TypeOK /\ ops \in Seq(Rows) /\ RowsMatter /\ UpdateInv
      /\ MixKnown /\ MixHeld /\ \A s \in Tasks : UnderReview(s)
  BY DEF SourceInv, UpdateInv, TypeOK
<1>1. CASE Propose(t, c)
  <2>1. AllKnown
    BY <1>1, NothingOpen DEF Propose, InProcess
  <2>2. Sane(code)
    BY <1>0, <2>1 DEF MixKnown
  <2>3. /\ UNCHANGED <<code, activation, use, ops, running, pending, up, job>>
        /\ ~Staged(c)
    BY <1>1 DEF Propose
  <2>7. /\ cand'[c] # None /\ cand'[c].before = code
        /\ \A d \in Candidates : d # c => cand'[d] = cand[d]
    <3> DEFINE new == [kind |-> "candidate", before |-> code, after |-> Patched(code, c),
                       epoch |-> epoch]
    <3>1. cand' = [cand EXCEPT ![c] = new] /\ new # None /\ new.before = code
      BY <1>1 DEF Propose, None
    <3> HIDE DEF new
    <3> QED
      BY <1>0, <3>1 DEF TypeOK
  <2>4. MixKnown'
    BY <1>0, <2>1, <2>2, <2>3, <2>7
    DEF MixKnown, AllKnown, Unknown, Confirmed, Sane, Whole, HasForeign, Staged
  <2>5. MixHeld' /\ \A s \in Tasks : UnderReview(s)'
    BY <1>0, <2>1, <2>3 DEF AllKnown, MixHeld, UnderReview, Unknown, Confirmed, IsLatest,
       Unresolved
  <2>6. WritesAlone' /\ RowsMatter' /\ LockAttended'
    BY <1>0, <1>1, <2>3 DEF Propose, WritesAlone, RowsMatter, LockAttended, SourceInv, Matters
  <2> QED
    BY <2>4, <2>5, <2>6 DEF SourceInv
<1>2. CASE BeginVerify(t, c)
  <2> DEFINE row == [kind |-> "verify", task |-> t, cand |-> c, result |-> "none"]
  <2>1. row \in Rows /\ Matters(row) /\ row.task = t
    BY DEF Rows, Matters
  <2>2. ops' = Append(ops, row)
    BY <1>2 DEF BeginVerify
  <2> HIDE DEF row
  <2>3. TargetsKept /\ RowsMatter' /\ \A s \in Tasks : s # t => LatestKept(s)
    BY <1>0, <2>1, <2>2, NewRow
  <2>4. /\ UNCHANGED <<code, cand, activation, use, up, pending>> /\ up
        /\ running[t] # "off" /\ running' = [running EXCEPT ![t] = "verifying"]
        /\ job' = [kind |-> "verify", task |-> t, cand |-> c]
    BY <1>2 DEF BeginVerify, InProcess, Run
  <2>5. job'.kind = "verify" /\ job'.task = t
    BY <2>4
  <2> QED
    BY <2>3, <2>4, <2>5, TaskQuiet
<1>3. CASE VerifyPasses(t, c) \/ VerifyFails(t, c)
  BY <1>3, VerifyMix
<1>4. ASSUME NEW kind \in {"apply", "rollback"}, Request(t, kind, c) PROVE SourceInv'
  <2> DEFINE row == [kind |-> kind, task |-> t, cand |-> c, result |-> "none"]
  <2>1. row \in Rows /\ Matters(row) /\ row.task = t /\ row.cand = c /\ row.kind = kind
        /\ row.kind # "verify" /\ row.result # "succeeded"
    BY DEF Rows, Matters
  <2>2. ops' = Append(ops, row)
    BY <1>4 DEF Request
  <2> HIDE DEF row
  <2>3. /\ TargetsKept /\ RowsMatter' /\ \A s \in Tasks : s # t => LatestKept(s)
        /\ \A i \in DOMAIN ops' : IsLatest(t, i)' => ops'[i] = row
    BY <1>0, <2>1, <2>2, NewRow
  <2>4. /\ UNCHANGED <<code, cand, activation, use, up, pending, job>> /\ up
        /\ running[t] = "working" /\ running' = [running EXCEPT ![t] = "reviewing"]
        /\ job = None \/ job.kind = "verify"
    BY <1>4 DEF Request, InProcess, Run
  <2>5. ASSUME NEW d \in Candidates, Unknown(d) PROVE kind = "rollback" /\ d = c
    <3>1. TargetsOf(t) # {} /\ Open(t) # {}
      BY <2>4, <2>5, NothingOpen DEF AllKnown
    <3>2. kind = "rollback" /\ \A i \in Open(t) : i \in TargetsOf(t) /\ ops[i].cand = c
      BY <1>4, <3>1 DEF Request
    <3>3. PICK i \in TargetsOf(t) : TRUE
      BY <3>1
    <3>4. i \in Open(t) /\ Unknown(ops[i].cand)
      BY <3>3 DEF TargetsOf, RecoveryTargets, IsTarget, Open
    <3>5. Unknown(c)
      BY <3>2, <3>4
    <3> QED
      BY <1>0, <2>5, <3>2, <3>5 DEF MixHeld
  <2>6. UnderReview(t)'
    BY <2>1, <2>3, <2>4, <2>5 DEF UnderReview, Unresolved, Unknown, Confirmed
  <2> QED
    BY <2>3, <2>4, <2>6, TaskQuiet
<1> QED
  BY <1>1, <1>2, <1>3, <1>4 DEF CandidateStep

\* Recovery settles no unfinished update either.
LEMMA RecoverMix ==
  ASSUME SourceInv, UpdateInv', NEW t \in Tasks, RecoverRows(t)
  PROVE  SourceInv'
<1> USE DEF diskVars, updateVars, processVars
<1>0. /\ TypeOK /\ ops \in Seq(Rows) /\ ops' \in Seq(Rows) /\ RowsMatter
      /\ job = None /\ up /\ running[t] = "resuming"
  BY DEF SourceInv, UpdateInv, TypeOK, RecoverRows, InProcess
<1> DEFINE Result(i) == IF i \in Open(t)
                        THEN Outcome(ops[i].kind, ops[i].cand, verification'[ops[i].cand])
                        ELSE ops[i].result
           result == [i \in DOMAIN ops |-> Result(i)]
           rows == [i \in DOMAIN ops |-> [ops[i] EXCEPT !.result = result[i]]]
<1>1. ops' = Kept(rows)
  <2>1. ops' = Kept([i \in DOMAIN ops |-> [ops[i] EXCEPT !.result = Result(i)]])
    BY DEF RecoverRows
  <2> HIDE DEF Result
  <2>2. [i \in DOMAIN ops |-> [ops[i] EXCEPT !.result = Result(i)]] = rows
    OBVIOUS
  <2> QED
    BY <2>1, <2>2
<1>2. \A i \in DOMAIN ops : result[i] \in {"none", "unknown", "succeeded", "failed"}
  BY <1>0, RowParts, OutcomeTypes
<1>3. \A i \in RecoveryTargets : result[i] \in {"none", "unknown"}
  <2> SUFFICES ASSUME NEW i \in RecoveryTargets PROVE result[i] \in {"none", "unknown"}
    OBVIOUS
  <2>1. i \in DOMAIN ops /\ ops[i].result # "succeeded" /\ Unknown(ops[i].cand)
    BY DEF RecoveryTargets, IsTarget, Unresolved
  <2>2. ops[i].result \in {"none", "unknown"}
    BY <1>0, <2>1, RowParts
  <2>3. Outcome(ops[i].kind, ops[i].cand, verification'[ops[i].cand]) = "unknown"
    BY <2>1 DEF Outcome
  <2> QED
    BY <2>1, <2>2, <2>3
<1>4. \A i \in DOMAIN ops : ops[i].task # t => result[i] = ops[i].result
  BY DEF Open
<1>5. DOMAIN result = DOMAIN ops
  OBVIOUS
<1> HIDE DEF result
<1>6. Given(rows, result)
  BY <1>2, <1>5 DEF Given
<1> HIDE DEF rows
<1>7. /\ rows \in Seq(AnyRows) /\ Len(rows) = Len(ops)
      /\ \A i \in DOMAIN ops : /\ SameUpdate(rows[i], ops[i])
                               /\ rows[i].result = result[i]
                               /\ result[i] = ops[i].result => rows[i] = ops[i]
  BY <1>0, <1>6, SeveralChanged
<1>8. TargetsKept
  <2>1. \A i \in RecoveryTargets : rows[i].result \in {"none", "unknown"}
    BY <1>3, <1>7 DEF RecoveryTargets
  <2> QED
    BY <1>0, <1>1, <1>7, <2>1, ChangedRows
<1>9. RowsMatter'
  <2>1. \A j \in DOMAIN Kept(rows) : Matters(Kept(rows)[j])
    BY <1>7, KeptMatter
  <2> QED
    BY <1>1, <2>1 DEF RowsMatter, Matters
<1>10. ASSUME NEW s \in Tasks, s # t PROVE LatestKept(s)
  <2>1. \A i \in DOMAIN ops : /\ rows[i].task = ops[i].task
                              /\ ops[i].task = s => rows[i] = ops[i]
    BY <1>4, <1>7, <1>10 DEF SameUpdate
  <2> QED
    BY <1>0, <1>1, <1>7, <2>1, ChangedLatest
<1>11. /\ UNCHANGED <<code, cand, activation, use, up, job>>
       /\ pending' = pending \/ pending'
       /\ \E phase \in {"off", "restarting"} : running' = [running EXCEPT ![t] = phase]
  <2>1. UNCHANGED <<code, cand, activation, use, up, job>>
    BY DEF RecoverRows
  <2>2. pending' = (pending \/ TargetsOf(t) # {})
    BY DEF RecoverRows
  <2>3. \E phase \in {"off", "restarting"} : running' = [running EXCEPT ![t] = phase]
    BY DEF RecoverRows, Run
  <2>4. pending' = pending \/ pending'
    BY <1>0, <2>2 DEF TypeOK
  <2> QED
    BY <2>1, <2>3, <2>4
<1> QED
  BY <1>0, <1>8, <1>9, <1>10, <1>11, TaskQuiet

\* The restart of an update is consumed only when none is unfinished.
LEMMA RestartMix ==
  ASSUME SourceInv, UpdateInv', NEW t \in Tasks, RestartDone(t)
  PROVE  SourceInv'
<1> USE DEF diskVars, updateVars, processVars
<1>0. ops \in Seq(Rows) /\ RowsMatter
  BY DEF SourceInv, UpdateInv, TypeOK
<1>1. PICK i \in DOMAIN ops : IsRestartRow(t, i) /\ ops' = RemoveAt(ops, i)
  BY DEF RestartDone
<1>2. ops[i].task = t /\ i \notin RecoveryTargets
  BY <1>1 DEF IsRestartRow, RecoveryTargets, IsTarget
<1>3. TargetsKept /\ RowsMatter' /\ \A s \in Tasks : s # t => LatestKept(s)
  BY <1>0, <1>1, <1>2, RowGone
<1>4. AllKnown
  BY NothingOpen DEF RestartDone, InProcess
<1>5. /\ UNCHANGED <<code, cand, activation, use, up, job>> /\ up
      /\ job = None \/ job.kind = "verify"
      /\ running[t] = "restarting" /\ running' = [running EXCEPT ![t] = "working"]
  BY DEF RestartDone, InProcess, Run
<1> QED
  BY <1>3, <1>4, <1>5, TaskQuiet

\* A result that is recorded says the same of what ran.
LEMMA RecordMix ==
  ASSUME SourceInv, UpdateInv', NEW t \in Tasks, EndUse(t)
  PROVE  SourceInv'
<1> USE DEF diskVars, updateVars, processVars
<1>0. TypeOK /\ MixKnown /\ RowsMatter
  BY DEF SourceInv, UpdateInv
<1>1. /\ UNCHANGED <<code, cand, activation, ops, up, pending, job>> /\ up
      /\ job = None \/ job.kind = "verify"
      /\ running[t] = "using" /\ running' = [running EXCEPT ![t] = "working"]
  BY DEF EndUse, InProcess, Run
<1>2. \A u \in Uses : use'[u].ran = use[u].ran
                      /\ (use'[u].status # "none" => use[u].status # "none")
  <2>1. CASE UNCHANGED use
    BY <2>1
  <2>2. ASSUME NEW u \in Uses, NEW seen \in BOOLEAN, use[u].status = "started",
               use' = [use EXCEPT ![u].status = "recorded", ![u].observed = seen]
        PROVE  \A v \in Uses : /\ use'[v].ran = use[v].ran
                               /\ use'[v].status # "none" => use[v].status # "none"
    <3>1. use[u] \in Records /\ use' = [use EXCEPT ![u] = [use[u] EXCEPT !.status = "recorded",
                                                                       !.observed = seen]]
      BY <1>0, <2>2 DEF TypeOK
    <3>2. use'[u] = [use[u] EXCEPT !.status = "recorded", !.observed = seen]
      BY <1>0, <3>1 DEF TypeOK
    <3>3. use'[u].ran = use[u].ran
      BY <3>1, <3>2 DEF Records
    <3>4. \A v \in Uses : v # u => use'[v] = use[v]
      BY <1>0, <3>1 DEF TypeOK
    <3> QED
      BY <2>2, <3>3, <3>4
  <2> QED
    BY <2>1, <2>2 DEF EndUse
<1>3. MixKnown'
  BY <1>0, <1>1, <1>2
  DEF MixKnown, AllKnown, Unknown, Confirmed, Sane, Whole, HasForeign, Staged
<1>4. \A s \in Tasks : running'[s] = IF s = t THEN "working" ELSE running[s]
  BY <1>0, <1>1 DEF TypeOK
<1>5. MixHeld'
  <2>1. ~AllKnown => pending /\ \A s \in Tasks : running[s] # "off" => TargetsOf(s) # {}
    BY <1>1 DEF SourceInv, MixHeld, AllKnown
  <2>2. \A s \in Tasks : running'[s] # "off" => running[s] # "off"
    BY <1>1, <1>4
  <2>3. TargetsKept /\ ops' \in Seq(Rows)
    BY <1>0, <1>1, SameRows DEF UpdateInv, TypeOK
  <2> QED
    BY <1>1, <2>1, <2>2, <2>3, HeldStays DEF SourceInv
<1>6. \A s \in Tasks : UnderReview(s)'
  <2>1. ASSUME NEW s \in Tasks PROVE UnderReview(s)'
    <3>1. LatestKept(s) /\ (running'[s] = "reviewing" => running[s] = "reviewing")
      BY <1>0, <1>1, <1>4, SameRows
    <3> QED
      BY <1>1, <3>1, ReviewStays DEF SourceInv
  <2> QED
    BY <2>1
<1>7. WritesAlone' /\ RowsMatter' /\ LockAttended'
  BY <1>0, <1>1, <1>4 DEF WritesAlone, RowsMatter, Matters, LockAttended, SourceInv
<1> QED
  BY <1>3, <1>5, <1>6, <1>7 DEF SourceInv

\* A process ends; a file may be half written if an update is unfinished.
LEMMA EndMix ==
  ASSUME SourceInv, UpdateInv', EndProcess, UNCHANGED <<cand, activation, use, ops>>,
         AllKnown => code' = code
  PROVE  SourceInv'
<1>0. MixKnown /\ MixHeld /\ RowsMatter /\ UpdateInv
  BY DEF SourceInv
<1>1. MixKnown'
  BY <1>0 DEF MixKnown, AllKnown, Unknown, Confirmed, Sane, Whole, HasForeign, Staged
<1>2. MixHeld'
  <2>1. TargetsKept /\ ops' \in Seq(Rows)
    BY <1>0, SameRows DEF UpdateInv, TypeOK
  <2> QED
    BY <1>0, <2>1, HeldStays DEF EndProcess
<1>3. \A t \in Tasks : UnderReview(t)'
  BY DEF EndProcess, UnderReview
<1>4. WritesAlone' /\ RowsMatter' /\ LockAttended'
  BY <1>0 DEF EndProcess, WritesAlone, RowsMatter, Matters, LockAttended
<1> QED
  BY <1>1, <1>2, <1>3, <1>4 DEF SourceInv

\* A task changes its phase.
LEMMA TaskMix ==
  ASSUME SourceInv, UpdateInv', NEW t \in Tasks, TaskStep(t)
  PROVE  SourceInv'
<1> USE DEF diskVars, updateVars, processVars
<1>0. /\ TypeOK /\ RowsMatter /\ MixHeld
      /\ ops' = ops => TargetsKept /\ RowsMatter' /\ \A s \in Tasks : LatestKept(s)
  BY SameRows DEF SourceInv, UpdateInv
<1>1. ASSUME UNCHANGED <<code, cand, activation, use, ops, up, pending, job>>, up,
             job = None \/ job.kind = "verify",
             running[t] \notin {"off", "verifying"},
             NEW phase \in {"off", "working"}, running' = [running EXCEPT ![t] = phase]
      PROVE  SourceInv'
  BY <1>0, <1>1, TaskQuiet
<1>2. CASE StartTask(t)
  <2>1. AllKnown \/ TargetsOf(t) # {}
    <3>1. AllKnown \/ pending
      BY <1>0, <1>2 DEF StartTask, InProcess, AllKnown, MixHeld
    <3> QED
      BY <1>2, <3>1 DEF StartTask
  <2>2. /\ UNCHANGED <<code, cand, activation, use, ops, up, pending, job>> /\ up
        /\ job = None \/ job.kind = "verify"
        /\ running[t] = "off" /\ running' = [running EXCEPT ![t] = "resuming"]
    BY <1>2 DEF StartTask, InProcess, Run
  <2> QED
    BY <1>0, <2>1, <2>2, TaskQuiet
<1>3. CASE RecoverRows(t)
  BY <1>3, RecoverMix
<1>4. CASE RecoverRefused(t) \/ RestartRefused(t) \/ LeaveTask(t)
  <2>1. running[t] \notin {"off", "verifying"} /\ running' = [running EXCEPT ![t] = "off"]
    BY <1>4 DEF RecoverRefused, RestartRefused, LeaveTask, Run
  <2>2. /\ UNCHANGED <<code, cand, activation, use, ops, up, pending, job>> /\ up
        /\ job = None \/ job.kind = "verify"
    BY <1>4 DEF RecoverRefused, RestartRefused, LeaveTask, InProcess
  <2> QED
    BY <1>1, <2>1, <2>2
<1>5. CASE NothingToRestart(t)
  BY <1>1, <1>5 DEF NothingToRestart, InProcess, Run
<1>6. CASE RestartDone(t)
  BY <1>6, RestartMix
<1>7. CASE HandOver(t)
  BY <1>7, EndMix DEF HandOver
<1>8. CASE EndUse(t)
  BY <1>8, RecordMix
<1>9. CASE Withdraw(t)
  <2>1. /\ UNCHANGED <<code, cand, activation, use, up, pending, job>> /\ up
        /\ job = None \/ job.kind = "verify"
        /\ running[t] = "reviewing"
    BY <1>9 DEF Withdraw, InProcess
  <2>2. CASE job = None
    <3>1. PICK i \in DOMAIN ops : ops[i].task = t /\ Observe(t, i)
      BY <1>9, <2>2 DEF Withdraw, IsLatest
    <3>2. /\ TargetsKept /\ RowsMatter' /\ \A s \in Tasks : s # t => LatestKept(s)
          /\ \E phase \in {"off", "working"} : running' = [running EXCEPT ![t] = phase]
      BY <3>1, Observed
    <3> QED
      BY <2>1, <2>2, <3>2, TaskQuiet
  <2>3. CASE job # None
    BY <1>1, <1>9, <2>1, <2>3 DEF Withdraw, Run
  <2> QED
    BY <2>2, <2>3
<1> QED
  BY <1>2, <1>3, <1>4, <1>5, <1>6, <1>7, <1>8, <1>9 DEF TaskStep

\* An operation starts on a tree that is sane.
LEMMA UseMix ==
  ASSUME SourceInv, UpdateInv', NEW t \in Tasks, NEW u \in Uses, BeginUse(t, u)
  PROVE  SourceInv'
<1> USE DEF diskVars, updateVars, processVars
<1>0. TypeOK /\ MixKnown /\ RowsMatter
  BY DEF SourceInv, UpdateInv
<1>1. /\ UNCHANGED <<code, cand, activation, ops, up, pending, job>> /\ up
      /\ job = None \/ job.kind = "verify"
      /\ running[t] = "working" /\ loaded = code
      /\ \A s \in Tasks : running'[s] = IF s = t THEN "using" ELSE running[s]
  BY <1>0 DEF BeginUse, InProcess, Run, TypeOK
<1>2. AllKnown
  BY NothingOpen DEF BeginUse, InProcess
<1>3. use'[u].ran = loaded /\ \A v \in Uses : v # u => use'[v] = use[v]
  BY <1>0 DEF BeginUse, TypeOK
<1>4. MixKnown'
  BY <1>0, <1>1, <1>2, <1>3
  DEF MixKnown, AllKnown, Unknown, Confirmed, Sane, Whole, HasForeign, Staged
<1>5. MixHeld' /\ \A s \in Tasks : UnderReview(s)'
  BY <1>0, <1>1, <1>2 DEF AllKnown, MixHeld, UnderReview, Unknown, Confirmed, IsLatest,
     Unresolved, SourceInv
<1>6. WritesAlone' /\ RowsMatter'
  BY <1>0, <1>1 DEF WritesAlone, RowsMatter, Matters
<1>7. LockAttended'
  <2>1. LockAttended /\ job' = job /\ up'
    BY <1>1 DEF SourceInv
  <2>2. job # None => job.task \in Tasks
    BY <1>0 DEF TypeOK, Jobs
  <2> QED
    BY <1>1, <2>1, <2>2 DEF LockAttended
<1> QED
  BY <1>4, <1>5, <1>6, <1>7 DEF SourceInv

\* What happens around the harness.
LEMMA OtherMix ==
  ASSUME SourceInv, UpdateInv',
         \/ \E c \in Candidates : BoxEnds(c)
         \/ \E p \in Paths : Edit(p)
         \/ Crash \/ Boot \/ Enroll
  PROVE  SourceInv'
<1> USE DEF diskVars, updateVars, processVars
<1>0. /\ TypeOK /\ MixKnown /\ RowsMatter /\ MixHeld /\ WritesAlone /\ LockAttended
      /\ \A t \in Tasks : UnderReview(t)
  BY DEF SourceInv, UpdateInv
<1>1. ASSUME UNCHANGED <<cand, activation, use, ops, up, pending, running, job>>,
             code' = code \/ HasForeign(code)'
      PROVE  SourceInv'
  <2>1. MixKnown'
    BY <1>0, <1>1
    DEF MixKnown, AllKnown, Unknown, Confirmed, Sane, Whole, HasForeign, Staged
  <2>2. MixHeld'
    BY <1>0, <1>1 DEF MixHeld, Claimed, Unknown, Confirmed, RecoveryTargets, IsTarget,
       Unresolved, TargetsOf
  <2>3. \A t \in Tasks : UnderReview(t)'
    BY <1>0, <1>1 DEF UnderReview, Unknown, Confirmed, IsLatest, Unresolved
  <2>4. WritesAlone' /\ RowsMatter' /\ LockAttended'
    BY <1>0, <1>1 DEF WritesAlone, RowsMatter, Matters, LockAttended, Unknown, Confirmed,
       IsLatest, Unresolved, Staged
  <2> QED
    BY <2>1, <2>2, <2>3, <2>4 DEF SourceInv
<1>2. CASE \E c \in Candidates : BoxEnds(c)
  BY <1>1, <1>2 DEF BoxEnds
<1>3. CASE Enroll
  BY <1>1, <1>3 DEF Enroll
<1>4. ASSUME NEW p \in Paths, Edit(p) PROVE SourceInv'
  <2>1. code'[p] = Foreign
    BY <1>0, <1>4 DEF Edit, TypeOK, Manifests, Files
  <2> QED
    BY <1>1, <1>4, <2>1 DEF Edit, HasForeign
<1>5. CASE Crash
  <2>1. AllKnown => code' = code
    <3> SUFFICES ASSUME job # None, job.kind # "verify", job.seen # None PROVE ~AllKnown
      BY <1>5 DEF Crash
    <3>1. job.cand \in Candidates /\ job.next \in Nat
      BY <1>0 DEF TypeOK, Jobs
    <3>2. job.next <= Len(Changes[job.cand]) + 1
      <4>1. UpdateInv
        BY DEF SourceInv
      <4>2. Todo
        BY <4>1 DEF UpdateInv, LookedAt
      <4>3. Len(Changes[job.cand]) \in Nat
        BY <3>1, SelfUpdateAssumption
      <4> QED
        BY <3>1, <4>2, <4>3 DEF Todo
    <3> QED
      BY <1>0, <3>1, <3>2 DEF WritesAlone, AllKnown
  <2> QED
    BY <1>5, <2>1, EndMix DEF Crash
<1>6. CASE Boot
  <2>1. /\ UNCHANGED <<code, cand, activation, use, ops, running, job>>
        /\ job = None /\ \A t \in Tasks : running[t] = "off"
        /\ pending' = (RecoveryTargets # {})
    BY <1>0, <1>6 DEF Boot, LockAttended
  <2>2. MixKnown'
    BY <1>0, <2>1, KnownStays
  <2>3. MixHeld'
    <3>1. ~AllKnown => pending'
      BY <1>0, <2>1 DEF AllKnown, MixHeld, Claimed
    <3>2. TargetsKept /\ ops' \in Seq(Rows)
      BY <1>0, <2>1, SameRows DEF TypeOK
    <3> QED
      BY <2>1, <3>1, <3>2, HeldStays DEF SourceInv
  <2>4. \A t \in Tasks : UnderReview(t)'
    BY <2>1 DEF UnderReview
  <2>5. WritesAlone' /\ RowsMatter' /\ LockAttended'
    BY <1>0, <2>1 DEF WritesAlone, RowsMatter, Matters, LockAttended
  <2> QED
    BY <2>2, <2>3, <2>4, <2>5 DEF SourceInv
<1> QED
  BY <1>2, <1>3, <1>4, <1>5, <1>6

\* A refusal before the first write keeps others out while an update is unfinished.
LEMMA RefuseMix ==
  ASSUME SourceInv, UpdateInv', NEW t \in Tasks, Refuse(t)
  PROVE  SourceInv'
<1> USE DEF diskVars, updateVars, processVars
<1>0. TypeOK /\ \A s \in Tasks : UnderReview(s)
  BY DEF SourceInv, UpdateInv
<1>1. PICK i \in DOMAIN ops :
        /\ \E kind \in {"apply", "rollback"} : Approved(t, kind, i)
        /\ Observe(t, i)
        /\ pending' = ~( /\ ~Unknown(ops[i].cand) /\ verification'[ops[i].cand] # "unknown"
                         /\ code = cand[ops[i].cand].before )
  BY DEF Refuse
<1>2. IsLatest(t, i) /\ ops[i].task = t /\ running[t] = "reviewing" /\ up /\ job = None
  BY <1>1 DEF Approved, IsLatest, InProcess
<1>3. AllKnown \/ pending'
  BY <1>0, <1>1, <1>2 DEF AllKnown, UnderReview
<1>4. /\ TargetsKept /\ RowsMatter' /\ \A s \in Tasks : s # t => LatestKept(s)
      /\ \E phase \in {"off", "working"} : running' = [running EXCEPT ![t] = phase]
  BY <1>1, <1>2, Observed
<1>5. UNCHANGED <<code, cand, activation, use, up, job>>
  BY DEF Refuse
<1> QED
  BY <1>2, <1>3, <1>4, <1>5, TaskQuiet

\* The same activation again.
LEMMA ReuseMix ==
  ASSUME SourceInv, UpdateInv', NEW t \in Tasks, ReuseActivation(t)
  PROVE  SourceInv'
<1> USE DEF diskVars, updateVars, processVars
<1>1. PICK i \in DOMAIN ops : /\ Approved(t, "apply", i) /\ Reused(ops[i].cand)
                              /\ ops' = Set(ops, i, "succeeded")
  BY DEF ReuseActivation
<1>2. /\ ops[i].task = t /\ ops[i].kind = "apply" /\ running[t] = "reviewing" /\ up
      /\ job = None
  BY <1>1 DEF Approved, IsLatest, InProcess
<1>3. i \notin RecoveryTargets
  BY <1>1 DEF RecoveryTargets, IsTarget, Reused, Unknown, Confirmed
<1>4. TargetsKept /\ RowsMatter' /\ \A s \in Tasks : s # t => LatestKept(s)
  BY <1>1, <1>2, <1>3, ResultGiven DEF SourceInv
<1>5. /\ UNCHANGED <<code, cand, activation, use, up, job>> /\ pending'
      /\ running' = [running EXCEPT ![t] = "restarting"]
  BY DEF ReuseActivation, Run
<1> QED
  BY <1>2, <1>4, <1>5, TaskQuiet

\* The intent of an activation or a rollback is saved, and who writes works alone.
LEMMA BeginMix ==
  ASSUME SourceInv, UpdateInv', NEW t \in Tasks, Activate(t) \/ RollBack(t)
  PROVE  SourceInv'
<1> USE DEF diskVars, updateVars, processVars
<1>0. /\ TypeOK /\ MixKnown /\ MixHeld /\ RowsMatter /\ \A s \in Tasks : UnderReview(s)
      /\ \A c \in Candidates : Proven(c)
  BY DEF SourceInv, UpdateInv
<1>1. PICK i \in DOMAIN ops, kind \in {"activate", "rollback"} :
        /\ IsLatest(t, i) /\ Idle(t) /\ running[t] = "reviewing" /\ up
        /\ verification[ops[i].cand] = "succeeded"
        /\ \E row : /\ activation' = [activation EXCEPT ![ops[i].cand] = row]
                     /\ row # None /\ row.status \in {"activating", "rolling_back"}
        /\ job' = [kind |-> kind, task |-> t, cand |-> ops[i].cand, next |-> 1,
                    seen |-> None]
  <2>1. CASE Activate(t)
    <3>1. PICK i \in DOMAIN ops :
            /\ Approved(t, "apply", i) /\ MayActivate(ops[i].cand)
            /\ activation' = [activation EXCEPT ![ops[i].cand] =
                 [kind |-> "activation", status |-> "activating", by |-> pid, undoneBy |-> 0]]
            /\ job' = [kind |-> "activate", task |-> t, cand |-> ops[i].cand, next |-> 1,
                    seen |-> None]
      BY <2>1 DEF Activate
    <3> DEFINE row == [kind |-> "activation", status |-> "activating", by |-> pid, undoneBy |-> 0]
    <3>2. row # None /\ row.status = "activating"
      BY DEF None
    <3>3. activation' = [activation EXCEPT ![ops[i].cand] = row]
      BY <3>1
    <3> HIDE DEF row
    <3> QED
      BY <3>1, <3>2, <3>3 DEF Approved, InProcess, MayActivate
  <2>2. CASE RollBack(t)
    <3>1. PICK i \in DOMAIN ops :
            /\ Approved(t, "rollback", i) /\ MayRollBack(ops[i].cand)
            /\ activation' = [activation EXCEPT ![ops[i].cand].status = "rolling_back",
                                                ![ops[i].cand].undoneBy = pid]
            /\ job' = [kind |-> "rollback", task |-> t, cand |-> ops[i].cand, next |-> 1,
                    seen |-> None]
      BY <2>2 DEF RollBack
    <3> DEFINE c == ops[i].cand
               row == [activation[c] EXCEPT !.status = "rolling_back", !.undoneBy = pid]
    <3>2. c \in Candidates /\ activation[c] # None /\ activation[c] \in Activations
      BY <1>0, <3>1, RowParts DEF TypeOK, MayRollBack
    <3>3. row # None /\ row.status = "rolling_back"
      BY <3>2 DEF Activations, None
    <3>4. activation' = [activation EXCEPT ![c] = row]
      BY <1>0, <3>1, <3>2 DEF TypeOK
    <3>5. verification[c] = "succeeded"
      BY <1>0, <3>2 DEF Proven
    <3> HIDE DEF row
    <3> QED
      BY <3>1, <3>3, <3>4, <3>5 DEF Approved, InProcess
  <2> QED
    BY <2>1, <2>2
<1> DEFINE c == ops[i].cand
<1>2. c \in Candidates /\ ops[i].task = t
  BY <1>0, <1>1, RowParts DEF TypeOK, IsLatest
<1>3. /\ ops[i].kind # "verify" /\ ops[i].result # "succeeded"
      /\ \A d \in Candidates : Unknown(d) => d = c
  BY <1>0, <1>1 DEF UnderReview, Unresolved
<1>4. /\ UNCHANGED <<code, cand, use, ops, up>> /\ pending'
      /\ \A s \in Tasks : running'[s] = IF s = t THEN "applying" ELSE "off"
  <2>1. UNCHANGED <<code, cand, use, ops, up>> /\ pending' /\ Run(t, "applying")
    BY DEF Activate, RollBack
  <2> QED
    BY <1>0, <1>1, <2>1 DEF Run, Idle, TypeOK
<1>5. /\ activation'[c] # None /\ activation'[c].status \in {"activating", "rolling_back"}
      /\ \A d \in Candidates : d # c => activation'[d] = activation[d]
  BY <1>0, <1>1, <1>2 DEF TypeOK
<1> HIDE DEF c
<1>6. \A d \in Candidates : Unknown(d)' <=> d = c
  BY <1>1, <1>2, <1>3, <1>5 DEF Unknown, Confirmed
<1>7. MixKnown'
  BY <1>0, <1>2, <1>4, <1>6 DEF MixKnown, AllKnown, Sane, Whole, HasForeign, Staged
<1>8. i \in RecoveryTargets' /\ i \in TargetsOf(t)'
  BY <1>1, <1>2, <1>3, <1>4, <1>5 DEF RecoveryTargets, IsTarget, Unresolved, TargetsOf,
     Unknown, Confirmed, c
<1>9. MixHeld'
  <2>1. TargetsOf(t)' # {} /\ \A s \in Tasks : running'[s] # "off" => s = t
    BY <1>4, <1>8
  <2>2. ASSUME NEW d \in Candidates, Unknown(d)' PROVE Claimed(d)' /\ d = c
    BY <1>4, <1>6, <1>8, <2>2 DEF Claimed, c
  <2> QED
    BY <1>4, <2>1, <2>2 DEF MixHeld
<1>10. \A s \in Tasks : UnderReview(s)'
  BY <1>4 DEF UnderReview
<1>11. WritesAlone'
  <2>1. cand'[c] # None /\ job'.cand = c /\ job'.task = t /\ job'.next = 1
    BY <1>0, <1>1, <1>2, <1>4 DEF Proven, Staged, c
  <2>2. 1 <= Len(Changes[c]) + 1
    BY <1>2, SelfUpdateAssumption
  <2>3. ASSUME NEW j \in DOMAIN ops', IsLatest(t, j)'
        PROVE  ops'[j].kind # "verify" /\ ops'[j].result # "succeeded" /\ ops'[j].cand = c
    <3>1. j <= i /\ i <= j /\ j \in Nat /\ i \in Nat
      BY <1>0, <1>1, <1>2, <1>4, <2>3 DEF IsLatest, TypeOK
    <3> QED
      BY <1>3, <1>4, <3>1 DEF c
  <2>4. \A j \in DOMAIN ops' : IsLatest(job.task, j)' =>
          ops'[j].kind # "verify" /\ ops'[j].result # "succeeded" /\ ops'[j].cand = job'.cand
    BY <2>1, <2>3 DEF IsLatest
  <2>5. /\ \A d \in Candidates : Unknown(d)' => d = job'.cand
        /\ Unknown(job.cand)'
    BY <1>2, <1>6, <2>1 DEF Unknown, Confirmed
  <2>6. Staged(job.cand)' /\ job'.next <= Len(Changes[job'.cand]) + 1
    BY <2>1, <2>2 DEF Staged
  <2>7. \A s \in Tasks : running'[s] = IF s = job'.task THEN "applying" ELSE "off"
    BY <1>4, <2>1
  <2> QED
    BY <1>4, <2>4, <2>5, <2>6, <2>7 DEF WritesAlone, Unresolved
<1>12. RowsMatter' /\ LockAttended'
  BY <1>0, <1>1, <1>4 DEF RowsMatter, Matters, LockAttended
<1> QED
  BY <1>7, <1>9, <1>10, <1>11, <1>12 DEF SourceInv

\* Files are written, one at a time.
LEMMA WriteMix ==
  ASSUME SourceInv, UpdateInv', NEW t \in Tasks,
         WriteNew(t) \/ WriteOld(t) \/ PassOver(t)
  PROVE  SourceInv'
<1> USE DEF diskVars, updateVars, processVars
<1>0. /\ TypeOK /\ MixKnown /\ MixHeld /\ RowsMatter /\ WritesAlone /\ LockAttended
      /\ \A s \in Tasks : UnderReview(s)
  BY DEF SourceInv, UpdateInv
<1>1. /\ job # None /\ job.kind # "verify" /\ job.next <= Len(Changes[job.cand])
      /\ job' = [job EXCEPT !.next = @ + 1, !.seen = None]
      /\ UNCHANGED <<cand, activation, use, ops, up, pending, running>>
  BY DEF WriteNew, WriteOld, PassOver, Writing, Todo, Advance
<1>2. job.cand \in Candidates /\ job.next \in Nat /\ Len(Changes[job.cand]) \in Nat
  BY <1>0, <1>1, SelfUpdateAssumption DEF TypeOK, Jobs
<1>3. /\ job' # None /\ job'.kind = job.kind /\ job'.task = job.task /\ job'.cand = job.cand
      /\ job'.next = job.next + 1
  BY <1>0, <1>1 DEF TypeOK, Jobs, None
<1>4. Unknown(job.cand)
  BY <1>0, <1>1, <1>2 DEF WritesAlone
<1>5. MixKnown'
  BY <1>0, <1>1, <1>2, <1>4
  DEF MixKnown, AllKnown, Unknown, Confirmed, Sane, Whole, HasForeign, Staged
<1>6. MixHeld' /\ \A s \in Tasks : UnderReview(s)'
  BY <1>0, <1>1 DEF MixHeld, Claimed, Unknown, Confirmed, RecoveryTargets, IsTarget,
     Unresolved, TargetsOf, UnderReview, IsLatest
<1>7. WritesAlone'
  <2>1. job'.next <= Len(Changes[job'.cand]) + 1 /\ Unknown(job.cand)'
    BY <1>1, <1>2, <1>3, <1>4 DEF Unknown, Confirmed
  <2> QED
    BY <1>0, <1>1, <1>3, <2>1 DEF WritesAlone, Unknown, Confirmed, IsLatest, Unresolved, Staged
<1>8. RowsMatter' /\ LockAttended'
  BY <1>0, <1>1, <1>3 DEF RowsMatter, Matters, LockAttended
<1> QED
  BY <1>5, <1>6, <1>7, <1>8 DEF SourceInv

\* Once the tree has been read back no update is unfinished, and the tree is sane.
LEMMA ConfirmMix ==
  ASSUME SourceInv, UpdateInv', NEW t \in Tasks, Confirm(t)
  PROVE  SourceInv'
<1> USE DEF diskVars, updateVars, processVars
<1>0. /\ TypeOK /\ MixKnown /\ RowsMatter /\ WritesAlone /\ LockAttended
  BY DEF SourceInv, UpdateInv
<1>1. /\ job # None /\ job.kind # "verify" /\ job.next = Len(Changes[job.cand]) + 1
      /\ job' = [job EXCEPT !.next = @ + 1, !.seen = None] /\ job.task = t
      /\ UNCHANGED <<code, cand, use, ops, up, pending, running>>
  BY DEF Confirm, Writing, Advance
<1>2. job.cand \in Candidates /\ job.next \in Nat /\ Len(Changes[job.cand]) \in Nat
  BY <1>0, <1>1, SelfUpdateAssumption DEF TypeOK, Jobs
<1>3. /\ job' # None /\ job'.kind = job.kind /\ job'.task = job.task /\ job'.cand = job.cand
      /\ job'.next = job.next + 1
  BY <1>0, <1>1 DEF TypeOK, Jobs, None
<1>4. /\ Staged(job.cand) /\ pending
      /\ \A s \in Tasks : running[s] = IF s = t THEN "applying" ELSE "off"
      /\ \A d \in Candidates : Unknown(d) => d = job.cand
      /\ \A i \in DOMAIN ops : IsLatest(t, i) =>
           ops[i].kind # "verify" /\ Unresolved(i) /\ ops[i].cand = job.cand
  BY <1>0, <1>1 DEF WritesAlone
<1>5. PICK status \in {"activated", "rolled_back"} :
        /\ activation' = [activation EXCEPT ![job.cand].status = status]
        /\ code = cand[job.cand].after \/ code = cand[job.cand].before
  BY DEF Confirm
<1>6. /\ activation'[job.cand] # None => activation'[job.cand].status = status
      /\ \A d \in Candidates : d # job.cand => activation'[d] = activation[d]
  <2>1. activation[job.cand] \in Activations
    BY <1>0, <1>2 DEF TypeOK
  <2>2. Unknown(job.cand)
    BY <1>0, <1>1, <1>2 DEF WritesAlone
  <2>3. activation'[job.cand] = [activation[job.cand] EXCEPT !.status = status]
    BY <1>0, <1>2, <1>5 DEF TypeOK
  <2>4. activation'[job.cand].status = status
    BY <2>1, <2>2, <2>3 DEF Activations, Unknown
  <2> QED
    BY <1>0, <1>5, <2>4 DEF TypeOK
<1>7. \A d \in Candidates : ~Unknown(d)'
  BY <1>4, <1>5, <1>6 DEF Unknown, Confirmed
<1>8. Sane(code)
  BY <1>0, <1>2, <1>4, <1>5 DEF Sane, Whole, MixKnown
<1>9. MixKnown'
  BY <1>0, <1>1, <1>8 DEF MixKnown, Sane, Whole, HasForeign, Staged
<1>10. MixHeld' /\ \A s \in Tasks : UnderReview(s)'
  BY <1>1, <1>4, <1>7 DEF MixHeld, UnderReview
<1>11. WritesAlone'
  <2>1. ~(job'.next <= Len(Changes[job'.cand]) + 1) /\ ~Unknown(job.cand)'
    BY <1>1, <1>2, <1>3, <1>7 DEF Unknown, Confirmed
  <2>2. \A i \in DOMAIN ops' : IsLatest(job.task, i)' =>
          ops'[i].kind # "verify" /\ Unresolved(i)' /\ ops'[i].cand = job'.cand
    BY <1>1, <1>3, <1>4 DEF IsLatest, Unresolved
  <2>3. /\ \A s \in Tasks : running'[s] = IF s = job'.task THEN "applying" ELSE "off"
        /\ Staged(job.cand)' /\ pending'
    BY <1>1, <1>3, <1>4 DEF Staged
  <2> QED
    BY <1>7, <2>1, <2>2, <2>3 DEF WritesAlone
<1>12. RowsMatter' /\ LockAttended'
  BY <1>0, <1>1, <1>3 DEF RowsMatter, Matters, LockAttended
<1> QED
  BY <1>9, <1>10, <1>11, <1>12 DEF SourceInv

\* A look at a file, and the pointer, leave the rows and who runs as they are.
LEMMA LookMix ==
  ASSUME SourceInv, UpdateInv', NEW t \in Tasks, LookNew(t) \/ LookOld(t) \/ Publish(t)
  PROVE  SourceInv'
<1> USE DEF diskVars, updateVars, processVars
<1>0. /\ TypeOK /\ MixKnown /\ MixHeld /\ RowsMatter /\ WritesAlone /\ LockAttended
      /\ \A s \in Tasks : UnderReview(s)
  BY DEF SourceInv, UpdateInv
<1>1. /\ job # None /\ job.kind # "verify"
      /\ UNCHANGED <<code, cand, activation, use, ops, up, pending, running>>
  BY DEF LookNew, LookOld, Publish, Writing
<1>2. job.cand \in Candidates /\ job.next \in Nat /\ Len(Changes[job.cand]) \in Nat
  BY <1>0, <1>1, SelfUpdateAssumption DEF TypeOK, Jobs
<1>3. /\ job' # None /\ job'.kind = job.kind /\ job'.task = job.task /\ job'.cand = job.cand
      /\ \/ job'.next = job.next
         \/ job.next = Len(Changes[job.cand]) + 2 /\ job'.next = job.next + 1
  BY <1>0, <1>1 DEF LookNew, LookOld, See, Publish, Advance, TypeOK, Jobs, None
<1>4. job'.next <= Len(Changes[job.cand]) + 1 <=> job.next <= Len(Changes[job.cand]) + 1
  BY <1>2, <1>3
<1>5. MixKnown'
  BY <1>0, <1>1, KnownStays
<1>6. MixHeld' /\ \A s \in Tasks : UnderReview(s)'
  BY <1>0, <1>1 DEF MixHeld, Claimed, Unknown, Confirmed, RecoveryTargets, IsTarget,
     Unresolved, TargetsOf, UnderReview, IsLatest
<1>7. WritesAlone'
  BY <1>0, <1>1, <1>3, <1>4 DEF WritesAlone, Unknown, Confirmed, IsLatest, Unresolved, Staged
<1>8. RowsMatter' /\ LockAttended'
  BY <1>0, <1>1, <1>3 DEF RowsMatter, Matters, LockAttended
<1> QED
  BY <1>5, <1>6, <1>7, <1>8 DEF SourceInv

\* The results are saved when no update is unfinished.
LEMMA SaveMix ==
  ASSUME SourceInv, UpdateInv', NEW t \in Tasks, SaveResult(t)
  PROVE  SourceInv'
<1> USE DEF diskVars, updateVars, processVars
<1>0. /\ TypeOK /\ MixKnown /\ RowsMatter /\ WritesAlone /\ LockAttended /\ ops \in Seq(Rows)
  BY DEF SourceInv, UpdateInv, TypeOK
<1>1. /\ job # None /\ job.kind # "verify" /\ job.next = Len(Changes[job.cand]) + 3
      /\ job' = None /\ job.task = t /\ up
      /\ UNCHANGED <<code, cand, activation, use, up, pending>> /\ Run(t, "restarting")
  BY DEF SaveResult, Writing
<1>2. job.cand \in Candidates /\ Len(Changes[job.cand]) \in Nat
  BY <1>0, <1>1, SelfUpdateAssumption DEF TypeOK, Jobs
<1>3. \A d \in Candidates : ~Unknown(d)
  BY <1>0, <1>1, <1>2 DEF WritesAlone
<1>4. \A s \in Tasks : running'[s] = IF s = t THEN "restarting" ELSE "off"
  BY <1>0, <1>1 DEF WritesAlone, Run, TypeOK
<1>5. RowsMatter'
  <2> DEFINE Settled(i) ==
               IF IsLatest(t, i) THEN "succeeded"
               ELSE IF /\ job.kind = "rollback" /\ i \in Open(t)
                       /\ ops[i].kind # "verify" /\ ops[i].cand = job.cand
                    THEN Outcome(ops[i].kind, job.cand, verification[job.cand])
                    ELSE ops[i].result
             result == [i \in DOMAIN ops |-> Settled(i)]
             rows == [i \in DOMAIN ops |-> [ops[i] EXCEPT !.result = result[i]]]
  <2>1. ops' = Kept(rows)
    <3>1. ops' = Kept([i \in DOMAIN ops |-> [ops[i] EXCEPT !.result = Settled(i)]])
      BY DEF SaveResult
    <3> HIDE DEF Settled
    <3>2. [i \in DOMAIN ops |-> [ops[i] EXCEPT !.result = Settled(i)]] = rows
      OBVIOUS
    <3> QED
      BY <3>1, <3>2
  <2>2. \A i \in DOMAIN ops : result[i] \in {"none", "unknown", "succeeded", "failed"}
    BY <1>0, RowParts, OutcomeTypes
  <2>3. DOMAIN result = DOMAIN ops
    OBVIOUS
  <2> HIDE DEF result
  <2>4. Given(rows, result)
    BY <2>2, <2>3 DEF Given
  <2> HIDE DEF rows
  <2>5. rows \in Seq(AnyRows)
    BY <1>0, <2>4, SeveralChanged
  <2>6. \A j \in DOMAIN Kept(rows) : Matters(Kept(rows)[j])
    BY <2>5, KeptMatter
  <2> QED
    BY <2>1, <2>6 DEF RowsMatter, Matters
<1>6. MixKnown'
  BY <1>0, <1>1, KnownStays
<1>7. MixHeld' /\ \A s \in Tasks : UnderReview(s)'
  BY <1>1, <1>3, <1>4 DEF MixHeld, UnderReview, Unknown, Confirmed
<1>8. WritesAlone' /\ LockAttended'
  BY <1>1 DEF WritesAlone, LockAttended
<1> QED
  BY <1>5, <1>6, <1>7, <1>8 DEF SourceInv

\* An interruption leaves the update unfinished and its row unresolved.
LEMMA BreakMix ==
  ASSUME SourceInv, UpdateInv', NEW t \in Tasks, BreakOff(t)
  PROVE  SourceInv'
<1> USE DEF diskVars, updateVars, processVars
<1>0. /\ TypeOK /\ MixKnown /\ RowsMatter /\ WritesAlone /\ LockAttended /\ UpdateInv
      /\ LockedFor
  BY DEF SourceInv, UpdateInv
<1>1. /\ job # None /\ job.kind # "verify" /\ job.task = t /\ up
      /\ job' = None /\ UNCHANGED <<code, cand, use, up, pending>>
  BY DEF BreakOff, Writing
<1>2. job.cand \in Candidates
  BY <1>0, <1>1 DEF TypeOK, Jobs
<1>3. /\ pending /\ \A s \in Tasks : running[s] = IF s = t THEN "applying" ELSE "off"
      /\ \A d \in Candidates : Unknown(d) => d = job.cand
      /\ \A i \in DOMAIN ops : IsLatest(t, i) =>
           ops[i].kind # "verify" /\ Unresolved(i) /\ ops[i].cand = job.cand
  BY <1>0, <1>1 DEF WritesAlone
<1>4. PICK status \in {"interrupted", "rollback_interrupted"} :
        activation' = [activation EXCEPT ![job.cand].status = status]
  BY DEF BreakOff
<1>5. /\ activation'[job.cand] # None /\ activation'[job.cand].status = status
      /\ \A d \in Candidates : d # job.cand => activation'[d] = activation[d]
  <2>1. activation[job.cand] \in Activations /\ activation[job.cand] # None
    BY <1>0, <1>1, <1>2 DEF TypeOK, LockedFor
  <2>2. activation'[job.cand] = [activation[job.cand] EXCEPT !.status = status]
    BY <1>0, <1>2, <1>4 DEF TypeOK
  <2>3. activation'[job.cand] # None /\ activation'[job.cand].status = status
    BY <2>1, <2>2 DEF Activations, None
  <2> QED
    BY <1>0, <1>4, <2>3 DEF TypeOK
<1>6. \A d \in Candidates : Unknown(d)' <=> d = job.cand
  BY <1>2, <1>3, <1>4, <1>5 DEF Unknown, Confirmed
<1>7. PICK i \in DOMAIN ops : IsLatest(t, i) /\ ops' = Set(ops, i, "unknown")
  BY DEF BreakOff, IsLatest
<1>8. /\ ops[i].kind # "verify" /\ ops[i].cand = job.cand /\ ops[i].task = t
  BY <1>3, <1>7 DEF IsLatest
<1>9. RowsMatter'
  BY <1>0, <1>7, <1>8, ResultGiven
<1>10. i \in DOMAIN ops' /\ SameUpdate(ops'[i], ops[i]) /\ ops'[i].result = "unknown"
  <2>1. ops \in Seq(Rows) /\ Len(ops) <= MaxRows
    BY <1>0 DEF TypeOK
  <2>2. /\ ops' \in Seq(AnyRows) /\ Len(ops') = Len(ops)
        /\ SameUpdate(ops'[i], ops[i]) /\ ops'[i].result = "unknown"
    BY <1>7, <2>1, OneChanged
  <2> QED
    BY <2>1, <2>2
<1>11. i \in RecoveryTargets' /\ i \in TargetsOf(t)' /\ ops'[i].cand = job.cand
  BY <1>4, <1>5, <1>8, <1>10 DEF SameUpdate, RecoveryTargets, IsTarget, Unresolved, TargetsOf,
     Unknown, Confirmed
<1>12. \A s \in Tasks : running'[s] \in {"working", "off"} /\ (running'[s] # "off" => s = t)
  BY <1>0, <1>3 DEF BreakOff, Run, TypeOK
<1>13. MixKnown'
  BY <1>0, <1>1, <1>2, <1>6 DEF MixKnown, AllKnown, Sane, Whole, HasForeign, Staged
<1>14. MixHeld'
  <2>1. TargetsOf(t)' # {}
    BY <1>11
  <2>2. ASSUME NEW d \in Candidates, Unknown(d)' PROVE Claimed(d)' /\ d = job.cand
    BY <1>6, <1>11, <2>2 DEF Claimed
  <2> QED
    BY <1>1, <1>3, <1>12, <2>1, <2>2 DEF MixHeld
<1>15. \A s \in Tasks : UnderReview(s)'
  BY <1>12 DEF UnderReview
<1>16. WritesAlone' /\ LockAttended'
  BY <1>1 DEF WritesAlone, LockAttended
<1> QED
  BY <1>9, <1>13, <1>14, <1>15, <1>16 DEF SourceInv

\* The steps of an update.
LEMMA UpdateMix ==
  ASSUME SourceInv, UpdateInv', NEW t \in Tasks, UpdateStep(t)
  PROVE  SourceInv'
BY BeginMix, ReuseMix, RefuseMix, WriteMix, LookMix, ConfirmMix, SaveMix, BreakMix
   DEF UpdateStep

\* The stronger invariant: at most one update is unfinished, its row is kept, only
\* tasks that are to settle it run, and whoever writes the tree works alone.
THEOREM SourceInvariant == Spec => []SourceInv
<1>1. SourceInv /\ UpdateInv' /\ [Next]_vars => SourceInv'
  <2> SUFFICES ASSUME SourceInv, UpdateInv', [Next]_vars PROVE SourceInv'
    OBVIOUS
  <2>1. CASE UNCHANGED vars
    BY <2>1 DEF SourceInv, MixKnown, AllKnown, Sane, Whole, HasForeign, Staged, Unknown,
       Confirmed, MixHeld, Claimed, RecoveryTargets, IsTarget, Unresolved, TargetsOf,
       UnderReview, IsLatest, WritesAlone, RowsMatter, Matters, LockAttended, vars, diskVars,
       updateVars, processVars
  <2>2. CASE Next
    BY <2>2, TaskMix, UpdateMix, CandidateMix, UseMix, OtherMix DEF Next
  <2> QED
    BY <2>1, <2>2
<1> QED
  BY <1>1, SourceInit, UpdateInvariant, PTL DEF Spec

\* A tree that is part old and part new is on record as unfinished, and no
\* ordinary operation runs on one (practical_engine.py: start_task, run_task,
\* before_execution; updates.py: activate, rollback).
THEOREM MixesAreKnown == Spec => []MixSound
<1>1. SourceInv => MixSound
  <2> SUFFICES ASSUME SourceInv PROVE MixIsOnRecord /\ MixNeverServes
    BY DEF MixSound
  <2>1. MixKnown
    BY DEF SourceInv
  <2> QED
    BY <2>1 DEF MixKnown, AllKnown, Sane, HasForeign, MixIsOnRecord, MixNeverServes
<1> QED
  BY <1>1, SourceInvariant, PTL

===============================================================================
