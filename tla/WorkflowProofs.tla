---------------------------- MODULE WorkflowProofs ----------------------------
(***************************************************************************)
(* Proofs about the components of Workflow that a task goes through: its   *)
(* entry (Entry), the cycles of its operations (Review) and what is made   *)
(* of an attachment (Attachment); the last theorem is about Workflow, and  *)
(* follows from them because a behaviour stays in its scene.               *)
(*                                                                         *)
(* Each part proves an inductive invariant (EntryInv, ReviewInv and        *)
(* PreparationInv) that holds the promise and what the handlers rely on.   *)
(* The variables of a component live in the places a to m of Workflow, so  *)
(* no bound name is one of these letters.                                  *)
(***************************************************************************)
EXTENDS Workflow, Sequences, TLAPS

W == INSTANCE WellFoundedInduction

-------------------------------------------------------------------------------
(* TaskEntry: a submission becomes a task once, and acts as its user allows. *)
(*                                                                         *)
(* a task         b claimed   c request   d starts   e approval            *)
(* f allowed      g engine    h op        i count    j act     k crashes   *)

\* The bounds are numbers.
LEMMA EntryBounds ==
  /\ MaxSources \in Nat /\ MaxRevisions \in Nat /\ EntryOps \in Nat /\ MaxCrashes \in Nat
  /\ MaxSources > 0 /\ MaxRevisions > 0
  BY WorkflowAssumption

\* What the handlers write of a task is a task.
LEMMA EntryTasks ==
  ASSUME NEW t \in Entry!Tasks
  PROVE  /\ \A s \in {"none", "created", "running", "awaiting_user", "held", "stopped",
                      "source_update_required", "recovery_required"} :
              [t EXCEPT !.status = s] \in Entry!Tasks
         /\ [t EXCEPT !.runtime = TRUE] \in Entry!Tasks
         /\ t.revision < MaxRevisions =>
              \A s \in Entry!Modes :
                [t EXCEPT !.mode = s, !.revision = @ + 1] \in Entry!Tasks
         /\ t.source < MaxSources =>
              [t EXCEPT !.source = @ + 1, !.status = "source_update_required"] \in Entry!Tasks
<1> USE EntryBounds DEF Entry!Tasks
<1>1. t.revision \in 0 .. MaxRevisions /\ t.source \in 1 .. MaxSources
  OBVIOUS
<1>2. t.revision < MaxRevisions => t.revision + 1 \in 0 .. MaxRevisions
  BY <1>1
<1>3. t.source < MaxSources => t.source + 1 \in 1 .. MaxSources
  BY <1>1
<1> QED
  BY <1>2, <1>3

\* So is a new one.
LEMMA EntryNewTask ==
  /\ Entry!NoTask \in Entry!Tasks
  /\ \A p \in Payloads :
       /\ [Entry!NoTask EXCEPT !.status = "created", !.payload = p] \in Entry!Tasks
       /\ [Entry!NoTask EXCEPT !.status = "created", !.payload = p, !.mode = "ask",
                               !.revision = 1] \in Entry!Tasks
<1>1. 1 \in 1 .. MaxSources /\ 0 \in 0 .. MaxRevisions /\ 1 \in 0 .. MaxRevisions
  BY EntryBounds
<1> QED
  BY <1>1 DEF Entry!NoTask, Entry!Tasks, Entry!Modes

\* What the run writes of an operation is one.
LEMMA EntryOperations ==
  /\ Entry!NoOp \in Entry!Operations
  /\ \A t \in Entry!Tools, s \in 1 .. MaxSources :
       [Entry!NoOp EXCEPT !.tool = t, !.status = "asked", !.source = s] \in Entry!Operations
  /\ \A o \in Entry!Operations :
       /\ [o EXCEPT !.status = "executing"] \in Entry!Operations
       /\ \A x \in BOOLEAN : [o EXCEPT !.status = "proposed", !.full = x] \in Entry!Operations
<1>1. 0 \in 0 .. MaxSources /\ 1 .. MaxSources \subseteq 0 .. MaxSources
  BY EntryBounds
<1> QED
  BY <1>1 DEF Entry!NoOp, Entry!Operations, Entry!Tools

\* The request of an open operation can be asked.
LEMMA EntryThis ==
  ASSUME Entry!EntryTypes, i < EntryOps
  PROVE  /\ Entry!This \in Entry!Bindings
         /\ Entry!Asked => e' \in [Entry!Bindings -> Entry!Answers]
                           /\ e' = [e EXCEPT ![Entry!This] = "awaiting_user"]
<1>1. i + 1 \in 1 .. EntryOps
  BY EntryBounds DEF Entry!EntryTypes
<1>2. Entry!This \in Entry!Bindings
  BY <1>1 DEF Entry!This, Entry!Binding, Entry!Bindings, Entry!EntryTypes, Entry!Tasks
<1> QED
  BY <1>2 DEF Entry!Asked, Entry!EntryTypes, Entry!Answers

\* Which handlers write what.
LEMMA EntryWrites ==
  ASSUME Entry!Next
  PROVE  /\ \/ UNCHANGED <<b, c, d>>
            \/ \E p \in Payloads : Entry!CreateTask(p)
            \/ Entry!ClaimStart \/ Entry!Dispatch \/ Entry!Crash
         /\ \/ UNCHANGED <<e, f>>
            \/ Entry!Perform \/ Entry!ExecuteSaved \/ Entry!Prepared \/ Entry!Act
            \/ \E o \in Entry!Bindings, x \in {"approved", "rejected"} : Entry!Resolve(o, x)
         /\ \/ UNCHANGED <<h, i>>
            \/ \E t \in Entry!Tools : Entry!Answer(t)
            \/ Entry!Perform \/ Entry!ExecuteSaved \/ Entry!Prepared \/ Entry!Act
            \/ Entry!Stop \/ Entry!Message \/ Entry!Crash
         /\ j' = j \/ Entry!Act
         /\ k' = k \/ (k < MaxCrashes /\ k' = k + 1)
<1>1. CASE (\E p \in Payloads : Entry!CreateTask(p)) \/ Entry!ClaimStart \/ Entry!Dispatch
  BY <1>1 DEF Entry!CreateTask, Entry!ClaimStart, Entry!Dispatch
<1>2. CASE Entry!Begin \/ \E t \in Entry!Tools : Entry!Answer(t)
  BY <1>2 DEF Entry!Begin, Entry!Answer
<1>3. CASE Entry!Perform \/ Entry!ExecuteSaved \/ Entry!Prepared \/ Entry!Act
  BY <1>3 DEF Entry!Perform, Entry!ExecuteSaved, Entry!Prepared, Entry!Act
<1>4. CASE \E s \in Entry!Modes : Entry!SetAccess(s) \/ Entry!SetAccessDies(s)
  BY <1>4 DEF Entry!SetAccess, Entry!SetAccessDies
<1>5. CASE \E o \in Entry!Bindings, x \in {"approved", "rejected"} : Entry!Resolve(o, x)
  BY <1>5 DEF Entry!Resolve
<1>6. CASE Entry!Stop \/ Entry!Message \/ Entry!Resume \/ Entry!Crash
  BY <1>6 DEF Entry!Stop, Entry!Message, Entry!Resume, Entry!Crash
<1> QED
  BY <1>1, <1>2, <1>3, <1>4, <1>5, <1>6 DEF Entry!Next

\* What the steps of an operation, a request and a user keep of the types.
LEMMA EntryStepTypes ==
  ASSUME Entry!EntryInv, Entry!Next
  PROVE  Entry!EntryTypes'
<1> USE DEF Entry!EntryInv, Entry!EntryTypes
<1>1. \A s : Entry!Tasks = Entry!Tasks /\ a \in Entry!Tasks /\ h \in Entry!Operations
  OBVIOUS
<1>2. a.source \in 1 .. MaxSources /\ (a.mode = "full") \in BOOLEAN
  BY DEF Entry!Tasks
<1>3. i < EntryOps => i + 1 \in 0 .. EntryOps
  BY EntryBounds
<1>4. k < MaxCrashes => k + 1 \in 0 .. MaxCrashes
  BY EntryBounds
<1>5. a' \in Entry!Tasks
  <2>1. ASSUME NEW p \in Payloads, Entry!CreateTask(p) PROVE a' \in Entry!Tasks
    BY <2>1, EntryNewTask DEF Entry!CreateTask
  <2>2. CASE Entry!ClaimStart \/ Entry!Dispatch \/ Entry!Begin \/ \E t \in Entry!Tools :
               Entry!Answer(t)
    BY <2>2, EntryTasks DEF Entry!ClaimStart, Entry!Dispatch, Entry!Begin, Entry!Answer,
       Entry!Scheduled
  <2>3. CASE Entry!Perform \/ Entry!ExecuteSaved \/ Entry!Prepared \/ Entry!Act
    BY <2>3, EntryTasks DEF Entry!Perform, Entry!ExecuteSaved, Entry!Prepared, Entry!Act,
       Entry!Await
  <2>4. ASSUME NEW s \in Entry!Modes, Entry!SetAccess(s) \/
                 Entry!SetAccessDies(s) PROVE a' \in Entry!Tasks
    BY <2>4, EntryTasks DEF Entry!SetAccess, Entry!SetAccessDies
  <2>5. ASSUME NEW o \in Entry!Bindings, NEW x \in {"approved", "rejected"}, Entry!Resolve(o, x)
        PROVE a' \in Entry!Tasks
    BY <2>5 DEF Entry!Resolve
  <2>6. CASE Entry!Stop \/ Entry!Message \/ Entry!Resume \/ Entry!Crash
    BY <2>6, EntryTasks DEF Entry!Stop, Entry!Message, Entry!Resume, Entry!Crash, Entry!Scheduled
  <2> QED
    BY <2>1, <2>2, <2>3, <2>4, <2>5, <2>6 DEF Entry!Next
<1>6. b' \in BOOLEAN /\ d' \in 0 .. 1
  <2>1. CASE Entry!Dispatch
    BY <2>1 DEF Entry!ClaimedFirst, Entry!Dispatch
  <2>2. CASE ~Entry!Dispatch
    BY <2>2, EntryWrites DEF Entry!CreateTask, Entry!ClaimStart, Entry!Crash
  <2> QED
    BY <2>1, <2>2
<1>7. e' \in [Entry!Bindings -> Entry!Answers]
  <2>1. CASE Entry!Perform \/ Entry!ExecuteSaved \/ Entry!Prepared \/ Entry!Act
    BY <2>1, EntryThis DEF Entry!Perform, Entry!ExecuteSaved, Entry!Prepared, Entry!Act,
       Entry!OperationOpen
  <2>2. ASSUME NEW o \in Entry!Bindings, NEW x \in {"approved", "rejected"}, Entry!Resolve(o, x)
        PROVE e' \in [Entry!Bindings -> Entry!Answers]
    BY <2>2 DEF Entry!Resolve, Entry!Answers
  <2> QED
    BY <2>1, <2>2, EntryWrites
<1>8. h' \in Entry!Operations /\ i' \in 0 .. EntryOps
  <2>1. ASSUME NEW t \in Entry!Tools, Entry!Answer(t)
        PROVE  h' \in Entry!Operations /\ i' \in 0 .. EntryOps
    BY <1>2, <2>1, EntryOperations DEF Entry!Answer
  <2>2. ASSUME Entry!Finished, h.status # "none"
        PROVE  h' \in Entry!Operations /\ i' \in 0 .. EntryOps
    BY <1>3, <2>2, EntryOperations DEF Entry!Finished, Entry!OperationOpen
  <2>3. CASE Entry!Perform \/ Entry!ExecuteSaved \/ Entry!Prepared \/ Entry!Act
    BY <1>2, <2>2, <2>3, EntryOperations DEF Entry!Perform, Entry!ExecuteSaved, Entry!Prepared,
       Entry!Act, Entry!OperationOpen
  <2>4. CASE Entry!Stop \/ Entry!Message \/ Entry!Crash
    BY <2>2, <2>4 DEF Entry!Stop, Entry!Message, Entry!Crash, Entry!Interrupted
  <2> QED
    BY <2>1, <2>3, <2>4, EntryWrites
<1>9. k' \in 0 .. MaxCrashes
  BY <1>4, EntryWrites
<1> QED
  BY <1>5, <1>6, <1>7, <1>8, <1>9

\* The rest of what the handlers rely on, and the promises.
LEMMA EntryStep ==
  ASSUME Entry!EntryInv, Entry!Next
  PROVE  Entry!EntryInv'
<1> USE DEF Entry!EntryInv, Entry!EntrySound
<1>1. Entry!EntryTypes'
  BY EntryStepTypes
<1>2. Entry!ClaimedFirst' /\ Entry!StartedOnce'
  <2>1. CASE Entry!Dispatch
    BY <2>1 DEF Entry!ClaimedFirst, Entry!StartedOnce, Entry!Dispatch, Entry!EntryTypes
  <2>2. CASE Entry!ClaimStart
    BY <2>2 DEF Entry!ClaimedFirst, Entry!StartedOnce, Entry!ClaimStart, Entry!EntryTypes,
       Entry!Unclaimed
  <2>3. CASE UNCHANGED <<b, d>> /\ c' # "claimed"
    BY <2>3 DEF Entry!ClaimedFirst, Entry!StartedOnce
  <2>4. CASE UNCHANGED <<b, c, d>>
    BY <2>4 DEF Entry!ClaimedFirst, Entry!StartedOnce
  <2> QED
    BY <2>1, <2>2, <2>3, <2>4, EntryWrites DEF Entry!CreateTask, Entry!Crash
<1>3. Entry!ApprovedByUser'
  <2>1. CASE Entry!Perform \/ Entry!ExecuteSaved \/ Entry!Prepared \/ Entry!Act
    BY <2>1, EntryThis DEF Entry!Perform, Entry!ExecuteSaved, Entry!Prepared, Entry!Act,
       Entry!OperationOpen, Entry!ApprovedByUser, Entry!EntryTypes
  <2>2. ASSUME NEW o \in Entry!Bindings, NEW x \in {"approved", "rejected"}, Entry!Resolve(o, x)
        PROVE  Entry!ApprovedByUser'
    <3>1. /\ o.source = a.source /\ o.revision = a.revision
          /\ e' = [e EXCEPT ![o] = x]
          /\ f \subseteq f'
          /\ x = "approved" => <<a.source, a.revision, o.op>> \in f'
      BY <2>2 DEF Entry!Resolve, Entry!Binding
    <3> QED
      BY <2>2, <3>1 DEF Entry!ApprovedByUser, Entry!EntryTypes
  <2> QED
    BY <2>1, <2>2, EntryWrites DEF Entry!ApprovedByUser
<1>4. Entry!OperationOpen'
  <2>1. ASSUME NEW t \in Entry!Tools, Entry!Answer(t)
        PROVE  Entry!OperationOpen'
    BY <2>1 DEF Entry!Answer, Entry!OperationOpen
  <2>2. ASSUME Entry!Finished
        PROVE  h'.status = "none"
    BY <2>2 DEF Entry!Finished, Entry!NoOp
  <2>3. h.status # "executing" => g \notin {"prepare", "execute"}
    BY DEF Entry!OperationOpen
  <2>4. CASE Entry!Perform \/ Entry!ExecuteSaved
    BY <2>2, <2>4 DEF Entry!Perform, Entry!ExecuteSaved, Entry!OperationOpen, Entry!Await,
       Entry!EntryTypes, Entry!Operations
  <2>5. CASE Entry!Prepared \/ Entry!Act
    BY <2>2, <2>5 DEF Entry!Prepared, Entry!Act, Entry!OperationOpen
  <2>6. CASE Entry!Stop \/ Entry!Message \/ Entry!Crash
    BY <2>2, <2>6 DEF Entry!Stop, Entry!Message, Entry!Crash, Entry!Interrupted,
       Entry!OperationOpen
  <2>7. ASSUME UNCHANGED <<h, i>>
        PROVE  g' = g \/ g' \notin {"prepare", "execute"} \/ Entry!ExecuteSaved \/ Entry!Prepared
               \/ Entry!Perform
    BY DEF Entry!Next, Entry!CreateTask, Entry!ClaimStart, Entry!Dispatch, Entry!Begin,
     Entry!Answer, Entry!Act, Entry!Scheduled, Entry!Start, 
     Entry!SetAccess, Entry!SetAccessDies, Entry!Resolve, Entry!Stop, Entry!Message,
     Entry!Resume, Entry!Crash
  <2> QED
    BY <2>1, <2>4, <2>5, <2>6, <2>7, EntryWrites DEF Entry!OperationOpen
<1>5. Entry!ActedWithConsent'
  <2>1. CASE Entry!Act /\ Entry!BeforeStart
    <3>1. j' = [tool |-> h.tool, mode |-> a.mode, full |-> h.full,
                     allowed |-> <<a.source, a.revision, i + 1>> \in f]
      BY <2>1 DEF Entry!Act
    <3>2. a.mode = "ask" /\ h.tool # "read" => <<a.source, a.revision, i + 1>> \in f
      <4>1. i < EntryOps
        BY <2>1 DEF Entry!Act, Entry!OperationOpen
      <4>2. /\ Entry!This \in Entry!Bindings
            /\ Entry!This = [source |-> a.source, revision |-> a.revision, op |-> i + 1]
            /\ e[Entry!This] \in Entry!Answers
        BY <4>1, EntryThis DEF Entry!This, Entry!Binding, Entry!EntryTypes
      <4>3. a.mode = "ask" /\ h.tool # "read" => e[Entry!This] = "approved"
        BY <2>1, <4>2 DEF Entry!BeforeStart, Entry!Passes, Entry!Refused, Entry!Waits,
           Entry!Asks, Entry!Answers
      <4> QED
        BY <4>2, <4>3 DEF Entry!ApprovedByUser
    <3>3. /\ h.tool \in Entry!WriteTools => a.mode # "read_only"
          /\ h.tool = "command" => a.mode = "full"
          /\ h.full = (a.mode = "full")
      BY <2>1 DEF Entry!BeforeStart, Entry!Unmoved, Entry!Passes, Entry!Refused, Entry!Forbidden
    <3> QED
      BY <3>1, <3>2, <3>3 DEF Entry!ActedWithConsent
  <2>2. CASE Entry!Act /\ ~Entry!BeforeStart
    BY <2>2 DEF Entry!Act, Entry!ActedWithConsent
  <2> QED
    BY <2>1, <2>2, EntryWrites DEF Entry!ActedWithConsent
<1>6. Entry!AskedIsAnswerable'
  <2> SUFFICES ASSUME a'.status = "awaiting_user", g' = "idle", k' = 0
               PROVE  (e[Entry!This] = "awaiting_user")'
    BY DEF Entry!AskedIsAnswerable, Entry!Running
  <2>1. k = 0 /\ k' = k
    BY EntryWrites DEF Entry!EntryTypes
  <2>2. CASE Entry!Perform \/ Entry!ExecuteSaved
    <3>1. i < EntryOps /\ Entry!Asked /\ UNCHANGED i /\ Entry!Await
      <4>1. ~(Entry!Perform /\ UNCHANGED <<a, e, g>>)
        BY DEF Entry!Perform
      <4>2. CASE Entry!Perform
        BY <2>2, <4>1, <4>2 DEF Entry!Perform, Entry!OperationOpen
      <4>3. CASE Entry!ExecuteSaved
        BY <4>3 DEF Entry!ExecuteSaved, Entry!OperationOpen, Entry!EntryTypes, Entry!Tasks
      <4> QED
        BY <2>2, <4>2, <4>3
    <3>2. a'.source = a.source /\ a'.revision = a.revision
      BY <3>1 DEF Entry!Await, Entry!EntryTypes, Entry!Tasks
    <3> QED
      BY <3>1, <3>2, EntryThis DEF Entry!This, Entry!Binding, Entry!EntryTypes
  <2>3. CASE \/ \E p \in Payloads : Entry!CreateTask(p)
             \/ Entry!ClaimStart \/ Entry!Dispatch
    <3>1. a' = a /\ g' = g /\ e' = e /\ i' = i
      <4>1. CASE \E p \in Payloads : Entry!CreateTask(p)
        BY <4>1 DEF Entry!CreateTask, Entry!NoTask
      <4>2. CASE Entry!ClaimStart
        BY <4>2 DEF Entry!ClaimStart, Entry!EntryTypes, Entry!Tasks
      <4>3. CASE Entry!Dispatch
        BY <4>3 DEF Entry!Dispatch, Entry!Scheduled, Entry!EntryTypes, Entry!Tasks
      <4> QED
        BY <2>3, <4>1, <4>2, <4>3
    <3> QED
      BY <2>1, <3>1 DEF Entry!AskedIsAnswerable, Entry!This, Entry!Binding, Entry!Running
  <2>4. CASE Entry!Begin \/ \E t \in Entry!Tools : Entry!Answer(t)
    BY <2>4 DEF Entry!Begin, Entry!Answer
  <2>5. CASE Entry!Prepared \/ Entry!Act
    BY <2>5 DEF Entry!Prepared, Entry!Act
  <2>6. CASE \E s \in Entry!Modes : Entry!SetAccess(s) \/ Entry!SetAccessDies(s)
    <3>1. \A s \in Entry!Modes : [a EXCEPT !.mode = s, !.revision = @ + 1].status = a.status
      BY DEF Entry!EntryTypes, Entry!Tasks
    <3>2. PICK s \in Entry!Modes : Entry!SetAccess(s)
      BY <2>1, <2>6 DEF Entry!SetAccessDies
    <3>3. a.status = "awaiting_user" /\ Entry!Start
      BY <3>1, <3>2 DEF Entry!SetAccess
    <3> QED
      BY <3>3 DEF Entry!Start, Entry!Running
  <2>7. CASE \E o \in Entry!Bindings, x \in {"approved", "rejected"} : Entry!Resolve(o, x)
    BY <2>7 DEF Entry!Resolve, Entry!Start, Entry!Running
  <2>8. CASE Entry!Stop \/ Entry!Message \/ Entry!Resume \/ Entry!Crash
    BY <2>1, <2>8 DEF Entry!Stop, Entry!Message, Entry!Resume, Entry!Crash, Entry!Scheduled,
       Entry!EntryTypes, Entry!Tasks
  <2> QED
    BY <2>2, <2>3, <2>4, <2>5, <2>6, <2>7, <2>8 DEF Entry!Next
<1> QED
  BY <1>1, <1>2, <1>3, <1>4, <1>5, <1>6

\* Nothing was submitted yet.
LEMMA EntryBegins ==
  ASSUME Entry!Init
  PROVE  Entry!EntryInv
<1>1. Entry!EntryTypes
  <2>1. e \in [Entry!Bindings -> Entry!Answers]
    BY DEF Entry!Init, Entry!Answers
  <2>2. 0 \in 0 .. 1 /\ 0 \in 0 .. EntryOps /\ 0 \in 0 .. MaxCrashes
    BY EntryBounds
  <2>3. a \in Entry!Tasks /\ h \in Entry!Operations
    BY EntryNewTask, EntryOperations DEF Entry!Init
  <2> QED
    BY <2>1, <2>2, <2>3 DEF Entry!Init, Entry!EntryTypes
<1>2. /\ Entry!ClaimedFirst /\ Entry!ApprovedByUser /\ Entry!OperationOpen
      /\ Entry!StartedOnce
  BY DEF Entry!Init, Entry!ClaimedFirst, Entry!ApprovedByUser, Entry!OperationOpen,
     Entry!StartedOnce, Entry!NoOp
<1>3. Entry!ActedWithConsent /\ Entry!AskedIsAnswerable
  BY DEF Entry!Init, Entry!ActedWithConsent, Entry!AskedIsAnswerable, Entry!NoAct,
     Entry!NoTask, Entry!WriteTools
<1> QED
  BY <1>1, <1>2, <1>3 DEF Entry!EntryInv, Entry!EntrySound

\* A step, or none, keeps what the handlers rely on.
LEMMA EntryHolds ==
  ASSUME Entry!EntryInv, [Entry!Next]_(Entry!vars)
  PROVE  Entry!EntryInv'
<1>1. CASE Entry!Next
  BY <1>1, EntryStep
<1>2. CASE UNCHANGED Entry!vars
  BY <1>2 DEF Entry!vars, Entry!EntryInv, Entry!EntryTypes, Entry!ClaimedFirst,
     Entry!ApprovedByUser,
     Entry!OperationOpen, Entry!EntrySound, Entry!StartedOnce, Entry!ActedWithConsent,
     Entry!AskedIsAnswerable, Entry!Running, Entry!This, Entry!Binding
<1> QED
  BY <1>1, <1>2

\* Every behaviour of a submission and its operations keeps what the handlers
\* rely on, and so what it promises.
THEOREM EntryKeepsPromises == Entry!Spec => []Entry!EntryInv
<1>1. Entry!Init => Entry!EntryInv
  BY EntryBegins
<1>2. Entry!EntryInv /\ [Entry!Next]_(Entry!vars) => Entry!EntryInv'
  BY EntryHolds
<1> QED
  BY <1>1, <1>2, PTL DEF Entry!Spec

-------------------------------------------------------------------------------
(* ReviewedTask: a result is used once it was reviewed, for what was asked. *)
(*                                                                         *)
(* a task   b op   c policy   d pc   e stopping   f entered   g crashes    *)

\* A set of numbers that is not empty has a least one.
LEMMA LeastNumber ==
  ASSUME NEW T, T \subseteq Nat, T # {}
  PROVE  \E x \in T : \A y \in T : ~(y < x)
<1> DEFINE R == W!OpToRel(<, Nat)
<1>1. W!IsWellFoundedOn(R, Nat)
  BY W!NatLessThanWellFounded
<1>2. \A x, y \in Nat : x < y => <<x, y>> \in R
  BY DEF W!OpToRel
<1> HIDE DEF R
<1>3. PICK x \in T : \A y \in T : <<y, x>> \notin R
  BY <1>1, W!WFMin
<1> QED
  BY <1>2, <1>3

\* The bounds are numbers, and there is at least one of each.
LEMMA ReviewBounds ==
  /\ ReviewOps \in Nat \ {0} /\ MaxSources \in Nat \ {0} /\ MaxPolicies \in Nat \ {0}
  /\ 1 \in 1 .. MaxSources /\ 1 \in 1 .. MaxPolicies /\ 0 \in 0 .. MaxSources
  /\ 0 \in 0 .. MaxPolicies /\ 1 .. MaxSources \subseteq 0 .. MaxSources
  /\ 1 .. MaxPolicies \subseteq 0 .. MaxPolicies
  BY WorkflowAssumption

\* No operation is 0, and the empty record is a record.
LEMMA ReviewNumbers ==
  /\ Review!NoOp = 0 /\ Review!NoOp \notin Review!Ops /\ Review!Ops \subseteq Nat
  /\ Review!NoRecord \in Review!Records
  BY ReviewBounds DEF Review!NoOp, Review!Ops, Review!NoRecord, Review!Records,
     Review!Statuses, Review!Kinds, Review!Results

\* The new operation has a number of its own.
LEMMA ReviewNew ==
  ASSUME Review!Absent # {}
  PROVE  Review!NewOp \in Review!Ops /\ b[Review!NewOp].st = "absent"
<1>1. Review!Absent \subseteq Nat /\ Review!Absent \subseteq Review!Ops
  BY ReviewNumbers DEF Review!Absent
<1>2. PICK x \in Review!Absent : \A y \in Review!Absent : ~(y < x)
  BY <1>1, LeastNumber
<1>3. \A y \in Review!Absent : x <= y
  BY <1>1, <1>2
<1>4. Review!NewOp \in Review!Absent
  BY <1>3 DEF Review!NewOp
<1> QED
  BY <1>4 DEF Review!Absent

\* There is no gap to preserve unless the coroutine is acting.
LEMMA ReviewGaps ==
  ASSUME Review!ReviewInv, d # "acting"
  PROVE  Review!PreserveStartedResultGaps(b) = b
<1>1. b \in [Review!Ops -> Review!Records]
  BY DEF Review!ReviewInv, Review!TaskSound, Review!TypeOK
<1>2. \A o \in Review!Ops : b[o].st # "executing"
  BY DEF Review!ReviewInv, Review!RecordSound, Review!Started
<1> QED
  BY <1>1, <1>2 DEF Review!PreserveStartedResultGaps

\* What the stages write of a task is a task.
LEMMA ReviewTasks ==
  ASSUME NEW t \in Review!Tasks
  PROVE  /\ \A s \in {"running", "stopped", "attention_required", "recovery_required"} :
              /\ Review!With(t, s) \in Review!Tasks
              /\ Review!Interrupted(t, s) \in Review!Tasks
         /\ \A x \in Review!Ops \cup {Review!NoOp} : [t EXCEPT !.cur = x] \in Review!Tasks
         /\ \A x \in BOOLEAN : [t EXCEPT !.plan = x] \in Review!Tasks
         /\ \A x \in 1 .. MaxPolicies : [t EXCEPT !.policy = x] \in Review!Tasks
         /\ [t EXCEPT !.plan = TRUE, !.pending = FALSE] \in Review!Tasks
         /\ [t EXCEPT !.status = "completed", !.final = t.source] \in Review!Tasks
         /\ \A x \in Review!Ops : Review!Popped(t, x) \in Review!Tasks
         /\ t.source < MaxSources =>
              [t EXCEPT !.source = @ + 1, !.pending = TRUE, !.status = "source_update_required"]
                \in Review!Tasks
         /\ \A x \in Review!Ops \cup {Review!NoOp} :
              [t EXCEPT !.plan = FALSE, !.final = 0, !.status = "source_update_required",
                        !.cur = x] \in Review!Tasks
         /\ \A x \in Review!Ops \cup {Review!NoOp} :
              [t EXCEPT !.plan = FALSE, !.cur = x] \in Review!Tasks
<1>1. t.source \in 1 .. MaxSources /\ t.source \in 0 .. MaxSources /\ 0 \in 0 .. MaxSources
  BY ReviewBounds DEF Review!Tasks
<1>2. t.source < MaxSources => t.source + 1 \in 1 .. MaxSources
  BY <1>1, ReviewBounds
<1> QED
  BY <1>1, <1>2 DEF Review!Tasks, Review!With, Review!Interrupted, Review!Popped

\* What the cycle writes of an operation is a record.
LEMMA ReviewRecords ==
  ASSUME NEW r \in [Review!Ops -> Review!Records], NEW o \in Review!Ops
  PROVE  /\ \A s \in Review!Statuses : [r EXCEPT ![o].st = s] \in [Review!Ops -> Review!Records]
         /\ \A s \in Review!Statuses, x \in Review!Results, y \in Review!Results :
              [r EXCEPT ![o].st = s, ![o].result = x, ![o].seen = y]
                \in [Review!Ops -> Review!Records]
         /\ \A s \in Review!Statuses, x \in Review!Results :
              [r EXCEPT ![o].st = s, ![o].result = x] \in [Review!Ops -> Review!Records]
         /\ \A x \in 0 .. MaxPolicies : [r EXCEPT ![o].draft = x] \in [Review!Ops -> Review!Records]
         /\ \A k0 \in Review!Kinds, s \in 1 .. MaxSources, p \in 1 .. MaxPolicies,
               x \in Review!Ops \cup {Review!NoOp} :
              [r EXCEPT ![o] = [Review!NoRecord EXCEPT !.st = "proposed", !.kind = k0, !.source = s,
                                                     !.policy = p, !.target = x]]
                \in [Review!Ops -> Review!Records]
<1>1. r[o] \in Review!Records
  OBVIOUS
<1>2. \A s \in Review!Statuses : [r[o] EXCEPT !.st = s] \in Review!Records
  BY <1>1 DEF Review!Records
<1>3. \A s \in Review!Statuses, x \in Review!Results, y \in Review!Results :
         [r[o] EXCEPT !.st = s, !.result = x, !.seen = y] \in Review!Records
  BY <1>1 DEF Review!Records
<1>4. \A s \in Review!Statuses, x \in Review!Results :
         [r[o] EXCEPT !.st = s, !.result = x] \in Review!Records
  BY <1>1 DEF Review!Records
<1>5. \A x \in 0 .. MaxPolicies : [r[o] EXCEPT !.draft = x] \in Review!Records
  BY <1>1 DEF Review!Records
<1>6. \A k0 \in Review!Kinds, s \in 1 .. MaxSources, p \in 1 .. MaxPolicies,
               x \in Review!Ops \cup {Review!NoOp} :
         [Review!NoRecord EXCEPT !.st = "proposed", !.kind = k0, !.source = s,
                                 !.policy = p, !.target = x] \in Review!Records
  <2>1. "proposed" \in Review!Statuses
    BY DEF Review!Statuses
  <2> QED
    BY <2>1, ReviewNumbers, ReviewBounds DEF Review!Records
<1> QED
  BY <1>2, <1>3, <1>4, <1>5, <1>6

\* An operation that was not started is put aside, sent back or reviewed.
ReviewDropped(o, s) ==
  /\ Review!Unstarted(b[o])
  /\ b'[o] = [b[o] EXCEPT !.st = s]

\* An operation is proposed for the policy and the sources of now.
ReviewProposed(o, x, y) ==
  /\ b[o].st = "absent" /\ o = a'.cur
  /\ b'[o] = [Review!NoRecord EXCEPT !.st = "proposed", !.kind = x, !.source = a.source,
                                     !.policy = c, !.target = y]
  /\ x = "adopt_policy" => a.policy # c /\ (y # Review!NoOp => y = a.cur /\
       b[y].kind # "adopt_policy")
  /\ x = "reconcile" => y # Review!NoOp /\ b[y].result = "unknown"
  /\ y # Review!NoOp => b[y].result # "absent"

\* It is permitted once it was reviewed.
ReviewPermitted(o) ==
  /\ o = a.cur /\ d = "lease" /\ d' = "acting" /\ a' = a /\ b[o].st = "reviewed"
  /\ b'[o] = [b[o] EXCEPT !.st = "executing"]

\* Its effect is recorded.
ReviewActed(o, x, y) ==
  /\ o = a.cur /\ d = "acting"
  /\ b'[o] = [b[o] EXCEPT !.st = "result_recorded", !.result = x, !.seen = y]
  /\ x = "confirmed" => f[o] = 1
  /\ y = "confirmed" => b[o].target # Review!NoOp /\ f[b[o].target] = 1
  /\ b[o].kind = "reconcile" /\ x = "none" => y # "absent"

\* It is finished, with the cycle of its own or of an adoption.
ReviewDone(o, s) ==
  /\ o = a.cur \/ (a.cur \in Review!Ops /\ b[a.cur].kind = "adopt_policy")
  /\ b[o].st # "executing" /\ b'[o] = [b[o] EXCEPT !.st = s]

\* A reconciliation says what became of it.
ReviewLearned(o, x) ==
  /\ o # a.cur /\ b[a.cur].kind = "reconcile" /\ a' = a
  /\ b[o].result # "absent" /\ b'[o] = [b[o] EXCEPT !.result = x]
  /\ x = "confirmed" => f[o] = 1

\* What a step may do to an operation.
ReviewMove(o) ==
  \/ b'[o] = b[o]
  \/ \E s \in {"superseded", "revision_required", "reviewed"} : ReviewDropped(o, s)
  \/ \E x \in Review!Kinds, y \in Review!Ops \cup {Review!NoOp} : ReviewProposed(o, x, y)
  \/ ReviewPermitted(o)
  \/ \E x \in {"confirmed", "none", "unknown"}, y \in Review!Results : ReviewActed(o, x, y)
  \/ \E s \in Review!Finished : ReviewDone(o, s)
  \/ \E x \in 0 .. MaxPolicies : b'[o] = [b[o] EXCEPT !.draft = x]
  \/ \E x \in {"confirmed", "none"} : ReviewLearned(o, x)

\* Marking an operation changes its status, and its result where one is given.
LEMMA ReviewMark ==
  ASSUME b \in [Review!Ops -> Review!Records], NEW o \in Review!Ops, a.cur \in Review!Ops,
         NEW s, b' = [b EXCEPT ![a.cur].st = s],
         \/ /\ Review!Unstarted(b[a.cur])
            /\ s \in {"superseded", "revision_required", "reviewed"}
         \/ b[a.cur].st # "executing" /\ s \in Review!Finished
  PROVE  ReviewMove(o)
<1>1. CASE o # a.cur
  BY <1>1 DEF ReviewMove
<1>2. CASE o = a.cur /\ s \in Review!Finished /\ b[o].st # "executing"
  BY <1>2 DEF ReviewMove, ReviewDone
<1>3. CASE o = a.cur /\ s \notin Review!Finished
  <2>1. ReviewDropped(o, s)
    BY <1>3 DEF ReviewDropped
  <2> QED
    BY <2>1, <1>3 DEF ReviewMove
<1>4. CASE o = a.cur /\ b[o].st = "executing"
  BY <1>4 DEF Review!Unstarted
<1> QED
  BY <1>1, <1>2, <1>3, <1>4

\* The revision of an operation that was not started takes its turn away.
LEMMA ReviewRevises ==
  ASSUME b \in [Review!Ops -> Review!Records], NEW o \in Review!Ops, a.cur \in Review!Ops,
         Review!Revise(a.cur)
  PROVE  ReviewMove(o)
<1>1. CASE Review!Unstarted(b[a.cur])
  BY <1>1, ReviewMark DEF Review!Revise, Review!Set
<1>2. CASE ~Review!Unstarted(b[a.cur])
  BY <1>2 DEF Review!Revise, ReviewMove
<1> QED
  BY <1>1, <1>2

\* The facts that every handler starts from.
LEMMA ReviewFacts ==
  ASSUME Review!ReviewInv
  PROVE  /\ b \in [Review!Ops -> Review!Records] /\ a \in Review!Tasks
         /\ f \in [Review!Ops -> 0 .. 1] /\ c \in 1 .. MaxPolicies
         /\ a.cur \in Review!Ops \cup {Review!NoOp} /\ d \in Review!Stages
         /\ d \notin {"off", "loop", "select"} => a.cur \in Review!Ops
         /\ d = "select" => a.cur = Review!NoOp
         /\ d = "acting" => b[a.cur].st = "executing" 
         /\ d = "lease" => b[a.cur].st = "reviewed" 
         /\ \A p \in Review!Ops : Review!RecordSound(p) /\ b[p] \in Review!Records
         /\ \A p \in Review!Ops : b[p].st = "executing" => d = "acting" /\ p = a.cur
         /\ d # "acting" => Review!PreserveStartedResultGaps(b) = b
         /\ a.policy \in 1 .. c /\ a.source \in 1 .. MaxSources
  BY ReviewGaps, ReviewNumbers DEF Review!ReviewInv, Review!TaskSound, Review!TypeOK, Review!Tasks,
     Review!StageSound, Review!Started, Review!Cur, Review!RecordSound, Review!RunSound

\* What the controller may do to an operation when it takes its turn.
LEMMA ReviewTurnMove ==
  ASSUME Review!ReviewInv, Review!Turn, NEW o \in Review!Ops
  PROVE  ReviewMove(o)
<1> DEFINE old == a.cur # Review!NoOp /\ Review!Unstarted(b[a.cur]) /\ b[a.cur].source # a.source /\
      a.pending
           t == Review!SourceBoundary(a, b)[1]
           r == Review!SourceBoundary(a, b)[2]
<1>1. /\ b \in [Review!Ops -> Review!Records] /\ a \in Review!Tasks
      /\ a.cur \in Review!Ops \cup {Review!NoOp} /\ d = "loop"
      /\ \A p \in Review!Ops : b[p].st # "executing"
  BY ReviewFacts DEF Review!Turn
<1>2. /\ r = IF old THEN [b EXCEPT ![a.cur].st = "superseded"] ELSE b
      /\ t.cur = IF old THEN Review!NoOp ELSE a.cur
      /\ t.source = a.source /\ t.policy = a.policy /\ t.status = a.status
  BY <1>1 DEF Review!SourceBoundary, Review!Superseded, Review!Tasks
<1>s. \A p \in Review!Ops, q \in [Review!Ops -> Review!Records] :
         /\ [q EXCEPT ![p].st = "superseded"] \in [Review!Ops -> Review!Records]
         /\ [q EXCEPT ![p].st = "superseded"][p].st = "superseded"
  <2>1. "superseded" \in Review!Statuses
    BY DEF Review!Statuses
  <2>2. ASSUME NEW p \in Review!Ops, NEW q \in [Review!Ops -> Review!Records]
        PROVE  [q EXCEPT ![p].st = "superseded"][p].st = "superseded"
    <3>1. q[p] \in Review!Records
      OBVIOUS
    <3> QED
      BY <3>1 DEF Review!Records
  <2> QED
    BY <2>1, <2>2, ReviewRecords
<1>o. old => a.cur \in Review!Ops
  BY <1>1
<1>3. r \in [Review!Ops -> Review!Records] /\ \A p \in Review!Ops : r[p].st # "executing"
  <2>1. CASE old
    <3> DEFINE q == [b EXCEPT ![a.cur].st = "superseded"]
    <3>1. q \in [Review!Ops -> Review!Records] /\ q[a.cur].st = "superseded"
      BY <2>1, <1>o, <1>1, <1>s
    <3>2. \A p \in Review!Ops : p # a.cur => q[p] = b[p]
      BY <1>1
    <3> QED
      BY <3>1, <3>2, <2>1, <1>1, <1>2
  <2>2. CASE ~old
    BY <2>2, <1>1, <1>2
  <2> QED
    BY <2>1, <2>2
<1> HIDE DEF t, r
<1>4. Review!PreserveStartedResultGaps(r) = r
  BY <1>3 DEF Review!PreserveStartedResultGaps
<1>5. CASE b' = b
  BY <1>5 DEF ReviewMove
<1>6. CASE b' = r
  <2>1. CASE old
    BY <2>1, <1>o, <1>6, <1>1, <1>2, ReviewMark
  <2>2. CASE ~old
    BY <2>2, <1>6, <1>2 DEF ReviewMove
  <2> QED
    BY <2>1, <2>2
<1>7. CASE /\ Review!AdoptCurrentPolicy(t, r) /\ t.policy # c
           /\ ~(t.cur # Review!NoOp /\ r[t.cur].kind = "adopt_policy")
  <2> DEFINE drop == t.cur # Review!NoOp /\ Review!Unstarted(r[t.cur])
             n == Review!NewOp
             q == Review!Superseded(r, t.cur)
  <2>1. n \in Review!Ops /\ b[n].st = "absent"
    BY <1>7, ReviewNew DEF Review!AdoptCurrentPolicy
  <2>2. /\ b' = [q EXCEPT ![n] = [Review!NoRecord EXCEPT !.st = "proposed", !.kind = "adopt_policy",
                    !.source = t.source, !.policy = c,
                      !.target = IF drop THEN Review!NoOp ELSE t.cur]]
        /\ a' = [t EXCEPT !.cur = n]
    BY <1>7 DEF Review!AdoptCurrentPolicy, Review!Propose, q
  <2>3. q = IF drop THEN [r EXCEPT ![t.cur].st = "superseded"] ELSE r
    BY DEF Review!Superseded
  <2> HIDE DEF q
  <2>4. q \in [Review!Ops -> Review!Records] /\ t.cur \in Review!Ops \cup {Review!NoOp}
    <3>1. t.cur \in Review!Ops \cup {Review!NoOp}
      BY <1>1, <1>2
    <3>2. drop => t.cur \in Review!Ops
      BY <3>1
    <3>3. CASE drop
      BY <3>2, <3>3, <2>3, <1>3, <1>s
    <3>4. CASE ~drop
      BY <3>1, <3>4, <2>3, <1>3
    <3> QED
      BY <3>1, <3>3, <3>4
  <2>5. CASE o = n
    <3> DEFINE y == IF drop THEN Review!NoOp ELSE t.cur
    <3>1. a'.cur = n
      BY <2>2, <1>2, <1>1 DEF Review!SourceBoundary, Review!Tasks, t
    <3>2. b'[o] = [Review!NoRecord EXCEPT !.st = "proposed", !.kind = "adopt_policy",
                    !.source = a.source, !.policy = c, !.target = y]
      BY <2>2, <2>4, <2>1, <2>5, <1>2
    <3>3. y # Review!NoOp => y = a.cur /\ y \in Review!Ops /\ b[y].result # "absent"
      BY <1>1, <1>2 DEF Review!Unstarted
    <3>5. y # Review!NoOp => b[y].kind # "adopt_policy"
      BY <3>3, <1>7, <1>1, <1>2
    <3>4. ReviewProposed(o, "adopt_policy", y)
      BY <3>1, <3>2, <3>3, <3>5, <2>1, <2>5, <1>7, <1>2 DEF ReviewProposed
    <3> QED
      BY <3>4, <3>3 DEF ReviewMove, Review!Kinds
  <2>6. CASE o # n
    <3>1. b'[o] = q[o]
      BY <2>2, <2>4, <2>6
    <3>2. q[o] = b[o] \/ (Review!Unstarted(b[o]) /\ q[o] = [b[o] EXCEPT !.st = "superseded"])
      BY <2>3, <1>1, <1>2, <1>3, <2>4 DEF Review!Unstarted
    <3> QED
      BY <3>1, <3>2 DEF ReviewMove, ReviewDropped
  <2> QED
    BY <2>5, <2>6
<1> QED
  BY <1>4, <1>5, <1>6, <1>7 DEF Review!Turn, t, r

\* A selection proposes the operation that it selects.
LEMMA ReviewSelectMove ==
  ASSUME Review!ReviewInv, Review!Select, NEW o \in Review!Ops
  PROVE  ReviewMove(o)
<1> DEFINE n == Review!NewOp
<1>1. b \in [Review!Ops -> Review!Records] /\ a \in Review!Tasks /\ d = "select"
  BY ReviewFacts DEF Review!Select
<1>2. n \in Review!Ops /\ b[n].st = "absent"
  BY ReviewNew DEF Review!Select
<1>3. \E x \in {"plan_task", "exec", "finish", "reconcile"}, y \in Review!Ops \cup {Review!NoOp} :
        /\ Review!Propose(a, b, n, x, y)
        /\ x = "reconcile" <=> y # Review!NoOp
        /\ y # Review!NoOp => Review!Unresolved(y)
  BY ReviewNumbers DEF Review!Select
<1>4. PICK x \in {"plan_task", "exec", "finish", "reconcile"}, y \in Review!Ops \cup {Review!NoOp} :
        /\ Review!Propose(a, b, n, x, y)
        /\ x = "reconcile" <=> y # Review!NoOp
        /\ y # Review!NoOp => Review!Unresolved(y)
  BY <1>3
<1>5. CASE o = n
  <2>1. y # Review!NoOp => b[y].result = "unknown"
    BY <1>4, <1>1, ReviewFacts DEF Review!Unresolved, Review!Started
  <2>2. a'.cur = n
    BY <1>4, <1>1 DEF Review!Propose, Review!Tasks
  <2>3. ReviewProposed(o, x, y)
    BY <1>1, <1>2, <1>4, <1>5, <2>1, <2>2 DEF ReviewProposed, Review!Propose
  <2> QED
    BY <2>3, <1>4 DEF ReviewMove, Review!Kinds
<1>6. CASE o # n
  BY <1>1, <1>4, <1>6 DEF Review!Propose, ReviewMove
<1> QED
  BY <1>5, <1>6

\* A dispatch records the result of the operation at hand.
LEMMA ReviewDispatchMove ==
  ASSUME Review!ReviewInv, Review!Dispatch, NEW o \in Review!Ops
  PROVE  ReviewMove(o)
<1>1. b \in [Review!Ops -> Review!Records] /\ a.cur \in Review!Ops /\ d = "acting" /\
        b[o] \in Review!Records
  BY ReviewFacts DEF Review!Dispatch
<1>2. CASE o # a.cur
  BY <1>1, <1>2 DEF Review!Dispatch, Review!Recorded, Review!Cur, ReviewMove
<1>3. CASE o = a.cur
  <2>1. \E x \in {"confirmed", "none", "unknown"}, y \in Review!Results :
          /\ b' = Review!Recorded(o, x, y)
          /\ x = "confirmed" => f[o] = 1
          /\ b[o].kind = "reconcile" => y \in Review!RecoverEffect(b[o].target)
          /\ b[o].kind # "reconcile" => y = "absent"
    <3>1. CASE b[o].kind = "exec"
      BY <3>1, <1>3 DEF Review!Dispatch, Review!Cur, Review!Results
    <3>2. CASE b[o].kind = "reconcile"
      BY <3>2, <1>3 DEF Review!Dispatch, Review!Cur, Review!Results, Review!RecoverEffect
    <3>3. CASE b[o].kind \notin {"exec", "reconcile"}
      BY <3>3, <1>3, <1>1 DEF Review!Dispatch, Review!Cur, Review!Results, Review!Records,
         Review!Kinds
    <3> QED
      BY <3>1, <3>2, <3>3
  <2>2. PICK x \in {"confirmed", "none", "unknown"}, y \in Review!Results :
          /\ b' = Review!Recorded(o, x, y)
          /\ x = "confirmed" => f[o] = 1
          /\ b[o].kind = "reconcile" => y \in Review!RecoverEffect(b[o].target)
          /\ b[o].kind # "reconcile" => y = "absent"
    BY <2>1
  <2>3. b'[o] = [b[o] EXCEPT !.st = "result_recorded", !.result = x, !.seen = y]
    BY <2>2, <1>1 DEF Review!Recorded
  <2>4. b[o].kind = "reconcile" =>
          b[o].target # Review!NoOp /\ y # "absent" /\ (y = "confirmed" => f[b[o].target] = 1)
    BY <2>2, ReviewFacts DEF Review!RecoverEffect, Review!RecordSound
  <2>5. ReviewActed(o, x, y)
    BY <2>2, <2>3, <2>4, <1>1, <1>3 DEF ReviewActed
  <2> QED
    BY <2>5 DEF ReviewMove
<1> QED
  BY <1>2, <1>3

\* The learning of the operation at hand confirms it, and recovers at most one other.
LEMMA ReviewLearnMove ==
  ASSUME Review!ReviewInv, Review!Learn, NEW o \in Review!Ops
  PROVE  ReviewMove(o)
<1>1. /\ b \in [Review!Ops -> Review!Records] /\ a.cur \in Review!Ops /\ d = "learn"
      /\ b[o] \in Review!Records /\ b[a.cur].st # "executing" /\ b[a.cur] \in Review!Records
  BY ReviewFacts DEF Review!Learn
<1>2. CASE b' = b
  BY <1>2 DEF ReviewMove
<1>3. CASE b' = Review!Set(a.cur, "result_recorded")
  BY <1>1, <1>3, ReviewMark DEF Review!Set, Review!Finished
<1>4. CASE o = a.cur /\ b'[o] = [b[o] EXCEPT !.st = "learned"]
  BY <1>1, <1>4 DEF ReviewMove, ReviewDone, Review!Finished
<1>5. CASE /\ o # a.cur /\ a' = a
           /\ o = b[a.cur].target /\ b[a.cur].kind = "reconcile"
           /\ b[a.cur].result = "none" /\ b[a.cur].seen # "unknown"
           /\ b'[o] = [b[o] EXCEPT !.result = b[a.cur].seen]
  <2>1. b[o].result # "absent" /\ (b[a.cur].seen = "confirmed" => f[o] = 1)
    BY <1>1, <1>5, ReviewFacts, ReviewNumbers DEF Review!RecordSound
  <2>2. b[a.cur].seen # "absent" 
    BY <1>1, <1>5, ReviewFacts DEF Review!RecordSound, Review!Held, Review!Cur
  <2>3. b[a.cur].seen \in {"confirmed", "none"}
    BY <2>2, <1>1, <1>5 DEF Review!Records, Review!Results
  <2> QED
    BY <2>1, <2>3, <1>5 DEF ReviewMove, ReviewLearned
<1>6. CASE b'[o] = b[o]
  BY <1>6 DEF ReviewMove
<1> QED
  BY <1>2, <1>3, <1>4, <1>5, <1>6 DEF Review!Learn, Review!Cur

\* Closing a cycle completes the operation at hand.
LEMMA ReviewCloseMove ==
  ASSUME Review!ReviewInv, Review!CloseCycle, NEW o \in Review!Ops
  PROVE  ReviewMove(o)
<1>1. /\ b \in [Review!Ops -> Review!Records] /\ a.cur \in Review!Ops /\ d = "close"
      /\ b[o] \in Review!Records /\ b[o].st # "executing" /\ c \in 0 .. MaxPolicies
      /\ b[a.cur] \in Review!Records
  BY ReviewFacts, ReviewBounds DEF Review!CloseCycle
<1>2. CASE b' = [b EXCEPT ![a.cur].draft = IF @ = 0 THEN c ELSE @]
  <2> DEFINE x == IF b[a.cur].draft = 0 THEN c ELSE b[a.cur].draft
  <2>1. x \in 0 .. MaxPolicies
    BY <1>1 DEF Review!Records
  <2>2. b'[o] = b[o] \/ b'[o] = [b[o] EXCEPT !.draft = x]
    BY <1>1, <1>2
  <2> QED
    BY <2>1, <2>2 DEF ReviewMove
<1>3. CASE b'[o] = b[o]
  BY <1>3 DEF ReviewMove
<1>4. ASSUME NEW s \in Review!Finished, b'[o] = [b[o] EXCEPT !.st = s],
             o = a.cur \/ b[a.cur].kind = "adopt_policy"
      PROVE  ReviewMove(o)
  BY <1>1, <1>4 DEF ReviewMove, ReviewDone
<1> QED
  BY <1>2, <1>3, <1>4 DEF Review!CloseCycle, Review!Cur, Review!Finished

\* Every step does one of these to an operation, or nothing.
LEMMA ReviewMoves ==
  ASSUME Review!ReviewInv, Review!Next, NEW o \in Review!Ops
  PROVE  ReviewMove(o)
<1>f. /\ b \in [Review!Ops -> Review!Records] /\ a.cur \in Review!Ops \cup {Review!NoOp}
      /\ d \notin {"off", "loop", "select"} => a.cur \in Review!Ops
      /\ \A p \in Review!Ops : b[p].st = "executing" => d = "acting" /\ p = a.cur
      /\ d = "acting" => b[a.cur].st = "executing"
      /\ \A p \in Review!Ops : b[p].st = "proposed" => b[p].result = "absent"
      /\ b[o] \in Review!Records
      /\ d = "lease" => b[a.cur].st = "reviewed"
  BY ReviewFacts DEF Review!RecordSound, Review!Finished
<1>1. CASE Review!StartTask
  BY <1>1, ReviewFacts DEF Review!StartTask, ReviewMove
<1>2. CASE Review!StopTask \/ Review!Stopped \/ Review!SubmitSource \/ Review!ResolveApproval \/
             Review!Enter
  BY <1>2 DEF Review!StopTask, Review!Stopped, Review!SubmitSource, Review!ResolveApproval,
     Review!Enter, ReviewMove
<1>u. ASSUME d = "acting", o = a.cur, b'[o] = [b[o] EXCEPT !.st = "result_recorded",
               !.result = "unknown"]
      PROVE  ReviewMove(o)
    <2>2. b'[o] = [b[o] EXCEPT !.st = "result_recorded", !.result = "unknown", !.seen = b[o].seen]
      BY <1>f, <1>u DEF Review!Records
    <2>3. ReviewActed(o, "unknown", b[o].seen)
      BY <2>2, <1>u, ReviewFacts DEF ReviewActed, Review!RecordSound
    <2>4. b[o].seen \in Review!Results
      BY <1>f DEF Review!Records
    <2> QED
      BY <2>3, <2>4 DEF ReviewMove
<1>3. CASE Review!Cancelled
  <2>1. CASE d = "acting" /\ o = a.cur
    BY <1>f, <2>1, <1>3, <1>u DEF Review!Cancelled, Review!Cur
  <2>2. CASE d # "acting" \/ o # a.cur
    BY <1>f, <2>2, <1>3 DEF Review!Cancelled, Review!Cur, ReviewMove
  <2> QED
    BY <2>1, <2>2
<1>4. CASE Review!SubmitStopped
  <2>1. CASE a.cur # Review!NoOp /\ Review!Unstarted(b[a.cur])
    <3>1. b' = [b EXCEPT ![a.cur].st = "superseded"] /\ a.cur \in Review!Ops
      BY <1>f, <2>1, <1>4 DEF Review!SubmitStopped, Review!Superseded, Review!Cur
    <3> QED
      BY <1>f, <3>1, <2>1, ReviewMark
  <2>2. CASE ~(a.cur # Review!NoOp /\ Review!Unstarted(b[a.cur]))
    BY <2>2, <1>4 DEF Review!SubmitStopped, Review!Superseded, Review!Cur, ReviewMove
  <2> QED
    BY <2>1, <2>2
<1>5. CASE Review!Crash
  <2>1. CASE d = "acting" /\ o = a.cur /\ b'[o] # b[o]
    BY <1>f, <2>1, <1>5, <1>u DEF Review!Crash, Review!PreserveStartedResultGaps
  <2>2. CASE d # "acting" \/ o # a.cur
    BY <1>f, <2>2, <1>5 DEF Review!Crash, ReviewMove, Review!PreserveStartedResultGaps
  <2> QED
    BY <2>1, <2>2 DEF ReviewMove
<1>6. CASE Review!Turn
  BY <1>6, ReviewTurnMove
<1>7. CASE Review!Select
  BY <1>7, ReviewSelectMove
<1>8. CASE Review!Pre
  <2>1. b' = b \/ Review!Revise(a.cur) \/ (b[a.cur].st = "proposed" /\
          b' = [b EXCEPT ![a.cur].st = "reviewed"])
    BY <1>8 DEF Review!Pre, Review!Set, Review!Cur
  <2>2. a.cur \in Review!Ops
    BY <1>f, <1>8 DEF Review!Pre
  <2>3. CASE Review!Revise(a.cur)
    BY <1>f, <2>2, <2>3, ReviewRevises
  <2>4. CASE b[a.cur].st = "proposed" /\ b' = [b EXCEPT ![a.cur].st = "reviewed"]
    BY <1>f, <2>2, <2>4, ReviewMark DEF Review!Unstarted
  <2> QED
    BY <2>1, <2>3, <2>4 DEF ReviewMove
<1>9. CASE Review!Execute
  <2>1. b' = b \/ (Review!Revise(a.cur) /\ a.cur \in Review!Ops)
    BY <1>f, <1>9 DEF Review!Execute, Review!Cur
  <2> QED
    BY <1>f, <2>1, ReviewRevises DEF ReviewMove
<1>10. CASE Review!Permit
  <2>1. CASE Review!Revise(a.cur)
    BY <1>f, <1>10, <2>1, ReviewRevises DEF Review!Permit
  <2>2. CASE b' = [b EXCEPT ![a.cur].st = "executing"] /\ d' = "acting" /\ a' = a
    BY <1>f, <1>10, <2>2 DEF Review!Permit, ReviewMove, ReviewPermitted
  <2> QED
    BY <1>10, <2>1, <2>2 DEF Review!Permit, Review!Set, Review!Cur
<1>11. CASE Review!Dispatch
  BY <1>11, ReviewDispatchMove
<1>12. CASE Review!Post
  <2>1. b' = b \/ Review!Revise(a.cur) \/ (b[a.cur].st = "result_recorded" /\
          b' = [b EXCEPT ![a.cur].st = "post_reviewed"])
    BY <1>12 DEF Review!Post, Review!Set, Review!Cur
  <2>2. a.cur \in Review!Ops
    BY <1>f, <1>12 DEF Review!Post
  <2>3. CASE Review!Revise(a.cur)
    BY <1>f, <2>2, <2>3, ReviewRevises
  <2>4. CASE b[a.cur].st = "result_recorded" /\ b' = [b EXCEPT ![a.cur].st = "post_reviewed"]
    BY <1>f, <2>2, <2>4, ReviewMark DEF Review!Finished
  <2> QED
    BY <2>1, <2>3, <2>4 DEF ReviewMove
<1>13. CASE Review!Learn
  BY <1>13, ReviewLearnMove
<1>14. CASE Review!CloseCycle
  BY <1>14, ReviewCloseMove
<1>15. CASE Review!Finalize \/ Review!CloseFinish
  <2>1. b' = b \/ b' = [b EXCEPT ![a.cur].st = "cycle_complete"]
    BY <1>15 DEF Review!Finalize, Review!CloseFinish, Review!Set, Review!Cur, Review!Attention
  <2>2. a.cur \in Review!Ops /\ b[a.cur].st # "executing"
    BY <1>f, <1>15 DEF Review!Finalize, Review!CloseFinish
  <2>3. CASE b' = [b EXCEPT ![a.cur].st = "cycle_complete"]
    BY <1>f, <2>2, <2>3, ReviewMark DEF Review!Finished
  <2> QED
    BY <2>1, <2>3 DEF ReviewMove
<1> QED
  BY <1>1, <1>2, <1>3, <1>4, <1>5, <1>6, <1>7, <1>8, <1>9, <1>10, <1>11, <1>12, <1>13, <1>14, <1>15
     DEF Review!Next

\* What a step does to the turn of the operations, the permits and the policy.
LEMMA ReviewTurns ==
  ASSUME Review!ReviewInv, Review!Next
  PROVE  /\ \/ a'.cur = a.cur
            \/ a'.cur = Review!NoOp
            \/ a'.cur \in Review!Ops /\ b[a'.cur].st = "absent" /\ d' = "pre"
            \/ /\ d = "close" /\ b[a.cur].kind = "adopt_policy" /\ a'.cur \in Review!Ops
               /\ a'.cur = b[a.cur].target
         /\ d = "acting" => (d' = "acting" /\ a'.cur = a.cur) \/ b'[a.cur].st = "result_recorded"
         /\ d' = "acting" => a'.cur = a.cur /\ d \in {"lease", "acting"}
         /\ \/ f' = f
            \/ f' = [f EXCEPT ![a.cur] = 1] /\ d = "acting" /\ UNCHANGED <<b, c, d, e>>
         /\ \/ c' = c
            \/ c' = c + 1 /\ c < MaxPolicies /\ UNCHANGED <<a, b, d, e, f>> /\ ~Review!Synchronous
<1>f. /\ b \in [Review!Ops -> Review!Records] /\ a.cur \in Review!Ops \cup {Review!NoOp}
      /\ a \in Review!Tasks
      /\ d \notin {"off", "loop", "select"} => a.cur \in Review!Ops
      /\ d = "acting" => b[a.cur].st = "executing" 
  BY ReviewFacts
<1>1. CASE Review!StartTask
  BY <1>1, <1>f DEF Review!StartTask, Review!With, Review!Tasks
<1>2. CASE Review!StopTask \/ Review!Stopped \/ Review!SubmitSource \/ Review!ResolveApproval \/
             Review!Enter
  BY <1>2, <1>f DEF Review!StopTask, Review!Stopped, Review!SubmitSource, Review!ResolveApproval,
     Review!Enter, Review!Interrupted, Review!With, Review!Tasks, Review!Cur
<1>3. CASE Review!Cancelled
  BY <1>3, <1>f DEF Review!Cancelled, Review!Interrupted, Review!With, Review!Tasks, Review!Cur,
     Review!Records
<1>4. CASE Review!SubmitStopped
  BY <1>4, <1>f DEF Review!SubmitStopped, Review!Tasks, Review!Cur
<1>5. CASE Review!Crash
  <2>1. a'.cur = a.cur /\ d' = "off" /\ UNCHANGED <<c, f>>
    BY <1>5, <1>f DEF Review!Crash, Review!With, Review!Tasks
  <2>2. ASSUME d = "acting" PROVE b'[a.cur].st = "result_recorded"
    <3>1. b' = Review!PreserveStartedResultGaps(b) /\ a.cur \in Review!Ops /\
            b[a.cur].st = "executing"
      BY <1>5, <1>f, <2>2 DEF Review!Crash, Review!Started
    <3>2. b[a.cur] \in Review!Records
      BY <3>1, <1>f
    <3> QED
      BY <3>1, <3>2 DEF Review!PreserveStartedResultGaps, Review!Records
  <2> QED
    BY <2>1, <2>2
<1>6. CASE Review!Turn
  BY <1>6, <1>f, ReviewNew, ReviewNumbers
     DEF Review!Turn, Review!SourceBoundary, Review!AdoptCurrentPolicy, Review!Propose, Review!Tasks
<1>7. CASE Review!Select
  BY <1>7, <1>f, ReviewNew, ReviewNumbers DEF Review!Select, Review!Propose, Review!Tasks
<1>8. CASE Review!Pre
  BY <1>8, <1>f DEF Review!Pre, Review!Revise, Review!Popped, Review!Attention, Review!Interrupted,
     Review!With, Review!Tasks
<1>9. CASE Review!Execute
  BY <1>9, <1>f DEF Review!Execute, Review!Revise, Review!Popped, Review!Attention,
     Review!Interrupted, Review!With, Review!Tasks
<1>10. CASE Review!Permit
  BY <1>10, <1>f DEF Review!Permit, Review!Revise, Review!Popped, Review!Tasks
<1>11. CASE Review!Dispatch
  <2>1. UNCHANGED <<a, c, f>> /\ d' = "post" /\ a.cur \in Review!Ops
    BY <1>11, <1>f DEF Review!Dispatch
  <2>2. \E x, y : b' = Review!Recorded(a.cur, x, y)
    BY <1>11 DEF Review!Dispatch, Review!Cur
  <2>3. b[a.cur] \in Review!Records
    BY <2>1, <1>f
  <2>4. b'[a.cur].st = "result_recorded"
    BY <2>1, <2>2, <2>3, <1>f DEF Review!Recorded, Review!Records
  <2> QED
    BY <2>1, <2>4
<1>12. CASE Review!Post
  BY <1>12, <1>f DEF Review!Post, Review!Revise, Review!Popped, Review!Attention,
     Review!Interrupted, Review!With, Review!Tasks
<1>13. CASE Review!Learn
  BY <1>13, <1>f DEF Review!Learn, Review!Attention, Review!Interrupted, Review!With, Review!Tasks
<1>14. CASE Review!CloseCycle
  <2>1. \A t \in Review!Tasks : Review!Popped(t, a.cur).cur \in {t.cur, Review!NoOp}
    BY DEF Review!Popped, Review!Tasks
  <2>2. \/ a' = a
        \/ a'.cur \in {a.cur, Review!NoOp}
        \/ a'.cur = b[a.cur].target /\ b[a.cur].kind = "adopt_policy" /\
             b[a.cur].target # Review!NoOp
    BY <1>14, <1>f DEF Review!CloseCycle, Review!Closed, Review!Popped, Review!Tasks, Review!Cur
  <2>3. b[a.cur] \in Review!Records
    BY <1>14, <1>f DEF Review!CloseCycle
  <2> QED
    BY <2>2, <2>3, <1>14 DEF Review!CloseCycle, Review!Records
<1>15. CASE Review!Finalize
  BY <1>15, <1>f DEF Review!Finalize, Review!Popped, Review!Attention, Review!Interrupted,
     Review!With, Review!Tasks, Review!Cur
<1>16. CASE Review!CloseFinish
  BY <1>16, <1>f DEF Review!CloseFinish, Review!Popped, Review!Tasks, Review!Cur
<1> QED
  BY <1>1, <1>2, <1>3, <1>4, <1>5, <1>6, <1>7, <1>8, <1>9, <1>10, <1>11, <1>12, <1>13, <1>14, <1>15,
     <1>16
     DEF Review!Next

\* What stays of an operation once it was proposed, and of a result once there is one.
LEMMA ReviewStays ==
  ASSUME Review!ReviewInv, Review!Next, NEW o \in Review!Ops
  PROVE  /\ b[o].st # "absent" =>
              /\ b'[o].kind = b[o].kind /\ b'[o].source = b[o].source
              /\ b'[o].policy = b[o].policy /\ b'[o].target = b[o].target
         /\ b[o].result # "absent" => b'[o].result # "absent"
         /\ f[o] = 1 => f'[o] = 1
         /\ b[o].st # "absent" => b'[o].st # "absent"
<1>1. b[o] \in Review!Records /\ f \in [Review!Ops -> 0 .. 1] /\ Review!RecordSound(o)
  BY ReviewFacts
<1>2. f[o] = 1 => f'[o] = 1
  BY <1>1, ReviewTurns
<1>3. ReviewMove(o)
  BY ReviewMoves
<1> QED
  BY <1>1, <1>2, <1>3 DEF ReviewMove, ReviewDropped, ReviewProposed, ReviewPermitted, ReviewActed,
     ReviewDone,
     ReviewLearned, Review!Records, Review!RecordSound, Review!Finished, Review!NoRecord

\* An operation that is held was held, or is new.
LEMMA ReviewHeld ==
  ASSUME Review!ReviewInv, Review!Next, NEW o \in Review!Ops, b[o].st # "absent",
         Review!Held(o)'
  PROVE  Review!Held(o)
<1>1. /\ b \in [Review!Ops -> Review!Records] /\ a.cur \in Review!Ops \cup {Review!NoOp}
      /\ Review!NoOp \notin Review!Ops
      /\ d \notin {"off", "loop", "select"} => a.cur \in Review!Ops
      /\ \A p \in Review!Ops : Review!RecordSound(p)
  BY ReviewFacts, ReviewNumbers
<1>2. \A p \in Review!Ops : b[p].st # "absent" => b'[p].kind = b[p].kind /\
        b'[p].target = b[p].target
  BY ReviewStays
<1>3. CASE a'.cur = a.cur /\ (a.cur \in Review!Ops => b[a.cur].st # "absent")
  BY <1>1, <1>2, <1>3 DEF Review!Held, Review!Cur
<1>4. CASE a'.cur = Review!NoOp
  BY <1>1, <1>4 DEF Review!Held, Review!Cur
<1>5. CASE a'.cur \in Review!Ops /\ b[a'.cur].st = "absent"
  <2>1. ReviewMove(a'.cur)
    BY <1>5, ReviewMoves
  <2>2. b[a'.cur] \in Review!Records /\ Review!RecordSound(a'.cur)
    BY <1>1, <1>5
  <2>3. o # a'.cur
    BY <1>5
  <2>4. b'[a'.cur].kind = "adopt_policy" /\ b'[a'.cur].target = o
    BY <2>3 DEF Review!Held, Review!Cur
  <2>5. b[a'.cur].kind = "exec"
    BY <2>2, <1>5 DEF Review!RecordSound
  <2>6. \E x \in Review!Kinds, y \in Review!Ops \cup {Review!NoOp} : ReviewProposed(a'.cur, x, y)
    BY <2>1, <2>2, <2>4, <2>5 DEF ReviewMove, ReviewDropped, ReviewPermitted, ReviewActed,
       ReviewDone, ReviewLearned, Review!Records
  <2>7. PICK x \in Review!Kinds, y \in Review!Ops \cup {Review!NoOp} : ReviewProposed(a'.cur, x, y)
    BY <2>6
  <2>8. b'[a'.cur].kind = x /\ b'[a'.cur].target = y
    BY <2>7 DEF ReviewProposed, Review!NoRecord
  <2> QED
    BY <2>4, <2>7, <2>8, <1>1 DEF ReviewProposed, Review!Held, Review!Cur
<1>6. CASE d = "close" /\ b[a.cur].kind = "adopt_policy" /\ a'.cur \in Review!Ops /\
             a'.cur = b[a.cur].target
  <2>1. Review!RecordSound(a.cur) /\ b[a.cur].target # Review!NoOp
    BY <1>1, <1>6
  <2>2. b[a'.cur].kind # "adopt_policy" /\ b[a'.cur].st # "absent"
    BY <2>1, <1>1, <1>6 DEF Review!RecordSound, Review!Finished
  <2> QED
    BY <2>1, <2>2, <1>1, <1>2, <1>6 DEF Review!Held, Review!Cur
<1> QED
  BY <1>3, <1>4, <1>5, <1>6, ReviewTurns

\* Every record goes on telling the truth.
LEMMA ReviewRecordStep ==
  ASSUME Review!ReviewInv, Review!Next, NEW o \in Review!Ops
  PROVE  Review!RecordSound(o)'
<1>1. /\ b[o] \in Review!Records /\ Review!RecordSound(o) /\ c \in 1 .. MaxPolicies
      /\ f \in [Review!Ops -> 0 .. 1] /\ b \in [Review!Ops -> Review!Records]
      /\ a.cur \in Review!Ops \cup {Review!NoOp} /\ a.policy \in 1 .. c
      /\ d = "acting" => b[a.cur].st = "executing" /\ a.cur \in Review!Ops
      /\ d = "lease" => b[a.cur].st = "reviewed"
  BY ReviewFacts
<1>2. ReviewMove(o)
  BY ReviewMoves
<1>3. \A p \in Review!Ops :
        /\ b[p].st # "absent" =>
              /\ b'[p].kind = b[p].kind /\ b'[p].source = b[p].source
              /\ b'[p].policy = b[p].policy /\ b'[p].target = b[p].target
        /\ b[p].result # "absent" => b'[p].result # "absent"
        /\ f[p] = 1 => f'[p] = 1
  BY ReviewStays
<1>4. c' \in 1 .. MaxPolicies /\ c <= c'
  BY <1>1, ReviewTurns, ReviewBounds
<1>0. b'[o].st = "absent" => b'[o].kind = "exec" /\ b'[o].target = Review!NoOp
  BY <1>1, <1>2 DEF ReviewMove, ReviewDropped, ReviewProposed, ReviewPermitted, ReviewActed,
     ReviewDone, ReviewLearned,
     Review!Records, Review!RecordSound, Review!Finished, Review!NoRecord
<1>u. /\ b[o].target # Review!NoOp => b[o].target \in Review!Ops
      /\ b[o].policy \in Nat
  BY <1>1, ReviewBounds DEF Review!Records
<1>5. (Review!Started(o) => d = "acting" /\ o = a.cur)'
  <2>1. b'[o].st = "executing" => b[o].st = "executing" \/ ReviewPermitted(o)
    BY <1>1, <1>2 DEF ReviewMove, ReviewDropped, ReviewProposed, ReviewActed, ReviewDone,
       ReviewLearned,
       Review!Records, Review!Finished, Review!NoRecord
  <2>2. b[o].st = "executing" /\ b'[o].st = "executing" => d' = "acting" /\ o = a'.cur
    BY <1>1, ReviewTurns DEF Review!RecordSound, Review!Started, Review!Cur
  <2> QED
    BY <2>1, <2>2 DEF ReviewPermitted, Review!Started
<1>6. b'[o].result # "absent" => b'[o].st \in Review!Finished
  BY <1>1, <1>2 DEF ReviewMove, ReviewDropped, ReviewProposed, ReviewPermitted, ReviewActed,
     ReviewDone, ReviewLearned,
     Review!Records, Review!RecordSound, Review!Finished, Review!NoRecord, Review!Unstarted
<1>7. f'[o] = 1 => b'[o].st = "executing" \/ b'[o].result # "absent"
  <2>1. f'[o] = 1 => f[o] = 1 \/ b'[o].st = "executing"
    BY <1>1, ReviewTurns
  <2>2. f[o] = 1 => b'[o].st = "executing" \/ b'[o].result # "absent"
    BY <1>1, <1>2, <1>3 DEF ReviewMove, ReviewDropped, ReviewProposed, ReviewPermitted, ReviewActed,
       ReviewDone, ReviewLearned,
     Review!Records, Review!RecordSound, Review!Started, Review!Finished, Review!NoRecord,
     Review!Unstarted
  <2> QED
    BY <2>1, <2>2
<1>8. b'[o].result = "confirmed" => f'[o] = 1
  BY <1>1, <1>2, <1>3 DEF ReviewMove, ReviewDropped, ReviewProposed, ReviewPermitted, ReviewActed,
     ReviewDone, ReviewLearned,
     Review!Records, Review!RecordSound, Review!NoRecord
<1>9. b'[o].target # Review!NoOp => b'[b'[o].target].result # "absent"
  <2>1. b'[o].target = b[o].target \/ \E x \in Review!Kinds, y \in Review!Ops \cup {Review!NoOp} :
          ReviewProposed(o, x, y)
    BY <1>1, <1>2 DEF ReviewMove, ReviewDropped, ReviewPermitted, ReviewActed, ReviewDone,
       ReviewLearned,
       Review!Records
  <2>2. ASSUME NEW x \in Review!Kinds, NEW y \in Review!Ops \cup {Review!NoOp},
                 ReviewProposed(o, x, y)
        PROVE  b'[o].target # Review!NoOp => b'[b'[o].target].result # "absent"
    BY <2>2, <1>3 DEF ReviewProposed, Review!NoRecord
  <2> QED
    BY <2>1, <2>2, <1>1, <1>3, <1>u DEF Review!RecordSound
<1>10. b'[o].seen = "confirmed" => b'[o].target # Review!NoOp /\ f'[b'[o].target] = 1
  BY <1>1, <1>2, <1>3, <1>u DEF ReviewMove, ReviewDropped, ReviewProposed, ReviewPermitted,
     ReviewActed, ReviewDone, ReviewLearned,
     Review!Records, Review!RecordSound, Review!NoRecord
<1>14. b'[o].kind = "adopt_policy" /\ b'[o].target # Review!NoOp =>
         b'[b'[o].target].kind # "adopt_policy"
  <2>1. \/ b'[o].target = b[o].target /\ b'[o].kind = b[o].kind
        \/ \E x \in Review!Kinds, y \in Review!Ops \cup {Review!NoOp} : ReviewProposed(o, x, y)
    BY <1>1, <1>2 DEF ReviewMove, ReviewDropped, ReviewPermitted, ReviewActed, ReviewDone,
       ReviewLearned,
       Review!Records
  <2>2. ASSUME NEW x \in Review!Kinds, NEW y \in Review!Ops \cup {Review!NoOp},
                 ReviewProposed(o, x, y)
        PROVE  b'[o].kind = "adopt_policy" /\ b'[o].target # Review!NoOp
                 => /\ b'[o].target \in Review!Ops /\ b[b'[o].target].result # "absent"
                    /\ b[b'[o].target].kind # "adopt_policy"
    BY <2>2 DEF ReviewProposed, Review!NoRecord
  <2>3. b[o].target # Review!NoOp => b[b[o].target].result # "absent"
    BY <1>1 DEF Review!RecordSound
  <2>4. \A p \in Review!Ops : b[p].result # "absent" => b'[p].kind = b[p].kind
    BY <1>3, ReviewFacts DEF Review!RecordSound, Review!Finished
  <2> QED
    BY <2>1, <2>2, <2>3, <2>4, <1>1, <1>u DEF Review!RecordSound
<1>11. b'[o].kind = "adopt_policy" => b'[o].policy \in 2 .. c'
  <2>1. \/ b'[o].kind = b[o].kind /\ b'[o].policy = b[o].policy
        \/ b'[o].policy = c /\ (b'[o].kind = "adopt_policy" => a.policy # c)
    BY <1>1, <1>2 DEF ReviewMove, ReviewDropped, ReviewProposed, ReviewPermitted, ReviewActed,
       ReviewDone, ReviewLearned,
     Review!Records, Review!NoRecord
  <2> QED
    BY <2>1, <1>1, <1>4, <1>u DEF Review!RecordSound
<1>12. b'[o].kind = "reconcile" => b'[o].target # Review!NoOp
  BY <1>1, <1>2 DEF ReviewMove, ReviewDropped, ReviewProposed, ReviewPermitted, ReviewActed,
     ReviewDone, ReviewLearned,
     Review!Records, Review!RecordSound, Review!NoRecord
<1>13. ASSUME b'[o].kind = "reconcile", b'[o].result = "none", Review!Held(o)'
       PROVE  b'[o].seen # "absent"
  <2>1. b[o].st # "absent" 
    BY <1>1, <1>2, <1>13 DEF ReviewMove, ReviewDropped, ReviewProposed, ReviewPermitted,
       ReviewActed, ReviewDone, ReviewLearned,
     Review!Records, Review!RecordSound, Review!NoRecord, Review!Finished
  <2>2. Review!Held(o)
    BY <2>1, <1>13, ReviewHeld
  <2>3. b[o].kind = "reconcile"
    BY <2>1, <1>3, <1>13
  <2> QED
    BY <2>2, <2>3, <1>13, <1>1, <1>2 DEF ReviewMove, ReviewDropped, ReviewProposed, ReviewPermitted,
       ReviewActed, ReviewDone, ReviewLearned,
     Review!Records, Review!RecordSound, Review!NoRecord, Review!Held, Review!Cur
<1> QED
  BY <1>0, <1>14, <1>5, <1>6, <1>7, <1>8, <1>9, <1>10, <1>11, <1>12, <1>13
     DEF Review!RecordSound, Review!Started, Review!Cur

\* The records are a function of the operations.
LEMMA ReviewShape ==
  ASSUME Review!ReviewInv, Review!Next
  PROVE  b' = [o \in Review!Ops |-> b'[o]]
<1>f. b \in [Review!Ops -> Review!Records]
  BY ReviewFacts
<1>1. CASE UNCHANGED b
  BY <1>f, <1>1
<1>2. ASSUME NEW o, NEW s, b' = [b EXCEPT ![o].st = s]
      PROVE  b' = [p \in Review!Ops |-> b'[p]]
  BY <1>f, <1>2
<1>3. CASE Review!StartTask \/ Review!Crash \/ Review!Cancelled
  BY <1>f, <1>1, <1>3 DEF Review!StartTask, Review!Crash, Review!Cancelled,
     Review!PreserveStartedResultGaps
<1>4. CASE Review!SubmitStopped
  BY <1>1, <1>2, <1>4 DEF Review!SubmitStopped, Review!Superseded
<1>5. CASE Review!Turn
  <2> DEFINE r == Review!SourceBoundary(a, b)[2]
             q == Review!PreserveStartedResultGaps(r)
  <2>1. q = [o \in Review!Ops |-> q[o]]
    BY DEF Review!PreserveStartedResultGaps
  <2>2. b' = b \/ b' = q \/ \E x, y : b' = [Review!Superseded(q, x) EXCEPT ![Review!NewOp] = y]
    BY <1>5 DEF Review!Turn, Review!AdoptCurrentPolicy, Review!Propose
  <2> HIDE DEF q
  <2> QED
    BY <2>1, <2>2, <1>f DEF Review!Superseded
<1>6. CASE Review!Select
  <2>1. \E y : b' = [b EXCEPT ![Review!NewOp] = y]
    BY <1>6 DEF Review!Select, Review!Propose
  <2> QED
    BY <2>1, <1>f
<1>7. CASE Review!Pre \/ Review!Execute \/ Review!Permit \/ Review!Post
  BY <1>1, <1>2, <1>7 DEF Review!Pre, Review!Execute, Review!Permit, Review!Post, Review!Revise,
     Review!Set, Review!Attention
<1>8. CASE Review!Dispatch
  <2>1. \E x, y, z : b' = Review!Recorded(x, y, z)
    BY <1>8 DEF Review!Dispatch
  <2> QED
    BY <2>1, <1>f DEF Review!Recorded
<1>9. CASE Review!Learn
  BY <1>1, <1>2, <1>9 DEF Review!Learn, Review!Set
<1>10. CASE Review!CloseCycle
  BY <1>f, <1>10 DEF Review!CloseCycle
<1>11. CASE Review!Finalize \/ Review!CloseFinish
  BY <1>1, <1>2, <1>11 DEF Review!Finalize, Review!CloseFinish, Review!Set, Review!Attention
<1>12. CASE Review!StopTask \/ Review!Stopped \/ Review!SubmitSource \/ Review!ResolveApproval \/
              Review!Enter
  BY <1>1, <1>12 DEF Review!StopTask, Review!Stopped, Review!SubmitSource, Review!ResolveApproval,
     Review!Enter
<1> QED
  BY <1>3, <1>4, <1>5, <1>6, <1>7, <1>8, <1>9, <1>10, <1>11, <1>12 DEF Review!Next

\* The coroutine is at one of its stages.
LEMMA ReviewPlace ==
  ASSUME Review!ReviewInv, Review!Next
  PROVE  d' \in Review!Stages /\ e' \in {"no", "stop", "submit"}
<1>f. d \in Review!Stages /\ e \in {"no", "stop", "submit"}
  BY DEF Review!ReviewInv, Review!TaskSound, Review!TypeOK
<1>1. CASE Review!StartTask \/ Review!StopTask \/ Review!Stopped \/ Review!Cancelled
  BY <1>f, <1>1 DEF Review!StartTask, Review!StopTask, Review!Stopped, Review!Cancelled,
     Review!Stages
<1>2. CASE Review!SubmitSource \/ Review!SubmitStopped \/ Review!ResolveApproval \/ Review!Crash \/
             Review!Enter
  BY <1>f, <1>2 DEF Review!SubmitSource, Review!SubmitStopped, Review!ResolveApproval, Review!Crash,
     Review!Enter, Review!Stages
<1>3. CASE Review!Turn \/ Review!Select \/ Review!Dispatch
  BY <1>f, <1>3 DEF Review!Turn, Review!Select, Review!Dispatch, Review!Stages
<1>4. CASE Review!Pre \/ Review!Execute \/ Review!Permit
  BY <1>f, <1>4 DEF Review!Pre, Review!Execute, Review!Permit, Review!Revise, Review!Attention,
     Review!Stages
<1>5. CASE Review!Post \/ Review!Learn \/ Review!CloseCycle
  BY <1>f, <1>5 DEF Review!Post, Review!Learn, Review!CloseCycle, Review!Revise, Review!Attention,
     Review!Stages
<1>6. CASE Review!Finalize \/ Review!CloseFinish
  BY <1>f, <1>6 DEF Review!Finalize, Review!CloseFinish, Review!Attention, Review!Stages
<1> QED
  BY <1>1, <1>2, <1>3, <1>4, <1>5, <1>6 DEF Review!Next

\* The types are kept.
LEMMA ReviewTypeStep ==
  ASSUME Review!ReviewInv, Review!Next
  PROVE  Review!TypeOK'
<1>f. /\ b \in [Review!Ops -> Review!Records] /\ a.cur \in Review!Ops \cup {Review!NoOp}
      /\ a \in Review!Tasks /\ f \in [Review!Ops -> 0 .. 1] /\ c \in 1 .. MaxPolicies
      /\ d \in Review!Stages
      /\ d \notin {"off", "loop", "select"} => a.cur \in Review!Ops
      /\ a.source \in 1 .. MaxSources
  BY ReviewFacts
<1>1. a' \in Review!Tasks
  <2> USE <1>f
  <2>1. CASE Review!StartTask \/ Review!StopTask \/ Review!Stopped \/ Review!SubmitSource
    BY <2>1, ReviewTasks DEF Review!StartTask, Review!StopTask, Review!Stopped, Review!SubmitSource
  <2>2. CASE Review!ResolveApproval \/ Review!Enter \/ Review!Dispatch
    BY <2>2, ReviewTasks DEF Review!ResolveApproval, Review!Enter, Review!Dispatch
  <2>3. CASE Review!Cancelled \/ Review!SubmitStopped \/ Review!Crash
    <3>1. \E x \in Review!Ops \cup {Review!NoOp} : Review!SubmitStopped =>
            a' = [a EXCEPT !.plan = FALSE, !.final = 0, !.status = "source_update_required",
              !.cur = x]
      BY DEF Review!SubmitStopped
    <3>2. CASE Review!SubmitStopped
      <4>1. PICK x \in Review!Ops \cup {Review!NoOp} :
              a' = [a EXCEPT !.plan = FALSE, !.final = 0, !.status = "source_update_required",
                !.cur = x]
        BY <3>1, <3>2
      <4>2. [a EXCEPT !.plan = FALSE, !.final = 0, !.status = "source_update_required",
              !.cur = x] \in Review!Tasks
        BY ReviewTasks
      <4> QED
        BY <4>1, <4>2
    <3>3. CASE Review!Cancelled \/ Review!Crash
      BY <3>3, ReviewTasks DEF Review!Cancelled, Review!Crash
    <3> QED
      BY <2>3, <3>2, <3>3
  <2>4. CASE Review!Turn
    <3> DEFINE t == Review!SourceBoundary(a, b)[1]
    <3>1. t \in Review!Tasks
      BY ReviewTasks DEF Review!SourceBoundary
    <3>2. a' \in {a, t} \/ (Review!Absent # {} /\ a' = [t EXCEPT !.cur = Review!NewOp])
      BY <2>4 DEF Review!Turn, Review!AdoptCurrentPolicy, Review!Propose
    <3> HIDE DEF t
    <3>3. Review!Absent # {} => [t EXCEPT !.cur = Review!NewOp] \in Review!Tasks
      BY <3>1, ReviewTasks, ReviewNew
    <3> QED
      BY <3>1, <3>2, <3>3
  <2>5. CASE Review!Select
    <3>1. Review!Absent # {} /\ a' = [a EXCEPT !.cur = Review!NewOp]
      BY <2>5 DEF Review!Select, Review!Propose
    <3>2. [a EXCEPT !.cur = Review!NewOp] \in Review!Tasks
      BY <3>1, ReviewTasks, ReviewNew
    <3> QED
      BY <3>1, <3>2
  <2>6. CASE Review!Pre \/ Review!Execute \/ Review!Permit \/ Review!Post \/ Review!Learn
    BY <2>6, ReviewTasks DEF Review!Pre, Review!Execute, Review!Permit, Review!Post, Review!Learn,
       Review!Revise, Review!Attention, Review!Cur
  <2>7. CASE Review!CloseCycle
    <3> DEFINE t == [a EXCEPT !.policy = c]
    <3>1. t \in Review!Tasks /\ t.cur = a.cur
      <4>1. t \in Review!Tasks
        BY ReviewTasks
      <4> QED
        BY <4>1 DEF Review!Tasks
    <3>2. a' = a \/ \E x \in {a, t} : a' = Review!Closed(x, a.cur)
      BY <2>7 DEF Review!CloseCycle, Review!Cur
    <3>3. b[a.cur].target \in Review!Ops \cup {Review!NoOp} /\ a.cur \in Review!Ops
      BY <2>7 DEF Review!CloseCycle, Review!Records
    <3> HIDE DEF t
    <3>4. ASSUME NEW x \in {a, t} PROVE Review!Closed(x, a.cur) \in Review!Tasks
      <4>1. Review!Popped(x, a.cur) \in Review!Tasks
        BY <3>1, <3>3, ReviewTasks
      <4> QED
        BY <4>1, <3>1, <3>3, ReviewTasks DEF Review!Closed
    <3> QED
      BY <3>2, <3>4
  <2>8. CASE Review!Finalize \/ Review!CloseFinish
    BY <2>8, ReviewTasks DEF Review!Finalize, Review!CloseFinish, Review!Attention, Review!Cur
  <2> QED
    BY <2>1, <2>2, <2>3, <2>4, <2>5, <2>6, <2>7, <2>8 DEF Review!Next
<1>2. b' \in [Review!Ops -> Review!Records]
  <2>1. ASSUME NEW o \in Review!Ops PROVE b'[o] \in Review!Records
    <3>1. ReviewMove(o) /\ b[o] \in Review!Records
      BY ReviewMoves, <1>f
    <3>3. \A s \in Review!Statuses :
            [b[o] EXCEPT !.st = s] \in Review!Records
      BY <3>1 DEF Review!Records
    <3>4. \A x \in 0 .. MaxPolicies : [b[o] EXCEPT !.draft = x] \in Review!Records
      BY <3>1 DEF Review!Records
    <3>5. ASSUME NEW s \in Review!Finished \cup {"superseded", "revision_required", "reviewed"},
                 ReviewDropped(o, s) \/ ReviewDone(o, s) \/ ReviewPermitted(o)
          PROVE  b'[o] \in Review!Records
      <4>1. s \in Review!Statuses /\ "executing" \in Review!Statuses
        BY DEF Review!Finished, Review!Statuses
      <4> QED
        BY <3>3, <3>5, <4>1 DEF ReviewDropped, ReviewDone, ReviewPermitted, Review!Results
    <3>6. ASSUME NEW x \in {"confirmed", "none", "unknown"}, NEW y \in Review!Results,
                 ReviewActed(o, x, y) \/ ReviewLearned(o, x)
          PROVE  b'[o] \in Review!Records
      <4>1. x \in Review!Results /\ "result_recorded" \in Review!Statuses
        BY DEF Review!Results, Review!Statuses
      <4> QED
        BY <3>1, <3>6, <4>1 DEF ReviewActed, ReviewLearned, Review!Records
    <3>7. ASSUME NEW x \in Review!Kinds, NEW y \in Review!Ops \cup {Review!NoOp},
                   ReviewProposed(o, x, y)
          PROVE  b'[o] \in Review!Records
      <4>1. "proposed" \in Review!Statuses /\ c \in 0 .. MaxPolicies /\ a.source \in 0 .. MaxSources
        BY <1>f, ReviewBounds DEF Review!Statuses
      <4> QED
        BY <3>7, <4>1, ReviewNumbers DEF ReviewProposed, Review!Records
    <3> QED
      BY <3>1, <3>4, <3>5, <3>6, <3>7 DEF ReviewMove, Review!Results
  <2>2. b' = [o \in Review!Ops |-> b'[o]]
    BY ReviewShape
  <2> QED
    BY <2>1, <2>2
<1>3. c' \in 1 .. MaxPolicies /\ f' \in [Review!Ops -> 0 .. 1]
  BY <1>f, ReviewTurns, ReviewBounds
<1>4. d' \in Review!Stages /\ e' \in {"no", "stop", "submit"}
  BY ReviewPlace
<1> QED
  BY <1>1, <1>2, <1>3, <1>4 DEF Review!TypeOK

\* Where the coroutine may be after a step, and what it relies on there.
LEMMA ReviewPlaces ==
  ASSUME Review!ReviewInv, Review!Next
  PROVE  \/ d' \in {"off", "loop"}
         \/ d' = d /\ b' = b /\ a'.cur = a.cur
            /\ (d = "acting" /\ b[a.cur].kind \in Review!Controlled
                  => a'.source = a.source /\ c' = c)
         \/ d' = "select" /\ a'.cur = Review!NoOp
         \/ d' \in {"pre", "execute", "post", "learn", "close"} /\ a'.cur \in Review!Ops
         \/ /\ d = "execute" /\ d' = "lease" /\ UNCHANGED <<a, b, c>>
            /\ b[a.cur].st = "reviewed" /\ Review!AllowedWithUnknown(a.cur)
         \/ /\ d = "lease" /\ d' = "acting" /\ UNCHANGED <<a, c>>
            /\ Review!Lease(a.cur) /\ b' = [b EXCEPT ![a.cur].st = "executing"]
         \/ /\ d = "close" /\ d' = "final" /\ a' = a
            /\ b[a.cur].kind = "finish" /\ \A o \in Review!Ops : ~Review!Unresolved(o)
         \/ d = "final" /\ d' = "closed" /\ b' = b /\ a'.cur = a.cur
<1>f. /\ a.cur \in Review!Ops \cup {Review!NoOp} /\ a \in Review!Tasks
      /\ d \notin {"off", "loop", "select"} => a.cur \in Review!Ops
  BY ReviewFacts
<1>1. CASE Review!StartTask \/ Review!Stopped \/ Review!Cancelled \/ Review!SubmitStopped \/
             Review!Crash \/ Review!CloseFinish
  BY <1>1 DEF Review!StartTask, Review!Stopped, Review!Cancelled, Review!SubmitStopped,
     Review!Crash, Review!CloseFinish
<1>2. CASE Review!StopTask \/ Review!ResolveApproval
  BY <1>2 DEF Review!StopTask, Review!ResolveApproval, Review!Synchronous, Review!Cur
<1>3. CASE Review!SubmitSource
  BY <1>f, <1>3 DEF Review!SubmitSource, Review!Synchronous, Review!Cur, Review!Tasks
<1>4. CASE Review!Enter
  BY <1>f, <1>4 DEF Review!Enter, Review!Tasks
<1>5. CASE Review!Turn
  <2> DEFINE t == Review!SourceBoundary(a, b)[1]
  <2>1. t \in Review!Tasks
    BY <1>f, ReviewTasks DEF Review!SourceBoundary
  <2>2. \/ d' = "off"
        \/ Review!Absent # {} /\ d' = "pre" /\ a' = [t EXCEPT !.cur = Review!NewOp]
        \/ a' = t /\ d' = IF t.cur # Review!NoOp THEN "pre" ELSE "select"
    BY <1>5 DEF Review!Turn, Review!AdoptCurrentPolicy, Review!Propose
  <2> HIDE DEF t
  <2>3. t.cur \in Review!Ops \cup {Review!NoOp}
    BY <2>1 DEF Review!Tasks
  <2>4. Review!Absent # {} /\ a' = [t EXCEPT !.cur = Review!NewOp] => a'.cur \in Review!Ops
    BY <2>1, ReviewNew DEF Review!Tasks
  <2> QED
    BY <2>2, <2>3, <2>4
<1>6. CASE Review!Select
  BY <1>f, <1>6, ReviewNew DEF Review!Select, Review!Propose, Review!Tasks
<1>7. CASE Review!Pre \/ Review!Post
  BY <1>f, <1>7 DEF Review!Pre, Review!Post, Review!Revise, Review!Attention
<1>8. CASE Review!Execute
  BY <1>f, <1>8 DEF Review!Execute, Review!Revise, Review!Attention, Review!Cur
<1>9. CASE Review!Permit
  BY <1>f, <1>9 DEF Review!Permit, Review!Revise, Review!Set, Review!Cur
<1>10. CASE Review!Dispatch \/ Review!Learn
  BY <1>f, <1>10 DEF Review!Dispatch, Review!Learn, Review!Attention
<1>11. CASE Review!CloseCycle
  BY <1>f, <1>11 DEF Review!CloseCycle, Review!MayFinish, Review!Cur
<1>12. CASE Review!Finalize
  BY <1>f, <1>12 DEF Review!Finalize, Review!Attention, Review!Tasks
<1> QED
  BY <1>1, <1>2, <1>3, <1>4, <1>5, <1>6, <1>7, <1>8, <1>9, <1>10, <1>11, <1>12 DEF Review!Next

\* The stages go on relying on what is so.
LEMMA ReviewStageStep ==
  ASSUME Review!ReviewInv, Review!Next
  PROVE  Review!StageSound'
<1>f. /\ a.cur \in Review!Ops \cup {Review!NoOp} /\ Review!NoOp \notin Review!Ops
      /\ d \notin {"off", "loop", "select"} => a.cur \in Review!Ops
      /\ b \in [Review!Ops -> Review!Records]
      /\ \A p \in Review!Ops : b[p].st = "executing" => d = "acting" /\ p = a.cur
      /\ Review!StageSound
  BY ReviewFacts, ReviewNumbers DEF Review!ReviewInv
<1> USE DEF Review!StageSound, Review!Cur, Review!Started
<1>1. CASE d' \in {"off", "loop"}
  BY <1>1
<1>2. CASE d' = d /\ b' = b /\ a'.cur = a.cur
            /\ (d = "acting" /\ b[a.cur].kind \in Review!Controlled
                  => a'.source = a.source /\ c' = c)
  BY <1>f, <1>2 DEF Review!Lease
<1>3. CASE d' = "select" /\ a'.cur = Review!NoOp
  BY <1>f, <1>3
<1>4. CASE d' \in {"pre", "execute", "post", "learn", "close"} /\ a'.cur \in Review!Ops
  BY <1>f, <1>4
<1>5. CASE /\ d = "execute" /\ d' = "lease" /\ UNCHANGED <<a, b, c>>
           /\ b[a.cur].st = "reviewed" /\ Review!AllowedWithUnknown(a.cur)
  BY <1>f, <1>5 DEF Review!AllowedWithUnknown, Review!Unresolved
<1>6. CASE /\ d = "lease" /\ d' = "acting" /\ UNCHANGED <<a, c>>
            /\ Review!Lease(a.cur) /\ b' = [b EXCEPT ![a.cur].st = "executing"]
  <2>1. /\ a.cur \in Review!Ops /\ b[a.cur] \in Review!Records
        /\ \A p \in Review!Ops : b'[p].result = b[p].result /\ b'[p].kind = b[p].kind
                                 /\ b'[p].source = b[p].source /\ b'[p].policy = b[p].policy
        /\ b'[a.cur].st = "executing"
    BY <1>f, <1>6 DEF Review!Records
  <2> QED
    BY <2>1, <1>f, <1>6 DEF Review!Lease
<1>7. CASE /\ d = "close" /\ d' = "final" /\ a' = a
            /\ b[a.cur].kind = "finish" /\ \A o \in Review!Ops : ~Review!Unresolved(o)
  <2>2. a.cur \in Review!Ops /\ b'[a.cur].kind = b[a.cur].kind
    BY <1>f, <1>7, ReviewStays, ReviewFacts DEF Review!RecordSound
  <2>1. ASSUME NEW o \in Review!Ops PROVE b'[o].result # "unknown"
    <3>1. ReviewMove(o) /\ b[o] \in Review!Records /\ b[o].result # "unknown"
      BY <1>f, <1>7, ReviewMoves DEF Review!Unresolved
    <3> QED
      BY <3>1, <1>7 DEF ReviewMove, ReviewDropped, ReviewProposed, ReviewPermitted, ReviewActed,
         ReviewDone, ReviewLearned,
         Review!Records, Review!NoRecord
  <2> QED
    BY <2>1, <2>2, <1>f, <1>7
<1>8. CASE d = "final" /\ d' = "closed" /\ b' = b /\ a'.cur = a.cur
  BY <1>f, <1>8
<1> QED
  BY <1>1, <1>2, <1>3, <1>4, <1>5, <1>6, <1>7, <1>8, ReviewPlaces

\* What a step does to the sources, the plan and the status of the task.
ReviewSources ==
  \/ a'.source = a.source /\ a'.pending = a.pending /\ (a'.plan = a.plan \/ a.pending)
  \/ a'.pending /\ a'.status = "source_update_required"
  \/ /\ d = "acting" /\ b[a.cur].kind = "plan_task" /\ f' = [f EXCEPT ![a.cur] = 1]
     /\ a'.source = a.source /\ a'.plan /\ a'.status = a.status /\ d' = d /\ b' = b /\ e' = e

\* The policy of the task changes by an adoption.
ReviewPolicy ==
  \/ a'.policy = a.policy
  \/ d = "close" /\ b[a.cur].kind = "adopt_policy" /\ b[a.cur].result = "confirmed" /\ a'.policy = c

\* The task completes with the result that is published.
ReviewCompletes ==
  \/ /\ a.status = "completed" /\ e' = "no"
     /\ a'.plan = a.plan /\ a'.pending = a.pending /\ a'.final = a.final /\ a'.source = a.source
     /\ \/ b' = b /\ d' \in {d, "off"} /\ a'.cur = a.cur
        \/ d = "closed" /\ d' = "off" /\ b' = [b EXCEPT ![a.cur].st = "cycle_complete"]
  \/ /\ d = "final" /\ d' = "closed" /\ b' = b /\ a'.cur = a.cur /\ e' = "no"
     /\ ~a.pending /\ a'.plan = a.plan /\ a'.pending = a.pending
     /\ a'.final = a.source /\ a'.source = a.source

\* A stop waits where the run is.
ReviewStops ==
  \/ d' = "off"
  \/ /\ d' = d /\ b' = b /\ a'.cur = a.cur
     /\ e' = e \/ (~Review!Synchronous /\ (e' = "submit" => a'.pending))

\* What a step does to the sources, the policy, the completion and a stop.
LEMMA ReviewTaskStep ==
  ASSUME Review!ReviewInv, Review!Next
  PROVE  /\ ReviewSources /\ ReviewPolicy
         /\ a'.status = "completed" => ReviewCompletes
         /\ e' # "no" => ReviewStops
         /\ d' = "closed" => a'.status = "completed"
<1>f. /\ a \in Review!Tasks /\ a.cur \in Review!Ops \cup {Review!NoOp}
      /\ a.status = "completed" => d \in {"off", "closed"} /\ e = "no"
      /\ d = "closed" => a.status = "completed"
      /\ e = "submit" => a.pending
  BY ReviewFacts DEF Review!ReviewInv, Review!RunSound
<1> USE <1>f DEF ReviewSources, ReviewPolicy, ReviewCompletes, ReviewStops, Review!Tasks
<1>1. CASE Review!StartTask
  BY <1>1 DEF Review!StartTask, Review!With
<1>2. CASE Review!StopTask
  BY <1>2 DEF Review!StopTask, Review!Synchronous
<1>3. CASE Review!Stopped \/ Review!Cancelled
  BY <1>3 DEF Review!Stopped, Review!Cancelled, Review!Interrupted, Review!With
<1>4. CASE Review!SubmitSource
  BY <1>4 DEF Review!SubmitSource, Review!Synchronous
<1>5. CASE Review!SubmitStopped
  BY <1>5 DEF Review!SubmitStopped
<1>6. CASE Review!ResolveApproval
  BY <1>6 DEF Review!ResolveApproval
<1>7. CASE Review!Crash
  BY <1>7 DEF Review!Crash, Review!With
<1>8. CASE Review!Enter
  <2>1. d = "acting" /\ UNCHANGED <<b, c, d, e>> /\ f' = [f EXCEPT ![a.cur] = 1]
    BY <1>8 DEF Review!Enter, Review!Cur
  <2>2. CASE a' = a
    BY <2>1, <2>2
  <2>3. CASE b[a.cur].kind = "plan_task" /\ a' = [a EXCEPT !.plan = TRUE, !.pending = FALSE]
    <3>1. /\ a'.plan /\ a'.source = a.source /\ a'.status = a.status /\ a'.cur = a.cur
          /\ a'.policy = a.policy
      BY <2>3
    <3>2. a.status # "completed" /\ d # "closed"
      BY <2>1
    <3>3. ReviewSources /\ ReviewPolicy
      BY <2>1, <2>3, <3>1 DEF ReviewSources, ReviewPolicy
    <3>4. ReviewStops
      <4>1. d' = d /\ b' = b /\ e' = e
        BY <2>1
      <4> QED
        BY <4>1, <3>1 DEF ReviewStops
    <3> QED
      BY <2>1, <3>1, <3>2, <3>3, <3>4
  <2> QED
    BY <1>8, <2>2, <2>3 DEF Review!Enter, Review!Cur
<1>9. CASE Review!Turn
  <2> DEFINE t == Review!SourceBoundary(a, b)[1]
  <2>1. /\ t \in Review!Tasks /\ t.source = a.source /\ t.pending = a.pending /\ t.policy = a.policy
        /\ t.status = a.status /\ (t.plan = a.plan \/ a.pending)
    <3>1. t = a \/ (a.pending /\ \E x \in Review!Ops \cup {Review!NoOp} :
                       t = [a EXCEPT !.plan = FALSE, !.cur = x])
      BY DEF Review!SourceBoundary
    <3> HIDE DEF t
    <3>2. CASE t = a
      BY <3>2
    <3>3. CASE a.pending /\ t # a
      <4>1. PICK x \in Review!Ops \cup {Review!NoOp} : t = [a EXCEPT !.plan = FALSE, !.cur = x]
        BY <3>1, <3>3
      <4>2. t \in Review!Tasks
        BY <4>1, <1>f DEF Review!Tasks
      <4>3. /\ t.source = a.source /\ t.pending = a.pending /\ t.policy = a.policy
            /\ t.status = a.status
        BY <4>1, <1>f DEF Review!Tasks
      <4> QED
        BY <4>2, <4>3, <3>3
    <3> QED
      BY <3>1, <3>2, <3>3
  <2>2. a' = a \/ a' = t \/ \E x : a' = [t EXCEPT !.cur = x]
    BY <1>9 DEF Review!Turn, Review!AdoptCurrentPolicy, Review!Propose
  <2>3. d = "loop" /\ e = "no" /\ e' = "no" /\ d' # "closed"
    BY <1>9 DEF Review!Turn
  <2> HIDE DEF t
  <2>4. /\ a'.source = a.source /\ a'.pending = a.pending /\ a'.policy = a.policy
        /\ a'.status = a.status /\ (a'.plan = a.plan \/ a.pending)
    BY <2>1, <2>2
  <2> QED
    BY <2>3, <2>4
<1>10. CASE Review!Select
  BY <1>10 DEF Review!Select, Review!Propose
<1>11. CASE Review!Pre \/ Review!Execute \/ Review!Permit \/ Review!Post
  BY <1>11 DEF Review!Pre, Review!Execute, Review!Permit, Review!Post, Review!Revise, Review!Popped,
     Review!Attention, Review!Interrupted, Review!With
<1>12. CASE Review!Dispatch \/ Review!Learn
  BY <1>12 DEF Review!Dispatch, Review!Learn, Review!Attention, Review!Interrupted, Review!With
<1>13. CASE Review!CloseCycle
  <2> DEFINE t == [a EXCEPT !.policy = c]
  <2>1. /\ t.source = a.source /\ t.pending = a.pending /\ t.plan = a.plan /\ t.status = a.status
        /\ t.policy = c
    OBVIOUS
  <2>2. \/ a' = a
        \/ \E x : a' = a \/ a' = [a EXCEPT !.cur = x]
        \/ /\ \E x : a' = t \/ a' = [t EXCEPT !.cur = x]
           /\ b[a.cur].kind = "adopt_policy" /\ b[a.cur].result = "confirmed"
    <3>1. \A y : \E x : Review!Closed(y, a.cur) = y \/
            Review!Closed(y, a.cur) = [y EXCEPT !.cur = x]
      BY DEF Review!Closed, Review!Popped
    <3>2. \/ a' = a
          \/ a' = Review!Closed(a, a.cur)
          \/ a' = Review!Closed(t, a.cur) /\ b[a.cur].kind = "adopt_policy" /\
               b[a.cur].result = "confirmed"
      BY <1>13 DEF Review!CloseCycle, Review!Cur
    <3> HIDE DEF t
    <3> QED
      BY <3>1, <3>2
  <2>3. d = "close" /\ e = "no" /\ e' = "no" /\ d' # "closed"
    BY <1>13 DEF Review!CloseCycle
  <2> QED
    BY <2>1, <2>2, <2>3
<1>14. CASE Review!Finalize
  BY <1>14 DEF Review!Finalize, Review!Evidence, Review!Popped, Review!Attention,
     Review!Interrupted, Review!With, Review!Cur
<1>15. CASE Review!CloseFinish
  BY <1>15 DEF Review!CloseFinish, Review!Popped, Review!Cur, Review!Set
<1> QED
  BY <1>1, <1>2, <1>3, <1>4, <1>5, <1>6, <1>7, <1>8, <1>9, <1>10, <1>11, <1>12, <1>13, <1>14,
     <1>15 DEF Review!Next

\* An operation that loses its turn while the policy stays is not in hand any more.
LEMMA ReviewLeaves ==
  ASSUME Review!ReviewInv, Review!Next, a.cur \in Review!Ops, a'.cur # a.cur, c = 1
  PROVE  \/ b'[a.cur].st = "cycle_complete"
         \/ b'[a.cur].st # "executing" /\ b'[a.cur].result = "absent"
<1>f. /\ a \in Review!Tasks /\ a.policy = 1 /\ b[a.cur] \in Review!Records
      /\ b \in [Review!Ops -> Review!Records] /\ Review!NoOp \notin Review!Ops
      /\ b[a.cur].kind # "adopt_policy"
      /\ d # "acting" => b[a.cur].st # "executing"
      /\ d = "closed" => a.cur # Review!NoOp
  <2>1. /\ a \in Review!Tasks /\ a.policy \in 1 .. 1 /\ b \in [Review!Ops -> Review!Records]
        /\ Review!RecordSound(a.cur) /\ Review!NoOp \notin Review!Ops
        /\ d # "acting" => b[a.cur].st # "executing"
    BY ReviewFacts, ReviewNumbers
  <2>2. b[a.cur].kind # "adopt_policy"
    BY <2>1 DEF Review!RecordSound
  <2> QED
    BY <2>1, <2>2
<1> USE <1>f DEF Review!Tasks
<1>1. CASE Review!StartTask \/ Review!StopTask \/ Review!Stopped \/ Review!Cancelled \/
             Review!SubmitSource
  BY <1>1 DEF Review!StartTask, Review!StopTask, Review!Stopped, Review!Cancelled,
     Review!SubmitSource,
     Review!Interrupted, Review!With
<1>2. CASE Review!SubmitStopped
  BY <1>2 DEF Review!SubmitStopped, Review!Superseded, Review!Unstarted, Review!Cur, Review!Records
<1>3. CASE Review!ResolveApproval \/ Review!Crash \/ Review!Enter \/ Review!Dispatch \/ Review!Learn
  BY <1>3 DEF Review!ResolveApproval, Review!Crash, Review!Enter, Review!Dispatch, Review!Learn,
     Review!Attention, Review!Interrupted, Review!With
<1>4. CASE Review!Turn
  <2>1. d = "loop" /\ ~(a.cur # Review!NoOp /\ b[a.cur].kind = "adopt_policy")
    BY <1>4 DEF Review!Turn
  <2> DEFINE old == Review!Unstarted(b[a.cur]) /\ b[a.cur].source # a.source
             t == Review!SourceBoundary(a, b)[1]
             r == Review!SourceBoundary(a, b)[2]
  <2>2. /\ t.policy = a.policy /\ (t.cur = a.cur \/ old)
        /\ a.pending /\ old => r = [b EXCEPT ![a.cur].st = "superseded"]
        /\ ~(a.pending /\ old) => t.cur = a.cur
    BY DEF Review!SourceBoundary, Review!Superseded
  <2>3. \/ b' = b /\ a' = a
        \/ a' = t /\ b' = Review!PreserveStartedResultGaps(r)
    BY <1>4, <2>2 DEF Review!Turn
  <2> HIDE DEF t, r
  <2>4. a' = t /\ b' = Review!PreserveStartedResultGaps(r) /\ a.pending /\ old
    BY <2>2, <2>3
  <2>5. b'[a.cur] = Review!PreserveStartedResultGaps(r)[a.cur] /\
          r = [b EXCEPT ![a.cur].st = "superseded"]
    BY <2>2, <2>4
  <2>6. r[a.cur] = [b[a.cur] EXCEPT !.st = "superseded"]
    BY <2>5
  <2>7. r[a.cur].st = "superseded" /\ r[a.cur].result = b[a.cur].result
    BY <2>6 DEF Review!Records
  <2>8. b'[a.cur] = r[a.cur]
    BY <2>5, <2>7 DEF Review!PreserveStartedResultGaps
  <2> QED
    BY <2>4, <2>7, <2>8 DEF Review!Unstarted
<1>5. CASE Review!Select
  BY <1>5, ReviewFacts DEF Review!Select
<1>6. CASE Review!Pre \/ Review!Execute \/ Review!Permit \/ Review!Post
  BY <1>6 DEF Review!Pre, Review!Execute, Review!Permit, Review!Post, Review!Revise, Review!Popped,
     Review!Attention, Review!Interrupted, Review!With, Review!Set, Review!Unstarted, Review!Cur,
     Review!Records
<1>7. CASE Review!CloseCycle
  BY <1>7 DEF Review!CloseCycle, Review!Closed, Review!Popped, Review!Cur, Review!Records
<1>8. CASE Review!Finalize
  <2>1. a'.cur = a.cur \/ b' = [b EXCEPT ![a.cur].st = "cycle_complete"]
    BY <1>8 DEF Review!Finalize, Review!Attention, Review!Interrupted, Review!With, Review!Set,
       Review!Cur
  <2> QED
    BY <2>1 DEF Review!Records
<1>9. CASE Review!CloseFinish
  BY <1>9 DEF Review!CloseFinish, Review!Set, Review!Cur, Review!Records
<1> QED
  BY <1>1, <1>2, <1>3, <1>4, <1>5, <1>6, <1>7, <1>8, <1>9 DEF Review!Next

\* At most one action has an effect that nobody knows.
LEMMA ReviewOneUnknown ==
  ASSUME Review!ReviewInv, Review!Next, NEW o \in Review!Ops, NEW p \in Review!Ops,
         b'[o].kind = "exec", b'[p].kind = "exec", Review!Unresolved(o)', Review!Unresolved(p)'
  PROVE  o = p
<1>1. /\ \A x \in Review!Ops : b[x] \in Review!Records /\ Review!RecordSound(x)
      /\ \A x, y \in Review!Ops : b[x].kind = "exec" /\ b[y].kind = "exec"
             /\ Review!Unresolved(x) /\ Review!Unresolved(y) => x = y
      /\ d \in {"lease", "acting"} /\ b[a.cur].kind = "exec" =>
           \A x \in Review!Ops : x # a.cur => b[x].result # "unknown"
      /\ d \in {"lease", "acting"} => a.cur \in Review!Ops
      /\ d = "acting" => b[a.cur].st = "executing"
  BY ReviewFacts DEF Review!ReviewInv, Review!TaskSound, Review!UnknownActions, Review!StageSound,
     Review!Cur
<1>2. ASSUME NEW x \in Review!Ops, b'[x].kind = "exec", Review!Unresolved(x)'
      PROVE  /\ b[x].kind = "exec"
             /\ Review!Unresolved(x) \/ (d = "lease" /\ x = a.cur)
  <2>1. ReviewMove(x) /\ b[x] \in Review!Records
    BY <1>1, ReviewMoves
  <2>2. b'[x].st = "executing" \/ b'[x].result = "unknown"
    BY <1>2 DEF Review!Unresolved, Review!Started
  <2>3. b[x].st # "absent"
    <3>1. b[x].st = "absent" => b[x].result # "unknown"
      BY <1>1 DEF Review!RecordSound, Review!Finished
    <3> QED
      BY <3>1, <1>1, <2>1, <2>2 DEF ReviewMove, ReviewDropped, ReviewProposed, ReviewPermitted,
         ReviewActed, ReviewDone, ReviewLearned, Review!Records, Review!NoRecord, Review!Finished
  <2>4. b[x].kind = "exec"
    BY <1>2, <2>3, ReviewStays
  <2>5. b'[x].st = "executing" => Review!Unresolved(x) \/ (d = "lease" /\ x = a.cur)
    BY <2>1, <2>3 DEF ReviewMove, ReviewDropped, ReviewProposed, ReviewPermitted, ReviewActed,
       ReviewDone, ReviewLearned, Review!Records, Review!Finished, Review!Unresolved, Review!Started
  <2>6. b'[x].result = "unknown" => Review!Unresolved(x)
    BY <1>1, <2>1, <2>3 DEF ReviewMove, ReviewDropped, ReviewProposed, ReviewPermitted, ReviewActed,
       ReviewDone, ReviewLearned, Review!Records, Review!Unresolved, Review!Started
  <2> QED
    BY <2>2, <2>4, <2>5, <2>6
<1>3. \A x \in Review!Ops : Review!Unresolved(x) /\ d = "lease" /\ b[a.cur].kind = "exec" =>
        x = a.cur
  BY <1>1 DEF Review!Unresolved, Review!Started, Review!RecordSound, Review!Cur
<1> QED
  BY <1>1, <1>2, <1>3

\* A submission that waits for the coroutine is not reconciled.
LEMMA ReviewSubmits ==
  ASSUME Review!ReviewInv, Review!Next, e' = "submit"
  PROVE  a'.pending
<1>1. /\ a \in Review!Tasks /\ (e = "submit" => a.pending /\ ~Review!Synchronous)
      /\ a.status = "completed" => d \in {"off", "closed"} /\ e = "no"
  BY ReviewFacts DEF Review!ReviewInv, Review!RunSound
<1>2. CASE Review!SubmitSource
  BY <1>1, <1>2 DEF Review!SubmitSource, Review!Tasks
<1>3. CASE e = "submit" /\ (Review!Enter \/ Review!ResolveApproval)
  BY <1>1, <1>3 DEF Review!Enter, Review!ResolveApproval, Review!Synchronous, Review!Controlled,
     Review!Cur
<1>4. CASE e = "submit" /\ Review!Cancelled
  BY <1>1, <1>4 DEF Review!Cancelled, Review!Interrupted, Review!With, Review!Tasks
<1>5. CASE Review!StartTask \/ Review!StopTask \/ Review!Stopped \/ Review!SubmitStopped \/
             Review!Crash
  BY <1>5 DEF Review!StartTask, Review!StopTask, Review!Stopped, Review!SubmitStopped, Review!Crash
<1>6. CASE Review!Turn \/ Review!Select \/ Review!Pre \/ Review!Execute \/ Review!Permit \/
             Review!Dispatch
  BY <1>6 DEF Review!Turn, Review!Select, Review!Pre, Review!Execute, Review!Permit, Review!Dispatch
<1>7. CASE Review!Post \/ Review!Learn \/ Review!CloseCycle \/ Review!Finalize
  BY <1>7 DEF Review!Post, Review!Learn, Review!CloseCycle, Review!Finalize
<1>8. CASE Review!CloseFinish
  <2>1. d = "closed" /\ e = "submit"
    BY <1>8 DEF Review!CloseFinish
  <2> QED
    BY <1>1, <2>1 DEF Review!Synchronous
<1>9. CASE e # "submit" /\ (Review!Enter \/ Review!ResolveApproval \/ Review!Cancelled)
  BY <1>9 DEF Review!Enter, Review!ResolveApproval, Review!Cancelled
<1> QED
  BY <1>2, <1>3, <1>4, <1>5, <1>6, <1>7, <1>8, <1>9 DEF Review!Next

\* What a run was entered for, and whether it still waits, stays so.
LEMMA ReviewRunStep ==
  ASSUME Review!ReviewInv, Review!Next
  PROVE  Review!RunSound'
<1>1. /\ Review!RunSound /\ a \in Review!Tasks /\ a.policy \in 1 .. c /\ c \in 1 .. MaxPolicies
      /\ d = "acting" => b[a.cur].st = "executing" /\ a.cur \in Review!Ops
  BY ReviewFacts DEF Review!ReviewInv
<1>2. /\ ReviewSources /\ ReviewPolicy
      /\ a'.status = "completed" => ReviewCompletes
      /\ e' # "no" => ReviewStops
      /\ d' = "closed" => a'.status = "completed"
  BY ReviewTaskStep
<1>3. a'.policy <= c'
  BY <1>1, <1>2, ReviewTurns, ReviewBounds DEF ReviewPolicy, Review!RunSound
<1>4. ~a'.pending => a'.plan
  BY <1>1, <1>2 DEF ReviewSources, Review!RunSound, Review!Tasks
<1>5. e' # "no" => ~Review!Synchronous'
  BY <1>1, <1>2 DEF ReviewStops, Review!RunSound, Review!Synchronous, Review!Cur
<1>6. e' = "submit" => a'.pending
  BY <1>1, <1>2, ReviewSubmits
<1>7. a'.status = "completed" => d' \in {"off", "closed"} /\ e' = "no"
  BY <1>1, <1>2 DEF ReviewCompletes, Review!RunSound
<1> QED
  BY <1>2, <1>3, <1>4, <1>5, <1>6, <1>7 DEF Review!RunSound

\* The sources stay reconciled by a plan of exactly these.
LEMMA ReviewPlanStep ==
  ASSUME Review!ReviewInv, Review!Next, ~a'.pending
  PROVE  Review!Planned'
<1>1. /\ f \in [Review!Ops -> 0 .. 1]
      /\ d = "acting" => a.cur \in Review!Ops
      /\ \A o \in Review!Ops : Review!RecordSound(o) /\ b[o] \in Review!Records
      /\ ~a.pending => Review!Planned
      /\ d = "acting" /\ b[a.cur].kind = "plan_task" => b[a.cur].source = a.source
  BY ReviewFacts DEF Review!ReviewInv, Review!TaskSound, Review!StageSound, Review!Lease,
     Review!Controlled, Review!Cur
<1>2. CASE a'.source = a.source /\ ~a.pending
  <2>1. PICK o \in Review!Ops :
          b[o].kind = "plan_task" /\ f[o] = 1 /\ b[o].source = a.source
    BY <1>1, <1>2 DEF Review!Planned
  <2>2. b[o].st # "absent"
    BY <1>1, <2>1 DEF Review!RecordSound, Review!Started, Review!Finished
  <2>3. b'[o].kind = "plan_task" /\ f'[o] = 1 /\ b'[o].source = a'.source
    BY <1>2, <2>1, <2>2, ReviewStays
  <2> QED
    BY <2>3 DEF Review!Planned
<1>3. CASE /\ d = "acting" /\ b[a.cur].kind = "plan_task" /\ f' = [f EXCEPT ![a.cur] = 1]
           /\ a'.source = a.source /\ b' = b
  <2>1. a.cur \in Review!Ops /\ f'[a.cur] = 1
    BY <1>1, <1>3
  <2>2. b'[a.cur].kind = "plan_task" /\ b'[a.cur].source = a'.source
    BY <1>1, <1>3
  <2> QED
    BY <2>1, <2>2 DEF Review!Planned
<1>4. ReviewSources
  BY ReviewTaskStep
<1> QED
  BY <1>2, <1>3, <1>4 DEF ReviewSources

\* The policy of the task stays one that an adoption led to.
LEMMA ReviewAdoptStep ==
  ASSUME Review!ReviewInv, Review!Next, a'.policy # 1
  PROVE  Review!Adopted'
<1>1. /\ \A o \in Review!Ops : Review!RecordSound(o) /\ b[o] \in Review!Records
      /\ a.policy # 1 => Review!Adopted
      /\ d = "close" => a.cur \in Review!Ops
  BY ReviewFacts DEF Review!ReviewInv, Review!TaskSound
<1>2. ASSUME NEW o \in Review!Ops, b[o].kind = "adopt_policy", f[o] = 1,
             b[o].policy \in 2 .. a'.policy
      PROVE  Review!Adopted'
  <2>1. b[o].st # "absent"
    BY <1>1, <1>2 DEF Review!RecordSound, Review!Started, Review!Finished
  <2>2. b'[o].kind = "adopt_policy" /\ f'[o] = 1 /\ b'[o].policy = b[o].policy
    BY <1>2, <2>1, ReviewStays
  <2> QED
    BY <1>2, <2>2 DEF Review!Adopted
<1>3. CASE a'.policy = a.policy
  <2>1. PICK o \in Review!Ops :
          b[o].kind = "adopt_policy" /\ f[o] = 1 /\ b[o].policy \in 2 .. a.policy
    BY <1>1, <1>3 DEF Review!Adopted
  <2> QED
    BY <1>2, <1>3, <2>1
<1>4. CASE /\ d = "close" /\ b[a.cur].kind = "adopt_policy" /\ b[a.cur].result = "confirmed"
           /\ a'.policy = c
  <2>1. a.cur \in Review!Ops /\ f[a.cur] = 1 /\ b[a.cur].policy \in 2 .. a'.policy
    BY <1>1, <1>4 DEF Review!RecordSound
  <2> QED
    BY <1>2, <1>4, <2>1
<1>5. ReviewPolicy
  BY ReviewTaskStep
<1> QED
  BY <1>3, <1>4, <1>5 DEF ReviewPolicy

\* While the first policy stays, only the operation at hand is in hand.
LEMMA ReviewHandStep ==
  ASSUME Review!ReviewInv, Review!Next, c' = 1, NEW o \in Review!InHand'
  PROVE  o = a'.cur
<1>1. o \in Review!Ops /\ b'[o].st # "cycle_complete"
      /\ (b'[o].st = "executing" \/ b'[o].result # "absent")
  BY DEF Review!InHand, Review!Started
<1>2. c = 1 /\ c \in 1 .. MaxPolicies
  BY ReviewTurns, ReviewFacts, ReviewBounds
<1>3. /\ b[o] \in Review!Records /\ Review!InHand \subseteq {a.cur}
      /\ a.cur \in Review!Ops => b[a.cur].kind # "adopt_policy"
  <2>1. \A p \in Review!Ops : b[p].kind = "adopt_policy" => b[p].policy \in 2 .. 1
    BY <1>2, ReviewFacts DEF Review!RecordSound
  <2>2. \A p \in Review!Ops : b[p].kind # "adopt_policy"
    BY <2>1
  <2>3. Review!InHand \subseteq {a.cur}
    BY <1>2 DEF Review!ReviewInv, Review!TaskSound, Review!Cur
  <2> QED
    BY <2>2, <2>3, <1>1, ReviewFacts
<1>4. o \in Review!InHand \/ o = a.cur
  <2>1. ReviewMove(o)
    BY <1>1, ReviewMoves
  <2> QED
    BY <1>1, <1>3, <2>1 DEF ReviewMove, ReviewDropped, ReviewProposed, ReviewPermitted, ReviewActed,
       ReviewDone, ReviewLearned, Review!Records, Review!NoRecord, Review!InHand, Review!Started,
       Review!Unstarted, Review!Finished
<1>5. o = a.cur
  BY <1>3, <1>4
<1> QED
  BY <1>1, <1>2, <1>5, ReviewLeaves

\* What is published stays complete.
LEMMA ReviewCompleteStep ==
  ASSUME Review!ReviewInv, Review!Next, a'.status = "completed"
  PROVE  /\ ~a'.pending /\ a'.plan /\ a'.final = a'.source
         /\ \A o \in Review!Ops : ~Review!Unresolved(o)'
         /\ c' = 1 => \A o \in Review!InHand' : b'[o].kind = "finish"
<1>1. /\ b \in [Review!Ops -> Review!Records] /\ a \in Review!Tasks
      /\ d \in {"closed", "final"} => a.cur \in Review!Ops
      /\ \A o \in Review!Ops : b[o].st = "executing" => d = "acting" /\ o = a.cur
      /\ a.status = "completed" =>
           /\ ~a.pending /\ a.plan /\ a.final = a.source
           /\ \A o \in Review!Ops : ~Review!Unresolved(o)
           /\ c = 1 => \A o \in Review!InHand : b[o].kind = "finish"
      /\ ~a.pending => a.plan
      /\ c = 1 => Review!InHand \subseteq {a.cur}
      /\ d = "final" => b[a.cur].kind = "finish" /\ \A o \in Review!Ops : b[o].result # "unknown"
  BY ReviewFacts DEF Review!ReviewInv, Review!TaskSound, Review!RunSound, Review!StageSound,
     Review!Cur
<1>2. c' = 1 => c = 1
  BY ReviewTurns, ReviewFacts, ReviewBounds
<1>3. CASE a.status = "completed" /\ b' = b
           /\ a'.plan = a.plan /\ a'.pending = a.pending /\ a'.final = a.final /\
                a'.source = a.source
  BY <1>1, <1>2, <1>3 DEF Review!Unresolved, Review!Started, Review!InHand
<1>4. CASE /\ a.status = "completed"
           /\ a'.plan = a.plan /\ a'.pending = a.pending /\ a'.final = a.final /\
                a'.source = a.source
           /\ d = "closed" /\ b' = [b EXCEPT ![a.cur].st = "cycle_complete"]
  <2>1. ASSUME NEW o \in Review!Ops
        PROVE  /\ b'[o].result = b[o].result /\ b'[o].kind = b[o].kind
               /\ b'[o].st = b[o].st \/ b'[o].st = "cycle_complete"
    <3>1. b[o] \in Review!Records
      BY <1>1
    <3> QED
      BY <1>1, <1>4, <3>1 DEF Review!Records
  <2> QED
    BY <1>1, <1>2, <1>4, <2>1 DEF Review!Unresolved, Review!Started, Review!InHand
<1>5. CASE /\ d = "final" /\ b' = b /\ ~a.pending /\ a'.plan = a.plan /\ a'.pending = a.pending
           /\ a'.final = a.source /\ a'.source = a.source
  BY <1>1, <1>2, <1>5 DEF Review!Unresolved, Review!Started, Review!InHand
<1>6. ReviewCompletes
  BY ReviewTaskStep
<1> QED
  BY <1>3, <1>4, <1>5, <1>6 DEF ReviewCompletes

\* The promises to the user are kept by every step.
LEMMA ReviewSoundStep ==
  ASSUME Review!ReviewInv, Review!Next
  PROVE  Review!TaskSound'
<1>1. Review!TypeOK'
  BY ReviewTypeStep
<1>2. (~a.pending => Review!Planned)'
  BY ReviewPlanStep
<1>3. (a.policy # 1 => Review!Adopted)'
  BY ReviewAdoptStep
<1>4. (c = 1 => Review!InHand \subseteq {a.cur})'
  BY ReviewHandStep
<1>5. (\A o, p \in Review!UnknownActions : o = p)'
  BY ReviewOneUnknown DEF Review!UnknownActions
<1>6. (a.status = "completed" =>
         /\ ~a.pending /\ a.plan /\ a.final = a.source
         /\ \A o \in Review!Ops : ~Review!Unresolved(o)
         /\ c = 1 => \A o \in Review!InHand : b[o].kind = "finish")'
  BY ReviewCompleteStep
<1> QED
  BY <1>1, <1>2, <1>3, <1>4, <1>5, <1>6 DEF Review!TaskSound, Review!Cur

\* Nothing was proposed yet.
LEMMA ReviewStarts ==
  ASSUME Review!Init
  PROVE  Review!ReviewInv
<1>1. /\ a = [status |-> "created", plan |-> FALSE, cur |-> Review!NoOp, source |-> 1,
              pending |-> TRUE, policy |-> 1, final |-> 0]
      /\ b = [o \in Review!Ops |-> Review!NoRecord]
      /\ c = 1 /\ d = "off" /\ e = "no" /\ f = [o \in Review!Ops |-> 0]
  BY DEF Review!Init
<1>2. Review!TypeOK
  BY <1>1, ReviewNumbers, ReviewBounds DEF Review!TypeOK, Review!Tasks, Review!Stages
<1>3. \A o \in Review!Ops : /\ b[o] = Review!NoRecord /\ f[o] = 0
                            /\ ~Review!Unresolved(o) /\ ~Review!Started(o)
                            /\ o \notin Review!InHand
  BY <1>1 DEF Review!NoRecord, Review!Unresolved, Review!Started, Review!InHand
<1>4. Review!InHand = {} /\ Review!UnknownActions = {}
  BY <1>3 DEF Review!InHand, Review!UnknownActions
<1>5. \A o, p \in Review!UnknownActions : o = p
  BY <1>4
<1>9. a.pending /\ a.policy = 1 /\ a.status # "completed"
  BY <1>1
<1>10. Review!InHand \subseteq {Review!Cur}
  BY <1>4
<1>8. Review!TaskSound
  BY <1>2, <1>5, <1>9, <1>10 DEF Review!TaskSound
<1>6. \A o \in Review!Ops : Review!RecordSound(o)
  BY <1>3 DEF Review!RecordSound, Review!NoRecord
<1>7. Review!StageSound /\ Review!RunSound
  BY <1>1, <1>3 DEF Review!StageSound, Review!RunSound, Review!Synchronous
<1> QED
  BY <1>6, <1>7, <1>8 DEF Review!ReviewInv

\* A step, or none, keeps all of it.
LEMMA ReviewHolds ==
  ASSUME Review!ReviewInv, [Review!Next]_(Review!vars)
  PROVE  Review!ReviewInv'
<1>1. CASE Review!Next
  <2>1. Review!TaskSound' /\ Review!StageSound' /\ Review!RunSound'
    BY <1>1, ReviewSoundStep, ReviewStageStep, ReviewRunStep
  <2>2. \A o \in Review!Ops : Review!RecordSound(o)'
    BY <1>1, ReviewRecordStep
  <2> QED
    BY <2>1, <2>2 DEF Review!ReviewInv
<1>2. CASE UNCHANGED Review!vars
  BY <1>2 DEF Review!vars, Review!ReviewInv, Review!TaskSound, Review!TypeOK, Review!Planned,
     Review!Adopted,
     Review!InHand, Review!UnknownActions, Review!Unresolved, Review!Started,
     Review!StageSound, Review!RunSound,
     Review!RecordSound, Review!Held, Review!Cur, Review!Lease, Review!Synchronous
<1> QED
  BY <1>1, <1>2

\* A reviewed task keeps its promises whatever comes between two stages.
THEOREM ReviewKeepsPromises == Review!Spec => []Review!ReviewInv
<1>1. Review!Init => Review!ReviewInv
  BY ReviewStarts
<1>2. Review!ReviewInv /\ [Review!Next]_(Review!vars) => Review!ReviewInv'
  BY ReviewHolds
<1> QED
  BY <1>1, <1>2, PTL DEF Review!Spec

-------------------------------------------------------------------------------
(* SourcePreparation: an attachment is read, or withdrawn, as last said.   *)
(*                                                                         *)
(* a says     b status      c decided      d file      e output   f op     *)
(* g record   h confirmed   i extraction   j current   k edits    l crashes *)

\* The bounds are numbers, and no operation is 0.
LEMMA AttachmentBounds ==
  /\ AttachmentOps \in Nat /\ MaxSources \in Nat \ {0}
  /\ Attachment!Ops \subseteq Nat /\ 0 \notin Attachment!Ops
  /\ Attachment!Edited \in 0 .. Attachment!Edited
  /\ Attachment!Ops \cup {0} \subseteq 0 .. Attachment!Edited
  /\ 0 \in 0 .. MaxSources
  BY WorkflowAssumption DEF Attachment!Ops, Attachment!Edited

\* The operation that was not proposed is an operation.
LEMMA AttachmentNoOp == Attachment!NoOp \in Attachment!Operations
  BY AttachmentBounds DEF Attachment!NoOp, Attachment!Operations, Attachment!Modes,
     Attachment!Outcomes, Attachment!Files

\* There is a last one among finitely many.
LEMMA GreatestNumber ==
  ASSUME NEW n \in Nat, NEW T, T \subseteq 1 .. n, T # {}
  PROVE  \E x \in T : \A y \in T : y <= x
<1> DEFINE U == {n - x : x \in T}
<1>1. U \subseteq Nat /\ U # {}
  <2>1. \A x \in T : n - x \in Nat
    OBVIOUS
  <2> QED
    BY <2>1
<1> HIDE DEF U
<1>2. PICK z \in U : \A y \in U : ~(y < z)
  BY <1>1, LeastNumber
<1>3. PICK x \in T : z = n - x
  BY <1>2 DEF U
<1>4. ASSUME NEW y \in T PROVE y <= x
  <2>1. n - y \in U
    BY DEF U
  <2>2. ~(n - y < z)
    BY <1>2, <2>1
  <2> QED
    BY <1>3, <2>2
<1> QED
  BY <1>4

\* What the last instruction of the first n, that decides, says.
GreatestOf(T) == IF T = {} THEN 0 ELSE CHOOSE x \in T : \A y \in T : y <= x
DecisiveOf(s, n) == GreatestOf({x \in 1 .. n : s[x] # "other"})
VerdictOf(s, n) == IF DecisiveOf(s, n) = 0 THEN "keep" ELSE s[DecisiveOf(s, n)]

\* The instance reads the instructions as the operators above do.
LEMMA AttachmentVerdicts ==
  ASSUME NEW n
  PROVE  /\ Attachment!Decisive(n) = DecisiveOf(a, n)
         /\ Attachment!Verdict(n) = VerdictOf(a, n)
  BY DEF GreatestOf, DecisiveOf, VerdictOf, Attachment!Decisive, Attachment!Verdict

\* The instruction that decides is one of the first n, or none.
LEMMA AttachmentDecisive ==
  ASSUME NEW s, NEW n \in Nat
  PROVE  DecisiveOf(s, n) \in 0 .. n
<1> DEFINE T == {x \in 1 .. n : s[x] # "other"}
<1>1. CASE T = {}
  BY <1>1 DEF DecisiveOf, GreatestOf
<1>2. CASE T # {}
  <2>1. \E x \in T : \A y \in T : y <= x
    BY <1>2, GreatestNumber
  <2>2. DecisiveOf(s, n) = CHOOSE x \in T : \A y \in T : y <= x
    BY <1>2 DEF DecisiveOf, GreatestOf
  <2>3. DecisiveOf(s, n) \in T
    BY <2>1, <2>2
  <2> QED
    BY <2>3
<1> QED
  BY <1>1, <1>2

\* A later instruction does not change what was said before it.
LEMMA AttachmentAppend ==
  ASSUME NEW s \in Seq(Attachment!Words), NEW w, NEW n \in 0 .. Len(s)
  PROVE  VerdictOf(Append(s, w), n) = VerdictOf(s, n)
<1>1. \A x \in 1 .. n : Append(s, w)[x] = s[x]
  OBVIOUS
<1>2. {x \in 1 .. n : Append(s, w)[x] # "other"} = {x \in 1 .. n : s[x] # "other"}
  BY <1>1
<1>3. DecisiveOf(Append(s, w), n) = DecisiveOf(s, n)
  BY <1>2 DEF DecisiveOf
<1>4. DecisiveOf(s, n) # 0 => DecisiveOf(s, n) \in 1 .. n
  BY AttachmentDecisive
<1> QED
  BY <1>1, <1>3, <1>4 DEF VerdictOf

\* The facts that every step starts from.
LEMMA AttachmentFacts ==
  ASSUME Attachment!PreparationInv
  PROVE  /\ Attachment!TypeOK
         /\ f \in [Attachment!Ops -> Attachment!Operations]
         /\ h \in [Attachment!Ops -> {"none", "pending", "confirmed", "superseded"}]
         /\ j \in Attachment!Ops \cup {0} /\ 0 \notin Attachment!Ops
         /\ a \in Seq(Attachment!Words) /\ Len(a) \in 0 .. MaxSources
         /\ j # 0 => j \in Attachment!Ops
         /\ \A o \in Attachment!Ops :
              /\ f[o] \in Attachment!Operations
              /\ Attachment!CycleSound(o) /\ Attachment!CandidateSound(o)
              /\ f[o].src \in 0 .. Len(a) /\ VerdictOf(a, f[o].src) = Attachment!Verdict(f[o].src)
<1>1. \A o \in Attachment!Ops : f[o].src \in 0 .. MaxSources
  BY DEF Attachment!PreparationInv, Attachment!TypeOK, Attachment!Operations
<1> QED
  BY <1>1, AttachmentBounds, AttachmentVerdicts
     DEF Attachment!PreparationInv, Attachment!TypeOK, Attachment!CandidateSound

\* What a step may do to an operation.
AttachmentKept(o) ==
  /\ f'[o].mode = f[o].mode /\ f'[o].src = f[o].src /\ f'[o].target = f[o].target
  /\ f'[o].exec = f[o].exec /\ f'[o].text = f[o].text /\ f'[o].prior = f[o].prior

\* It is proposed, for what was described.
AttachmentProposed(o, x) ==
  /\ j = 0 /\ j' = o /\ f[o].mode = "none" /\ Attachment!Describable(x)
  /\ x \in Attachment!Proposals /\ f' = [f EXCEPT ![o] = x] /\ UNCHANGED <<a, b, c, h, i>>

\* It is the one at hand.
AttachmentRuns(o) ==
  /\ o = j /\ AttachmentKept(o)
  /\ \/ j' = j /\ f'[o].status \in {"executing", "recorded", "learned"}
     \/ j' = 0 /\ f[o].status = "reviewed" /\ f'[o].status = "superseded" /\ h' = h
     \/ /\ j' = 0 /\ f[o].status = "learned" /\ f'[o].status = "complete"
        /\ f'[o].result = f[o].result
  /\ f[o].mode = "reconcile" =>
       /\ f'[o].status # "executing"
       /\ f'[o].status \in {"recorded", "learned"} => f'[o].result = "ok"
       /\ f'[o].status = "recorded" => f[o].status = "reviewed"

\* Its lost result is recovered by the one at hand.
AttachmentRecovered(o) ==
  /\ o # j /\ j' = j /\ j # 0 /\ f[j].mode = "reconcile" /\ f[j].target = o
  /\ f[j].status = "recorded" /\ f'[j].status = "learned"
  /\ AttachmentKept(o) /\ f'[o].status = f[o].status
  /\ f'[o].before = f[o].before /\ f'[o].after = f[o].after
  /\ UNCHANGED h

\* What a step may do to an operation.
AttachmentMove(o) ==
  \/ f'[o] = f[o]
  \/ \E x \in Attachment!Proposals : AttachmentProposed(o, x)
  \/ AttachmentRuns(o)
  \/ AttachmentRecovered(o)

\* Every step does one of these to an operation, or nothing.
LEMMA AttachmentMoves ==
  ASSUME Attachment!PreparationInv, Attachment!Next, NEW o \in Attachment!Ops
  PROVE  AttachmentMove(o)
<1>f. /\ f \in [Attachment!Ops -> Attachment!Operations] /\ f[o] \in Attachment!Operations
      /\ j # 0 => j \in Attachment!Ops /\ f[j] \in Attachment!Operations
      /\ j # 0 => Attachment!CandidateSound(j) /\ Attachment!CycleSound(j)
  BY AttachmentFacts
<1>1. CASE \E p \in Attachment!Ops : Attachment!Propose(p)
  <2>1. PICK p \in Attachment!Ops : Attachment!Propose(p)
    BY <1>1
  <2>2. PICK x \in Attachment!Proposals : Attachment!Describable(x) /\ f' = [f EXCEPT ![p] = x]
    BY <2>1 DEF Attachment!Propose
  <2>3. CASE o = p
    BY <2>1, <2>2, <2>3 DEF Attachment!Propose, AttachmentMove, AttachmentProposed
  <2>4. CASE o # p
    BY <1>f, <2>2, <2>4 DEF AttachmentMove
  <2> QED
    BY <2>3, <2>4
<1>2. ASSUME NEW s, f' = [f EXCEPT ![j].status = s], o = j
      PROVE  /\ AttachmentKept(o) /\ f'[o].status = s /\ f'[o].result = f[o].result
  <2>1. f'[o] = [f[o] EXCEPT !.status = s]
    BY <1>f, <1>2
  <2> QED
    BY <1>f, <2>1 DEF AttachmentKept, Attachment!Operations
<1>3. ASSUME NEW x, f' = Attachment!Recorded(j, x), o = j
      PROVE  /\ AttachmentKept(o) /\ f'[o].status = "recorded" /\ f'[o].result = x
  <2>1. f'[o] = [f[o] EXCEPT !.status = "recorded", !.result = x]
    BY <1>f, <1>3 DEF Attachment!Recorded
  <2> QED
    BY <1>f, <2>1 DEF AttachmentKept, Attachment!Operations
<1>4. CASE Attachment!Superseded
  <2>1. CASE o = j
    BY <1>2, <1>4, <2>1 DEF Attachment!Superseded, AttachmentMove, AttachmentRuns
  <2>2. CASE o # j
    BY <1>f, <1>4, <2>2 DEF Attachment!Superseded, AttachmentMove
  <2> QED
    BY <2>1, <2>2
<1>5. CASE \E y \in Attachment!Preparations \cup {"exec"} : Attachment!Start(y)
  <2>1. f' = [f EXCEPT ![j].status = "executing"] /\ j' = j /\ f[j].mode # "reconcile"
    BY <1>5 DEF Attachment!Start, Attachment!Begins, Attachment!Preparations
  <2>2. CASE o = j
    BY <1>2, <2>1, <2>2 DEF AttachmentMove, AttachmentRuns
  <2>3. CASE o # j
    BY <1>f, <2>1, <2>3 DEF AttachmentMove
  <2> QED
    BY <2>2, <2>3
<1>6. CASE Attachment!StageWrites
  <2>1. /\ f' = [f EXCEPT ![j].after = "original"] /\ j' = j /\ j # 0
        /\ f[j].status = "executing" /\ f[j].mode = "stage"
    BY <1>6 DEF Attachment!StageWrites, Attachment!Executing
  <2>2. CASE o = j
    <3>1. f'[o] = [f[o] EXCEPT !.after = "original"]
      BY <1>f, <2>1, <2>2
    <3>2. AttachmentKept(o) /\ f'[o].status = "executing"
      BY <1>f, <2>1, <2>2, <3>1 DEF AttachmentKept, Attachment!Operations
    <3> QED
      BY <2>1, <2>2, <3>2 DEF AttachmentMove, AttachmentRuns
  <2>3. CASE o # j
    BY <1>f, <2>1, <2>3 DEF AttachmentMove
  <2> QED
    BY <2>2, <2>3
<1>7. ASSUME NEW x, f' = Attachment!Recorded(j, x), j' = j, j # 0,
             f[j].mode = "reconcile" => x = "ok" /\ f[j].status = "reviewed"
      PROVE  AttachmentMove(o)
  <2>1. CASE o = j
    BY <1>3, <1>7, <2>1 DEF AttachmentMove, AttachmentRuns
  <2>2. CASE o # j
    BY <1>f, <1>7, <2>2 DEF AttachmentMove, Attachment!Recorded
  <2> QED
    BY <2>1, <2>2
<1>8. CASE Attachment!StageReturns
  <2>1. f' = Attachment!Recorded(j, g'[j]) /\ j' = j /\ j # 0 /\ f[j].mode = "stage"
    BY <1>8 DEF Attachment!StageReturns, Attachment!Executing
  <2> QED
    BY <2>1, <1>7
<1>9. CASE Attachment!CaptureReturns \/ Attachment!ApplyPlan \/ Attachment!Crash
  <2>1. \E x : /\ f' = Attachment!Recorded(j, x) /\ j' = j /\ j # 0
               /\ f[j].mode = "reconcile" => x = "ok" /\ f[j].status = "reviewed"
    BY <1>f, <1>9 DEF Attachment!CaptureReturns, Attachment!Capturing, Attachment!ApplyPlan,
       Attachment!Begins,
       Attachment!Crash, Attachment!CandidateSound
  <2> QED
    BY <2>1, <1>7
<1>10. CASE Attachment!ExecReturns
  <2>1. /\ j' = j /\ j # 0 /\ f[j].mode = "exec"
        /\ \E x : f' = [Attachment!Recorded(j, "ok") EXCEPT ![j].after = x]
    BY <1>10 DEF Attachment!ExecReturns, Attachment!Executing
  <2>2. CASE o = j
    <3>1. PICK x : f' = [Attachment!Recorded(j, "ok") EXCEPT ![j].after = x]
      BY <2>1
    <3>2. f'[o] = [f[o] EXCEPT !.status = "recorded", !.result = "ok", !.after = x]
      BY <1>f, <2>2, <3>1 DEF Attachment!Recorded
    <3>3. AttachmentKept(o) /\ f'[o].status = "recorded"
      BY <1>f, <3>2 DEF AttachmentKept, Attachment!Operations
    <3> QED
      BY <2>1, <2>2, <3>3 DEF AttachmentMove, AttachmentRuns
  <2>3. CASE o # j
    BY <1>f, <2>1, <2>3 DEF AttachmentMove, Attachment!Recorded
  <2> QED
    BY <2>2, <2>3
<1>11. CASE Attachment!Capture
  <2>1. /\ j # 0 /\ f' = [f EXCEPT ![j].text = IF f[j].mode = "accept" THEN e ELSE @]
        /\ f[j].mode = "accept" => f[j].text = e
    BY <1>11 DEF Attachment!Capture, Attachment!Capturing
  <2>2. [f[j] EXCEPT !.text = f[j].text] = f[j]
    BY <1>f, <2>1 DEF Attachment!Operations
  <2>3. f'[o] = f[o]
    BY <1>f, <2>1, <2>2
  <2> QED
    BY <2>3 DEF AttachmentMove
<1>12. CASE Attachment!Reconcile
  <2>1. /\ j' = j /\ j # 0 /\ f[j].mode = "reconcile" /\ f[j].status = "reviewed"
        /\ \E x : f' = [Attachment!Recorded(j, "ok") EXCEPT ![j].found = x]
    BY <1>12 DEF Attachment!Reconcile, Attachment!Begins
  <2>2. CASE o = j
    <3>1. PICK x : f' = [Attachment!Recorded(j, "ok") EXCEPT ![j].found = x]
      BY <2>1
    <3>2. f'[o] = [f[o] EXCEPT !.status = "recorded", !.result = "ok", !.found = x]
      BY <1>f, <2>2, <3>1 DEF Attachment!Recorded
    <3>3. AttachmentKept(o) /\ f'[o].status = "recorded" /\ f'[o].result = "ok"
      BY <1>f, <3>2 DEF AttachmentKept, Attachment!Operations
    <3> QED
      BY <2>1, <2>2, <3>3 DEF AttachmentMove, AttachmentRuns
  <2>3. CASE o # j
    BY <1>f, <2>1, <2>3 DEF AttachmentMove, Attachment!Recorded
  <2> QED
    BY <2>2, <2>3
<1>13. CASE Attachment!Learn
  <2>1. /\ j # 0 /\ j' = j /\ h' = h /\ f[j].status = "recorded" /\ j \in Attachment!Ops
        /\ f'[j] = [f[j] EXCEPT !.status = "learned"]
    BY <1>f, <1>13 DEF Attachment!Learn
  <2>2. AttachmentKept(j) /\ f'[j].status = "learned" /\ f'[j].result = f[j].result
    BY <1>f, <2>1 DEF AttachmentKept, Attachment!Operations
  <2>3. CASE o = j
    BY <1>f, <2>1, <2>2, <2>3 DEF AttachmentMove, AttachmentRuns, Attachment!CandidateSound
  <2>4. CASE o # j /\ f[j].mode = "reconcile" /\ o = f[j].target
    <3>1. f'[o] = [f[o] EXCEPT !.result = f[j].found]
      BY <1>f, <1>13, <2>4 DEF Attachment!Learn
    <3>2. /\ AttachmentKept(o) /\ f'[o].status = f[o].status
          /\ f'[o].before = f[o].before /\ f'[o].after = f[o].after
      BY <1>f, <3>1 DEF AttachmentKept, Attachment!Operations
    <3> QED
      BY <2>1, <2>2, <2>4, <3>2 DEF AttachmentMove, AttachmentRecovered
  <2>5. CASE o # j /\ ~(f[j].mode = "reconcile" /\ o = f[j].target)
    BY <1>f, <1>13, <2>5 DEF Attachment!Learn, AttachmentMove
  <2> QED
    BY <2>3, <2>4, <2>5
<1>14. CASE Attachment!CloseOnly \/ Attachment!Revalidate \/ Attachment!Confirm
  <2>1. f' = [f EXCEPT ![j].status = "complete"] /\ j' = 0 /\ j # 0 /\ f[j].status = "learned"
    BY <1>14 DEF Attachment!CloseOnly, Attachment!Revalidate, Attachment!Confirm,
       Attachment!Complete,
       Attachment!MayClose
  <2>2. CASE o = j
    BY <1>2, <2>1, <2>2 DEF AttachmentMove, AttachmentRuns
  <2>3. CASE o # j
    BY <1>f, <2>1, <2>3 DEF AttachmentMove
  <2> QED
    BY <2>2, <2>3
<1>15. CASE Attachment!Prepare \/ Attachment!Instruct \/ Attachment!Edit
  BY <1>15 DEF Attachment!Prepare, Attachment!Instruct, Attachment!Edit, AttachmentMove
<1> QED
  BY <1>1, <1>4, <1>5, <1>6, <1>8, <1>9, <1>10, <1>11, <1>12, <1>13, <1>14, <1>15
     DEF Attachment!Next

\* What a step does to what the user said, to the confirmations and to the attachment.
AttachmentConfirms(x) ==
  /\ x \in Attachment!Consumer(j) /\ x \in Attachment!Ops /\ h[x] \in {"none", "pending"} /\ a' = a
  /\ \/ /\ h' = [h EXCEPT ![x] = "pending"] /\ f[x].src # Len(a)
        /\ UNCHANGED <<b, c, i>>
     \/ /\ h' = [o \in Attachment!Ops |-> IF o = x THEN "confirmed"
                   ELSE IF Attachment!Disposition(x) /\ o \in f[x].prior THEN "superseded"
                   ELSE h[o]]
        /\ Attachment!Disposition(x) => \A p \in f[x].prior : h[p] = "pending"
        /\ i' = IF f[x].mode = "accept" THEN x ELSE i
        /\ \/ f[x].mode # "withdraw" /\ UNCHANGED <<b, c>>
           \/ /\ f[x].mode = "withdraw" /\ f[x].src = Len(a)
              /\ b = "pending" /\ b' = "withdrawn" /\ c' = Len(a)

\* A cycle closes, and may confirm.
AttachmentCloses ==
  /\ j # 0 /\ j' = 0 /\ f[j].status = "learned" /\ f' = [f EXCEPT ![j].status = "complete"]
  /\ \/ \E x : AttachmentConfirms(x)
     \/ /\ UNCHANGED <<a, b, c, h, i>>
        /\ \A x \in Attachment!Consumer(j) : h[x] \in {"confirmed", "superseded"}

\* A step closes a cycle, hears an instruction, applies a plan, proposes, or leaves all this alone.
LEMMA AttachmentTurns ==
  ASSUME Attachment!PreparationInv, Attachment!Next
  PROVE  \/ AttachmentCloses
         \/ j' = j /\ UNCHANGED <<b, c, h, i>> /\
              (a' = a \/ (Len(a) < MaxSources /\ \E x \in Attachment!Words : a' = Append(a, x)))
         \/ j' = j /\ UNCHANGED <<a, c, h, i>> /\ b = "pending" /\ b' = "applied" /\ i # 0
         \/ /\ j = 0 /\ j' \in Attachment!Ops /\ UNCHANGED <<a, b, c, h, i>>
            /\ \E x \in Attachment!Proposals : AttachmentProposed(j', x)
         \/ /\ j # 0 /\ j' = 0 /\ f[j].status = "reviewed" /\ UNCHANGED <<a, b, c, h, i>>
            /\ f' = [f EXCEPT ![j].status = "superseded"]
<1>1. CASE Attachment!CloseOnly
  BY <1>1 DEF Attachment!CloseOnly, Attachment!MayClose, Attachment!Complete, AttachmentCloses
<1>2. CASE Attachment!Revalidate
  <2>1. PICK x \in Attachment!Consumer(j) :
          /\ h[x] \in {"none", "pending"} /\ Attachment!Outdated(x)
          /\ h' = [h EXCEPT ![x] = "pending"]
    BY <1>2 DEF Attachment!Revalidate
  <2>2. x \in Attachment!Ops
    BY <1>2, <2>1, AttachmentFacts DEF Attachment!Revalidate, Attachment!MayClose,
       Attachment!Consumer,
       Attachment!CandidateSound, Attachment!Operations
  <2>3. AttachmentConfirms(x)
    BY <1>2, <2>1, <2>2 DEF Attachment!Revalidate, AttachmentConfirms, Attachment!Outdated,
       Attachment!SourceHash
  <2> QED
    BY <1>2, <2>3 DEF Attachment!Revalidate, Attachment!MayClose, Attachment!Complete,
       AttachmentCloses
<1>3. CASE Attachment!Confirm
  <2>1. PICK x \in Attachment!Consumer(j) :
          /\ h[x] \in {"none", "pending"} /\ ~Attachment!Outdated(x)
          /\ f[x].mode = "withdraw" => b = "pending"
          /\ Attachment!Disposition(x) => \A p \in f[x].prior : h[p] = "pending"
          /\ h' = [o \in Attachment!Ops |->
                 IF o = x THEN "confirmed"
                 ELSE IF Attachment!Disposition(x) /\ o \in f[x].prior THEN "superseded"
                 ELSE h[o]]
          /\ i' = IF f[x].mode = "accept" THEN x ELSE i
          /\ b' = IF f[x].mode = "withdraw" THEN "withdrawn" ELSE b
          /\ c' = IF f[x].mode = "withdraw" THEN Len(a) ELSE c
    BY <1>3 DEF Attachment!Confirm, Attachment!SourceHash
  <2>2. x \in Attachment!Ops
    BY <1>3, <2>1, AttachmentFacts DEF Attachment!Confirm, Attachment!MayClose, Attachment!Consumer,
       Attachment!CandidateSound, Attachment!Operations
  <2>4. f[x].mode = "withdraw" => f[x].src = Len(a)
    BY <2>1 DEF Attachment!Outdated, Attachment!Disposition, Attachment!SourceHash
  <2>5. a' = a
    BY <1>3 DEF Attachment!Confirm
  <2>3. AttachmentConfirms(x)
    BY <2>1, <2>2, <2>4, <2>5 DEF AttachmentConfirms
  <2> QED
    BY <1>3, <2>3 DEF Attachment!Confirm, Attachment!MayClose, Attachment!Complete, AttachmentCloses
<1>4. CASE \E o \in Attachment!Ops : Attachment!Propose(o)
  BY <1>4 DEF Attachment!Propose, AttachmentProposed
<1>5. CASE Attachment!Superseded
  BY <1>5 DEF Attachment!Superseded
<1>6. CASE Attachment!ApplyPlan
  <2>1. j # 0 /\ f[j].mode = "plan" /\ Attachment!Describable(f[j])
    BY <1>6 DEF Attachment!ApplyPlan, Attachment!Begins
  <2>2. b = "pending" => i # 0
    BY <2>1 DEF Attachment!Describable, Attachment!Pending, Attachment!Prepared
  <2> QED
    BY <1>6, <2>2 DEF Attachment!ApplyPlan
<1>7. CASE Attachment!Instruct
  BY <1>7 DEF Attachment!Instruct
<1>8. CASE \/ \E x \in Attachment!Preparations \cup {"exec"} : Attachment!Start(x)
           \/ Attachment!Prepare \/ Attachment!StageWrites \/ Attachment!StageReturns
           \/ Attachment!ExecReturns \/ Attachment!Capture \/ Attachment!CaptureReturns
           \/ Attachment!Reconcile \/ Attachment!Learn \/ Attachment!Edit \/ Attachment!Crash
  BY <1>8 DEF Attachment!Start, Attachment!Prepare, Attachment!StageWrites, Attachment!StageReturns,
     Attachment!ExecReturns, Attachment!Capture, Attachment!CaptureReturns,
     Attachment!Reconcile, Attachment!Learn, Attachment!Edit, Attachment!Crash
<1> QED
  BY <1>1, <1>2, <1>3, <1>4, <1>5, <1>6, <1>7, <1>8 DEF Attachment!Next

\* The types are kept.
LEMMA AttachmentProposals ==
  ASSUME Attachment!PreparationInv, NEW x \in Attachment!Proposals
  PROVE  /\ x \in Attachment!Operations /\ x.status = "reviewed" /\ x.mode \in Attachment!Modes
         /\ x.src = Len(a) /\ x.result = "none"
         /\ x.mode = "accept" => x.exec \in Attachment!Ops
         /\ x.mode = "reconcile" <=> x.target # 0
         /\ x.target # 0 => x.target \in Attachment!Unknown
<1>1. Len(a) \in 0 .. MaxSources /\ DecisiveOf(a, Len(a)) \in 0 .. MaxSources
  BY AttachmentFacts, AttachmentDecisive, AttachmentBounds
<1>2. /\ Attachment!Decisive(Len(a)) \in 0 .. MaxSources /\
           Attachment!Attempts \subseteq Attachment!Ops
      /\ Attachment!Unknown \subseteq Attachment!Ops /\ 0 \notin Attachment!Ops
      /\ d \in Attachment!Files /\ e \in 0 .. Attachment!Edited
      /\ Attachment!NoOp \in Attachment!Operations
  BY <1>1, AttachmentVerdicts, AttachmentFacts, AttachmentNoOp
     DEF Attachment!Attempts, Attachment!Unknown, Attachment!TypeOK
<1> DEFINE Goal == /\ x \in Attachment!Operations /\ x.status = "reviewed"
                   /\ x.mode \in Attachment!Modes /\ x.src = Len(a) /\ x.result = "none"
                   /\ x.mode = "accept" => x.exec \in Attachment!Ops
                   /\ x.mode = "reconcile" <=> x.target # 0
                   /\ x.target # 0 => x.target \in Attachment!Unknown
<1>m. {"stage", "plan", "exec", "reconcile", "accept", "withdraw",
        "retain"} \subseteq Attachment!Modes
  BY DEF Attachment!Modes, Attachment!Preparations
<1>3. ASSUME NEW y \in {"stage", "plan"},
             x = [Attachment!NoOp EXCEPT !.mode = y, !.status = "reviewed", !.src = Len(a)]
      PROVE  Goal
  <2>1. x \in Attachment!Operations
    BY <1>1, <1>2, <1>3, <1>m DEF Attachment!Operations
  <2>2. x.status = "reviewed" /\ x.src = Len(a) /\ x.result = "none" /\ x.mode = y /\ x.target = 0
    BY <1>3 DEF Attachment!NoOp
  <2> QED
    BY <1>2, <1>3, <1>m, <2>1, <2>2
<1>4. ASSUME x = [Attachment!NoOp EXCEPT !.mode = "exec", !.status = "reviewed", !.src = Len(a),
               !.before = d]
      PROVE  Goal
  <2>1. x \in Attachment!Operations
    BY <1>1, <1>2, <1>4, <1>m DEF Attachment!Operations
  <2>2. x.status = "reviewed" /\ x.src = Len(a) /\ x.result = "none" /\ x.mode = "exec" /\
          x.target = 0
    BY <1>4 DEF Attachment!NoOp
  <2> QED
    BY <1>2, <1>4, <1>m, <2>1, <2>2
<1>5. ASSUME NEW y \in Attachment!Unknown,
             x = [Attachment!NoOp EXCEPT !.mode = "reconcile", !.status = "reviewed",
               !.src = Len(a), !.target = y]
      PROVE  Goal
  <2>1. x \in Attachment!Operations
    BY <1>1, <1>2, <1>5, <1>m DEF Attachment!Operations
  <2>2. x.status = "reviewed" /\ x.src = Len(a) /\ x.result = "none" /\ x.mode = "reconcile" /\
          x.target = y
    BY <1>5 DEF Attachment!NoOp
  <2> QED
    BY <1>2, <1>5, <1>m, <2>1, <2>2
<1>6. ASSUME NEW y \in Attachment!Ops, NEW z \in Attachment!Ops,
             x = [Attachment!NoOp EXCEPT !.mode = "accept", !.status = "reviewed", !.src = Len(a),
               !.stage = y, !.exec = z,
                                     !.text = e]
      PROVE  Goal
  <2>1. x \in Attachment!Operations
    BY <1>1, <1>2, <1>6, <1>m DEF Attachment!Operations
  <2>2. x.status = "reviewed" /\ x.src = Len(a) /\ x.result = "none" /\ x.mode = "accept" /\
          x.target = 0 /\ x.exec = z
    BY <1>6 DEF Attachment!NoOp
  <2> QED
    BY <1>2, <1>6, <1>m, <2>1, <2>2
<1>7. ASSUME NEW y \in {"withdraw", "retain"},
             x = [Attachment!NoOp EXCEPT !.mode = y, !.status = "reviewed", !.src = Len(a),
                       !.cites = Attachment!Decisive(Len(a)), !.prior = Attachment!Attempts]
      PROVE  Goal
  <2>1. x \in Attachment!Operations
    BY <1>1, <1>2, <1>7, <1>m DEF Attachment!Operations
  <2>2. x.status = "reviewed" /\ x.src = Len(a) /\ x.result = "none" /\ x.mode = y /\ x.target = 0
    BY <1>7 DEF Attachment!NoOp
  <2> QED
    BY <1>2, <1>7, <1>m, <2>1, <2>2
<1> DEFINE P1 == {[Attachment!NoOp EXCEPT !.mode = y, !.status = "reviewed",
      !.src = Attachment!SourceHash] :
                      y \in {"stage", "plan"}}
           P2 == {[Attachment!NoOp EXCEPT !.mode = "exec", !.status = "reviewed",
             !.src = Attachment!SourceHash,
                       !.before = d]}
           P3 == {[Attachment!NoOp EXCEPT !.mode = "reconcile", !.status = "reviewed",
             !.src = Attachment!SourceHash,
                       !.target = y] : y \in Attachment!Unknown}
           P4 == {[Attachment!NoOp EXCEPT !.mode = "accept", !.status = "reviewed",
             !.src = Attachment!SourceHash,
                       !.stage = y[1], !.exec = y[2], !.text = e] :
                         y \in Attachment!Ops \X Attachment!Ops}
           P5 == {[Attachment!NoOp EXCEPT !.mode = y, !.status = "reviewed",
             !.src = Attachment!SourceHash,
                       !.cites = Attachment!Decisive(Attachment!SourceHash),
                         !.prior = Attachment!Attempts] :
                      y \in {"withdraw", "retain"}}
<1>8. x \in P1 \cup P2 \cup P3 \cup P4 \cup P5
  BY DEF Attachment!Proposals
<1>10. CASE x \in P1
  BY <1>3, <1>10 DEF Attachment!SourceHash
<1>11. CASE x \in P2
  BY <1>4, <1>11 DEF Attachment!SourceHash
<1>12. CASE x \in P3
  BY <1>5, <1>12 DEF Attachment!SourceHash
<1>13. CASE x \in P4
  <2>1. PICK y \in Attachment!Ops \X Attachment!Ops :
          x = [Attachment!NoOp EXCEPT !.mode = "accept", !.status = "reviewed",
            !.src = Attachment!SourceHash,
                       !.stage = y[1], !.exec = y[2], !.text = e]
    BY <1>13
  <2>2. y[1] \in Attachment!Ops /\ y[2] \in Attachment!Ops
    OBVIOUS
  <2> QED
    BY <1>6, <2>1, <2>2 DEF Attachment!SourceHash
<1>14. CASE x \in P5
  BY <1>7, <1>14 DEF Attachment!SourceHash
<1> HIDE DEF P1, P2, P3, P4, P5
<1> QED
  BY <1>8, <1>10, <1>11, <1>12, <1>13, <1>14

\* What an operation is proposed for is so.
LEMMA AttachmentNew ==
  ASSUME Attachment!PreparationInv, NEW o \in Attachment!Ops, NEW x \in Attachment!Proposals,
         AttachmentProposed(o, x)
  PROVE  /\ x.mode = "withdraw" => VerdictOf(a, x.src) = "withdraw"
         /\ x.mode = "accept" =>
              /\ x.exec # o /\ x.text = x.exec /\ f[x.exec].mode = "exec"
              /\ Attachment!Preserved(x.exec) /\ f[x.exec].status = "complete"
         /\ x.mode = "reconcile" => x.target # o /\ f[x.target].result = "unknown"
<1>1. /\ x \in Attachment!Operations /\ x.src = Len(a)
      /\ x.mode = "accept" => x.exec \in Attachment!Ops
      /\ x.mode = "reconcile" => x.target \in Attachment!Ops
      /\ Attachment!Describable(x) /\ j = 0 /\ f[o].mode = "none" /\ f[o] = Attachment!NoOp
      /\ \A p \in Attachment!Ops : Attachment!CycleSound(p)
  BY AttachmentProposals, AttachmentFacts
     DEF AttachmentProposed, Attachment!Unknown, Attachment!CycleSound
<1>2. CASE x.mode = "withdraw"
  <2>1. x.cites # 0 /\ x.cites = DecisiveOf(a, x.src) /\ a[x.cites] = "withdraw"
    BY <1>1, <1>2, AttachmentVerdicts DEF Attachment!Describable, Attachment!Quoted
  <2> QED
    BY <1>2, <2>1 DEF VerdictOf
<1>3. CASE x.mode = "accept"
  <2>1. /\ x.text = e /\ e = x.exec /\ Attachment!Reviewed(x.exec) /\ f[x.exec].mode = "exec"
        /\ Attachment!Preserved(x.exec)
    BY <1>1, <1>3 DEF Attachment!Describable, Attachment!Extraction
  <2>2. f[x.exec].status = "complete"
    BY <1>1, <1>3, <2>1, AttachmentBounds DEF Attachment!Reviewed, Attachment!CycleSound
  <2> QED
    BY <1>1, <1>3, <2>1, <2>2
<1>4. CASE x.mode = "reconcile"
  BY <1>1, <1>4 DEF Attachment!Describable, Attachment!NoOp
<1> QED
  BY <1>2, <1>3, <1>4

\* What the handlers write of the operation at hand is an operation.
AttachmentWritten == {"superseded", "executing", "recorded", "learned", "complete"}
\* What the handlers write.
AttachmentWritable ==
  /\ \A s \in AttachmentWritten :
       [f EXCEPT ![j].status = s] \in [Attachment!Ops -> Attachment!Operations]
  /\ \A x \in Attachment!Files :
       [f EXCEPT ![j].after = x] \in [Attachment!Ops -> Attachment!Operations]
  /\ \A r \in Attachment!Outcomes :
       /\ Attachment!Recorded(j, r) \in [Attachment!Ops -> Attachment!Operations]
       /\ \A x \in Attachment!Files :
            [Attachment!Recorded(j, r) EXCEPT ![j].after = x]
              \in [Attachment!Ops -> Attachment!Operations]
       /\ \A y \in Attachment!Outcomes :
            [Attachment!Recorded(j, r) EXCEPT ![j].found = y]
              \in [Attachment!Ops -> Attachment!Operations]

\* What the handlers write of the operation at hand is an operation.
LEMMA AttachmentWrites ==
  ASSUME f \in [Attachment!Ops -> Attachment!Operations], j \in Attachment!Ops
  PROVE  AttachmentWritable
<1>1. f[j] \in Attachment!Operations
  OBVIOUS
<1>2. ASSUME NEW q \in [Attachment!Ops -> Attachment!Operations]
      PROVE  /\ \A x \in Attachment!Files :
                  [q EXCEPT ![j].after = x] \in [Attachment!Ops -> Attachment!Operations]
             /\ \A x \in Attachment!Outcomes :
                  [q EXCEPT ![j].found = x] \in [Attachment!Ops -> Attachment!Operations]
  <2>1. q[j] \in Attachment!Operations
    OBVIOUS
  <2>2. /\ \A x \in Attachment!Files : [q[j] EXCEPT !.after = x] \in Attachment!Operations
        /\ \A x \in Attachment!Outcomes : [q[j] EXCEPT !.found = x] \in Attachment!Operations
    BY <2>1 DEF Attachment!Operations
  <2> QED
    BY <2>2
<1>3. ASSUME NEW s \in AttachmentWritten
      PROVE  [f EXCEPT ![j].status = s] \in [Attachment!Ops -> Attachment!Operations]
  <2>1. [f[j] EXCEPT !.status = s] \in Attachment!Operations
    BY <1>1 DEF Attachment!Operations, AttachmentWritten
  <2> QED
    BY <2>1
<1>4. ASSUME NEW r \in Attachment!Outcomes
      PROVE  Attachment!Recorded(j, r) \in [Attachment!Ops -> Attachment!Operations]
  <2>1. [f[j] EXCEPT !.status = "recorded", !.result = r] \in Attachment!Operations
    BY <1>1 DEF Attachment!Operations
  <2> QED
    BY <2>1 DEF Attachment!Recorded
<1> QED
  BY <1>2, <1>3, <1>4 DEF AttachmentWritable

\* The types are kept.
LEMMA AttachmentTypeStep ==
  ASSUME Attachment!PreparationInv, Attachment!Next
  PROVE  Attachment!TypeOK'
<1>f. /\ Attachment!TypeOK /\ f \in [Attachment!Ops -> Attachment!Operations]
      /\ j # 0 => j \in Attachment!Ops /\ f[j] \in Attachment!Operations
      /\ Len(a) \in 0 .. MaxSources /\ 0 \notin Attachment!Ops
  BY AttachmentFacts
<1>n. "none" \in Attachment!Outcomes \cup {"none"} /\ "ok" \in Attachment!Outcomes
      /\ Attachment!Edited \in 0 .. Attachment!Edited
      /\ Attachment!Ops \subseteq 0 .. Attachment!Edited
  BY AttachmentBounds DEF Attachment!Outcomes
<1>s. j # 0 => AttachmentWritable
  BY <1>f, AttachmentWrites
<1>t. ASSUME f' \in [Attachment!Ops -> Attachment!Operations],
             g' \in [Attachment!Ops -> {"none", "prepared", "ok", "failed"}],
             d' \in Attachment!Files, e' \in 0 .. Attachment!Edited
      PROVE  Attachment!TypeOK'
  <2>1. /\ a' \in Seq(Attachment!Words) /\ Len(a') <= MaxSources /\ Len(a') >= Len(a) /\
             Len(a') \in Nat
        /\ AttachmentCloses => a' = a
    <3>1. CASE a' = a
      BY <1>f, <3>1, AttachmentBounds DEF Attachment!TypeOK
    <3>2. CASE Len(a) < MaxSources /\ \E x \in Attachment!Words : a' = Append(a, x)
      BY <1>f, <3>2, AttachmentBounds DEF Attachment!TypeOK, AttachmentCloses, AttachmentConfirms
    <3> QED
      BY <3>1, <3>2, AttachmentTurns DEF AttachmentCloses, AttachmentConfirms
  <2>2. /\ b' \in {"pending", "applied", "withdrawn"} /\ c' \in 0 .. Len(a')
        /\ h' \in [Attachment!Ops -> {"none", "pending", "confirmed", "superseded"}]
        /\ i' \in Attachment!Ops \cup {0} /\ j' \in Attachment!Ops \cup {0}
    <3>1. CASE AttachmentCloses
      BY <1>f, <2>1, <3>1 DEF AttachmentCloses, AttachmentConfirms, Attachment!TypeOK
    <3>2. CASE ~AttachmentCloses
      BY <1>f, <2>1, <3>2, AttachmentTurns DEF Attachment!TypeOK
    <3> QED
      BY <3>1, <3>2
  <2> QED
    BY <1>t, <2>1, <2>2 DEF Attachment!TypeOK
<1>1. CASE \E o \in Attachment!Ops : Attachment!Propose(o)
  <2>1. \E o \in Attachment!Ops, x \in Attachment!Proposals : f' = [f EXCEPT ![o] = x]
    BY <1>1 DEF Attachment!Propose
  <2>2. f' \in [Attachment!Ops -> Attachment!Operations]
    BY <1>f, <2>1, AttachmentProposals
  <2> QED
    BY <1>1, <1>f, <2>2, <1>t DEF Attachment!Propose, Attachment!TypeOK
<1>2. CASE Attachment!Superseded \/ \E y \in Attachment!Preparations \cup {"exec"} :
             Attachment!Start(y)
  <2>1. j # 0 /\ UNCHANGED <<d, e, g>>
        /\ \E s \in {"superseded", "executing"} : f' = [f EXCEPT ![j].status = s]
    BY <1>2 DEF Attachment!Superseded, Attachment!Start, Attachment!Begins
  <2>2. f' \in [Attachment!Ops -> Attachment!Operations]
    BY <2>1, <1>s DEF AttachmentWritable, AttachmentWritten
  <2> QED
    BY <2>1, <2>2, <1>f, <1>t DEF Attachment!TypeOK
<1>3. CASE Attachment!Prepare \/ Attachment!Instruct \/ Attachment!Edit
  BY <1>3, <1>f, <1>n, <1>t DEF Attachment!Prepare, Attachment!Instruct, Attachment!Edit,
     Attachment!TypeOK, Attachment!Files
<1>4. CASE Attachment!StageWrites
  BY <1>4, <1>f, <1>n, <1>s, <1>t DEF AttachmentWritable, Attachment!StageWrites,
     Attachment!Executing, Attachment!TypeOK, Attachment!Files, Attachment!Outcomes
<1>5. CASE Attachment!StageReturns
  <2>1. \E r \in {"ok", "failed"} : j # 0 /\ g' = [g EXCEPT ![j] = r] /\
          f' = Attachment!Recorded(j, r)
    BY <1>5, <1>f DEF Attachment!StageReturns, Attachment!Executing, Attachment!TypeOK
  <2> QED
    BY <1>5, <2>1, <1>f, <1>n, <1>s, <1>t
       DEF AttachmentWritable, Attachment!StageReturns, Attachment!TypeOK, Attachment!Files,
          Attachment!Outcomes
<1>6. CASE Attachment!ExecReturns
  <2>1. j # 0 /\ \E x \in Attachment!Files : d' = x /\
          f' = [Attachment!Recorded(j, "ok") EXCEPT ![j].after = x]
    BY <1>6, <1>f DEF Attachment!ExecReturns, Attachment!Executing, Attachment!TypeOK,
       Attachment!Files
  <2>2. f' \in [Attachment!Ops -> Attachment!Operations] /\ d' \in Attachment!Files
    <3>1. PICK x \in Attachment!Files : d' = x /\
            f' = [Attachment!Recorded(j, "ok") EXCEPT ![j].after = x]
      BY <2>1
    <3> QED
      BY <2>1, <3>1, <1>n, <1>s DEF AttachmentWritable
  <2>3. e' = j /\ g' = g /\ j \in Attachment!Ops
    BY <1>6, <2>1, <1>f DEF Attachment!ExecReturns
  <2>4. e' \in 0 .. Attachment!Edited
    BY <2>3, <1>n
  <2>5. g' \in [Attachment!Ops -> {"none", "prepared", "ok", "failed"}]
    BY <1>f, <2>3 DEF Attachment!TypeOK
  <2> QED
    BY <2>2, <2>4, <2>5, <1>t
<1>7. CASE Attachment!Capture
  <2>1. /\ j # 0 /\ f' = [f EXCEPT ![j].text = IF f[j].mode = "accept" THEN e ELSE @]
        /\ f[j].mode = "accept" => f[j].text = e
        /\ g' = [g EXCEPT ![j] = "ok"] /\ UNCHANGED <<d, e>>
    BY <1>7 DEF Attachment!Capture, Attachment!Capturing
  <2>2. [f[j] EXCEPT !.text = f[j].text] = f[j]
    BY <1>f, <2>1 DEF Attachment!Operations
  <2>3. f' = f
    BY <1>f, <2>1, <2>2
  <2> QED
    BY <1>f, <1>t, <2>1, <2>3 DEF Attachment!TypeOK
<1>8. CASE Attachment!CaptureReturns \/ Attachment!ApplyPlan \/ Attachment!Crash
  <2>1. j # 0 /\ UNCHANGED <<d, e, g>> /\ \E r \in Attachment!Outcomes :
          f' = Attachment!Recorded(j, r)
    BY <1>8 DEF Attachment!CaptureReturns, Attachment!Capturing, Attachment!ApplyPlan,
       Attachment!Begins,
       Attachment!Crash, Attachment!Outcomes
  <2>2. f' \in [Attachment!Ops -> Attachment!Operations]
    BY <2>1, <1>s DEF AttachmentWritable
  <2> QED
    BY <2>1, <2>2, <1>f, <1>t DEF Attachment!TypeOK
<1>9. CASE Attachment!Reconcile
  <2>1. j # 0 /\ \E y \in Attachment!Outcomes :
          f' = [Attachment!Recorded(j, "ok") EXCEPT ![j].found = y]
    <3>1. f[j].target \in Attachment!Ops /\ Attachment!Observed(f[j].target) \in Attachment!Outcomes
      <4>1. j # 0 /\ f[j].mode = "reconcile"
        BY <1>9 DEF Attachment!Reconcile, Attachment!Begins
      <4>2. f[j].target \in Attachment!Ops
        BY <4>1, <1>f, AttachmentFacts DEF Attachment!CandidateSound, Attachment!Operations
      <4>3. g[f[j].target] \in {"none", "prepared", "ok", "failed"}
        BY <4>2, <1>f DEF Attachment!TypeOK
      <4> QED
        BY <4>2, <4>3 DEF Attachment!Observed, Attachment!StageSaved, Attachment!Outcomes
    <3> QED
      BY <1>9, <3>1 DEF Attachment!Reconcile, Attachment!Begins
  <2>2. f' \in [Attachment!Ops -> Attachment!Operations]
    <3>1. PICK y \in Attachment!Outcomes : f' = [Attachment!Recorded(j, "ok") EXCEPT ![j].found = y]
      BY <2>1
    <3> QED
      BY <2>1, <3>1, <1>n, <1>s DEF AttachmentWritable
  <2>3. g' \in [Attachment!Ops -> {"none", "prepared", "ok", "failed"}]
    <3>1. Attachment!Observed(f[j].target) \in {"unknown", "ok", "failed"} \cup {g[f[j].target]}
      BY DEF Attachment!Observed, Attachment!StageSaved
    <3>2. f[j].target \in Attachment!Ops
      BY <1>9, <2>1, <1>f, AttachmentFacts
         DEF Attachment!Reconcile, Attachment!Begins, Attachment!CandidateSound,
            Attachment!Operations
    <3> QED
      BY <1>9, <1>f, <3>1, <3>2 DEF Attachment!Reconcile, Attachment!TypeOK
  <2> QED
    BY <1>9, <1>f, <1>t, <2>2, <2>3 DEF Attachment!Reconcile, Attachment!TypeOK
<1>10. CASE Attachment!Learn
  <2>1. ASSUME NEW o \in Attachment!Ops PROVE f'[o] \in Attachment!Operations
    <3>1. f[o] \in Attachment!Operations /\ f[j] \in Attachment!Operations
      BY <1>10, <1>f DEF Attachment!Learn
    <3>2. f'[o] \in {f[o], [f[o] EXCEPT !.status = "learned"], [f[o] EXCEPT !.result = f[j].found]}
      BY <1>10 DEF Attachment!Learn
    <3> QED
      BY <3>1, <3>2 DEF Attachment!Operations
  <2>2. f' = [o \in Attachment!Ops |-> f'[o]]
    BY <1>10 DEF Attachment!Learn
  <2>3. f' \in [Attachment!Ops -> Attachment!Operations]
    BY <2>1, <2>2
  <2> QED
    BY <1>10, <1>f, <1>t, <2>3 DEF Attachment!Learn, Attachment!TypeOK
<1>11. CASE Attachment!CloseOnly \/ Attachment!Revalidate \/ Attachment!Confirm
  <2>1. j # 0 /\ UNCHANGED <<d, e, g>> /\ f' = [f EXCEPT ![j].status = "complete"]
    BY <1>11 DEF Attachment!CloseOnly, Attachment!Revalidate, Attachment!Confirm,
       Attachment!MayClose,
       Attachment!Complete
  <2>2. f' \in [Attachment!Ops -> Attachment!Operations]
    BY <2>1, <1>s DEF AttachmentWritable, AttachmentWritten
  <2> QED
    BY <2>1, <2>2, <1>f, <1>t DEF Attachment!TypeOK
<1> QED
  BY <1>1, <1>2, <1>3, <1>4, <1>5, <1>6, <1>7, <1>8, <1>9, <1>10, <1>11 DEF Attachment!Next

\* What was said before a step stays said.
LEMMA AttachmentSaid ==
  ASSUME Attachment!PreparationInv, Attachment!Next
  PROVE  /\ Len(a') \in Nat /\ Len(a) <= Len(a')
         /\ \A n \in 0 .. Len(a) : VerdictOf(a', n) = VerdictOf(a, n)
<1>1. a \in Seq(Attachment!Words)
  BY AttachmentFacts
<1>2. a' = a \/ \E x \in Attachment!Words : a' = Append(a, x)
  BY AttachmentTurns DEF AttachmentCloses, AttachmentConfirms
<1>3. CASE a' = a
  BY <1>1, <1>3
<1>4. CASE \E x \in Attachment!Words : a' = Append(a, x)
  BY <1>1, <1>4, AttachmentAppend
<1> QED
  BY <1>2, <1>3, <1>4

\* A confirmation is not taken back, and is of an operation that was proposed.
LEMMA AttachmentKeeps ==
  ASSUME Attachment!PreparationInv, Attachment!Next, NEW o \in Attachment!Ops
  PROVE  /\ h[o] # "none" => h'[o] # "none"
         /\ h[o] = "confirmed" => h'[o] = "confirmed"
         /\ h'[o] # "none" => f[o].mode # "none"
<1>1. /\ h \in [Attachment!Ops -> {"none", "pending", "confirmed", "superseded"}]
      /\ h[o] # "none" => f[o].mode # "none"
  BY AttachmentFacts DEF Attachment!CycleSound
<1>2. CASE h' = h
  BY <1>1, <1>2
<1>3. CASE AttachmentCloses /\ h' # h
  <2>1. PICK x : AttachmentConfirms(x)
    BY <1>3 DEF AttachmentCloses
  <2>2. f[x].mode # "none"
    BY <2>1 DEF AttachmentConfirms, Attachment!Consumer, Attachment!Preparations
  <2> QED
    BY <1>1, <2>1, <2>2 DEF AttachmentConfirms
<1> QED
  BY <1>2, <1>3, AttachmentTurns

\* A withdrawal that was overtaken stays open until it is answered.
LEMMA AttachmentOvertaken ==
  ASSUME Attachment!PreparationInv, Attachment!Next
  PROVE  Attachment!OvertakenIsAnswered'
<1>1. /\ h \in [Attachment!Ops -> {"none", "pending", "confirmed", "superseded"}]
      /\ f \in [Attachment!Ops -> Attachment!Operations] /\ Len(a) \in Nat
      /\ \A o \in Attachment!Ops : f[o].src \in 0 .. Len(a) /\ f[o] \in Attachment!Operations
      /\ Attachment!OvertakenIsAnswered
  BY AttachmentFacts DEF Attachment!PreparationInv, Attachment!PreparationSound
<1>2. Len(a') \in Nat /\ Len(a) <= Len(a')
  BY AttachmentSaid
<1>k. ASSUME NEW p \in Attachment!Ops, f[p].mode # "none"
      PROVE  f'[p].prior = f[p].prior /\ f'[p].src = f[p].src
  <2>1. AttachmentMove(p)
    BY AttachmentMoves
  <2> QED
    BY <1>k, <2>1 DEF AttachmentMove, AttachmentProposed, AttachmentRuns, AttachmentRecovered,
       AttachmentKept
<1>3. ASSUME NEW o \in Attachment!Ops, h'[o] = "superseded"
      PROVE  \E p \in Attachment!Ops : o \in f'[p].prior /\ h'[p] = "confirmed"
  <2>1. CASE h[o] = "superseded"
    <3>1. PICK p \in Attachment!Ops : o \in f[p].prior /\ h[p] = "confirmed"
      BY <1>1, <2>1 DEF Attachment!OvertakenIsAnswered
    <3>2. h'[p] = "confirmed" /\ f[p].mode # "none"
      BY <3>1, AttachmentKeeps
    <3> QED
      BY <3>1, <3>2, <1>k
  <2>2. CASE h[o] # "superseded"
    <3>1. AttachmentCloses
      BY <1>3, <2>2, AttachmentTurns
    <3>2. PICK x : AttachmentConfirms(x)
      BY <1>3, <2>2, <3>1 DEF AttachmentCloses
    <3>3. x \in Attachment!Ops /\ o \in f[x].prior /\ h'[x] = "confirmed"
      BY <1>1, <1>3, <2>2, <3>2 DEF AttachmentConfirms
    <3>4. f[x].mode # "none"
      BY <3>3, AttachmentKeeps
    <3> QED
      BY <3>3, <3>4, <1>k
  <2> QED
    BY <2>1, <2>2
<1>4. ASSUME NEW o \in Attachment!Ops, h'[o] = "pending"
      PROVE  f'[o].src < Len(a')
  <2>1. f'[o].src = f[o].src
    BY <1>4, AttachmentKeeps, <1>k
  <2>2. f[o].src < Len(a)
    <3>1. CASE h[o] = "pending"
      BY <1>1, <3>1 DEF Attachment!OvertakenIsAnswered, Attachment!SourceHash
    <3>2. CASE h[o] # "pending"
      <4>1. AttachmentCloses
        BY <1>4, <3>2, AttachmentTurns
      <4>2. PICK x : AttachmentConfirms(x)
        BY <1>4, <3>2, <4>1 DEF AttachmentCloses
      <4>3. x = o /\ f[x].src # Len(a)
        BY <1>1, <1>4, <3>2, <4>2 DEF AttachmentConfirms
      <4> QED
        BY <1>1, <4>3
    <3> QED
      BY <3>1, <3>2
  <2> QED
    BY <1>1, <1>2, <2>1, <2>2
<1>5. \A o \in Attachment!Ops :
        /\ h'[o] = "superseded" => \E p \in Attachment!Ops : o \in f'[p].prior /\
             h'[p] = "confirmed"
        /\ h'[o] = "pending" => f'[o].src < Len(a')
  BY <1>3, <1>4
<1> QED
  BY <1>5 DEF Attachment!OvertakenIsAnswered, Attachment!SourceHash

\* Whatever was known when an operation was reviewed stays so.
LEMMA AttachmentCandidates ==
  ASSUME Attachment!PreparationInv, Attachment!Next, NEW o \in Attachment!Ops
  PROVE  Attachment!CandidateSound(o)'
<1>1. /\ f[o] \in Attachment!Operations /\ f[o].src \in 0 .. Len(a) /\ Len(a) \in Nat
      /\ Attachment!CandidateSound(o) /\ VerdictOf(a, f[o].src) = Attachment!Verdict(f[o].src)
      /\ 0 \notin Attachment!Ops
  BY AttachmentFacts
<1>2. /\ Len(a') \in Nat /\ Len(a) <= Len(a')
      /\ \A n \in 0 .. Len(a) : VerdictOf(a', n) = VerdictOf(a, n)
  BY AttachmentSaid
<1>v. Attachment!Verdict(f[o].src)' = VerdictOf(a', f'[o].src)
  BY DEF DecisiveOf, GreatestOf, VerdictOf, Attachment!Decisive, Attachment!Verdict
<1>3. CASE \E x \in Attachment!Proposals : AttachmentProposed(o, x)
  <2>1. PICK x \in Attachment!Proposals : AttachmentProposed(o, x)
    BY <1>3
  <2>2. f' = [f EXCEPT ![o] = x] /\ f \in [Attachment!Ops -> Attachment!Operations] /\ a' = a
    BY <2>1, AttachmentFacts DEF AttachmentProposed
  <2>3. f'[o] = x /\ \A p \in Attachment!Ops : p # o => f'[p] = f[p]
    BY <2>2
  <2>4. /\ x.mode = "accept" => x.exec \in Attachment!Ops
        /\ x.src = Len(a) /\ x.status = "reviewed"
        /\ x.mode = "reconcile" <=> x.target # 0
        /\ x.target # 0 => x.target \in Attachment!Ops
    BY AttachmentProposals DEF Attachment!Unknown
  <2>5. /\ x.mode = "withdraw" => VerdictOf(a, x.src) = "withdraw"
        /\ x.mode = "accept" =>
             /\ x.exec # o /\ x.text = x.exec /\ f[x.exec].mode = "exec"
             /\ Attachment!Preserved(x.exec) /\ f[x.exec].status = "complete"
        /\ x.mode = "reconcile" => x.target # o /\ f[x.target].result = "unknown"
    BY <2>1, AttachmentNew
  <2>6. f'[o].mode = "accept" =>
          /\ f'[o].exec \in Attachment!Ops /\ f'[o].text = f'[o].exec /\
               f'[f'[o].exec].mode = "exec"
          /\ f'[f'[o].exec].before = "original" /\ f'[f'[o].exec].after = "original"
          /\ f'[f'[o].exec].status = "complete"
    BY <2>3, <2>4, <2>5 DEF Attachment!Preserved
  <2>7. f'[o].mode = "withdraw" => VerdictOf(a', f'[o].src) = "withdraw"
    BY <2>2, <2>3, <2>5
  <2>8. f'[o].mode = "reconcile" => f'[o].target \notin {0, o} /\
          f'[f'[o].target].result = "unknown"
    BY <2>3, <2>4, <2>5
  <2>9. f'[o].src <= Len(a') /\ f'[o].status = "reviewed" /\
          (f'[o].target # 0 => f'[o].mode = "reconcile")
    BY <2>2, <2>3, <2>4, <1>1
  <2> QED
    BY <2>6, <2>7, <2>8, <2>9, <1>v DEF Attachment!CandidateSound, Attachment!Preserved
<1>4. CASE AttachmentKept(o)
  <2>1. f'[o].src <= Len(a') /\ (f'[o].target # 0 => f'[o].mode = "reconcile")
    BY <1>1, <1>2, <1>4 DEF AttachmentKept, Attachment!CandidateSound
  <2>2. f'[o].mode = "withdraw" => VerdictOf(a', f'[o].src) = "withdraw"
    BY <1>1, <1>2, <1>4 DEF AttachmentKept, Attachment!CandidateSound
  <2>3. ASSUME f'[o].mode = "accept"
        PROVE  /\ f'[o].exec \in Attachment!Ops /\ f'[o].text = f'[o].exec /\
                    f'[f'[o].exec].mode = "exec"
               /\ f'[f'[o].exec].before = "original" /\ f'[f'[o].exec].after = "original"
               /\ f'[f'[o].exec].status = "complete"
    <3> DEFINE p == f[o].exec
    <3>1. /\ p \in Attachment!Ops /\ f'[o].exec = p /\ f'[o].text = p /\ f[p].mode = "exec"
          /\ f[p].before = "original" /\ f[p].after = "original" /\ f[p].status = "complete"
      BY <1>1, <1>4, <2>3 DEF AttachmentKept, Attachment!CandidateSound, Attachment!Preserved
    <3> HIDE DEF p
    <3>2. AttachmentMove(p) /\ Attachment!CycleSound(p)
      BY <3>1, AttachmentMoves, AttachmentFacts
    <3>3. /\ f'[p].mode = "exec" /\ f'[p].before = "original" /\ f'[p].after = "original"
          /\ f'[p].status = "complete"
      <4>1. CASE f'[p] = f[p]
        BY <3>1, <4>1
      <4>2. CASE \E x \in Attachment!Proposals : AttachmentProposed(p, x)
        BY <3>1, <4>2 DEF AttachmentProposed
      <4>3. CASE AttachmentRuns(p)
        BY <3>1, <3>2, <4>3 DEF AttachmentRuns, Attachment!CycleSound
      <4>4. CASE AttachmentRecovered(p)
        BY <3>1, <4>4 DEF AttachmentRecovered, AttachmentKept
      <4> QED
        BY <3>2, <4>1, <4>2, <4>3, <4>4 DEF AttachmentMove
    <3> QED
      BY <3>1, <3>3
  <2>4. ASSUME f'[o].mode = "reconcile"
        PROVE  /\ f'[o].target \notin {0, o} /\ f'[o].status # "executing"
               /\ f'[o].status \in {"reviewed", "recorded"} => f'[f'[o].target].result = "unknown"
               /\ f'[o].status \in {"recorded", "learned"} => f'[o].result = "ok"
    <3> DEFINE p == f[o].target
    <3>1. /\ p \in Attachment!Ops /\ p # o /\ f'[o].target = p /\ f[o].mode = "reconcile"
          /\ f[o].status \in {"reviewed", "recorded"} => f[p].result = "unknown"
          /\ f[o].status # "executing"
          /\ f[o].status \in {"recorded", "learned"} => f[o].result = "ok"
      BY <1>1, <1>4, <2>4 DEF AttachmentKept, Attachment!CandidateSound, Attachment!Operations
    <3> HIDE DEF p
    <3>2. AttachmentMove(p) /\ AttachmentMove(o) /\ Attachment!CycleSound(o) /\
            j \in Attachment!Ops \cup {0}
          /\ Attachment!CycleSound(p) /\ (f[p].mode = "none" => f[p] = Attachment!NoOp)
      BY <3>1, AttachmentMoves, AttachmentFacts DEF Attachment!CycleSound
    <3>3. f'[o].status # "executing" /\ (f'[o].status \in {"recorded", "learned"} =>
            f'[o].result = "ok")
      <4>1. CASE f'[o] = f[o]
        BY <3>1, <4>1
      <4>2. CASE \E x \in Attachment!Proposals : AttachmentProposed(o, x)
        BY <3>1, <4>2 DEF AttachmentProposed
      <4>3. CASE AttachmentRuns(o)
        BY <3>1, <4>3 DEF AttachmentRuns
      <4>4. CASE AttachmentRecovered(o)
        <5>1. f'[o].status = f[o].status /\ o # j /\ j # 0
          BY <4>4 DEF AttachmentRecovered
        <5>2. f[o].status \notin {"recorded", "learned"}
          BY <3>2, <5>1 DEF Attachment!CycleSound
        <5> QED
          BY <3>1, <5>1, <5>2
      <4> QED
        BY <3>2, <4>1, <4>2, <4>3, <4>4 DEF AttachmentMove
    <3>4. ASSUME f'[o].status \in {"reviewed", "recorded"} PROVE f'[p].result = "unknown"
      <4>1. f[o].status \in {"reviewed", "recorded"} /\ o = j
        BY <3>1, <3>2, <3>4 DEF AttachmentMove, AttachmentProposed, AttachmentRuns,
           AttachmentRecovered,
           AttachmentKept, Attachment!CycleSound
      <4>2. p # j /\ f[p].result = "unknown" /\ j # 0
        BY <3>1, <4>1, <1>1
      <4>3. ~AttachmentRecovered(p)
        BY <3>4, <4>1 DEF AttachmentRecovered
      <4>4. f'[p] = f[p]
        BY <3>2, <4>2, <4>3 DEF AttachmentMove, AttachmentProposed, AttachmentRuns
      <4> QED
        BY <4>2, <4>4
    <3> QED
      BY <3>1, <3>3, <3>4, <1>1
  <2> QED
    BY <2>1, <2>2, <2>3, <2>4, <1>v DEF Attachment!CandidateSound, Attachment!Preserved
<1>5. AttachmentMove(o)
  BY AttachmentMoves
<1> QED
  BY <1>3, <1>4, <1>5 DEF AttachmentMove, AttachmentRuns, AttachmentRecovered, AttachmentKept

\* How an operation takes its turn, and how it leaves.
LEMMA AttachmentLeaves ==
  ASSUME Attachment!PreparationInv, Attachment!Next, j' # j
  PROVE  /\ j = 0 => j' \in Attachment!Ops /\ f'[j'].status = "reviewed" /\ f[j'].status = "none"
         /\ j # 0 => /\ j' = 0 /\ f'[j].status \in {"superseded", "complete"}
                     /\ f'[j].result = f[j].result
<1>1. /\ f \in [Attachment!Ops -> Attachment!Operations]
      /\ j # 0 => j \in Attachment!Ops /\ f[j] \in Attachment!Operations
      /\ \A o \in Attachment!Ops : Attachment!CycleSound(o)
  BY AttachmentFacts
<1>2. ASSUME j = 0
      PROVE  j' \in Attachment!Ops /\ f'[j'].status = "reviewed" /\ f[j'].status = "none"
  <2>1. j' \in Attachment!Ops /\ \E x \in Attachment!Proposals : AttachmentProposed(j', x)
    BY <1>2, AttachmentTurns DEF AttachmentCloses
  <2>2. PICK x \in Attachment!Proposals : AttachmentProposed(j', x)
    BY <2>1
  <2>3. f'[j'] = x /\ x.status = "reviewed"
    BY <1>1, <2>1, <2>2, AttachmentProposals DEF AttachmentProposed
  <2>4. f[j'] = Attachment!NoOp
    BY <1>1, <2>1, <2>2 DEF AttachmentProposed, Attachment!CycleSound
  <2> QED
    BY <2>1, <2>3, <2>4 DEF Attachment!NoOp
<1>3. ASSUME j # 0
      PROVE  /\ j' = 0 /\ f'[j].status \in {"superseded", "complete"} /\ f'[j].result = f[j].result
  <2>1. j' = 0 /\ \E s \in {"superseded", "complete"} : f' = [f EXCEPT ![j].status = s]
    BY <1>3, AttachmentTurns DEF AttachmentCloses
  <2>2. PICK s \in {"superseded", "complete"} : f' = [f EXCEPT ![j].status = s]
    BY <2>1
  <2>3. f'[j] = [f[j] EXCEPT !.status = s]
    BY <1>1, <1>3, <2>2
  <2> QED
    BY <1>1, <1>3, <2>1, <2>3 DEF Attachment!Operations
<1> QED
  BY <1>2, <1>3

\* Only the operation of the cycle is under way.
LEMMA AttachmentCycles ==
  ASSUME Attachment!PreparationInv, Attachment!Next, NEW o \in Attachment!Ops
  PROVE  Attachment!CycleSound(o)'
<1>1. /\ Attachment!CycleSound(o) /\ 0 \notin Attachment!Ops
      /\ j # 0 => j \in Attachment!Ops /\ Attachment!CycleSound(j) /\ Attachment!CandidateSound(j)
      /\ f \in [Attachment!Ops -> Attachment!Operations]
  BY AttachmentFacts
<1>2. AttachmentMove(o) /\ (j # 0 => AttachmentMove(j))
  BY <1>1, AttachmentMoves
<1>3. ASSUME f'[o].mode = "none" PROVE f'[o] = Attachment!NoOp /\ h'[o] = "none"
  <2>1. f[o].mode = "none" /\ f[o] = Attachment!NoOp
    BY <1>1, <1>2, <1>3, AttachmentProposals DEF AttachmentMove, AttachmentProposed, AttachmentRuns,
       AttachmentRecovered, AttachmentKept, Attachment!CycleSound, Attachment!Modes,
         Attachment!Preparations
  <2>2. f[o].status = "none" /\ f[o].result = "none"
    BY <2>1 DEF Attachment!NoOp
  <2>3. o # j
    BY <1>1, <2>2 DEF Attachment!CycleSound
  <2>4. ~AttachmentRecovered(o)
    BY <1>1, <2>2 DEF AttachmentRecovered, Attachment!CandidateSound
  <2>5. ~\E x \in Attachment!Proposals : AttachmentProposed(o, x)
    BY <1>1, <1>3, AttachmentProposals DEF AttachmentProposed, Attachment!Modes,
       Attachment!Preparations
  <2>6. h'[o] = "none"
    BY <2>1, AttachmentKeeps
  <2> QED
    BY <1>2, <2>1, <2>3, <2>4, <2>5, <2>6 DEF AttachmentMove, AttachmentRuns
<1>4. o = j' <=> f'[o].status \in {"reviewed", "executing", "recorded", "learned"}
  <2>1. CASE \E x \in Attachment!Proposals : AttachmentProposed(o, x)
    BY <1>1, <2>1, AttachmentProposals DEF AttachmentProposed
  <2>2. CASE AttachmentRuns(o)
    BY <1>1, <2>2 DEF AttachmentRuns
  <2>3. CASE AttachmentRecovered(o)
    BY <1>1, <2>3 DEF AttachmentRecovered, Attachment!CycleSound
  <2>4. CASE f'[o] = f[o] /\ j' = j
    BY <1>1, <2>4 DEF Attachment!CycleSound
  <2>5. CASE f'[o] = f[o] /\ j' # j
    <3>1. CASE j = 0
      <4>1. j' \in Attachment!Ops /\ f'[j'].status = "reviewed" /\ f[j'].status = "none"
        BY <2>5, <3>1, AttachmentLeaves
      <4>2. o # j'
        BY <2>5, <4>1
      <4> QED
        BY <1>1, <2>5, <3>1, <4>2 DEF Attachment!CycleSound
    <3>2. CASE j # 0
      <4>1. j' = 0 /\ f'[j].status \in {"superseded", "complete"}
        BY <2>5, <3>2, AttachmentLeaves
      <4>3. o # j
        BY <1>1, <2>5, <3>2, <4>1 DEF Attachment!CycleSound
      <4> QED
        BY <1>1, <2>5, <4>1, <4>3 DEF Attachment!CycleSound
    <3> QED
      BY <3>1, <3>2
  <2> QED
    BY <1>2, <2>1, <2>2, <2>3, <2>4, <2>5 DEF AttachmentMove
<1> QED
  BY <1>3, <1>4 DEF Attachment!CycleSound

\* The attachment is withdrawn, or read, on the words of the user.
LEMMA AttachmentDecided ==
  ASSUME Attachment!PreparationInv, Attachment!Next
  PROVE  Attachment!WithdrawnAsLastSaid'
<1>1. /\ Attachment!WithdrawnAsLastSaid /\ c \in 0 .. Len(a) /\ Len(a) \in Nat
      /\ Attachment!Verdict(c) = VerdictOf(a, c)
      /\ \A o \in Attachment!Ops :
           Attachment!CandidateSound(o) /\ VerdictOf(a, f[o].src) = Attachment!Verdict(f[o].src)
  BY AttachmentFacts, AttachmentVerdicts
     DEF Attachment!PreparationInv, Attachment!PreparationSound, Attachment!TypeOK
<1>2. \A n \in 0 .. Len(a) : VerdictOf(a', n) = VerdictOf(a, n)
  BY AttachmentSaid
<1>v. Attachment!Verdict(c)' = VerdictOf(a', c')
  BY DEF DecisiveOf, GreatestOf, VerdictOf, Attachment!Decisive, Attachment!Verdict
<1>3. b' = "withdrawn" => VerdictOf(a', c') = "withdraw"
  <2>1. CASE b' = "withdrawn" /\ b = "withdrawn" /\ c' = c
    BY <1>1, <1>2, <2>1 DEF Attachment!WithdrawnAsLastSaid
  <2>2. CASE AttachmentCloses /\ b' # b
    <3>1. PICK x : AttachmentConfirms(x)
      BY <2>2 DEF AttachmentCloses
    <3>2. x \in Attachment!Ops /\ f[x].mode = "withdraw" /\ f[x].src = Len(a) /\ c' = Len(a) /\
            a' = a
      BY <2>2, <3>1 DEF AttachmentConfirms
    <3> QED
      BY <1>1, <3>2 DEF Attachment!CandidateSound
  <2>3. CASE AttachmentCloses /\ b' = b
    <3>1. c' = c \/ (b' = "withdrawn" /\ b = "pending")
      BY <2>3 DEF AttachmentCloses, AttachmentConfirms
    <3> QED
      BY <2>1, <2>3, <3>1
  <2> QED
    BY <2>1, <2>2, <2>3, AttachmentTurns
<1> QED
  BY <1>3, <1>v DEF Attachment!WithdrawnAsLastSaid

\* The text that a plan may read is that of the exact original.
LEMMA AttachmentRead ==
  ASSUME Attachment!PreparationInv, Attachment!Next
  PROVE  /\ (i # 0 => f[i].mode = "accept")'
         /\ Attachment!ReadFaithfully'
<1>1. /\ i \in Attachment!Ops \cup {0} /\ (i # 0 => f[i].mode = "accept") /\ 0 \notin Attachment!Ops
      /\ b = "applied" => i # 0
  BY AttachmentFacts DEF Attachment!PreparationInv, Attachment!PreparationSound, Attachment!TypeOK,
     Attachment!ReadFaithfully
<1>2. i' = i \/ (i' \in Attachment!Ops /\ f[i'].mode = "accept")
  BY AttachmentTurns DEF AttachmentCloses, AttachmentConfirms
<1>3. i' # 0 => i' \in Attachment!Ops /\ f'[i'].mode = "accept"
  <2>1. ASSUME NEW o \in Attachment!Ops, f[o].mode = "accept" PROVE f'[o].mode = "accept"
    <3>1. AttachmentMove(o)
      BY AttachmentMoves
    <3> QED
      BY <2>1, <3>1 DEF AttachmentMove, AttachmentProposed, AttachmentRuns, AttachmentRecovered,
         AttachmentKept
  <2> QED
    BY <1>1, <1>2, <2>1
<1>4. b' = "applied" => i' # 0
  BY <1>1, <1>2, AttachmentTurns DEF AttachmentCloses, AttachmentConfirms
<1>5. ASSUME i' # 0
      PROVE  /\ f'[i'].text = f'[i'].exec /\ f'[f'[i'].exec].mode = "exec"
             /\ f'[f'[i'].exec].before = "original" /\ f'[f'[i'].exec].after = "original"
  <2>1. \A o \in Attachment!Ops : Attachment!CandidateSound(o)'
    BY AttachmentCandidates
  <2> QED
    BY <1>3, <1>5, <2>1 DEF Attachment!CandidateSound, Attachment!Preserved
<1> QED
  BY <1>3, <1>4, <1>5 DEF Attachment!ReadFaithfully, Attachment!Preserved

\* A result that is known to be there is not forgotten.
LEMMA AttachmentConsumed ==
  ASSUME Attachment!PreparationInv, Attachment!Next
  PROVE  Attachment!ResultsAreConsumed'
<1> SUFFICES ASSUME NEW o \in Attachment!Ops, f'[o].status = "complete", f'[o].result = "ok",
                    f'[o].mode \in Attachment!Preparations, h'[o] = "none"
             PROVE  j' # 0 /\ f'[j'].target = o
  BY DEF Attachment!ResultsAreConsumed
<1>1. /\ Attachment!ResultsAreConsumed /\ Attachment!CycleSound(o) /\ 0 \notin Attachment!Ops
      /\ j # 0 => j \in Attachment!Ops /\ Attachment!CandidateSound(j) /\ Attachment!CycleSound(j)
      /\ f[o] \in Attachment!Operations
  BY AttachmentFacts DEF Attachment!PreparationInv, Attachment!PreparationSound
<1>2. h[o] = "none"
  BY AttachmentKeeps
<1>c. AttachmentCloses => o \notin Attachment!Consumer(j)
  <2>1. ASSUME NEW x, AttachmentConfirms(x), o \in Attachment!Consumer(j) PROVE h'[o] # "none"
    <3>1. x = o
      BY <2>1 DEF AttachmentConfirms, Attachment!Consumer
    <3>2. h \in [Attachment!Ops -> {"none", "pending", "confirmed", "superseded"}]
      BY AttachmentFacts
    <3> QED
      BY <2>1, <3>1, <3>2 DEF AttachmentConfirms
  <2> QED
    BY <1>2, <2>1 DEF AttachmentCloses
<1>3. CASE f'[o] = f[o]
  <2>1. j # 0 /\ f[j].target = o /\ f[j].mode = "reconcile"
    BY <1>1, <1>2, <1>3 DEF Attachment!ResultsAreConsumed, Attachment!CandidateSound
  <2>2. CASE j' = j
    <3>1. AttachmentMove(j)
      BY <1>1, <2>1, AttachmentMoves
    <3>2. f'[j].target = f[j].target
      BY <2>1, <2>2, <3>1 DEF AttachmentMove, AttachmentProposed, AttachmentRuns,
         AttachmentRecovered,
         AttachmentKept
    <3> QED
      BY <2>1, <2>2, <3>2
  <2>3. CASE j' # j
    <3>1. f[j].status = "reviewed" \/ AttachmentCloses
      BY <2>1, <2>3, AttachmentTurns
    <3>2. f[j].status # "reviewed"
      BY <1>1, <1>3, <2>1 DEF Attachment!CandidateSound
    <3>3. f[j].status = "learned" /\ f[j].result = "ok"
      BY <1>1, <2>1, <3>1, <3>2 DEF AttachmentCloses, Attachment!CandidateSound
    <3> QED
      BY <1>c, <1>3, <2>1, <3>1, <3>2, <3>3 DEF Attachment!Consumer
  <2> QED
    BY <2>2, <2>3
<1>4. CASE \E x \in Attachment!Proposals : AttachmentProposed(o, x)
  <2>1. f'[o].status = "reviewed"
    BY <1>1, <1>4, AttachmentLeaves DEF AttachmentProposed
  <2> QED
    BY <2>1
<1>5. CASE AttachmentRuns(o)
  <2>1. j = o /\ j' = 0 /\ f[o].status = "learned" /\ f[o].result = "ok" /\ f[o].mode = f'[o].mode
    BY <1>5 DEF AttachmentRuns, AttachmentKept
  <2>2. AttachmentCloses
    BY <1>1, <2>1, AttachmentTurns
  <2>3. o \in Attachment!Consumer(j)
    BY <2>1 DEF Attachment!Consumer, Attachment!Preparations
  <2> QED
    BY <1>c, <2>2, <2>3
<1>6. CASE AttachmentRecovered(o)
  <2>1. AttachmentMove(j) /\ j' = j /\ j # 0
    BY <1>1, <1>6, AttachmentMoves DEF AttachmentRecovered
  <2>2. f'[j].target = f[j].target
    BY <1>6, <2>1 DEF AttachmentMove, AttachmentProposed, AttachmentRuns, AttachmentRecovered,
       AttachmentKept
  <2> QED
    BY <1>6, <2>1, <2>2 DEF AttachmentRecovered
<1>7. AttachmentMove(o)
  BY AttachmentMoves
<1> QED
  BY <1>3, <1>4, <1>5, <1>6, <1>7 DEF AttachmentMove

\* Nothing was said or done yet.
LEMMA AttachmentStarts ==
  ASSUME Attachment!Init
  PROVE  Attachment!PreparationInv
<1>1. /\ a = <<>> /\ b = "pending" /\ c = 0 /\ d = "absent" /\ e = 0 /\ i = 0 /\ j = 0
      /\ f = [o \in Attachment!Ops |-> Attachment!NoOp]
      /\ g = [o \in Attachment!Ops |-> "none"] /\ h = [o \in Attachment!Ops |-> "none"]
  BY DEF Attachment!Init
<1>2. Attachment!TypeOK
  BY <1>1, AttachmentBounds, AttachmentNoOp DEF Attachment!TypeOK, Attachment!Files
<1>3. \A o \in Attachment!Ops : /\ Attachment!CycleSound(o)
                                /\ Attachment!CandidateSound(o)
  BY <1>1, AttachmentBounds DEF Attachment!CycleSound, Attachment!CandidateSound, Attachment!NoOp
<1>4. Attachment!PreparationSound
  BY <1>1 DEF Attachment!PreparationSound, Attachment!WithdrawnAsLastSaid,
     Attachment!OvertakenIsAnswered,
     Attachment!ReadFaithfully, Attachment!ResultsAreConsumed, Attachment!NoOp
<1> QED
  BY <1>1, <1>2, <1>3, <1>4 DEF Attachment!PreparationInv

\* A step, or none, keeps all of it.
LEMMA AttachmentHolds ==
  ASSUME Attachment!PreparationInv, [Attachment!Next]_(Attachment!vars)
  PROVE  Attachment!PreparationInv'
<1>1. CASE Attachment!Next
  <2>1. \A o \in Attachment!Ops : Attachment!CycleSound(o)' /\ Attachment!CandidateSound(o)'
    BY <1>1, AttachmentCycles, AttachmentCandidates
  <2>2. Attachment!PreparationSound'
    BY <1>1, AttachmentDecided, AttachmentOvertaken, AttachmentRead, AttachmentConsumed
       DEF Attachment!PreparationSound
  <2> QED
    BY <1>1, <2>1, <2>2, AttachmentTypeStep, AttachmentRead DEF Attachment!PreparationInv
<1>2. CASE UNCHANGED Attachment!vars
  <2>1. UNCHANGED <<a, b, c, d, e, f, g, h, i, j, k, l>>
    BY <1>2 DEF Attachment!vars
  <2>2. \A n : Attachment!Verdict(n) = VerdictOf(a, n)
    BY AttachmentVerdicts
  <2>3. Attachment!WithdrawnAsLastSaid'
    <3>1. Attachment!Verdict(c)' = VerdictOf(a', c')
      BY DEF DecisiveOf, GreatestOf, VerdictOf, Attachment!Decisive, Attachment!Verdict
    <3> QED
      BY <1>2, <2>1, <2>2, <3>1
         DEF Attachment!PreparationInv, Attachment!PreparationSound, Attachment!WithdrawnAsLastSaid
  <2>4. ASSUME NEW o \in Attachment!Ops
        PROVE  Attachment!CycleSound(o)' /\ Attachment!CandidateSound(o)'
    <3>1. Attachment!Verdict(f[o].src)' = VerdictOf(a', f'[o].src)
      BY DEF DecisiveOf, GreatestOf, VerdictOf, Attachment!Decisive, Attachment!Verdict
    <3>2. Attachment!CycleSound(o) /\ Attachment!CandidateSound(o)
      BY <1>2, AttachmentFacts
    <3>3. Attachment!CycleSound(o)'
      BY <2>1, <3>2 DEF Attachment!CycleSound
    <3>4. Attachment!CandidateSound(o)'
      BY <2>1, <2>2, <3>1, <3>2 DEF Attachment!CandidateSound, Attachment!Preserved
    <3> QED
      BY <3>3, <3>4
  <2>5. Attachment!TypeOK'
    BY <1>2, <2>1 DEF Attachment!PreparationInv, Attachment!TypeOK
  <2>6. Attachment!OvertakenIsAnswered'
    BY <1>2, <2>1 DEF Attachment!PreparationInv, Attachment!PreparationSound,
       Attachment!OvertakenIsAnswered, Attachment!SourceHash
  <2>7. Attachment!ReadFaithfully'
    BY <1>2, <2>1 DEF Attachment!PreparationInv, Attachment!PreparationSound,
       Attachment!ReadFaithfully, Attachment!Preserved
  <2>8. Attachment!ResultsAreConsumed'
    BY <1>2, <2>1 DEF Attachment!PreparationInv, Attachment!PreparationSound,
       Attachment!ResultsAreConsumed
  <2>9. (i # 0 => f[i].mode = "accept")'
    BY <1>2, <2>1 DEF Attachment!PreparationInv
  <2> QED
    BY <2>3, <2>4, <2>5, <2>6, <2>7, <2>8, <2>9
       DEF Attachment!PreparationInv, Attachment!PreparationSound
<1> QED
  BY <1>1, <1>2

\* The outcome of an attachment is the one that the user last decided, and is used only then.
THEOREM AttachmentKeepsPromises == Attachment!Spec => []Attachment!PreparationInv
<1>1. Attachment!Init => Attachment!PreparationInv
  BY AttachmentStarts
<1>2. Attachment!PreparationInv /\ [Attachment!Next]_(Attachment!vars) => Attachment!PreparationInv'
  BY AttachmentHolds
<1> QED
  BY <1>1, <1>2, PTL DEF Attachment!Spec

-------------------------------------------------------------------------------
(* Workflow: the components together.                                      *)

\* What each component keeps, in its scene.
TaskInv ==
  /\ scene = "entry" => Entry!EntryInv
  /\ scene = "review" => Review!ReviewInv
  /\ scene = "attachment" => Attachment!PreparationInv

\* A step of a scene is a step of its component, or leaves it alone.
LEMMA TaskSteps ==
  ASSUME [WorkflowNext]_places
  PROVE  /\ scene' = scene
         /\ scene = "entry" => [Entry!Next]_(Entry!vars)
         /\ scene = "review" => [Review!Next]_(Review!vars)
         /\ scene = "attachment" => [Attachment!Next]_(Attachment!vars)
<1>1. CASE WorkflowNext
  BY <1>1 DEF WorkflowNext
<1>2. CASE UNCHANGED places
  BY <1>2 DEF places, Entry!vars, Review!vars, Attachment!vars
<1> QED
  BY <1>1, <1>2

\* The inductive invariant of the components of a task, for Workflow.
LEMMA TasksKeepInv ==
  ASSUME TaskInv, [WorkflowNext]_places
  PROVE  TaskInv'
<1>1. (scene = "entry" => Entry!EntryInv)'
  BY TaskSteps, EntryHolds DEF TaskInv
<1>2. (scene = "review" => Review!ReviewInv)'
  BY TaskSteps, ReviewHolds DEF TaskInv
<1>3. (scene = "attachment" => Attachment!PreparationInv)'
  BY TaskSteps, AttachmentHolds DEF TaskInv
<1> QED
  BY <1>1, <1>2, <1>3 DEF TaskInv

\* A task is started once and acts only as its user allows now; a reviewed result
\* is not lost; an attachment is read, or withdrawn, as the user last said:
\* whatever the number of operations, messages, policies, edits and deaths.
THEOREM TasksKeepPromises == WorkflowSpec => []TaskSound
<1>1. WorkflowInit => TaskInv
  <2> SUFFICES ASSUME WorkflowInit PROVE TaskInv
    OBVIOUS
  <2>1. /\ scene = "entry" => Entry!Init
        /\ scene = "review" => Review!Init
        /\ scene = "attachment" => Attachment!Init
    BY DEF WorkflowInit
  <2> QED
    BY <2>1, EntryBegins, ReviewStarts, AttachmentStarts DEF TaskInv
<1>2. TaskInv /\ [WorkflowNext]_places => TaskInv'
  BY TasksKeepInv
<1>3. TaskInv => TaskSound
  BY DEF TaskInv, TaskSound, Entry!EntryInv, Review!ReviewInv, Attachment!PreparationInv
<1> QED
  BY <1>1, <1>2, <1>3, PTL DEF WorkflowSpec
===============================================================================
