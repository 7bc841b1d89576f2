-------------------------- MODULE PracticalTaskProofs --------------------------
(***************************************************************************)
(* Proofs about PracticalTask, for any number of calls, tools,             *)
(* instructions and waiting requests: a replay repeats nothing, a task is  *)
(* completed for the instructions it has, what starts is as the user said, *)
(* and the status shown is true.                                           *)
(***************************************************************************)
EXTENDS PracticalTask, FiniteSetTheorems, TLAPS

\* How many sources there can be: the first one and an instruction each.
Instructions == 1 + Cardinality(Messages)
Answers == [state : CallStates, phase : Phases, source : 0..Instructions,
            action : Actions, size : Tools, consumed : BOOLEAN]
Rows == [state : RowStates, outcome : Outcomes, source : 0..Instructions]
Requests == {"stop", "message"}

\* Instructions are counted by a number.
LEMMA InstructionsCounted == Cardinality(Messages) \in Nat
BY FS_CardinalityType, BoundsAssumption

\* So is what they come to.
LEMMA InstructionsNumber == Instructions \in Nat
BY InstructionsCounted DEF Instructions

\* The pieces have their types.
LEMMA PieceTypes ==
  /\ NoCall \in Answers /\ NoRow \in Rows
  /\ <<1, 1>> \in Operations /\ 1 \in Calls
  /\ \A op \in Operations : op[1] \in Calls /\ op[2] \in Tools /\ op = <<op[1], op[2]>>
BY InstructionsCounted, BoundsAssumption
DEF NoCall, NoRow, Answers, Rows, Instructions, CallStates, Phases, Actions, Tools, RowStates,
    Outcomes, Operations, Calls

\* The types with names for their parts.
LEMMA Types ==
  TypeOK <=>
    /\ status \in Statuses /\ source \in 1..Instructions
    /\ pending \in BOOLEAN /\ final \in 0..Instructions
    /\ calls \in [Calls -> Answers] /\ rows \in [Operations -> Rows]
    /\ delivered \subseteq Messages /\ at \in Labels /\ seen \in 0..Instructions
    /\ call \in Calls /\ tool \in Operations
    /\ cancelled \in BOOLEAN /\ stopRequested \in BOOLEAN
    /\ waiting \in Seq(Requests) /\ woken \in Seq(Requests)
    /\ starts \in [Operations -> Nat]
    /\ command \in {"go", "stop", "late stop"}
BY DEF TypeOK, Instructions, Answers, Rows, Requests

\* Queues of requests stay queues of requests.
LEMMA QueueTypes ==
  ASSUME NEW S, NEW queue \in Seq(S)
  PROVE  /\ \A x \in S : Append(queue, x) \in Seq(S)
         /\ queue # <<>> => Tail(queue) \in Seq(S)
         /\ <<>> \in Seq(S)
OBVIOUS

\* What requests are in flight after the queues are joined, extended or served.
LEMMA QueueFacts ==
  ASSUME NEW S, NEW one \in Seq(S), NEW other \in Seq(S), NEW x \in S
  PROVE  /\ one \o other \in Seq(S) /\ Append(one, x) \in Seq(S)
         /\ one # <<>> => Tail(one) \in Seq(S)
         /\ \A y : (\E i \in 1..Len(one \o other) : (one \o other)[i] = y)
                     <=> \/ \E i \in 1..Len(one) : one[i] = y
                         \/ \E i \in 1..Len(other) : other[i] = y
         /\ \A y : (\E i \in 1..Len(Append(one, x)) : Append(one, x)[i] = y)
                     <=> y = x \/ \E i \in 1..Len(one) : one[i] = y
         /\ one # <<>> => \A y : (\E i \in 1..Len(Tail(one)) : Tail(one)[i] = y)
                                   => \E i \in 1..Len(one) : one[i] = y
         /\ one # <<>> => 1 \in 1..Len(one) /\ Head(one) = one[1]
<1>1. one \o other \in Seq(S) /\ Append(one, x) \in Seq(S)
  OBVIOUS
<1>2. one # <<>> => /\ Tail(one) \in Seq(S)
                    /\ 1 \in 1..Len(one) /\ Head(one) = one[1]
                    /\ Len(Tail(one)) = Len(one) - 1
                    /\ \A i \in 1..Len(Tail(one)) : Tail(one)[i] = one[i + 1]
  OBVIOUS
<1>3. ASSUME NEW y
      PROVE  (\E i \in 1..Len(one \o other) : (one \o other)[i] = y)
               <=> \/ \E i \in 1..Len(one) : one[i] = y
                   \/ \E i \in 1..Len(other) : other[i] = y
  <2>1. Len(one) \in Nat /\ Len(other) \in Nat /\ Len(one \o other) = Len(one) + Len(other)
    OBVIOUS
  <2>2. \A i \in 1..Len(one) : (one \o other)[i] = one[i]
    OBVIOUS
  <2>3. \A i \in 1..Len(other) : (one \o other)[Len(one) + i] = other[i]
    OBVIOUS
  <2>4. ASSUME NEW i \in 1..Len(one \o other)
        PROVE  i \in 1..Len(one) \/ \E k \in 1..Len(other) : i = Len(one) + k
    <3>1. i \in 1..Len(one) \/ (i - Len(one) \in 1..Len(other) /\ i = Len(one) + (i - Len(one)))
      BY <2>1
    <3> QED
      BY <3>1
  <2>5. /\ \A i \in 1..Len(one) : i \in 1..Len(one \o other)
        /\ \A i \in 1..Len(other) : Len(one) + i \in 1..Len(one \o other)
    BY <2>1
  <2> QED
    BY <2>2, <2>3, <2>4, <2>5
<1>4. ASSUME NEW y
      PROVE  (\E i \in 1..Len(Append(one, x)) : Append(one, x)[i] = y)
               <=> y = x \/ \E i \in 1..Len(one) : one[i] = y
  <2>1. /\ Len(one) \in Nat /\ Len(Append(one, x)) = Len(one) + 1
        /\ Append(one, x)[Len(one) + 1] = x
        /\ \A i \in 1..Len(one) : Append(one, x)[i] = one[i]
    OBVIOUS
  <2> QED
    BY <2>1
<1>5. ASSUME one # <<>>, NEW y, NEW i \in 1..Len(Tail(one)), Tail(one)[i] = y
      PROVE  \E k \in 1..Len(one) : one[k] = y
  <2>1. i + 1 \in 1..Len(one) /\ one[i + 1] = y
    BY <1>2, <1>5
  <2> QED
    BY <2>1
<1> QED
  BY <1>1, <1>2, <1>3, <1>4, <1>5

-------------------------------------------------------------------------------
(***************************************************************************)
(* What the steps have in common.                                          *)
(***************************************************************************)
\* A run leaves the sources, the submissions and the user's command alone.
LEMMA RunFrame ==
  ASSUME RunStep
  PROVE  /\ source' = source /\ delivered' = delivered /\ command' = command
         /\ seen' \in {seen, source}
<1> USE DEF historyVars, requestVars, runVars, EndRun, Goto, AbortRun, Interrupted
<1>1. CASE CancelledEarly \/ Begin \/ RecoverNext \/ Recovered \/ UseSaved \/ BuyCall
           \/ HoldForCapacity
  BY <1>1 DEF CancelledEarly, Begin, RecoverNext, Recovered, UseSaved, BuyCall, HoldForCapacity
<1>2. CASE ModelResponds \/ ModelFails \/ ModelInterrupted \/ AwaitInterrupted \/ ApplyPlan
  BY <1>2 DEF ModelResponds, ModelFails, ModelInterrupted, AwaitInterrupted, ApplyPlan
<1>3. CASE RejectAnswer \/ Decide \/ LoseCurrent \/ Remembered \/ HoldBeforeSave
  BY <1>3 DEF RejectAnswer, Decide, LoseCurrent, Remembered, HoldBeforeSave
<1>4. CASE RefuseAdmission \/ SaveOperation \/ FindProposed \/ HoldBeforeStart
           \/ StartOperation
  BY <1>4 DEF RefuseAdmission, SaveOperation, FindProposed, HoldBeforeStart, StartOperation
<1>5. CASE ExecutorRefuses \/ ExecutorReturns \/ ExecutorAbsorbs \/ AfterTool \/ ConsumeBatch
  BY <1>5 DEF ExecutorRefuses, ExecutorReturns, ExecutorAbsorbs, AfterTool, ConsumeBatch,
     storeVars
<1>6. CASE HoldUnresolved \/ AcceptCandidate \/ Reviewed \/ Complete
  BY <1>6 DEF HoldUnresolved, AcceptCandidate, Reviewed, Complete
<1> QED
  BY <1>1, <1>2, <1>3, <1>4, <1>5, <1>6 DEF RunStep

\* The sources are the first one and the instructions submitted.
LEMMA CountInit == Init => SourcesCounted
BY FS_EmptySet DEF Init, SourcesCounted

LEMMA CountStep ==
  ASSUME TypeOK, SourcesCounted, [Next]_vars
  PROVE  SourcesCounted'
<1>0. /\ source \in Nat /\ seen \in Nat /\ delivered \in SUBSET Messages
      /\ source = 1 + Cardinality(delivered) /\ seen <= source
  <2>1. source \in 1..Instructions /\ seen \in 0..Instructions /\ delivered \subseteq Messages
    BY Types
  <2>2. Instructions \in Nat
    BY InstructionsCounted DEF Instructions
  <2> QED
    BY <2>1, <2>2 DEF SourcesCounted
<1>1. CASE Message
  <2>1. PICK m \in Messages \ delivered : delivered' = delivered \cup {m}
    BY <1>1 DEF Message
  <2>2. IsFiniteSet(delivered) /\ Cardinality(delivered) \in Nat
    BY <1>0, FS_Subset, FS_CardinalityType, BoundsAssumption
  <2>3. Cardinality(delivered') = Cardinality(delivered) + 1
    BY <2>1, <2>2, FS_AddElement
  <2>4. source' = source + 1 /\ seen' = seen
    BY <1>1 DEF Message
  <2> QED
    BY <1>0, <2>2, <2>3, <2>4 DEF SourcesCounted
<1>2. CASE RunStep
  BY <1>0, <1>2, RunFrame DEF SourcesCounted
<1>3. CASE Resume \/ Stop \/ WakeStop \/ WakeMessage \/ Crash \/ UNCHANGED vars
  <2>1. source' = source /\ delivered' = delivered /\ seen' = seen
    BY <1>3
    DEF Resume, Stop, WakeStop, WakeMessage, Crash, storeVars, runVars, historyVars, vars,
        requestVars, Restart
  <2> QED
    BY <1>0, <2>1 DEF SourcesCounted
<1> QED
  BY <1>1, <1>2, <1>3 DEF Next

\* There are no more sources than instructions allow.
LEMMA SourcesBounded ==
  ASSUME delivered \subseteq Messages, SourcesCounted
  PROVE  source \in 1..Instructions
<1>1. Cardinality(delivered) \in Nat /\ Cardinality(delivered) <= Cardinality(Messages)
  BY FS_Subset, FS_CardinalityType, BoundsAssumption
<1> QED
  BY <1>1, InstructionsCounted DEF SourcesCounted, Instructions

-------------------------------------------------------------------------------
(***************************************************************************)
(* Types.                                                                  *)
(***************************************************************************)
\* The parts of TypeOK after a step.
LEMMA TypesNext ==
  TypeOK' <=>
    /\ status' \in Statuses /\ source' \in 1..Instructions
    /\ pending' \in BOOLEAN /\ final' \in 0..Instructions
    /\ calls' \in [Calls -> Answers] /\ rows' \in [Operations -> Rows]
    /\ delivered' \subseteq Messages /\ at' \in Labels /\ seen' \in 0..Instructions
    /\ call' \in Calls /\ tool' \in Operations
    /\ cancelled' \in BOOLEAN /\ stopRequested' \in BOOLEAN
    /\ waiting' \in Seq(Requests) /\ woken' \in Seq(Requests)
    /\ starts' \in [Operations -> Nat]
    /\ command' \in {"go", "stop", "late stop"}
BY DEF TypeOK, Instructions, Answers, Rows, Requests

LEMMA TypeInit == Init => TypeOK
<1> SUFFICES ASSUME Init PROVE TypeOK
  OBVIOUS
<1>1. source \in 1..Instructions /\ final \in 0..Instructions /\ seen \in 0..Instructions
  BY InstructionsCounted DEF Init, Instructions
<1>2. calls \in [Calls -> Answers] /\ rows \in [Operations -> Rows]
  BY PieceTypes DEF Init
<1>3. waiting \in Seq(Requests) /\ woken \in Seq(Requests)
  BY DEF Init
<1> QED
  BY <1>1, <1>2, <1>3, PieceTypes, Types DEF Init, Statuses, Labels

\* One answer changes at a time.
OnlyAnswer(c) ==
  /\ calls' \in [Calls -> Answers]
  /\ \A d \in Calls \ {c} : calls'[d] = calls[d]

LEMMA AnswerReplaced ==
  ASSUME TypeOK, NEW c \in Calls, NEW answer \in Answers, calls' = [calls EXCEPT ![c] = answer]
  PROVE  OnlyAnswer(c) /\ calls'[c] = answer
<1>1. calls \in [Calls -> Answers]
  BY Types
<1> QED
  BY <1>1 DEF OnlyAnswer

\* It is consumed,
LEMMA AnswerConsumed ==
  ASSUME TypeOK, NEW c \in Calls, ConsumeCall(c)
  PROVE  /\ OnlyAnswer(c) /\ calls'[c].consumed = TRUE
         /\ calls'[c].state = calls[c].state /\ calls'[c].phase = calls[c].phase
         /\ calls'[c].source = calls[c].source /\ calls'[c].action = calls[c].action
         /\ calls'[c].size = calls[c].size
<1> DEFINE answer == [calls[c] EXCEPT !.consumed = TRUE]
<1>1. calls[c] \in Answers
  BY Types
<1>2. /\ answer \in Answers /\ answer.consumed = TRUE
      /\ answer.state = calls[c].state /\ answer.phase = calls[c].phase
      /\ answer.source = calls[c].source /\ answer.action = calls[c].action
      /\ answer.size = calls[c].size
  BY <1>1 DEF Answers
<1>3. calls' = [calls EXCEPT ![c] = answer]
  BY DEF ConsumeCall
<1> HIDE DEF answer
<1>4. OnlyAnswer(c) /\ calls'[c] = answer
  BY <1>2, <1>3, AnswerReplaced
<1> QED
  BY <1>2, <1>4

\* bought,
LEMMA AnswerBought ==
  ASSUME TypeOK, NEW c \in Calls,
         calls' = [calls EXCEPT ![c].state = "started", ![c].phase = PhaseNow,
                                ![c].source = seen]
  PROVE  /\ OnlyAnswer(c) /\ calls'[c].consumed = calls[c].consumed
         /\ calls'[c].state = "started" /\ calls'[c].phase = PhaseNow
         /\ calls'[c].source = seen /\ calls'[c].action = calls[c].action
         /\ calls'[c].size = calls[c].size
<1> DEFINE answer == [calls[c] EXCEPT !.state = "started", !.phase = PhaseNow, !.source = seen]
<1>1. calls[c] \in Answers /\ seen \in 0..Instructions
  BY Types
<1>2. PhaseNow \in Phases
  BY DEF PhaseNow, Phases
<1>3. /\ answer \in Answers /\ answer.consumed = calls[c].consumed
      /\ answer.state = "started" /\ answer.phase = PhaseNow
      /\ answer.source = seen /\ answer.action = calls[c].action
      /\ answer.size = calls[c].size
  BY <1>1, <1>2 DEF Answers, CallStates
<1>4. calls' = [calls EXCEPT ![c] = answer]
  OBVIOUS
<1> HIDE DEF answer
<1>5. OnlyAnswer(c) /\ calls'[c] = answer
  BY <1>3, <1>4, AnswerReplaced
<1> QED
  BY <1>3, <1>5

\* received,
LEMMA AnswerReceived ==
  ASSUME TypeOK, NEW c \in Calls, NEW action \in Actions, NEW size \in Tools,
         calls' = [calls EXCEPT ![c].state = "responded", ![c].action = action,
                                ![c].size = size]
  PROVE  /\ OnlyAnswer(c) /\ calls'[c].consumed = calls[c].consumed
         /\ calls'[c].state = "responded" /\ calls'[c].phase = calls[c].phase
         /\ calls'[c].source = calls[c].source /\ calls'[c].action = action
         /\ calls'[c].size = size
<1> DEFINE answer == [calls[c] EXCEPT !.state = "responded", !.action = action, !.size = size]
<1>1. calls[c] \in Answers
  BY Types
<1>3. /\ answer \in Answers /\ answer.consumed = calls[c].consumed
      /\ answer.state = "responded" /\ answer.phase = calls[c].phase
      /\ answer.source = calls[c].source /\ answer.action = action
      /\ answer.size = size
  BY <1>1 DEF Answers, CallStates
<1>4. calls' = [calls EXCEPT ![c] = answer]
  OBVIOUS
<1> HIDE DEF answer
<1>5. OnlyAnswer(c) /\ calls'[c] = answer
  BY <1>3, <1>4, AnswerReplaced
<1> QED
  BY <1>3, <1>5

\* or given up.
LEMMA AnswerGivenUp ==
  ASSUME TypeOK, NEW c \in Calls, NEW ended \in {"failed", "interrupted"},
         calls' = [calls EXCEPT ![c].state = ended]
  PROVE  /\ OnlyAnswer(c) /\ calls'[c].consumed = calls[c].consumed
         /\ calls'[c].state = ended
<1> DEFINE answer == [calls[c] EXCEPT !.state = ended]
<1>1. calls[c] \in Answers
  BY Types
<1>3. answer \in Answers /\ answer.consumed = calls[c].consumed /\ answer.state = ended
  BY <1>1 DEF Answers, CallStates
<1>4. calls' = [calls EXCEPT ![c] = answer]
  OBVIOUS
<1> HIDE DEF answer
<1>5. OnlyAnswer(c) /\ calls'[c] = answer
  BY <1>3, <1>4, AnswerReplaced
<1> QED
  BY <1>3, <1>5

\* One row changes at a time: it is new, started or recorded.
OnlyRow(op) ==
  /\ rows' \in [Operations -> Rows]
  /\ \A p \in Operations \ {op} : rows'[p] = rows[p]

LEMMA RowReplaced ==
  ASSUME TypeOK, NEW op \in Operations, NEW row \in Rows, rows' = [rows EXCEPT ![op] = row]
  PROVE  OnlyRow(op) /\ rows'[op] = row
<1>1. rows \in [Operations -> Rows]
  BY Types
<1> QED
  BY <1>1 DEF OnlyRow

LEMMA RowStarted ==
  ASSUME TypeOK, NEW op \in Operations, rows' = [rows EXCEPT ![op].state = "executing"]
  PROVE  OnlyRow(op) /\ rows'[op].state = "executing"
<1> DEFINE row == [rows[op] EXCEPT !.state = "executing"]
<1>1. rows[op] \in Rows
  BY Types
<1>2. row \in Rows /\ row.state = "executing"
  BY <1>1 DEF Rows, RowStates
<1>3. rows' = [rows EXCEPT ![op] = row]
  OBVIOUS
<1> HIDE DEF row
<1> QED
  BY <1>2, <1>3, RowReplaced

LEMMA RowRecorded ==
  ASSUME TypeOK, NEW op \in Operations, NEW outcome \in Outcomes,
         rows' = [rows EXCEPT ![op].state = "recorded", ![op].outcome = outcome]
  PROVE  OnlyRow(op) /\ rows'[op].state = "recorded" /\ rows'[op].outcome = outcome
<1> DEFINE row == [rows[op] EXCEPT !.state = "recorded", !.outcome = outcome]
<1>1. rows[op] \in Rows
  BY Types
<1>2. row \in Rows /\ row.state = "recorded" /\ row.outcome = outcome
  BY <1>1 DEF Rows, RowStates
<1>3. rows' = [rows EXCEPT ![op] = row]
  OBVIOUS
<1> HIDE DEF row
<1> QED
  BY <1>2, <1>3, RowReplaced

\* Rows that were never started are superseded together.
LEMMA RowsSuperseded ==
  ASSUME TypeOK, Supersede
  PROVE  /\ rows' \in [Operations -> Rows]
         /\ \A op \in Operations :
              IF rows[op].state = "proposed" THEN rows'[op].state = "superseded"
              ELSE rows'[op] = rows[op]
<1> DEFINE Row(op) == IF rows[op].state = "proposed"
                      THEN [rows[op] EXCEPT !.state = "superseded"] ELSE rows[op]
<1>1. rows \in [Operations -> Rows]
  BY Types
<1>2. ASSUME NEW op \in Operations
      PROVE  /\ Row(op) \in Rows
             /\ IF rows[op].state = "proposed" THEN Row(op).state = "superseded"
                ELSE Row(op) = rows[op]
  <2>1. rows[op] \in Rows
    BY <1>1
  <2> QED
    BY <2>1 DEF Rows, RowStates
<1>3. rows' = [op \in Operations |-> Row(op)]
  BY DEF Supersede
<1> HIDE DEF Row
<1> QED
  BY <1>2, <1>3

\* The parts of a state that only a run's position changes.
Control == <<status, at, cancelled, stopRequested, waiting, woken>>
Controls == Statuses \X Labels \X BOOLEAN \X BOOLEAN \X Seq(Requests) \X Seq(Requests)

LEMMA EndTypes ==
  ASSUME TypeOK, NEW s \in Statuses, EndRun(s)
  PROVE  Control' \in Controls /\ seen' = seen /\ call' = call /\ tool' = tool
<1>1. waiting \in Seq(Requests) /\ woken \in Seq(Requests) /\ stopRequested \in BOOLEAN
  BY Types
<1>2. woken \o waiting \in Seq(Requests) /\ <<>> \in Seq(Requests)
  BY <1>1
<1> QED
  BY <1>1, <1>2 DEF EndRun, Control, Controls, Labels

LEMMA GotoTypes ==
  ASSUME TypeOK, NEW label \in Labels, Goto(label)
  PROVE  Control' \in Controls /\ seen' = seen
<1>1. Control \in Controls
  BY Types DEF Control, Controls
<1> QED
  BY <1>1 DEF Goto, requestVars, Control, Controls

LEMMA AbortTypes ==
  ASSUME TypeOK, AbortRun
  PROVE  Control' \in Controls /\ seen' = seen /\ call' = call /\ tool' = tool
BY EndTypes DEF AbortRun, Statuses

\* A run keeps the types of the answers and the rows,
LEMMA RunRecords ==
  ASSUME TypeOK, RunStep
  PROVE  /\ calls' \in [Calls -> Answers] /\ rows' \in [Operations -> Rows]
         /\ starts' \in [Operations -> Nat]
         /\ pending' \in BOOLEAN /\ final' \in 0..Instructions
<1>0. /\ calls \in [Calls -> Answers] /\ rows \in [Operations -> Rows]
      /\ starts \in [Operations -> Nat] /\ pending \in BOOLEAN
      /\ final \in 0..Instructions /\ seen \in 0..Instructions
      /\ call \in Calls /\ tool \in Operations /\ source \in 1..Instructions
  BY Types
<1> USE <1>0 DEF historyVars
<1>1. CASE \/ CancelledEarly \/ Begin \/ RecoverNext \/ UseSaved \/ HoldForCapacity
           \/ ExecutorAbsorbs
  BY <1>1 DEF CancelledEarly, Begin, RecoverNext, UseSaved, HoldForCapacity, ExecutorAbsorbs,
     storeVars
<1>2. CASE AwaitInterrupted \/ LoseCurrent \/ Remembered \/ HoldBeforeSave \/ FindProposed
           \/ HoldBeforeStart \/ AfterTool \/ HoldUnresolved \/ AcceptCandidate
  BY <1>2
  DEF AwaitInterrupted, LoseCurrent, Remembered, HoldBeforeSave, FindProposed, HoldBeforeStart,
      AfterTool, HoldUnresolved, AcceptCandidate
<1>3. CASE BuyCall
  <2>1. PICK c \in Calls : calls' = [calls EXCEPT ![c].state = "started",
                                       ![c].phase = PhaseNow, ![c].source = seen]
    BY <1>3 DEF BuyCall, Unused
  <2>2. OnlyAnswer(c)
    BY <2>1, AnswerBought
  <2> QED
    BY <1>3, <2>2 DEF BuyCall, OnlyAnswer
<1>4. CASE ModelResponds
  <2>1. PICK action \in Actions, size \in Tools :
          calls' = [calls EXCEPT ![call].state = "responded", ![call].action = action,
                                 ![call].size = size]
    <3>1. 1 \in Tools /\ Actions \ {"none"} \subseteq Actions /\ "none" \in Actions
      BY BoundsAssumption DEF Actions, Tools
    <3>2. CASE at = "model"
      BY <1>4, <3>1, <3>2 DEF ModelResponds
    <3>3. CASE at # "model"
      BY <1>4, <3>1, <3>3 DEF ModelResponds
    <3> QED
      BY <3>2, <3>3
  <2>2. OnlyAnswer(call)
    BY <2>1, AnswerReceived
  <2> QED
    BY <1>4, <2>2 DEF ModelResponds, OnlyAnswer
<1>5. CASE ModelFails
  <2>1. OnlyAnswer(call)
    BY <1>5, AnswerGivenUp DEF ModelFails
  <2> QED
    BY <1>5, <2>1 DEF ModelFails, OnlyAnswer
<1>6. CASE ModelInterrupted
  <2>1. OnlyAnswer(call)
    BY <1>6, AnswerGivenUp DEF ModelInterrupted
  <2> QED
    BY <1>6, <2>1 DEF ModelInterrupted, OnlyAnswer
<1>7. CASE ApplyPlan \/ RejectAnswer \/ ConsumeBatch \/ Complete
  <2>1. ConsumeCall(call)
    BY <1>7 DEF ApplyPlan, RejectAnswer, ConsumeBatch, Complete
  <2>2. OnlyAnswer(call)
    BY <2>1, AnswerConsumed
  <2> QED
    BY <1>7, <2>2 DEF ApplyPlan, RejectAnswer, ConsumeBatch, Complete, OnlyAnswer
<1>8. CASE Decide \/ Reviewed
  <2>1. calls' = calls \/ ConsumeCall(call)
    BY <1>8 DEF Decide, Reviewed
  <2>2. ConsumeCall(call) => OnlyAnswer(call)
    BY AnswerConsumed
  <2> QED
    BY <1>8, <2>1, <2>2 DEF Decide, Reviewed, OnlyAnswer
<1>9. CASE RefuseAdmission \/ SaveOperation
  <2> DEFINE refused == [state |-> "recorded", outcome |-> "failed", source |-> source]
             saved == [state |-> "proposed", outcome |-> "missing", source |-> source]
  <2>1. rows' = [rows EXCEPT ![tool] = refused] \/ rows' = [rows EXCEPT ![tool] = saved]
    BY <1>9 DEF RefuseAdmission, SaveOperation
  <2>2. refused \in Rows /\ saved \in Rows
    BY InstructionsCounted DEF Rows, RowStates, Outcomes, Instructions
  <2> HIDE DEF refused, saved
  <2>3. OnlyRow(tool)
    BY <2>1, <2>2, RowReplaced
  <2> QED
    BY <1>9, <2>3 DEF RefuseAdmission, SaveOperation, OnlyRow
<1>10. CASE StartOperation
  <2>1. OnlyRow(tool)
    BY <1>10, RowStarted DEF StartOperation
  <2>2. starts' \in [Operations -> Nat]
    BY <1>10 DEF StartOperation
  <2> QED
    BY <1>10, <2>1, <2>2 DEF StartOperation, OnlyRow
<1>11. CASE Recovered \/ ExecutorRefuses \/ ExecutorReturns
  <2>1. PICK outcome \in Outcomes :
          rows' = [rows EXCEPT ![tool].state = "recorded", ![tool].outcome = outcome]
    BY <1>11 DEF Recovered, ExecutorRefuses, ExecutorReturns, Outcomes
  <2>2. OnlyRow(tool)
    BY <2>1, RowRecorded
  <2> QED
    BY <1>11, <2>2 DEF Recovered, ExecutorRefuses, ExecutorReturns, OnlyRow
<1> QED
  BY <1>1, <1>2, <1>3, <1>4, <1>5, <1>6, <1>7, <1>8, <1>9, <1>10, <1>11 DEF RunStep

\* and those of its position.
LEMMA RunControl ==
  ASSUME TypeOK, RunStep
  PROVE  /\ Control' \in Controls
         /\ seen' \in 0..Instructions /\ call' \in Calls /\ tool' \in Operations
<1>0. /\ source \in 1..Instructions /\ seen \in 0..Instructions
      /\ call \in Calls /\ tool \in Operations /\ status \in Statuses
      /\ cancelled \in BOOLEAN
      /\ Control \in Controls /\ Instructions \in Nat
  BY Types, InstructionsNumber DEF Control, Controls
<1> USE <1>0
<1>1. CASE CancelledEarly
  BY <1>1, EndTypes DEF CancelledEarly
<1>2. CASE Begin
  BY <1>2 DEF Begin, Control, Controls, requestVars, Statuses, Labels
<1>3. CASE RecoverNext
  BY <1>3, GotoTypes DEF RecoverNext, Labels
<1>4. CASE Recovered
  BY <1>4, GotoTypes, EndTypes DEF Recovered, Labels, Statuses
<1>5. CASE UseSaved
  BY <1>5, GotoTypes DEF UseSaved, Labels, Saved
<1>6. CASE BuyCall
  BY <1>6, GotoTypes DEF BuyCall, Labels, Unused
<1>7. CASE ModelResponds
  BY <1>7, GotoTypes, AbortTypes DEF ModelResponds, Labels
<1>8. CASE ModelFails
  BY <1>8, GotoTypes, EndTypes DEF ModelFails, Labels, Statuses
<1>9. CASE ModelInterrupted \/ AwaitInterrupted
  BY <1>9, EndTypes DEF ModelInterrupted, AwaitInterrupted, Interrupted, Statuses
<1>10. CASE ApplyPlan
  BY <1>10, GotoTypes DEF ApplyPlan, Labels
<1>11. CASE RejectAnswer
  BY <1>11, GotoTypes, EndTypes DEF RejectAnswer, Labels, Statuses
<1>12. CASE Decide
  <2>1. <<call, 1>> \in Operations
    BY PieceTypes DEF Operations
  <2> QED
    BY <1>12, <2>1, GotoTypes, EndTypes DEF Decide, Labels, Statuses
<1>13. CASE LoseCurrent
  BY <1>13, AbortTypes DEF LoseCurrent
<1>14. CASE Remembered \/ FindProposed \/ RefuseAdmission \/ SaveOperation \/ StartOperation
            \/ ExecutorRefuses
  BY <1>14, GotoTypes
  DEF Remembered, FindProposed, RefuseAdmission, SaveOperation, StartOperation,
      ExecutorRefuses, Labels
<1>15. CASE HoldForCapacity \/ HoldBeforeSave \/ HoldBeforeStart \/ HoldUnresolved
  BY <1>15, EndTypes DEF HoldForCapacity, HoldBeforeSave, HoldBeforeStart, HoldUnresolved, Statuses
<1>16. CASE ExecutorReturns
  <2>1. CASE Interrupted
    BY <2>1, EndTypes DEF Interrupted, Statuses
  <2>2. CASE Goto("after") /\ UNCHANGED <<call, tool>>
    BY <2>2, GotoTypes DEF Labels
  <2> QED
    BY <1>16, <2>1, <2>2 DEF ExecutorReturns
<1>17. CASE AfterTool
  <2>1. CASE rows[tool].outcome = "unknown" /\ EndRun("held")
    BY <2>1, EndTypes DEF Statuses
  <2>2. CASE tool[2] < calls[call].size /\ Goto("act") /\ tool' = <<call, tool[2] + 1>>
             /\ UNCHANGED call
    <3>1. calls[call].size \in Tools /\ tool[2] \in Tools
      BY Types, PieceTypes DEF Answers
    <3>2. tool[2] + 1 \in Tools
      BY <2>2, <3>1, BoundsAssumption DEF Tools
    <3> QED
      BY <2>2, <3>2, GotoTypes DEF Operations, Labels
  <2>3. CASE Goto("consume") /\ UNCHANGED <<call, tool>>
    BY <2>3, GotoTypes DEF Labels
  <2> QED
    BY <1>17, <2>1, <2>2, <2>3 DEF AfterTool
<1>18. CASE ConsumeBatch \/ AcceptCandidate
  BY <1>18, GotoTypes DEF ConsumeBatch, AcceptCandidate, Labels
<1>19. CASE Reviewed
  BY <1>19, GotoTypes, EndTypes DEF Reviewed, Labels, Statuses
<1>20. CASE Complete
  BY <1>20, EndTypes DEF Complete, Statuses
<1>21. CASE ExecutorAbsorbs
  BY <1>21 DEF ExecutorAbsorbs, storeVars, requestVars, Control, Controls
<1> QED
  BY <1>1, <1>2, <1>3, <1>4, <1>5, <1>6, <1>7, <1>8, <1>9, <1>10, <1>11, <1>12, <1>13, <1>14,
     <1>15, <1>16, <1>17, <1>18, <1>19, <1>20, <1>21 DEF RunStep

\* Commands of the user and a crash keep all types.
LEMMA CommandTypes ==
  ASSUME TypeOK, source' \in 1..Instructions,
         Resume \/ Stop \/ Message \/ WakeStop \/ WakeMessage \/ Crash
  PROVE  TypeOK'
<1>0. /\ status \in Statuses /\ pending \in BOOLEAN /\ final \in 0..Instructions
      /\ calls \in [Calls -> Answers] /\ rows \in [Operations -> Rows]
      /\ delivered \subseteq Messages /\ at \in Labels /\ seen \in 0..Instructions
      /\ call \in Calls /\ tool \in Operations
      /\ cancelled \in BOOLEAN /\ stopRequested \in BOOLEAN
      /\ waiting \in Seq(Requests) /\ woken \in Seq(Requests)
      /\ starts \in [Operations -> Nat] /\ command \in {"go", "stop", "late stop"}
      /\ Instructions \in Nat
  BY Types, InstructionsNumber
<1>1. /\ Append(waiting, "stop") \in Seq(Requests) /\ Append(waiting, "message") \in Seq(Requests)
      /\ woken # <<>> => Tail(woken) \in Seq(Requests)
      /\ <<>> \in Seq(Requests)
  <2>1. "stop" \in Requests /\ "message" \in Requests
    BY DEF Requests
  <2> QED
    BY <1>0, <2>1, QueueTypes
<1>2. StopStatus \in Statuses
  BY <1>0 DEF StopStatus, Statuses
<1>3. Supersede => rows' \in [Operations -> Rows]
  BY RowsSuperseded
<1>10. 0 \in 0..Instructions
  BY InstructionsNumber
<1> USE <1>0, <1>1, <1>2
<1>4. CASE Resume
  BY <1>4, TypesNext DEF Resume, StartTask, storeVars, Labels
<1>5. CASE Stop
  BY <1>5, TypesNext DEF Stop
<1>6. CASE Message
  <2>1. CASE at = "none"
    <3>1. /\ delivered' \subseteq Messages /\ pending' = TRUE /\ final' = 0
          /\ status' = "source_update_required" /\ command' = "go"
          /\ at' = "ready" /\ cancelled' = FALSE /\ stopRequested' = FALSE
          /\ UNCHANGED <<calls, seen, call, tool, waiting, woken, starts>> /\ Supersede
      BY <1>6, <2>1 DEF Message, Restart, StartTask
    <3>2. status' \in Statuses
      BY <3>1 DEF Statuses
    <3>5. final' \in 0..Instructions
      BY <3>1, <1>10
    <3>6. at' \in Labels
      BY <3>1 DEF Labels
    <3>7. command' \in {"go", "stop", "late stop"}
      BY <3>1
    <3>4. pending' \in BOOLEAN /\ cancelled' \in BOOLEAN /\ stopRequested' \in BOOLEAN
      BY <3>1
    <3>3. rows' \in [Operations -> Rows]
      BY <1>3, <3>1
    <3> QED
      BY <3>1, <3>2, <3>3, <3>4, <3>5, <3>6, <3>7, TypesNext
  <2>2. CASE at # "none"
    BY <1>6, <2>2, TypesNext DEF Message, Statuses
  <2> QED
    BY <2>1, <2>2
<1>7. CASE WakeStop
  BY <1>7, TypesNext DEF WakeStop, runVars, historyVars
<1>8. CASE WakeMessage
  <2>1. /\ final' = 0 /\ status' = "source_update_required" /\ Supersede
        /\ woken' = Tail(woken) /\ woken # <<>>
        /\ at' \in {"ready", at} /\ cancelled' \in {FALSE, cancelled}
        /\ stopRequested' \in {FALSE, stopRequested}
        /\ UNCHANGED <<pending, calls, delivered, seen, call, tool, waiting, starts, command>>
    BY <1>8 DEF WakeMessage, Restart, StartTask, historyVars
  <2>2. status' \in Statuses
    BY <2>1 DEF Statuses
  <2>6. final' \in 0..Instructions
    BY <2>1, <1>10
  <2>7. at' \in Labels
    BY <2>1 DEF Labels
  <2>8. command' \in {"go", "stop", "late stop"} /\ delivered' \subseteq Messages
    BY <2>1
  <2>5. pending' \in BOOLEAN /\ cancelled' \in BOOLEAN /\ stopRequested' \in BOOLEAN
    BY <2>1
  <2>3. rows' \in [Operations -> Rows]
    BY <1>3, <2>1
  <2>4. woken' \in Seq(Requests)
    BY <2>1
  <2> QED
    BY <2>1, <2>2, <2>3, <2>4, <2>5, <2>6, <2>7, <2>8, TypesNext
<1>9. CASE Crash
  BY <1>9, TypesNext DEF Crash, Statuses, Labels, historyVars
<1> QED
  BY <1>4, <1>5, <1>6, <1>7, <1>8, <1>9

\* So every step keeps them.
LEMMA TypeStep ==
  ASSUME TypeOK, SourcesCounted, [Next]_vars
  PROVE  TypeOK'
<1>1. delivered' \subseteq Messages
  <2>1. CASE Message
    BY <2>1, Types DEF Message
  <2>2. CASE RunStep
    BY <2>2, RunFrame, Types
  <2>3. CASE Resume \/ Stop \/ WakeStop \/ WakeMessage \/ Crash \/ UNCHANGED vars
    BY <2>3, Types DEF Resume, Stop, WakeStop, WakeMessage, Crash, storeVars, vars
  <2> QED
    BY <2>1, <2>2, <2>3 DEF Next
<1>2. source' \in 1..Instructions
  <2>1. SourcesCounted'
    BY CountStep
  <2>2. Cardinality(delivered') \in Nat /\ Cardinality(delivered') <= Cardinality(Messages)
    BY <1>1, FS_Subset, FS_CardinalityType, BoundsAssumption
  <2> QED
    BY <2>1, <2>2, InstructionsCounted DEF SourcesCounted, Instructions
<1>3. CASE RunStep
  <2>1. command' = command /\ command \in {"go", "stop", "late stop"}
    BY <1>3, RunFrame, Types
  <2>2. /\ status' \in Statuses /\ at' \in Labels /\ cancelled' \in BOOLEAN
        /\ stopRequested' \in BOOLEAN /\ waiting' \in Seq(Requests) /\ woken' \in Seq(Requests)
    BY <1>3, RunControl DEF Control, Controls
  <2> QED
    BY <1>1, <1>2, <1>3, <2>1, <2>2, RunControl, RunRecords, TypesNext
<1>4. CASE Resume \/ Stop \/ Message \/ WakeStop \/ WakeMessage \/ Crash
  BY <1>2, <1>4, CommandTypes
<1>5. CASE UNCHANGED vars
  BY <1>5, Types, TypesNext DEF vars, storeVars, runVars, requestVars, historyVars
<1> QED
  BY <1>3, <1>4, <1>5 DEF Next


-------------------------------------------------------------------------------
(***************************************************************************)
(* The run and those who wait for it.                                      *)
(***************************************************************************)
\* A step of the run ends it with a status that is not 'running', or goes on.
Ends == \E s \in Statuses \ {"running"} : EndRun(s) /\ (s = "completed" => Complete)
GoesOn ==
  /\ at' \notin {"none", "ready"}
  /\ status' \in {"running", "source_update_required", "stopped"}
  /\ woken' = woken /\ waiting' = waiting /\ stopRequested' = stopRequested

LEMMA GotoGoesOn ==
  ASSUME NEW label \in Labels \ {"none", "ready"}, Goto(label), RunKnown,
         at \notin {"none", "ready"}
  PROVE  GoesOn
BY DEF Goto, RunKnown, GoesOn, requestVars

LEMMA RunMoves ==
  ASSUME TypeOK, RunKnown, RunStep
  PROVE  at # "none" /\ (Ends \/ GoesOn)
<1>0. status \in Statuses
  BY Types
<1>1. CASE CancelledEarly
  <2>1. status \notin {"running", "completed"}
    BY <1>1 DEF CancelledEarly, RunKnown
  <2> QED
    BY <1>0, <1>1, <2>1 DEF CancelledEarly, Ends
<1>2. CASE Begin
  BY <1>2 DEF Begin, GoesOn, requestVars
<1>3. CASE RecoverNext \/ Recovered
  BY <1>3, GotoGoesOn DEF RecoverNext, Recovered, Ends, Labels, Statuses
<1>4. CASE UseSaved \/ BuyCall
  BY <1>4, GotoGoesOn DEF UseSaved, BuyCall, Labels
<1>5. CASE ModelResponds \/ ModelFails \/ ModelInterrupted \/ AwaitInterrupted
  <2>1. \/ AbortRun \/ EndRun("held") \/ EndRun("stopped")
        \/ \E label \in {"apply", "decide", "turn"} : Goto(label)
    BY <1>5 DEF ModelResponds, ModelFails, ModelInterrupted, AwaitInterrupted, Interrupted
  <2>2. at \in {"sources", "model", "recover", "review"}
    BY <1>5 DEF ModelResponds, ModelFails, ModelInterrupted, AwaitInterrupted
  <2> QED
    BY <2>1, <2>2, GotoGoesOn DEF AbortRun, Ends, Labels, Statuses
<1>6. CASE ApplyPlan \/ RejectAnswer \/ Decide \/ LoseCurrent
  BY <1>6, GotoGoesOn
  DEF ApplyPlan, RejectAnswer, Decide, LoseCurrent, AbortRun, Ends, Labels, Statuses
<1>7. CASE Remembered \/ FindProposed \/ RefuseAdmission \/ SaveOperation \/ StartOperation
           \/ ExecutorRefuses
  BY <1>7, GotoGoesOn
  DEF Remembered, FindProposed, RefuseAdmission, SaveOperation, StartOperation,
      ExecutorRefuses, Labels
<1>8. CASE HoldForCapacity \/ HoldBeforeSave \/ HoldBeforeStart \/ HoldUnresolved
  BY <1>8 DEF HoldForCapacity, HoldBeforeSave, HoldBeforeStart, HoldUnresolved, Ends, Statuses
<1>9. CASE ExecutorReturns
  <2>1. CASE Interrupted
    BY <1>9, <2>1 DEF ExecutorReturns, Interrupted, Ends, Statuses
  <2>2. CASE Goto("after")
    BY <1>9, <2>2, GotoGoesOn DEF ExecutorReturns, Labels
  <2> QED
    BY <1>9, <2>1, <2>2 DEF ExecutorReturns
<1>10. CASE AfterTool \/ ConsumeBatch \/ AcceptCandidate \/ Reviewed
  BY <1>10, GotoGoesOn
  DEF AfterTool, ConsumeBatch, AcceptCandidate, Reviewed, Ends, Labels, Statuses
<1>11. CASE Complete
  BY <1>11 DEF Complete, Ends, Statuses
<1>12. CASE ExecutorAbsorbs
  BY <1>12 DEF ExecutorAbsorbs, GoesOn, RunKnown, storeVars, requestVars
<1> QED
  BY <1>1, <1>2, <1>3, <1>4, <1>5, <1>6, <1>7, <1>8, <1>9, <1>10, <1>11, <1>12 DEF RunStep

\* The queues hold the requests in flight.
Holds(queue, request) == \E i \in 1..Len(queue) : queue[i] = request
LEMMA InFlightHeld ==
  /\ \A r : InFlight(r) <=> Holds(waiting, r) \/ Holds(woken, r)
  /\ \A r : InFlight(r)' <=> Holds(waiting', r) \/ Holds(woken', r)
  /\ \A r : ~Holds(<<>>, r)
BY DEF InFlight, Holds

\* Waking them, taking one out, or asking for a stop brings no message.
LEMMA NoNewMessage ==
  ASSUME TypeOK, ~InFlight("message"),
         \/ UNCHANGED <<waiting, woken>>
         \/ waiting' = <<>> /\ woken' \in {<<>>, woken \o waiting}
         \/ waiting' \in {waiting, Append(waiting, "stop")} /\ woken' = woken
         \/ waiting' = waiting /\ woken # <<>> /\ woken' = Tail(woken)
  PROVE  ~InFlight("message")'
<1>1. waiting \in Seq(Requests) /\ woken \in Seq(Requests) /\ "stop" \in Requests
  BY Types DEF Requests
<1>2. ~Holds(waiting, "message") /\ ~Holds(woken, "message")
  BY InFlightHeld
<1>3. /\ ~Holds(woken \o waiting, "message") /\ ~Holds(Append(waiting, "stop"), "message")
      /\ woken # <<>> => ~Holds(Tail(woken), "message")
  BY <1>1, <1>2, QueueFacts, "stop" # "message" DEF Holds
<1> QED
  BY <1>2, <1>3, InFlightHeld

LEMMA RunStays ==
  ASSUME TypeOK, RunKnown, StopKept, RunStep
  PROVE  RunKnown' /\ StopKept'
<1>1. at # "none" /\ command' = command
  BY RunMoves, RunFrame
<1>2. CASE Ends
  <2>1. PICK s \in Statuses \ {"running"} : EndRun(s)
    BY <1>2 DEF Ends
  <2>2. RunKnown'
    BY <2>1 DEF EndRun, RunKnown
  <2>3. InFlight("message")' => InFlight("message")
    BY <2>1, NoNewMessage DEF EndRun
  <2> QED
    BY <1>1, <2>1, <2>2, <2>3 DEF EndRun, StopKept
<1>3. CASE GoesOn
  <2>1. RunKnown'
    BY <1>3 DEF GoesOn, RunKnown
  <2>2. InFlight("message")' => InFlight("message")
    BY <1>3, NoNewMessage DEF GoesOn
  <2> QED
    BY <1>1, <1>3, <2>1, <2>2 DEF GoesOn, StopKept
<1> QED
  BY <1>2, <1>3, RunMoves

\* Whoever is awakened finds the run over or another one under way, which a stop
\* leaves at work.
LEMMA CommandStays ==
  ASSUME TypeOK, RunKnown, StopKept,
         Resume \/ Stop \/ Message \/ WakeStop \/ WakeMessage \/ Crash
  PROVE  RunKnown' /\ StopKept'
<1>1. CASE Resume
  BY <1>1 DEF Resume, StartTask, storeVars, RunKnown, StopKept
<1>2. CASE Stop
  <2>1. RunKnown'
    BY <1>2 DEF Stop, StopStatus, RunKnown
  <2>2. /\ command' = "stop" => ~InFlight("message")
        /\ waiting' \in {waiting, Append(waiting, "stop")} /\ woken' = woken
        /\ stopRequested' = TRUE
    BY <1>2 DEF Stop
  <2> QED
    BY <2>1, <2>2, NoNewMessage DEF StopKept
<1>3. CASE Message
  <2>1. command' = "go"
    BY <1>3 DEF Message
  <2>2. RunKnown'
    BY <1>3 DEF Message, Restart, StartTask, RunKnown
  <2> QED
    BY <2>1, <2>2 DEF StopKept
<1>4. CASE WakeStop
  <2>1. RunKnown'
    BY <1>4 DEF WakeStop, StopStatus, RunKnown, runVars
  <2>2. InFlight("message")' => InFlight("message")
    BY <1>4, NoNewMessage DEF WakeStop
  <2> QED
    BY <1>4, <2>1, <2>2 DEF WakeStop, StopKept, runVars, historyVars
<1>5. CASE WakeMessage
  <2>1. /\ woken # <<>> /\ Head(woken) = "message" /\ command' = command
        /\ status' = "source_update_required" /\ at' = IF at = "none" THEN "ready" ELSE at
    BY <1>5 DEF WakeMessage, Restart, StartTask, historyVars
  <2>2. woken \in Seq(Requests) /\ "message" \in Requests
    BY Types DEF Requests
  <2>3. Holds(woken, "message")
    BY <2>1, <2>2, QueueFacts DEF Holds
  <2>4. command # "stop"
    BY <2>3, InFlightHeld DEF StopKept
  <2> QED
    BY <2>1, <2>4 DEF RunKnown, StopKept
<1>6. CASE Crash
  <2>1. /\ at' = "none" /\ waiting' = <<>> /\ woken' = <<>> /\ status' # "running"
    BY <1>6 DEF Crash
  <2> QED
    BY <2>1, InFlightHeld DEF RunKnown, StopKept
<1> QED
  BY <1>1, <1>2, <1>3, <1>4, <1>5, <1>6

-------------------------------------------------------------------------------
(***************************************************************************)
(* What the Store knows of the answers and of their operations.            *)
(***************************************************************************)
StoreInv == AnswersKnown /\ (\A op \in Operations : RowKnown(op)) /\ OneInDoubt

\* It is about the answers, the rows and what was started.
LEMMA StoreKept ==
  ASSUME StoreInv, UNCHANGED <<calls, rows, starts>>
  PROVE  StoreInv'
<1>1. AnswersKnown' /\ OneInDoubt'
  BY DEF StoreInv, AnswersKnown, Live, OneInDoubt, InDoubt
<1>2. ASSUME NEW op \in Operations PROVE RowKnown(op)'
  <2>1. RowKnown(op)
    BY DEF StoreInv
  <2> QED
    BY <2>1 DEF RowKnown, Succeeded, Unresolved, Doubtful
<1> QED
  BY <1>1, <1>2 DEF StoreInv

\* Only the answers of tools have rows.
LEMMA NoRows ==
  ASSUME TypeOK, StoreInv, NEW c \in Calls,
         calls[c].state # "responded" \/ calls[c].action # "tools"
  PROVE  \A i \in Tools : rows[<<c, i>>].state = "absent" /\ ~Unresolved(<<c, i>>)
<1> SUFFICES ASSUME NEW i \in Tools
             PROVE  rows[<<c, i>>].state = "absent" /\ ~Unresolved(<<c, i>>)
  OBVIOUS
<1>1. <<c, i>> \in Operations
  BY DEF Operations
<1>2. RowKnown(<<c, i>>)
  BY <1>1 DEF StoreInv
<1>3. rows[<<c, i>>].state = "absent"
  BY <1>2 DEF RowKnown
<1> QED
  BY <1>3 DEF Unresolved, Doubtful

\* An answer changes: no other stands for it, and it keeps its rows or has none.
LEMMA AnswerChanges ==
  ASSUME TypeOK, StoreInv, NEW c \in Calls, OnlyAnswer(c), UNCHANGED <<rows, starts>>,
         calls'[c].consumed => calls'[c].state = "responded",
         calls'[c].state = "responded" =>
           (calls'[c].action = "none" <=> calls'[c].phase = "source_reconciliation"),
         Live(c)' => \A d \in Calls \ {c} :
           ~(Live(d) /\ calls[d].source = calls'[c].source /\ calls[d].phase = calls'[c].phase),
         \/ \A i \in Tools : rows[<<c, i>>].state = "absent"
         \/ /\ calls'[c].state = calls[c].state /\ calls'[c].action = calls[c].action
            /\ calls'[c].size = calls[c].size,
         calls'[c].consumed => \A i \in Tools : ~Unresolved(<<c, i>>)
  PROVE  StoreInv'
<1>0. AnswersKnown /\ \A d \in Calls \ {c} : calls'[d] = calls[d]
  BY DEF StoreInv, OnlyAnswer
<1>1. OneInDoubt'
  BY DEF StoreInv, OneInDoubt, InDoubt
<1>2. ASSUME NEW op \in Operations PROVE RowKnown(op)'
  <2>1. /\ RowKnown(op) /\ op[1] \in Calls /\ op[2] \in Tools /\ op = <<op[1], op[2]>>
    BY PieceTypes DEF StoreInv
  <2>2. CASE op[1] # c
    <3>1. calls'[op[1]] = calls[op[1]]
      BY <1>0, <2>1, <2>2
    <3> QED
      BY <2>1, <3>1 DEF RowKnown, Succeeded, Unresolved, Doubtful
  <2>3. CASE op[1] = c
    <3>1. \/ rows[op].state = "absent"
          \/ /\ calls'[c].state = calls[c].state /\ calls'[c].action = calls[c].action
             /\ calls'[c].size = calls[c].size
      BY <2>1, <2>3
    <3>2. calls'[c].consumed => ~Unresolved(op)
      BY <2>1, <2>3
    <3> QED
      BY <2>1, <2>3, <3>1, <3>2 DEF RowKnown, Succeeded, Unresolved, Doubtful
  <2> QED
    BY <2>2, <2>3
<1>3. AnswersKnown'
  <2>1. ASSUME NEW d \in Calls
        PROVE  /\ calls'[d].consumed => calls'[d].state = "responded"
               /\ calls'[d].state = "responded" =>
                    (calls'[d].action = "none" <=> calls'[d].phase = "source_reconciliation")
    BY <1>0 DEF AnswersKnown
  <2>2. ASSUME NEW d \in Calls, NEW e \in Calls, Live(d)', Live(e)',
               calls'[d].source = calls'[e].source, calls'[d].phase = calls'[e].phase
        PROVE  d = e
    <3>1. \A f \in Calls \ {c} : calls'[f] = calls[f] /\ (Live(f)' <=> Live(f))
      BY <1>0 DEF Live
    <3>2. CASE d # c /\ e # c
      BY <1>0, <2>2, <3>1, <3>2 DEF AnswersKnown
    <3>3. CASE d = c /\ e # c
      BY <2>2, <3>1, <3>3
    <3>4. CASE d # c /\ e = c
      BY <2>2, <3>1, <3>4
    <3> QED
      BY <3>2, <3>3, <3>4
  <2> QED
    BY <2>1, <2>2 DEF AnswersKnown
<1> QED
  BY <1>1, <1>2, <1>3 DEF StoreInv

\* A row changes that no later one relies on, of an answer that is not retired;
\* when it is in doubt, no other one is.
LEMMA RowChanges ==
  ASSUME TypeOK, StoreInv, NEW op \in Operations, OnlyRow(op), UNCHANGED calls,
         \A p \in Operations \ {op} : starts'[p] = starts[p],
         ~Succeeded(op), starts'[op] <= 1,
         rows'[op].state \notin {"executing", "recorded"} => starts'[op] = 0,
         calls[op[1]].state = "responded", calls[op[1]].action = "tools",
         ~calls[op[1]].consumed, op[2] <= calls[op[1]].size,
         \A i \in Tools : i < op[2] => Succeeded(<<op[1], i>>),
         InDoubt(op)' => \A p \in Operations \ {op} : ~InDoubt(p)
  PROVE  StoreInv'
<1>0. \A p \in Operations \ {op} : rows'[p] = rows[p]
  BY DEF OnlyRow
<1>1. AnswersKnown'
  BY DEF StoreInv, AnswersKnown, Live
<1>2. OneInDoubt'
  <2>1. ASSUME NEW p \in Operations \ {op} PROVE InDoubt(p)' <=> InDoubt(p)
    BY <1>0 DEF InDoubt
  <2>2. ASSUME NEW p \in Operations, NEW q \in Operations, InDoubt(p)', InDoubt(q)'
        PROVE  p = q
    <3>1. CASE p # op /\ q # op
      BY <2>1, <2>2, <3>1 DEF StoreInv, OneInDoubt
    <3>2. CASE p = op \/ q = op
      BY <2>1, <2>2, <3>2
    <3> QED
      BY <3>1, <3>2
  <2> QED
    BY <2>2 DEF OneInDoubt
<1>3. \A p \in Operations : Succeeded(p) => Succeeded(p)'
  BY <1>0 DEF Succeeded
<1>4. ASSUME NEW p \in Operations PROVE RowKnown(p)'
  <2>0. p[1] \in Calls /\ p[2] \in Tools /\ \A i \in Tools : <<p[1], i>> \in Operations
    BY PieceTypes DEF Operations
  <2>1. RowKnown(p)
    BY DEF StoreInv
  <2>2. \A i \in Tools : Succeeded(<<p[1], i>>) => Succeeded(<<p[1], i>>)'
    BY <1>3, <2>0
  <2>3. CASE p # op
    <3>1. rows'[p] = rows[p] /\ starts'[p] = starts[p]
      BY <1>0, <2>3
    <3> QED
      BY <2>1, <2>2, <3>1 DEF RowKnown, Unresolved, Doubtful
  <2>4. CASE p = op
    BY <2>2, <2>4 DEF RowKnown
  <2> QED
    BY <2>3, <2>4
<1> QED
  BY <1>1, <1>2, <1>4 DEF StoreInv

\* What was never started is superseded.
LEMMA SupersedeKept ==
  ASSUME TypeOK, StoreInv, Supersede, UNCHANGED <<calls, starts>>
  PROVE  /\ StoreInv'
         /\ \A op \in Operations : Unresolved(op)' => Unresolved(op)
<1>0. \A op \in Operations : IF rows[op].state = "proposed" THEN rows'[op].state = "superseded"
                             ELSE rows'[op] = rows[op]
  BY RowsSuperseded
<1>1. AnswersKnown'
  BY DEF StoreInv, AnswersKnown, Live
<1>2. OneInDoubt'
  <2>1. \A op \in Operations : InDoubt(op)' => InDoubt(op)
    BY <1>0 DEF InDoubt
  <2> QED
    BY <2>1 DEF StoreInv, OneInDoubt
<1>3. \A op \in Operations : Unresolved(op)' => Unresolved(op)
  BY <1>0 DEF Unresolved, Doubtful
<1>4. ASSUME NEW op \in Operations PROVE RowKnown(op)'
  <2>0. \A i \in Tools : <<op[1], i>> \in Operations
    BY PieceTypes DEF Operations
  <2>1. RowKnown(op)
    BY DEF StoreInv
  <2>2. \A i \in Tools : Succeeded(<<op[1], i>>) => Succeeded(<<op[1], i>>)'
    BY <1>0, <2>0 DEF Succeeded
  <2>3. rows'[op].state # "absent" => rows[op].state # "absent"
    BY <1>0
  <2>4. rows'[op].state \notin {"executing", "recorded"} =>
          rows[op].state \notin {"executing", "recorded"}
    BY <1>0
  <2> QED
    BY <1>3, <2>1, <2>2, <2>3, <2>4 DEF RowKnown
<1> QED
  BY <1>1, <1>2, <1>3, <1>4 DEF StoreInv

-------------------------------------------------------------------------------
(***************************************************************************)
(* Where the run is.                                                       *)
(***************************************************************************)
Placed == Asked /\ Answered /\ AtTool

\* Between turns, and when it is over, it works on nothing.
LEMMA NoPlace ==
  ASSUME at' \in {"none", "ready", "recovering", "turn"}
  PROVE  Placed'
BY DEF Placed, Asked, Answered, AtTool, Acting, Batch, Finishing

\* It stays where it was as long as the Store and the instructions do.
LEMMA SamePlace ==
  ASSUME Placed, UNCHANGED <<calls, rows, at, seen, call, tool>>,
         UNCHANGED <<source, pending>> \/ source' # seen
  PROVE  Placed'
<1>1. Asked'
  BY DEF Placed, Asked, Live
<1>2. Answered'
  BY DEF Placed, Answered, Live
<1>3. AtTool'
  BY DEF Placed, AtTool, Succeeded, Unresolved, Doubtful
<1> QED
  BY <1>1, <1>2, <1>3 DEF Placed

\* Superseding what never started moves no run that awaits something.
LEMMA SupersededPlace ==
  ASSUME TypeOK, Placed, Supersede, at \in Awaiting,
         UNCHANGED <<calls, source, pending, at, seen, call, tool>>
  PROVE  Placed'
<1>0. /\ \A op \in Operations : IF rows[op].state = "proposed" THEN rows'[op].state = "superseded"
                                ELSE rows'[op] = rows[op]
      /\ tool \in Operations /\ call \in Calls
  BY RowsSuperseded, Types
<1>1. Asked'
  BY DEF Placed, Asked, Live
<1>2. Answered'
  BY DEF Placed, Answered, Live
<1>3. /\ \A op \in Operations : Unresolved(op)' => Unresolved(op)
      /\ \A op \in Operations : Doubtful(op) => Doubtful(op)'
      /\ \A op \in Operations : Succeeded(op) => Succeeded(op)'
      /\ rows[tool].state = "executing" => rows'[tool].state = "executing"
  BY <1>0 DEF Unresolved, Doubtful, Succeeded
<1>4. \A i \in Tools : <<call, i>> \in Operations
  BY <1>0 DEF Operations
<1>5. at \notin {"start", "after", "consume", "act", "commit"}
  BY DEF Awaiting
<1>6. AtTool
  BY DEF Placed
<1>7. /\ at = "recover" => Doubtful(tool)'
      /\ at = "executing" => rows'[tool].state = "executing"
      /\ at = "review" => \A op \in Operations : ~Unresolved(op)'
  BY <1>0, <1>3, <1>6 DEF AtTool, Batch
<1>8. at \in Batch =>
        /\ calls'[call'].action = "tools"
        /\ tool'[1] = call' /\ tool'[2] <= calls'[call'].size
        /\ \A i \in Tools : i < tool'[2] => Succeeded(<<call, i>>)'
  BY <1>3, <1>4, <1>6 DEF AtTool
<1>9. AtTool'
  BY <1>5, <1>7, <1>8 DEF AtTool
<1> QED
  BY <1>1, <1>2, <1>9 DEF Placed

\* The steps that neither change the Store nor go anywhere.
LEMMA IdleSteps ==
  ASSUME StoreInv,
         \/ CancelledEarly \/ Begin \/ AwaitInterrupted \/ LoseCurrent
         \/ HoldForCapacity \/ HoldBeforeSave \/ HoldBeforeStart \/ HoldUnresolved
  PROVE  StoreInv' /\ Placed'
<1>1. UNCHANGED <<calls, rows, starts>> /\ at' \in {"none", "recovering"}
  BY DEF CancelledEarly, Begin, AwaitInterrupted, LoseCurrent, HoldForCapacity, HoldBeforeSave,
         HoldBeforeStart, HoldUnresolved, Interrupted, AbortRun, EndRun, historyVars
<1> QED
  BY <1>1, StoreKept, NoPlace

LEMMA RecoverNextStep ==
  ASSUME StoreInv, RecoverNext
  PROVE  StoreInv' /\ Placed'
<1>1. UNCHANGED <<calls, rows, starts>>
  BY DEF RecoverNext, historyVars
<1>2. CASE at' = "turn"
  BY <1>1, <1>2, StoreKept, NoPlace
<1>3. CASE at' = "recover" /\ Doubtful(tool')
  <2>1. Doubtful(tool)'
    BY <1>1, <1>3 DEF Doubtful
  <2> QED
    BY <1>1, <1>3, <2>1, StoreKept
    DEF Placed, Asked, Answered, AtTool, Acting, Batch, Finishing
<1> QED
  BY <1>2, <1>3 DEF RecoverNext, Goto

\* A saved answer is of the phase and the sources the run is at.
LEMMA UseSavedStep ==
  ASSUME TypeOK, StoreInv, UseSaved
  PROVE  StoreInv' /\ Placed'
<1>1. /\ UNCHANGED <<calls, rows, starts, source, pending, seen>> /\ source = seen
      /\ at' = IF pending THEN "apply" ELSE "decide"
      /\ call' \in Saved(PhaseNow)
  BY DEF UseSaved, Goto, Current, historyVars
<1>2. call' \in Calls /\ Live(call') /\ calls[call'].source = seen /\ calls[call'].phase = PhaseNow
  BY <1>1 DEF Saved, Live
<1>3. calls[call'].action = "none" <=> PhaseNow = "source_reconciliation"
  BY <1>2 DEF StoreInv, AnswersKnown, Live
<1>4. Live(call)' /\ calls'[call'].source = seen'
  BY <1>1, <1>2 DEF Live
<1>5. calls'[call'].action = "none" <=> pending
  BY <1>1, <1>3 DEF PhaseNow
<1> QED
  BY <1>1, <1>4, <1>5, StoreKept
  DEF Placed, Asked, Answered, AtTool, Acting, Batch, Finishing

\* A call is bought when no answer is saved.
LEMMA BuyCallStep ==
  ASSUME TypeOK, StoreInv, BuyCall
  PROVE  StoreInv' /\ Placed'
<1>1. PICK c \in Unused :
        /\ call' = c
        /\ calls' = [calls EXCEPT ![c].state = "started", ![c].phase = PhaseNow,
                                  ![c].source = seen]
  BY DEF BuyCall
<1>2. /\ UNCHANGED <<rows, starts, source, pending, seen>> /\ source = seen
      /\ Saved(PhaseNow) = {}
      /\ at' = IF pending THEN "sources" ELSE "model"
  BY DEF BuyCall, Goto, Current, historyVars
<1>3. c \in Calls /\ calls[c].state = "unused"
  BY <1>1 DEF Unused
<1>4. /\ OnlyAnswer(c) /\ calls'[c].consumed = calls[c].consumed /\ calls'[c].state = "started"
      /\ calls'[c].phase = PhaseNow /\ calls'[c].source = seen
  BY <1>1, <1>3, AnswerBought
<1>5. ~calls[c].consumed
  BY <1>3 DEF StoreInv, AnswersKnown
<1>6. StoreInv'
  BY <1>2, <1>3, <1>4, <1>5, NoRows, AnswerChanges DEF Live
<1>7. ASSUME NEW d \in Calls \ {c}
      PROVE  ~(Live(d)' /\ calls'[d].source = seen' /\ calls'[d].phase = calls'[c].phase)
  <2>1. calls'[d] = calls[d]
    BY <1>4 DEF OnlyAnswer
  <2> QED
    BY <1>2, <1>4, <2>1 DEF Saved, Live
<1>8. Asked'
  BY <1>1, <1>2, <1>4, <1>7 DEF Asked, PhaseNow
<1>9. Answered' /\ AtTool'
  BY <1>2 DEF Answered, AtTool, Acting, Batch, Finishing
<1> QED
  BY <1>6, <1>8, <1>9 DEF Placed

\* The response answers what was asked.
LEMMA ModelRespondsStep ==
  ASSUME TypeOK, StoreInv, Placed, ModelResponds
  PROVE  StoreInv' /\ Placed'
<1>1. PICK action \in Actions, size \in Tools :
        /\ calls' = [calls EXCEPT ![call].state = "responded", ![call].action = action,
                                  ![call].size = size]
        /\ action = "none" <=> at = "sources"
  <2>1. 1 \in Tools /\ Actions \ {"none"} \subseteq Actions /\ "none" \in Actions
    BY BoundsAssumption DEF Actions, Tools
  <2>2. CASE at = "model"
    BY <2>1, <2>2 DEF ModelResponds
  <2>3. CASE at = "sources"
    BY <2>1, <2>3 DEF ModelResponds
  <2> QED
    BY <2>2, <2>3 DEF ModelResponds
<1>2. /\ UNCHANGED <<rows, starts, source, pending, call>> /\ at \in {"sources", "model"}
      /\ \/ /\ at' = IF at = "sources" THEN "apply" ELSE "decide"
            /\ seen' = seen
         \/ at' = "none"
  BY DEF ModelResponds, Goto, AbortRun, EndRun, historyVars
<1>3. /\ call \in Calls /\ OnlyAnswer(call) /\ calls'[call].consumed = calls[call].consumed
      /\ calls'[call].state = "responded" /\ calls'[call].phase = calls[call].phase
      /\ calls'[call].source = calls[call].source /\ calls'[call].action = action
  BY <1>1, Types, AnswerReceived
<1>4. /\ calls[call].state = "started" /\ calls[call].source = seen
      /\ calls[call].phase = IF at = "sources" THEN "source_reconciliation" ELSE "next_action"
      /\ \A d \in Calls \ {call} :
           ~(Live(d) /\ calls[d].source = seen /\ calls[d].phase = calls[call].phase)
  BY <1>2 DEF Placed, Asked
<1>5. ~calls[call].consumed
  BY <1>3, <1>4 DEF StoreInv, AnswersKnown
<1>6. StoreInv'
  BY <1>1, <1>2, <1>3, <1>4, <1>5, NoRows, AnswerChanges
<1>7. Live(call)'
  BY <1>2, <1>3, <1>5 DEF Live
<1>8. CASE seen' = seen /\ at' = IF at = "sources" THEN "apply" ELSE "decide"
  <2>1. at = "model" /\ source = seen => ~pending
    BY DEF Placed, Answered
  <2> QED
    BY <1>1, <1>2, <1>3, <1>4, <1>6, <1>7, <1>8, <2>1
    DEF Placed, Asked, Answered, AtTool, Acting, Batch, Finishing
<1> QED
  BY <1>2, <1>6, <1>8, NoPlace

LEMMA ModelLostStep ==
  ASSUME TypeOK, StoreInv, Placed, ModelFails \/ ModelInterrupted
  PROVE  StoreInv' /\ Placed'
<1>1. PICK ended \in {"failed", "interrupted"} : calls' = [calls EXCEPT ![call].state = ended]
  BY DEF ModelFails, ModelInterrupted
<1>2. /\ UNCHANGED <<rows, starts>> /\ at \in {"sources", "model"} /\ at' \in {"none", "turn"}
  BY DEF ModelFails, ModelInterrupted, Goto, Interrupted, EndRun, historyVars
<1>3. /\ call \in Calls /\ OnlyAnswer(call) /\ calls'[call].consumed = calls[call].consumed
      /\ calls'[call].state = ended
  BY <1>1, Types, AnswerGivenUp
<1>4. calls[call].state = "started"
  BY <1>2 DEF Placed, Asked
<1>5. ~calls[call].consumed
  BY <1>3, <1>4 DEF StoreInv, AnswersKnown
<1>6. StoreInv'
  BY <1>2, <1>3, <1>4, <1>5, NoRows, AnswerChanges DEF Live
<1> QED
  BY <1>2, <1>6, NoPlace

\* An answer is retired when nothing of it is open.
LEMMA AnswerRetired ==
  ASSUME TypeOK, StoreInv, Placed, at \in Acting, ConsumeCall(call), UNCHANGED <<rows, starts>>,
         calls[call].action # "tools" \/ at = "consume"
  PROVE  StoreInv'
<1>1. call \in Calls /\ Live(call)
  BY Types DEF Placed, Answered
<1>2. /\ OnlyAnswer(call) /\ calls'[call].consumed = TRUE
      /\ calls'[call].state = calls[call].state /\ calls'[call].phase = calls[call].phase
      /\ calls'[call].source = calls[call].source /\ calls'[call].action = calls[call].action
      /\ calls'[call].size = calls[call].size
  BY <1>1, AnswerConsumed
<1>3. \A i \in Tools : ~Unresolved(<<call, i>>)
  BY <1>1, NoRows DEF Placed, AtTool
<1>4. calls[call].action = "none" <=> calls[call].phase = "source_reconciliation"
  BY <1>1 DEF StoreInv, AnswersKnown, Live
<1> QED
  BY <1>1, <1>2, <1>3, <1>4, AnswerChanges DEF Live

LEMMA RetireSteps ==
  ASSUME TypeOK, StoreInv, Placed, ApplyPlan \/ RejectAnswer \/ ConsumeBatch \/ Complete
  PROVE  StoreInv' /\ Placed'
<1>1. /\ ConsumeCall(call) /\ UNCHANGED <<rows, starts>> /\ at' \in {"turn", "none"}
      /\ at \in {"apply", "finish", "consume", "commit"}
  BY DEF ApplyPlan, RejectAnswer, ConsumeBatch, Complete, Goto, EndRun, historyVars
<1>2. at \in Acting /\ (calls[call].action # "tools" \/ at = "consume")
  BY <1>1 DEF Placed, Answered, Acting, Batch, Finishing
<1> QED
  BY <1>1, <1>2, AnswerRetired, NoPlace

LEMMA ReviewedStep ==
  ASSUME TypeOK, StoreInv, Placed, Reviewed
  PROVE  StoreInv' /\ Placed'
<1>1. at = "review" /\ UNCHANGED <<rows, starts, source, pending, call, tool>>
  BY DEF Reviewed, historyVars
<1>2. at \in Acting /\ calls[call].action = "complete"
  BY <1>1 DEF Placed, Answered, Acting, Finishing
<1>3. CASE Goto("commit") /\ UNCHANGED calls
  <2>1. at' = "commit" /\ seen' = seen
    BY <1>3 DEF Goto
  <2>2. Live(call)' /\ calls'[call'].source = seen' /\ calls'[call'].action = "complete"
    BY <1>1, <1>2, <1>3, <2>1 DEF Placed, Answered, Live
  <2>3. source' = seen' => ~pending'
    BY <1>1, <2>1 DEF Placed, Answered, Acting, Finishing
  <2>4. \A op \in Operations : ~Unresolved(op)'
    BY <1>1 DEF Placed, AtTool, Unresolved, Doubtful
  <2> QED
    BY <1>1, <1>3, <2>1, <2>2, <2>3, <2>4, StoreKept
    DEF Placed, Asked, Answered, AtTool, Acting, Batch, Finishing
<1>4. CASE Goto("turn") /\ ConsumeCall(call)
  BY <1>1, <1>2, <1>4, AnswerRetired, NoPlace DEF Goto
<1>5. CASE EndRun("held") /\ UNCHANGED calls
  BY <1>1, <1>5, StoreKept, NoPlace DEF EndRun
<1> QED
  BY <1>3, <1>4, <1>5 DEF Reviewed

LEMMA DecideStep ==
  ASSUME TypeOK, StoreInv, Placed, Decide
  PROVE  StoreInv' /\ Placed'
<1>1. at = "decide" /\ source = seen /\ UNCHANGED <<rows, starts, source, pending>>
  BY DEF Decide, Current, historyVars
<1>2. /\ call \in Calls /\ Live(call) /\ calls[call].source = seen
      /\ at \in Acting /\ ~pending
  BY <1>1, Types DEF Placed, Answered, Acting
<1>3. CASE ConsumeCall(call) /\ EndRun("held") /\ calls[call].action = "blocked"
  BY <1>1, <1>2, <1>3, AnswerRetired, NoPlace DEF EndRun
<1>4. CASE /\ UNCHANGED <<calls, call>> /\ seen' = seen
           /\ calls[call].action = "tools" /\ at' = "act" /\ tool' = <<call, 1>>
  <2>1. /\ Live(call)' /\ calls'[call'].source = seen' /\ calls'[call'].action = "tools"
        /\ ~pending'
    BY <1>1, <1>2, <1>4 DEF Live
  <2>2. calls[call].size \in Tools
    BY <1>2, Types DEF Answers
  <2>3. /\ tool'[1] = call' /\ tool'[2] <= calls'[call'].size
        /\ \A i \in Tools : ~(i < tool'[2])
    BY <1>4, <2>2, BoundsAssumption DEF Tools
  <2> QED
    BY <1>1, <1>4, <2>1, <2>3, StoreKept
    DEF Placed, Asked, Answered, AtTool, Acting, Batch, Finishing
<1>5. CASE /\ UNCHANGED <<calls, call, tool>> /\ seen' = seen
           /\ calls[call].action = "complete" /\ at' = "finish"
  <2>1. /\ Live(call)' /\ calls'[call'].source = seen' /\ calls'[call'].action = "complete"
        /\ ~pending'
    BY <1>1, <1>2, <1>5 DEF Live
  <2> QED
    BY <1>1, <1>5, <2>1, StoreKept
    DEF Placed, Asked, Answered, AtTool, Acting, Batch, Finishing
<1> QED
  BY <1>3, <1>4, <1>5 DEF Decide, Goto

\* A run goes on with its tool.
Working ==
  /\ at \in Batch \ {"consume"} /\ at' \in Batch \ {"consume"}
  /\ UNCHANGED <<calls, call, tool, seen, source, pending>>

LEMMA SameTool ==
  ASSUME TypeOK, Placed, Working,
         \A p \in Operations \ {tool} : rows'[p] = rows[p],
         at' = "start" => rows'[tool].state = "proposed",
         at' = "executing" => rows'[tool].state = "executing",
         at' = "after" => rows'[tool].state = "recorded"
  PROVE  Placed'
<1>1. Live(call)' /\ calls'[call'].source = seen' /\ calls'[call'].action = "tools"
  BY DEF Working, Placed, Answered, AtTool, Acting, Batch, Live
<1>2. source' = seen' => ~pending'
  BY DEF Working, Placed, Answered, Acting, Batch
<1>3. /\ tool'[1] = call' /\ tool'[2] <= calls'[call'].size
      /\ \A i \in Tools : i < tool[2] => Succeeded(<<call, i>>)
  BY DEF Working, Placed, AtTool
<1>4. ASSUME NEW i \in Tools, i < tool'[2] PROVE Succeeded(<<call, i>>)'
  <2>0. call \in Calls
    BY Types
  <2>1. <<call, i>> \in Operations /\ i \in Nat
    BY <2>0, BoundsAssumption DEF Operations, Tools
  <2>2. i < tool[2] /\ call' = call
    BY <1>4 DEF Working
  <2>3. <<call, i>> # tool
    BY <2>1, <2>2
  <2>4. rows'[<<call', i>>] = rows[<<call, i>>]
    BY <2>1, <2>2, <2>3
  <2> QED
    BY <1>3, <2>2, <2>4 DEF Succeeded
<1>8. /\ at' = "start" => rows'[tool'].state = "proposed"
      /\ at' = "executing" => rows'[tool'].state = "executing"
      /\ at' = "after" => rows'[tool'].state = "recorded"
  BY DEF Working
<1>5. at' \in Batch \ {"consume"} /\ tool' = tool
  BY DEF Working
<1>6. Asked' /\ Answered'
  BY <1>1, <1>2, <1>5 DEF Asked, Answered, Acting, Batch, Finishing
<1>7. AtTool'
  BY <1>1, <1>3, <1>4, <1>5, <1>8 DEF AtTool, Batch
<1> QED
  BY <1>6, <1>7 DEF Placed

\* What is known of the tool it works on.
LEMMA ToolFacts ==
  ASSUME TypeOK, Placed, at \in Batch
  PROVE  /\ tool \in Operations /\ call \in Calls /\ tool[1] = call /\ tool = <<call, tool[2]>>
         /\ tool[2] \in Tools /\ calls[call].state = "responded" /\ calls[call].action = "tools"
         /\ ~calls[call].consumed /\ tool[2] <= calls[call].size
         /\ \A i \in Tools : i < tool[2] => Succeeded(<<call, i>>)
BY Types, PieceTypes DEF Placed, Answered, AtTool, Acting, Live

LEMMA FoundSteps ==
  ASSUME TypeOK, StoreInv, Placed, Remembered \/ FindProposed
  PROVE  StoreInv' /\ Placed'
<1>1. /\ UNCHANGED <<calls, rows, starts>> /\ Working
      /\ \/ at' = "start" /\ rows[tool].state = "proposed"
         \/ at' = "after" /\ rows[tool].state = "recorded"
  BY DEF Remembered, FindProposed, Goto, historyVars, Working, Batch
<1> QED
  BY <1>1, StoreKept, SameTool

LEMMA NewRowSteps ==
  ASSUME TypeOK, StoreInv, Placed, RefuseAdmission \/ SaveOperation
  PROVE  StoreInv' /\ Placed'
<1> DEFINE refused == [state |-> "recorded", outcome |-> "failed", source |-> source]
           saved == [state |-> "proposed", outcome |-> "missing", source |-> source]
<1>1. /\ UNCHANGED <<calls, starts>> /\ Working /\ rows[tool].state = "absent" /\ at = "act"
      /\ \/ at' = "start" /\ rows' = [rows EXCEPT ![tool] = saved]
         \/ at' = "after" /\ rows' = [rows EXCEPT ![tool] = refused]
  BY DEF RefuseAdmission, SaveOperation, Goto, historyVars, Working, Batch
<1>2. refused \in Rows /\ saved \in Rows
  <2>1. source \in 0..Instructions
    <3>1. source \in 1..Instructions
      BY Types
    <3> QED
      BY <3>1, InstructionsNumber
  <2> QED
    BY <2>1 DEF Rows, RowStates, Outcomes
<1>3. /\ refused.state = "recorded" /\ refused.outcome = "failed"
      /\ saved.state = "proposed"
  OBVIOUS
<1> HIDE DEF refused, saved
<1>4. at \in Batch
  BY <1>1 DEF Batch
<1>5. tool \in Operations
  BY <1>4, ToolFacts
<1>6. /\ OnlyRow(tool) /\ rows'[tool] \in {refused, saved}
      /\ at' = "start" => rows'[tool] = saved
      /\ at' = "after" => rows'[tool] = refused
  BY <1>1, <1>2, <1>5, RowReplaced
<1>7. starts[tool] = 0 /\ ~Succeeded(tool)
  BY <1>1, <1>5 DEF StoreInv, RowKnown, Succeeded
<1>8. \/ rows'[tool].state = "recorded" /\ rows'[tool].outcome = "failed"
      \/ rows'[tool].state = "proposed"
  BY <1>3, <1>6
<1>9. StoreInv'
  BY <1>1, <1>4, <1>5, <1>6, <1>7, <1>8, ToolFacts, RowChanges DEF InDoubt
<1>10. Placed'
  BY <1>1, <1>3, <1>6, SameTool DEF OnlyRow
<1> QED
  BY <1>9, <1>10

LEMMA StartStep ==
  ASSUME TypeOK, StoreInv, Placed, StartOperation
  PROVE  StoreInv' /\ Placed'
<1>1. /\ UNCHANGED calls /\ Working /\ at = "start" /\ at' = "executing" /\ NoneInDoubt
      /\ rows' = [rows EXCEPT ![tool].state = "executing"]
      /\ starts' = [starts EXCEPT ![tool] = @ + 1]
  BY DEF StartOperation, Goto, Working, Batch
<1>2. at \in Batch /\ tool \in Operations /\ rows[tool].state = "proposed"
  BY <1>1, ToolFacts DEF Batch, Placed, AtTool
<1>3. OnlyRow(tool) /\ rows'[tool].state = "executing"
  BY <1>1, <1>2, RowStarted
<1>4. starts[tool] = 0 /\ ~Succeeded(tool)
  BY <1>2 DEF StoreInv, RowKnown, Succeeded
<1>5. starts'[tool] = 1 /\ \A p \in Operations \ {tool} : starts'[p] = starts[p]
  <2>1. starts \in [Operations -> Nat]
    BY Types
  <2> QED
    BY <1>1, <1>2, <1>4, <2>1
<1>6. \A p \in Operations \ {tool} : ~InDoubt(p)
  BY <1>1 DEF NoneInDoubt, Doubtful, InDoubt
<1>7. StoreInv'
  BY <1>1, <1>2, <1>3, <1>4, <1>5, <1>6, ToolFacts, RowChanges
<1>8. Placed'
  BY <1>1, <1>3, SameTool DEF OnlyRow
<1> QED
  BY <1>7, <1>8

\* The result of an operation in doubt is recorded.
LEMMA RecordKept ==
  ASSUME TypeOK, StoreInv, UNCHANGED <<calls, starts>>, Doubtful(tool), NEW outcome \in Outcomes,
         rows' = [rows EXCEPT ![tool].state = "recorded", ![tool].outcome = outcome]
  PROVE  StoreInv' /\ OnlyRow(tool) /\ rows'[tool].state = "recorded"
<1>1. tool \in Operations /\ tool[1] \in Calls
  BY Types, PieceTypes
<1>2. OnlyRow(tool) /\ rows'[tool].state = "recorded"
  BY <1>1, RowRecorded
<1>3. RowKnown(tool) /\ ~Succeeded(tool) /\ rows[tool].state # "absent" /\ Unresolved(tool)
  BY <1>1 DEF StoreInv, Doubtful, Unresolved, Succeeded
<1>4. ~calls[tool[1]].consumed
  BY <1>3 DEF RowKnown
<1>5. \A p \in Operations \ {tool} : ~InDoubt(p)
  BY <1>1 DEF StoreInv, OneInDoubt, InDoubt, Doubtful
<1> QED
  BY <1>1, <1>2, <1>3, <1>4, <1>5, RowChanges DEF RowKnown

LEMMA RecoveredStep ==
  ASSUME TypeOK, StoreInv, Placed, Recovered
  PROVE  StoreInv' /\ Placed'
<1>1. PICK outcome \in Outcomes :
        rows' = [rows EXCEPT ![tool].state = "recorded", ![tool].outcome = outcome]
  BY DEF Recovered, Outcomes
<1>2. UNCHANGED <<calls, starts>> /\ at = "recover" /\ at' \in {"none", "recovering"}
  BY DEF Recovered, EndRun, Goto, historyVars
<1> QED
  BY <1>1, <1>2, RecordKept, NoPlace DEF Placed, AtTool

LEMMA ExecutorSteps ==
  ASSUME TypeOK, StoreInv, Placed, ExecutorRefuses \/ ExecutorReturns
  PROVE  StoreInv' /\ Placed'
<1>1. PICK outcome \in Outcomes :
        rows' = [rows EXCEPT ![tool].state = "recorded", ![tool].outcome = outcome]
  BY DEF ExecutorRefuses, ExecutorReturns, Outcomes
<1>2. /\ UNCHANGED <<calls, starts>> /\ at = "executing"
      /\ at' = "none" \/ (at' = "after" /\ Working)
  BY DEF ExecutorRefuses, ExecutorReturns, Interrupted, EndRun, Goto, historyVars, Working, Batch
<1>3. Doubtful(tool)
  BY <1>2 DEF Placed, AtTool, Doubtful
<1>4. StoreInv' /\ OnlyRow(tool) /\ rows'[tool].state = "recorded"
  BY <1>1, <1>2, <1>3, RecordKept
<1> QED
  BY <1>2, <1>4, NoPlace, SameTool DEF OnlyRow

\* The next tool comes after a success; a batch is over when each of its tools
\* is settled or was never saved.
LEMMA AfterToolStep ==
  ASSUME TypeOK, StoreInv, Placed, AfterTool
  PROVE  StoreInv' /\ Placed'
<1>1. UNCHANGED <<calls, rows, starts, source, pending>> /\ at = "after"
  BY DEF AfterTool, historyVars
<1>2. StoreInv' /\ at \in Batch
  BY <1>1, StoreKept DEF Batch
<1>3. /\ Live(call) /\ calls[call].source = seen /\ (source = seen => ~pending)
      /\ rows[tool].state = "recorded"
  BY <1>1 DEF Placed, Answered, AtTool, Acting, Batch
<1>4. CASE EndRun("held")
  BY <1>2, <1>4, NoPlace DEF EndRun
<1>5. CASE /\ rows[tool].outcome = "succeeded" /\ tool[2] < calls[call].size
           /\ Goto("act") /\ tool' = <<call, tool[2] + 1>> /\ UNCHANGED call
  <2>1. Live(call)' /\ calls'[call'].source = seen' /\ calls'[call'].action = "tools"
    BY <1>1, <1>2, <1>3, <1>5, ToolFacts DEF Live, Goto
  <2>2. calls[call].size \in Nat /\ tool[2] \in Nat
    <3>1. calls[call] \in Answers
      BY Types
    <3>2. calls[call].size \in Tools /\ tool[2] \in Tools
      BY <1>2, <3>1, ToolFacts DEF Answers
    <3> QED
      BY <3>2, BoundsAssumption DEF Tools
  <2>3. tool'[1] = call' /\ tool'[2] = tool[2] + 1 /\ tool'[2] <= calls'[call'].size
    BY <1>1, <1>5, <2>2
  <2>4. ASSUME NEW i \in Tools, i < tool'[2] PROVE Succeeded(<<call, i>>)'
    <3>1. i \in Nat
      BY BoundsAssumption DEF Tools
    <3>2. i < tool[2] \/ i = tool[2]
      BY <2>2, <2>3, <2>4, <3>1
    <3>3. Succeeded(<<call, i>>)
      BY <1>2, <1>3, <1>5, <3>2, ToolFacts DEF Succeeded
    <3> QED
      BY <1>1, <1>5, <3>3 DEF Succeeded
  <2>5. at' = "act" /\ seen' = seen
    BY <1>5 DEF Goto
  <2>6. Asked' /\ Answered'
    BY <1>1, <1>3, <2>1, <2>5 DEF Asked, Answered, Acting, Batch, Finishing
  <2>7. AtTool'
    BY <2>1, <2>3, <2>4, <2>5 DEF AtTool, Batch
  <2> QED
    BY <1>2, <2>6, <2>7 DEF Placed
<1>6. CASE /\ \/ rows[tool].outcome = "failed"
              \/ rows[tool].outcome = "succeeded" /\ tool[2] = calls[call].size
           /\ Goto("consume") /\ UNCHANGED <<call, tool>>
  <2>1. Live(call)' /\ calls'[call'].source = seen' /\ calls'[call'].action = "tools"
    BY <1>1, <1>2, <1>3, <1>6, ToolFacts DEF Live, Goto
  <2>2. \A i \in Tools : i < tool[2] => Succeeded(<<call, i>>)
    BY <1>2, ToolFacts
  <2>3. ASSUME NEW i \in Tools PROVE ~Unresolved(<<call, i>>)
    <3>0. i \in Nat /\ tool[2] \in Nat /\ tool = <<call, tool[2]>> /\ tool[2] \in Tools
      BY <1>2, ToolFacts, BoundsAssumption DEF Tools
    <3>1. CASE i < tool[2]
      BY <2>2, <3>1 DEF Succeeded, Unresolved, Doubtful
    <3>2. CASE i = tool[2]
      BY <1>3, <1>6, <3>0, <3>2 DEF Unresolved, Doubtful
    <3>3. CASE tool[2] < i
      <4>1. call \in Calls /\ <<call, i>> \in Operations
        BY <1>2, ToolFacts DEF Operations
      <4>2. RowKnown(<<call, i>>)
        BY <4>1 DEF StoreInv
      <4>3. calls[call].size \in Nat
        <5>1. calls[call] \in Answers
          BY <4>1, Types
        <5> QED
          BY <5>1, BoundsAssumption DEF Answers, Tools
      <4>4. rows[<<call, i>>].state # "absent" => i <= calls[call].size /\ Succeeded(tool)
        BY <3>0, <3>3, <4>2 DEF RowKnown
      <4>5. rows[<<call, i>>].state = "absent"
        BY <1>6, <3>0, <3>3, <4>3, <4>4 DEF Succeeded
      <4> QED
        BY <4>5 DEF Unresolved, Doubtful
    <3> QED
      BY <3>0, <3>1, <3>2, <3>3
  <2>4. /\ tool'[1] = call' /\ tool'[2] <= calls'[call'].size
        /\ \A i \in Tools : i < tool'[2] => Succeeded(<<call, i>>)'
    BY <1>1, <1>2, <1>6, <2>2, ToolFacts DEF Succeeded
  <2>5. \A i \in Tools : ~Unresolved(<<call, i>>)'
    BY <1>1, <1>6, <2>3 DEF Unresolved, Doubtful
  <2>6. at' = "consume" /\ seen' = seen
    BY <1>6 DEF Goto
  <2>7. Asked' /\ Answered'
    BY <1>1, <1>3, <2>1, <2>6 DEF Asked, Answered, Acting, Batch, Finishing
  <2>8. AtTool'
    BY <2>1, <2>4, <2>5, <2>6 DEF AtTool, Batch
  <2> QED
    BY <1>2, <2>7, <2>8 DEF Placed
<1> QED
  BY <1>4, <1>5, <1>6 DEF AfterTool

LEMMA AcceptStep ==
  ASSUME TypeOK, StoreInv, Placed, AcceptCandidate
  PROVE  StoreInv' /\ Placed'
<1>1. /\ UNCHANGED <<calls, rows, starts, source, pending, seen, call, tool>> /\ at = "finish"
      /\ at' \in {"commit", "review"} /\ \A op \in Operations : ~Unresolved(op)
  BY DEF AcceptCandidate, Goto, historyVars
<1>2. /\ Live(call)' /\ calls'[call'].source = seen' /\ calls'[call'].action = "complete"
      /\ source' = seen' => ~pending'
  BY <1>1 DEF Placed, Answered, Acting, Finishing, Live
<1>3. \A op \in Operations : ~Unresolved(op)'
  BY <1>1 DEF Unresolved, Doubtful
<1>4. Asked' /\ Answered'
  BY <1>1, <1>2 DEF Asked, Answered, Acting, Batch, Finishing
<1>5. AtTool'
  BY <1>1, <1>3 DEF AtTool, Batch
<1> QED
  BY <1>1, <1>4, <1>5, StoreKept DEF Placed

\* So a run keeps what is known of the Store and of its place,
LEMMA RunKnows ==
  ASSUME TypeOK, StoreInv, Placed, RunStep
  PROVE  StoreInv' /\ Placed'
<1>1. CASE \/ CancelledEarly \/ Begin \/ AwaitInterrupted \/ LoseCurrent
           \/ HoldForCapacity \/ HoldBeforeSave \/ HoldBeforeStart \/ HoldUnresolved
  BY <1>1, IdleSteps
<1>2. CASE RecoverNext \/ Recovered \/ UseSaved \/ BuyCall
  BY <1>2, RecoverNextStep, RecoveredStep, UseSavedStep, BuyCallStep
<1>3. CASE ModelResponds \/ ModelFails \/ ModelInterrupted
  BY <1>3, ModelRespondsStep, ModelLostStep
<1>4. CASE ApplyPlan \/ RejectAnswer \/ ConsumeBatch \/ Complete \/ Reviewed \/ Decide
  BY <1>4, RetireSteps, ReviewedStep, DecideStep
<1>5. CASE Remembered \/ FindProposed \/ RefuseAdmission \/ SaveOperation \/ StartOperation
  BY <1>5, FoundSteps, NewRowSteps, StartStep
<1>6. CASE ExecutorRefuses \/ ExecutorReturns \/ AfterTool \/ AcceptCandidate
  BY <1>6, ExecutorSteps, AfterToolStep, AcceptStep
<1>7. CASE ExecutorAbsorbs
  <2>1. UNCHANGED <<calls, rows, starts, source, pending, at, seen, call, tool>>
    BY <1>7 DEF ExecutorAbsorbs, storeVars, historyVars
  <2> QED
    BY <2>1, StoreKept, SamePlace
<1> QED
  BY <1>1, <1>2, <1>3, <1>4, <1>5, <1>6, <1>7 DEF RunStep

\* and so does a command.
LEMMA CommandKnows ==
  ASSUME TypeOK, SourcesCounted, RunKnown, StoreInv, Placed,
         Resume \/ Stop \/ Message \/ WakeStop \/ WakeMessage \/ Crash
  PROVE  StoreInv' /\ Placed'
<1>1. CASE Resume
  <2>1. UNCHANGED <<calls, rows, starts>> /\ at' = "ready"
    BY <1>1 DEF Resume, StartTask, storeVars
  <2> QED
    BY <2>1, StoreKept, NoPlace
<1>2. CASE Stop \/ WakeStop
  <2>1. UNCHANGED <<calls, rows, starts, source, pending, at, seen, call, tool>>
    BY <1>2 DEF Stop, WakeStop, runVars, historyVars
  <2> QED
    BY <2>1, StoreKept, SamePlace
<1>3. CASE Message
  <2>1. CASE at = "none"
    <3>1. Supersede /\ UNCHANGED <<calls, starts>> /\ at' = "ready"
      BY <1>3, <2>1 DEF Message, Restart, StartTask
    <3> QED
      BY <3>1, SupersedeKept, NoPlace
  <2>2. CASE at # "none"
    <3>1. UNCHANGED <<calls, rows, starts, at, seen, call, tool>> /\ source' = source + 1
      BY <1>3, <2>2 DEF Message
    <3>2. source \in 1..Instructions /\ seen \in 0..Instructions
      BY Types
    <3>3. source' # seen
      BY <3>1, <3>2, InstructionsNumber DEF SourcesCounted
    <3> QED
      BY <3>1, <3>3, StoreKept, SamePlace
  <2> QED
    BY <2>1, <2>2
<1>4. CASE WakeMessage
  <2>1. /\ Supersede /\ UNCHANGED <<calls, starts>>
        /\ at' = IF at = "none" THEN "ready" ELSE at
        /\ UNCHANGED <<source, pending, seen, call, tool>> /\ at \in Awaiting
    BY <1>4 DEF WakeMessage, Restart, StartTask, historyVars
  <2>2. CASE at' = "ready"
    BY <2>1, <2>2, SupersedeKept, NoPlace
  <2>3. CASE at' # "ready"
    <3>1. at' = at /\ at \notin {"none", "start"}
      BY <2>1, <2>3 DEF Awaiting
    <3> QED
      BY <2>1, <3>1, SupersedeKept, SupersededPlace
  <2> QED
    BY <2>2, <2>3
<1>5. CASE Crash
  <2>1. UNCHANGED <<calls, rows, starts>> /\ at' = "none"
    BY <1>5 DEF Crash, historyVars
  <2> QED
    BY <2>1, StoreKept, NoPlace
<1> QED
  BY <1>1, <1>2, <1>3, <1>4, <1>5

\* A task is completed for what it has, and stays so until more is asked.
LEMMA CompletionStays ==
  ASSUME TypeOK, RunKnown, Placed, CompletionSound, Next
  PROVE  CompletionSound'
<1>1. CASE status' # "completed"
  BY <1>1 DEF CompletionSound
<1>2. CASE /\ status' = "completed" /\ status = "completed"
           /\ UNCHANGED <<final, source, pending, rows>>
  BY <1>2 DEF CompletionSound, Unresolved, Doubtful
<1>3. CASE RunStep /\ status' = "completed"
  <2>1. Complete
    BY <1>3, RunMoves DEF Ends, GoesOn, EndRun
  <2>2. /\ at = "commit" /\ source = seen /\ final' = seen
        /\ UNCHANGED <<source, pending, rows>>
    BY <2>1 DEF Complete, Current
  <2>3. ~pending /\ \A op \in Operations : ~Unresolved(op)
    BY <2>2 DEF Placed, Answered, AtTool, Acting, Finishing
  <2>4. \A op \in Operations : ~Unresolved(op)'
    BY <2>2, <2>3 DEF Unresolved, Doubtful
  <2> QED
    BY <2>2, <2>3, <2>4 DEF CompletionSound
<1>4. CASE Resume \/ Message \/ WakeMessage
  <2>1. status' # "completed"
    BY <1>4 DEF Resume, storeVars, Message, WakeMessage, Restart
  <2> QED
    BY <1>1, <2>1
<1>5. CASE Stop \/ WakeStop \/ Crash
  <2>1. /\ UNCHANGED <<final, source, pending, rows>>
        /\ status' = "completed" => status = "completed"
    BY <1>5 DEF Stop, WakeStop, StopStatus, Crash
  <2> QED
    BY <1>1, <1>2, <2>1
<1> QED
  BY <1>1, <1>3, <1>4, <1>5 DEF Next

-------------------------------------------------------------------------------
(***************************************************************************)
(* The task.                                                               *)
(***************************************************************************)
\* The parts of the invariant, by the lemma that keeps them.
LEMMA TaskParts ==
  TaskInv <=> /\ TypeOK /\ SourcesCounted /\ StoreInv /\ Placed /\ CompletionSound
              /\ RunKnown /\ StopKept
BY DEF TaskInv, StoreInv, Placed

LEMMA TaskInit == Init => TaskInv
<1> SUFFICES ASSUME Init PROVE TaskInv
  OBVIOUS
<1>1. TypeOK /\ SourcesCounted
  BY TypeInit, CountInit
<1>2. \A c \in Calls : calls[c] = NoCall
  BY DEF Init
<1>3. \A op \in Operations : rows[op] = NoRow /\ starts[op] = 0 /\ calls[op[1]] = NoCall
  BY PieceTypes DEF Init
<1>4. AnswersKnown
  BY <1>2 DEF AnswersKnown, NoCall, Live
<1>5. \A op \in Operations : RowKnown(op)
  BY <1>3 DEF RowKnown, NoRow, NoCall
<1>6. OneInDoubt
  BY <1>3 DEF OneInDoubt, InDoubt, NoRow
<1>7. at = "none" /\ status = "created" /\ command = "go"
  BY DEF Init
<1>8. Asked /\ Answered /\ AtTool
  BY <1>7 DEF Asked, Answered, AtTool, Acting, Batch, Finishing
<1>9. CompletionSound /\ RunKnown /\ StopKept
  BY <1>7 DEF CompletionSound, RunKnown, StopKept
<1> QED
  BY <1>1, <1>4, <1>5, <1>6, <1>8, <1>9 DEF TaskInv

LEMMA TaskStep ==
  ASSUME TaskInv, [Next]_vars
  PROVE  TaskInv'
<1>0. /\ TypeOK /\ SourcesCounted /\ StoreInv /\ Placed /\ CompletionSound /\ RunKnown /\ StopKept
  BY TaskParts
<1>1. TypeOK' /\ SourcesCounted'
  BY <1>0, TypeStep, CountStep
<1>2. RunStep => StoreInv' /\ Placed' /\ RunKnown' /\ StopKept'
  BY <1>0, RunKnows, RunStays
<1>3. Resume \/ Stop \/ Message \/ WakeStop \/ WakeMessage \/ Crash =>
        StoreInv' /\ Placed' /\ RunKnown' /\ StopKept'
  BY <1>0, CommandKnows, CommandStays
<1>4. CASE UNCHANGED vars
  <2>1. /\ UNCHANGED <<calls, rows, starts, at, seen, call, tool, source, pending>>
        /\ UNCHANGED <<status, final, woken, waiting, stopRequested, command>>
    BY <1>4 DEF vars, storeVars, runVars, requestVars, historyVars
  <2>2. StoreInv' /\ Placed'
    BY <1>0, <2>1, StoreKept, SamePlace
  <2>3. CompletionSound'
    BY <1>0, <2>1 DEF CompletionSound, Unresolved, Doubtful
  <2>4. RunKnown' /\ StopKept'
    BY <1>0, <2>1 DEF RunKnown, StopKept, InFlight
  <2> QED
    BY <1>1, <2>2, <2>3, <2>4 DEF TaskInv, StoreInv, Placed
<1>5. Next => CompletionSound'
  BY <1>0, CompletionStays
<1>6. TaskInv' <=> /\ TypeOK' /\ SourcesCounted' /\ StoreInv' /\ Placed' /\ CompletionSound'
                   /\ RunKnown' /\ StopKept'
  BY DEF TaskInv, StoreInv, Placed
<1>7. CASE RunStep \/ Resume \/ Stop \/ Message \/ WakeStop \/ WakeMessage \/ Crash
  BY <1>1, <1>2, <1>3, <1>5, <1>6, <1>7 DEF Next
<1> QED
  BY <1>4, <1>7 DEF Next

\* The answers, rows and position of a task are at all times as its run needs them.
THEOREM TaskInvariant == Spec => []TaskInv
BY TaskInit, TaskStep, PTL DEF Spec

\* A saved answer can be replayed after any stop, hold or crash: an operation of
\* it starts once, in order and one at a time, and it is retired when all are settled.
THEOREM ReplayIsSound == Spec => []ReplaySound
<1>1. TaskInv => ReplaySound
  <2> SUFFICES ASSUME TaskInv PROVE ReplaySound
    OBVIOUS
  <2>1. TypeOK /\ StoreInv
    BY TaskParts
  <2>2. StartedOnce /\ ConsumedIsSettled
    BY <2>1 DEF StoreInv, RowKnown, StartedOnce, ConsumedIsSettled
  <2>3. OneInDoubt
    BY <2>1 DEF StoreInv
  <2>4. OneLiveAnswer
    BY <2>1 DEF StoreInv, AnswersKnown, Live, OneLiveAnswer
  <2>5. ASSUME NEW c \in Calls, NEW i \in Tools, i > 1, rows[<<c, i>>].state # "absent"
        PROVE  Succeeded(<<c, i - 1>>)
    <3>1. i - 1 \in Tools /\ i - 1 < i
      BY <2>5, BoundsAssumption DEF Tools
    <3>2. <<c, i>> \in Operations
      BY DEF Operations
    <3>3. RowKnown(<<c, i>>)
      BY <2>1, <3>2 DEF StoreInv
    <3> QED
      BY <2>5, <3>1, <3>3 DEF RowKnown
  <2>6. BatchOrder
    BY <2>5 DEF BatchOrder, Succeeded
  <2> QED
    BY <2>2, <2>3, <2>4, <2>6 DEF ReplaySound
<1> QED
  BY <1>1, TaskInvariant, PTL

\* A completed task was completed for the instructions it has now, with none
\* unread and no operation unresolved.
THEOREM CompletionIsSound == Spec => []CompletionSound
<1>1. TaskInv => CompletionSound
  BY DEF TaskInv
<1> QED
  BY <1>1, TaskInvariant, PTL

\* 'running' is shown only with a run under way, and a run under way never looks
\* held, completed or to be recovered, though it may look stopped.
THEOREM StatusIsTrue == Spec => []StatusTellsTruth
<1>1. TaskInv => StatusTellsTruth
  BY DEF TaskInv, RunKnown, StatusTellsTruth
<1> QED
  BY <1>1, TaskInvariant, PTL

\* Only StartOperation hands an operation to the Executor.
LEMMA OnlyOneStarts ==
  ASSUME Next, starts' # starts
  PROVE  StartOperation
<1> USE DEF historyVars
<1>1. CASE CancelledEarly \/ Begin \/ RecoverNext \/ Recovered \/ UseSaved \/ BuyCall
           \/ HoldForCapacity
  BY <1>1 DEF CancelledEarly, Begin, RecoverNext, Recovered, UseSaved, BuyCall, HoldForCapacity
<1>2. CASE ModelResponds \/ ModelFails \/ ModelInterrupted \/ AwaitInterrupted \/ ApplyPlan
  BY <1>2 DEF ModelResponds, ModelFails, ModelInterrupted, AwaitInterrupted, ApplyPlan
<1>3. CASE RejectAnswer \/ Decide \/ LoseCurrent \/ Remembered \/ HoldBeforeSave
  BY <1>3 DEF RejectAnswer, Decide, LoseCurrent, Remembered, HoldBeforeSave
<1>4. CASE RefuseAdmission \/ SaveOperation \/ FindProposed \/ HoldBeforeStart
  BY <1>4 DEF RefuseAdmission, SaveOperation, FindProposed, HoldBeforeStart
<1>5. CASE ExecutorRefuses \/ ExecutorReturns \/ ExecutorAbsorbs \/ AfterTool \/ ConsumeBatch
  BY <1>5 DEF ExecutorRefuses, ExecutorReturns, ExecutorAbsorbs, AfterTool, ConsumeBatch
<1>6. CASE HoldUnresolved \/ AcceptCandidate \/ Reviewed \/ Complete
  BY <1>6 DEF HoldUnresolved, AcceptCandidate, Reviewed, Complete
<1>7. CASE Resume \/ Stop \/ Message \/ WakeStop \/ WakeMessage \/ Crash
  BY <1>7 DEF Resume, Stop, Message, WakeStop, WakeMessage, Crash
<1> QED
  BY <1>1, <1>2, <1>3, <1>4, <1>5, <1>6, <1>7 DEF Next, RunStep

\* An operation starts only for the instructions in force, all of them read, and
\* not after a stop, unless the stop came while an instruction was delivered.
THEOREM StartsAreAsTold == Spec => StartsAsTold
<1> DEFINE Fresh == \A op \in Operations : starts'[op] # starts[op] =>
                      /\ calls[op[1]].source = source
                      /\ rows[op].source = source
                      /\ ~pending
           Wanted == \A op \in Operations : starts'[op] # starts[op] => command # "stop"
<1>1. ASSUME TaskInv, [Next]_vars PROVE [Fresh]_starts /\ [Wanted]_starts
  <2>1. CASE starts' = starts
    BY <2>1
  <2>2. CASE starts' # starts
    <3>1. StartOperation
      BY <1>1, <2>2, OnlyOneStarts DEF vars, historyVars
    <3>2. /\ at = "start" /\ ~stopRequested /\ source = seen /\ rows[tool].source = source
          /\ starts' = [starts EXCEPT ![tool] = @ + 1]
      BY <3>1 DEF StartOperation, Current
    <3>3. TypeOK /\ Placed /\ StopKept
      BY <1>1, TaskParts
    <3>4. calls[call].source = seen /\ ~pending /\ tool[1] = call
      BY <3>2, <3>3 DEF Placed, Answered, AtTool, Acting, Batch
    <3>5. command # "stop"
      BY <3>2, <3>3 DEF StopKept
    <3>6. starts \in [Operations -> Nat]
      BY <3>3, Types
    <3>7. \A op \in Operations : starts'[op] # starts[op] => op = tool
      BY <3>2, <3>6
    <3> QED
      BY <3>2, <3>4, <3>5, <3>7
  <2> QED
    BY <2>1, <2>2
<1>2. TaskInv /\ [Next]_vars => [Fresh]_starts
  BY <1>1
<1>3. TaskInv /\ [Next]_vars => [Wanted]_starts
  BY <1>1
<1>4. Spec => NoStaleStart
  BY <1>2, TaskInvariant, PTL DEF Spec, NoStaleStart
<1>5. Spec => StopHolds
  BY <1>3, TaskInvariant, PTL DEF Spec, StopHolds
<1> QED
  BY <1>4, <1>5 DEF StartsAsTold
===============================================================================
