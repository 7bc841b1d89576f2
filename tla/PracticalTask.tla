---------------------------- MODULE PracticalTask ----------------------------
(***************************************************************************)
(* One task of the PracticalEngine: run_task() turns model answers into    *)
(* tool operations, while the user stops, resumes and adds instructions    *)
(* and the controller may die.                                             *)
(*                                                                         *)
(* run_task() is one coroutine of an asyncio loop, so user commands are    *)
(* served only while it awaits (Awaiting); the labels outside Awaiting     *)
(* mark the points between two database writes, where only a crash fits.   *)
(* The Executor is represented by what module Executor shows of it: a      *)
(* target acts at most once, and a lost result is observed, not replayed.  *)
(***************************************************************************)
EXTENDS Naturals, Sequences, FiniteSets

CONSTANTS
  MaxCalls,     \* model calls the task may buy
  MaxTools,     \* tools in one answer
  Messages,     \* submission ids of later instructions
  MaxWaiting    \* stop and message requests that wait for a run's end at once

ASSUME BoundsAssumption ==
  /\ MaxCalls \in Nat \ {0}
  /\ MaxTools \in Nat \ {0}
  /\ MaxWaiting \in Nat \ {0}
  /\ IsFiniteSet(Messages)

VARIABLES
  status,        \* the task's status in the Store
  source,        \* number of sources received: stands for source_hash
  pending,       \* some source has status 'pending'
  final,         \* source the task was completed for, or 0
  calls,         \* calls[c]: practical_call record c
  rows,          \* rows[op]: the Store row of operation op
  delivered,     \* submission ids with a practical_message record
  at,            \* where run_task() is
  seen,          \* the source_hash of its task snapshot
  call,          \* the answer it works on
  tool,          \* position in that answer's tools, or the operation recovered
  cancelled,     \* handle.cancel() not yet delivered
  stopRequested, \* task id is in stop_requested
  waiting,       \* requests awaiting the run's end, oldest first
  woken,         \* requests whose wait is over, not yet resumed
  starts,        \* starts[op]: how often op was handed to the Executor (history)
  command        \* what the user asked for last (history)

storeVars == <<status, source, pending, final, calls, rows, delivered>>
runVars == <<at, seen, call, tool, cancelled>>
requestVars == <<stopRequested, waiting, woken>>
historyVars == <<starts, command>>
vars == <<storeVars, runVars, requestVars, historyVars>>

Calls == 1..MaxCalls
Tools == 1..MaxTools
Operations == Calls \X Tools

Statuses == {"created", "running", "stopped", "held", "awaiting_user",
             "recovery_required", "source_update_required", "completed"}
Labels == {"none", "ready", "recovering", "recover", "turn", "sources", "apply",
           "model", "decide", "act", "start", "executing", "after", "consume",
           "finish", "review", "commit"}
Awaiting == {"none", "ready", "recover", "sources", "model", "executing", "review"}

Outcomes == {"missing", "succeeded", "failed", "unknown"}
RowStates == {"absent", "proposed", "executing", "recorded", "superseded"}
CallStates == {"unused", "started", "responded", "interrupted", "failed"}
Actions == {"none", "tools", "complete", "blocked"}
Phases == {"source_reconciliation", "next_action"}

NoCall == [state |-> "unused", phase |-> "next_action", source |-> 0,
           action |-> "none", size |-> 1, consumed |-> FALSE]
NoRow == [state |-> "absent", outcome |-> "missing", source |-> 0]

Init ==
  /\ status = "created" /\ source = 1 /\ pending = FALSE /\ final = 0
  /\ calls = [c \in Calls |-> NoCall]
  /\ rows = [op \in Operations |-> NoRow]
  /\ delivered = {}
  /\ at = "none" /\ seen = 0 /\ call = 1 /\ tool = <<1, 1>>
  /\ cancelled = FALSE /\ stopRequested = FALSE
  /\ waiting = <<>> /\ woken = <<>>
  /\ starts = [op \in Operations |-> 0]
  /\ command = "go"

TypeOK ==
  /\ status \in Statuses
  /\ source \in 1..(1 + Cardinality(Messages))
  /\ pending \in BOOLEAN
  /\ final \in 0..(1 + Cardinality(Messages))
  /\ calls \in [Calls -> [state: CallStates, phase: Phases,
                          source: 0..(1 + Cardinality(Messages)),
                          action: Actions, size: Tools, consumed: BOOLEAN]]
  /\ rows \in [Operations -> [state: RowStates, outcome: Outcomes,
                              source: 0..(1 + Cardinality(Messages))]]
  /\ delivered \subseteq Messages
  /\ at \in Labels
  /\ seen \in 0..(1 + Cardinality(Messages))
  /\ call \in Calls
  /\ tool \in Operations
  /\ cancelled \in BOOLEAN /\ stopRequested \in BOOLEAN
  /\ waiting \in Seq({"stop", "message"}) /\ woken \in Seq({"stop", "message"})
  /\ starts \in [Operations -> Nat]
  /\ command \in {"go", "stop", "late stop"}

(***************************************************************************)
(* What the Store answers.                                                 *)
(***************************************************************************)
\* Fault: a recorded result settles an operation, also an unknown one.
DoubtfulUnrecorded(op) == rows[op].state = "executing"

\* operation_started_without_result, or a result whose effect is unknown.
Doubtful(op) ==
  \/ rows[op].state = "executing"
  \/ rows[op].state = "recorded" /\ rows[op].outcome = "unknown"

\* unresolved_operations: also rows saved and never started.
Unresolved(op) == Doubtful(op) \/ rows[op].state = "proposed"

\* Fault: a saved answer is used whatever its source.
SavedOfAnySource(phase) ==
  {c \in Calls : /\ calls[c].state = "responded" /\ calls[c].phase = phase
                 /\ ~calls[c].consumed}

\* Saved answers of the current source that nobody has acted on yet.
Saved(phase) ==
  {c \in Calls : /\ calls[c].state = "responded" /\ calls[c].phase = phase
                 /\ calls[c].source = seen /\ ~calls[c].consumed}

Unused == {c \in Calls : calls[c].state = "unused"}

(***************************************************************************)
(* How a run ends: its status is stored and everyone awaiting it wakes.    *)
(***************************************************************************)
\* Fault: the requests awaiting the run are not woken.
EndRunSilently(s) ==
  /\ status' = s
  /\ at' = "none"
  /\ cancelled' = FALSE
  /\ UNCHANGED <<seen, call, tool, requestVars>>

EndRun(s) ==
  /\ status' = s
  /\ at' = "none"
  /\ cancelled' = FALSE
  /\ woken' = woken \o waiting
  /\ waiting' = <<>>
  /\ UNCHANGED <<seen, call, tool, stopRequested>>

Goto(label) ==
  /\ at' = label
  /\ UNCHANGED <<status, seen, cancelled, requestVars>>

\* Fault: only the source is checked.
CurrentSource == source = seen

\* _current(): the stop request first, then the source.
Current == ~stopRequested /\ source = seen
AbortRun == EndRun(IF stopRequested THEN "stopped" ELSE "held")

\* CancelledError at an await.
Interrupted == cancelled /\ EndRun("stopped")

ConsumeCall(c) == calls' = [calls EXCEPT ![c].consumed = TRUE]

(***************************************************************************)
(* run_task(): recovery, and one turn.                                     *)
(***************************************************************************)
\* A handle cancelled before its first step never enters run_task().
CancelledEarly ==
  /\ at = "ready" /\ cancelled
  /\ EndRun(status)
  /\ UNCHANGED <<source, pending, final, calls, rows, delivered, historyVars>>

Begin ==
  /\ at = "ready" /\ ~cancelled
  /\ status' = "running"
  /\ seen' = source
  /\ at' = "recovering"
  /\ UNCHANGED <<source, pending, final, calls, rows, delivered, call, tool,
                 cancelled, requestVars, historyVars>>

RecoverNext ==
  /\ at = "recovering"
  /\ \/ /\ \E op \in Operations : Doubtful(op) /\ tool' = op
        /\ Goto("recover")
     \/ /\ \A op \in Operations : ~Doubtful(op)
        /\ Goto("turn")
        /\ UNCHANGED tool
  /\ UNCHANGED <<source, pending, final, calls, rows, delivered, call, historyVars>>

\* reconcile(stop=True) of a started operation: the result the Executor saved
\* before the controller died, a success included, or what it can observe now.
\* The run is held as long as the effect cannot be told.
Recovered ==
  /\ at = "recover" /\ ~cancelled
  /\ \E outcome \in {"succeeded", "failed", "unknown"} :
       /\ rows' = [rows EXCEPT ![tool].state = "recorded", ![tool].outcome = outcome]
       /\ IF outcome = "unknown"
          THEN EndRun("held")
          ELSE Goto("recovering") /\ UNCHANGED <<call, tool>>
  /\ UNCHANGED <<source, pending, final, calls, delivered, call, tool, historyVars>>

PhaseNow == IF pending THEN "source_reconciliation" ELSE "next_action"

\* A response committed before a crash or a stop is consumed, not bought again.
UseSaved ==
  /\ at = "turn" /\ Current
  /\ \E c \in Saved(PhaseNow) : call' = c
  /\ Goto(IF pending THEN "apply" ELSE "decide")
  /\ UNCHANGED <<source, pending, final, calls, rows, delivered, tool, historyVars>>

\* The context of the next call does not fit the model: nothing is bought.
HoldForCapacity ==
  /\ at = "turn" /\ Current
  /\ EndRun("held")
  /\ UNCHANGED <<source, pending, final, calls, rows, delivered, historyVars>>

\* Fault: a new call is bought while a saved answer waits.
BuyCallAlways ==
  /\ at = "turn" /\ Current
  /\ \E c \in Unused :
       /\ \A d \in Unused : c <= d
       /\ call' = c
       /\ calls' = [calls EXCEPT ![c].state = "started", ![c].phase = PhaseNow,
                                 ![c].source = seen]
  /\ Goto(IF pending THEN "sources" ELSE "model")
  /\ UNCHANGED <<source, pending, final, rows, delivered, tool, historyVars>>

BuyCall ==
  /\ at = "turn" /\ Current
  /\ Saved(PhaseNow) = {}
  /\ \E c \in Unused :
       /\ \A d \in Unused : c <= d
       /\ call' = c
       /\ calls' = [calls EXCEPT ![c].state = "started", ![c].phase = PhaseNow,
                                 ![c].source = seen]
  /\ Goto(IF pending THEN "sources" ELSE "model")
  /\ UNCHANGED <<source, pending, final, rows, delivered, tool, historyVars>>

\* The response is stored before anything else looks at it.
ModelResponds ==
  /\ at \in {"sources", "model"} /\ ~cancelled
  /\ \E action \in IF at = "model" THEN Actions \ {"none"} ELSE {"none"}, size \in Tools :
       /\ action # "tools" => size = 1
       /\ calls' = [calls EXCEPT ![call].state = "responded", ![call].action = action,
                                 ![call].size = size]
  /\ IF Current THEN Goto(IF at = "sources" THEN "apply" ELSE "decide") ELSE AbortRun
  /\ UNCHANGED <<source, pending, final, rows, delivered, call, tool, historyVars>>

\* A provider failure holds the task; one response that breaks the schema is
\* fed back and the call is bought again.
ModelFails ==
  /\ at \in {"sources", "model"} /\ ~cancelled
  /\ calls' = [calls EXCEPT ![call].state = "failed"]
  /\ \/ EndRun("held")
     \/ Goto("turn")
  /\ UNCHANGED <<source, pending, final, rows, delivered, call, tool, historyVars>>

ModelInterrupted ==
  /\ at \in {"sources", "model"}
  /\ calls' = [calls EXCEPT ![call].state = "interrupted"]
  /\ Interrupted
  /\ UNCHANGED <<source, pending, final, rows, delivered, historyVars>>

AwaitInterrupted ==
  /\ at \in {"recover", "review"}
  /\ Interrupted
  /\ UNCHANGED <<source, pending, final, calls, rows, delivered, historyVars>>

\* The source plan and the consumption of its answer are one transaction.
ApplyPlan ==
  /\ at = "apply" /\ Current
  /\ pending' = FALSE
  /\ ConsumeCall(call)
  /\ Goto("turn")
  /\ UNCHANGED <<source, final, rows, delivered, call, tool, historyVars>>

\* An answer the controller rejects: consumed, then asked again or held.
RejectAnswer ==
  /\ at \in {"apply", "finish"} /\ Current
  /\ ConsumeCall(call)
  /\ \/ Goto("turn")
     \/ EndRun("held")
  /\ UNCHANGED <<source, pending, final, rows, delivered, call, tool, historyVars>>

Decide ==
  /\ at = "decide" /\ Current
  /\ \/ /\ calls[call].action = "tools"
        /\ Goto("act") /\ tool' = <<call, 1>>
        /\ UNCHANGED <<calls, call>>
     \/ /\ calls[call].action = "complete"
        /\ Goto("finish")
        /\ UNCHANGED <<calls, call, tool>>
     \/ /\ calls[call].action = "blocked"
        /\ ConsumeCall(call)
        /\ EndRun("held")
  /\ UNCHANGED <<source, pending, final, rows, delivered, historyVars>>

(***************************************************************************)
(* _perform() and _execute_saved()                                         *)
(***************************************************************************)
\* _current() before a turn, an answer's use, a tool, a start or a completion.
LoseCurrent ==
  /\ at \in {"turn", "decide", "act", "apply", "start", "finish", "commit"}
  /\ ~Current
  /\ AbortRun
  /\ UNCHANGED <<source, pending, final, calls, rows, delivered, historyVars>>

\* The operation's identity is derived from call and position: a replayed
\* answer finds its earlier rows and returns their results.
Remembered ==
  /\ at = "act" /\ Current
  /\ rows[tool].state = "recorded"
  /\ Goto("after")
  /\ UNCHANGED <<source, pending, final, calls, rows, delivered, call, tool, historyVars>>

\* An earlier effect in doubt, a missing permission or an unchanged failed
\* action: held or awaiting the user, with no row.
HoldBeforeSave ==
  /\ at = "act" /\ Current
  /\ rows[tool].state = "absent"
  /\ \E s \in {"held", "awaiting_user"} : EndRun(s)
  /\ UNCHANGED <<source, pending, final, calls, rows, delivered, historyVars>>

NoneInDoubt == \A op \in Operations \ {tool} : ~Doubtful(op)

\* Arguments refused at admission are a recorded failure without a start.
RefuseAdmission ==
  /\ at = "act" /\ Current
  /\ rows[tool].state = "absent"
  /\ rows' = [rows EXCEPT ![tool] = [state |-> "recorded", outcome |-> "failed",
                                     source |-> source]]
  /\ Goto("after")
  /\ UNCHANGED <<source, pending, final, calls, delivered, call, tool, historyVars>>

SaveOperation ==
  /\ at = "act" /\ Current
  /\ rows[tool].state = "absent"
  /\ NoneInDoubt
  /\ rows' = [rows EXCEPT ![tool] = [state |-> "proposed", outcome |-> "missing",
                                     source |-> source]]
  /\ Goto("start")
  /\ UNCHANGED <<source, pending, final, calls, delivered, call, tool, historyVars>>

\* Fault: a replay also runs operations again that failed.
FindProposedOrFailed ==
  /\ at = "act" /\ Current
  /\ \/ rows[tool].state = "proposed"
     \/ rows[tool].state = "recorded" /\ rows[tool].outcome = "failed"
  /\ Goto("start")
  /\ UNCHANGED <<source, pending, final, calls, rows, delivered, call, tool, historyVars>>

FindProposed ==
  /\ at = "act" /\ Current
  /\ rows[tool].state = "proposed"
  /\ Goto("start")
  /\ UNCHANGED <<source, pending, final, calls, rows, delivered, call, tool, historyVars>>

\* Access changed, another effect is in doubt, or the row is of an earlier
\* source: nothing is started and the row stays.
HoldBeforeStart ==
  /\ at = "start" /\ Current
  /\ \E s \in {"held", "awaiting_user"} : EndRun(s)
  /\ UNCHANGED <<source, pending, final, calls, rows, delivered, historyVars>>

StartOperation ==
  /\ at = "start" /\ Current
  /\ rows[tool].source = source
  /\ NoneInDoubt
  /\ rows' = [rows EXCEPT ![tool].state = "executing"]
  /\ starts' = [starts EXCEPT ![tool] = @ + 1]
  /\ Goto("executing")
  /\ UNCHANGED <<source, pending, final, calls, delivered, call, tool, command>>

\* The Executor refuses to start beside an unresolved operation of the task:
\* 'pending' is recorded, which holds the task.
ExecutorRefuses ==
  /\ at = "executing"
  /\ \E op \in Operations \ {tool} : Unresolved(op)
  /\ rows' = [rows EXCEPT ![tool].state = "recorded", ![tool].outcome = "unknown"]
  /\ Goto("after")
  /\ UNCHANGED <<source, pending, final, calls, delivered, call, tool, historyVars>>

\* execute() absorbs a cancellation (a shielded write, a stopped container or
\* command) and goes on to its result, which never comes if a process that left
\* the command's group keeps its output open.
ExecutorAbsorbs ==
  /\ at = "executing"
  /\ cancelled
  /\ cancelled' = FALSE
  /\ UNCHANGED <<storeVars, at, seen, call, tool, requestVars, historyVars>>

\* execute() returns, or re-raises a cancellation after the result was recorded.
ExecutorReturns ==
  /\ at = "executing"
  /\ \E outcome \in {"succeeded", "failed", "unknown"} :
       rows' = [rows EXCEPT ![tool].state = "recorded", ![tool].outcome = outcome]
  /\ \/ Goto("after") /\ UNCHANGED <<call, tool>>
     \/ Interrupted
  /\ UNCHANGED <<source, pending, final, calls, delivered, historyVars>>

\* Fault: the tools after a failed one run as well.
AfterToolRegardless ==
  /\ at = "after"
  /\ LET outcome == rows[tool].outcome
         next == <<call, tool[2] + 1>>
     IN \/ outcome = "unknown" /\ EndRun("held")
        \/ /\ outcome # "unknown" /\ tool[2] < calls[call].size
           /\ Goto("act") /\ tool' = next /\ UNCHANGED call
        \/ /\ outcome # "unknown" /\ tool[2] = calls[call].size
           /\ Goto("consume") /\ UNCHANGED <<call, tool>>
  /\ UNCHANGED <<source, pending, final, calls, rows, delivered, historyVars>>

\* Fault: an unknown result ends the batch like a failure.
AfterToolUnheld ==
  /\ at = "after"
  /\ LET outcome == rows[tool].outcome
         next == <<call, tool[2] + 1>>
     IN \/ /\ outcome = "succeeded" /\ tool[2] < calls[call].size
           /\ Goto("act") /\ tool' = next /\ UNCHANGED call
        \/ /\ \/ outcome # "succeeded"
              \/ tool[2] = calls[call].size
           /\ Goto("consume") /\ UNCHANGED <<call, tool>>
  /\ UNCHANGED <<source, pending, final, calls, rows, delivered, historyVars>>

\* Fault: one tool too many.
AfterToolBeyond ==
  /\ at = "after"
  /\ LET outcome == rows[tool].outcome
         next == <<call, tool[2] + 1>>
     IN \/ outcome = "unknown" /\ EndRun("held")
        \/ /\ outcome = "succeeded" /\ tool[2] <= calls[call].size
           /\ Goto("act") /\ tool' = next /\ UNCHANGED call
        \/ /\ outcome = "failed"
           /\ Goto("consume") /\ UNCHANGED <<call, tool>>
  /\ UNCHANGED <<source, pending, final, calls, rows, delivered, historyVars>>

\* The next tool runs only after a success; an unknown result holds the task.
AfterTool ==
  /\ at = "after"
  /\ LET outcome == rows[tool].outcome
         next == <<call, tool[2] + 1>>
     IN \/ outcome = "unknown" /\ EndRun("held")
        \/ /\ outcome = "succeeded" /\ tool[2] < calls[call].size
           /\ Goto("act") /\ tool' = next /\ UNCHANGED call
        \/ /\ \/ outcome = "failed"
              \/ outcome = "succeeded" /\ tool[2] = calls[call].size
           /\ Goto("consume") /\ UNCHANGED <<call, tool>>
  /\ UNCHANGED <<source, pending, final, calls, rows, delivered, historyVars>>

ConsumeBatch ==
  /\ at = "consume"
  /\ ConsumeCall(call)
  /\ Goto("turn")
  /\ UNCHANGED <<source, pending, final, rows, delivered, call, tool, historyVars>>

(***************************************************************************)
(* _finish()                                                               *)
(***************************************************************************)
HoldUnresolved ==
  /\ at = "finish" /\ Current
  /\ \E op \in Operations : Unresolved(op)
  /\ EndRun("held")
  /\ UNCHANGED <<source, pending, final, calls, rows, delivered, historyVars>>

\* Fault: a completion is accepted beside unresolved operations.
AcceptUnresolved ==
  /\ at = "finish" /\ Current
  /\ Goto("commit") \/ Goto("review")
  /\ UNCHANGED <<source, pending, final, calls, rows, delivered, call, tool, historyVars>>

AcceptCandidate ==
  /\ at = "finish" /\ Current
  /\ \A op \in Operations : ~Unresolved(op)
  /\ Goto("commit") \/ Goto("review")
  /\ UNCHANGED <<source, pending, final, calls, rows, delivered, call, tool, historyVars>>

\* The independent review accepts, asks for changes, or fails.
Reviewed ==
  /\ at = "review" /\ ~cancelled
  /\ \/ Goto("commit") /\ UNCHANGED calls
     \/ Goto("turn") /\ ConsumeCall(call)
     \/ EndRun("held") /\ UNCHANGED calls
  /\ UNCHANGED <<source, pending, final, rows, delivered, call, tool, historyVars>>

Complete ==
  /\ at = "commit" /\ Current
  /\ final' = seen
  /\ ConsumeCall(call)
  /\ EndRun("completed")
  /\ UNCHANGED <<source, pending, rows, delivered, historyVars>>

RunStep ==
  \/ CancelledEarly \/ Begin \/ RecoverNext \/ Recovered
  \/ UseSaved \/ HoldForCapacity \/ BuyCall \/ ModelResponds \/ ModelFails
  \/ ModelInterrupted \/ AwaitInterrupted \/ ApplyPlan \/ RejectAnswer
  \/ Decide \/ LoseCurrent \/ Remembered \/ HoldBeforeSave
  \/ RefuseAdmission \/ SaveOperation \/ FindProposed \/ HoldBeforeStart
  \/ StartOperation \/ ExecutorRefuses \/ ExecutorReturns \/ ExecutorAbsorbs
  \/ AfterTool \/ ConsumeBatch \/ HoldUnresolved \/ AcceptCandidate \/ Reviewed \/ Complete

(***************************************************************************)
(* The user's commands.  Requests resume in the order they began waiting.  *)
(* A request whose wait is over is still to be resumed by the loop: a run  *)
(* that another command starts meanwhile may take steps before that.       *)
(***************************************************************************)
\* start_task(): a live handle is returned as it is.
StartTask ==
  IF at = "none"
  THEN at' = "ready" /\ cancelled' = FALSE /\ stopRequested' = FALSE
  ELSE UNCHANGED <<at, cancelled, stopRequested>>

Resume ==
  /\ at = "none"
  /\ status # "completed"
  /\ StartTask
  /\ command' = "go"
  /\ UNCHANGED <<storeVars, seen, call, tool, waiting, woken, starts>>

\* Submissions of one task follow each other; stop requests may join them.
InFlight(request) == \E queue \in {waiting, woken} :
                       \E i \in 1..Len(queue) : queue[i] = request

StopStatus == IF status = "completed" THEN status ELSE "stopped"

Stop ==
  /\ at \in Awaiting
  /\ Len(waiting) + Len(woken) < MaxWaiting
  /\ stopRequested' = TRUE
  /\ command' = IF InFlight("message") THEN "late stop" ELSE "stop"
  /\ IF at = "none"
     THEN status' = StopStatus /\ UNCHANGED <<cancelled, waiting>>
     ELSE cancelled' = TRUE /\ waiting' = Append(waiting, "stop") /\ UNCHANGED status
  /\ UNCHANGED <<source, pending, final, calls, rows, delivered, at, seen, call,
                 tool, woken, starts>>

WakeStop ==
  /\ at \in Awaiting
  /\ woken # <<>> /\ Head(woken) = "stop"
  /\ woken' = Tail(woken)
  /\ status' = StopStatus
  /\ UNCHANGED <<source, pending, final, calls, rows, delivered, runVars,
                 stopRequested, waiting, historyVars>>

\* submit_message(), after its stop_task(): supersede what never started,
\* drop the completion and start again.
Supersede ==
  rows' = [op \in Operations |->
             IF rows[op].state = "proposed"
             THEN [rows[op] EXCEPT !.state = "superseded"] ELSE rows[op]]

Restart ==
  /\ Supersede
  /\ final' = 0
  /\ status' = "source_update_required"
  /\ StartTask

\* submit_message(), up to the await of the run it stops.
Message ==
  /\ at \in Awaiting
  /\ ~InFlight("message")
  /\ Len(waiting) + Len(woken) < MaxWaiting
  /\ \E m \in Messages \ delivered : delivered' = delivered \cup {m}
  /\ source' = source + 1
  /\ pending' = TRUE
  /\ command' = "go"
  /\ IF at = "none"
     THEN Restart /\ UNCHANGED waiting
     ELSE /\ status' = "source_update_required"
          /\ stopRequested' = TRUE
          /\ cancelled' = TRUE
          /\ waiting' = Append(waiting, "message")
          /\ UNCHANGED <<final, rows, at>>
  /\ UNCHANGED <<calls, seen, call, tool, woken, starts>>

WakeMessage ==
  /\ at \in Awaiting
  /\ woken # <<>> /\ Head(woken) = "message"
  /\ woken' = Tail(woken)
  /\ Restart
  /\ UNCHANGED <<source, pending, calls, delivered, seen, call, tool, waiting,
                 historyVars>>

\* Fault: the restarted controller leaves the task's status as it was.
CrashUnmarked ==
  /\ at' = "none" /\ cancelled' = FALSE /\ stopRequested' = FALSE
  /\ waiting' = <<>> /\ woken' = <<>>
  /\ UNCHANGED <<storeVars, seen, call, tool, historyVars>>

\* The process dies, also in the middle of a request; a new one marks the
\* task for explicit recovery and replays nothing.
Crash ==
  /\ status' = IF status = "running" THEN "recovery_required" ELSE status
  /\ at' = "none" /\ cancelled' = FALSE /\ stopRequested' = FALSE
  /\ waiting' = <<>> /\ woken' = <<>>
  /\ UNCHANGED <<source, pending, final, calls, rows, delivered, seen, call, tool,
                 historyVars>>

Next ==
  \/ RunStep
  \/ Resume \/ Stop \/ Message
  \/ WakeStop \/ WakeMessage
  \/ Crash

Spec == Init /\ [][Next]_vars

\* The Executor's call may wait for ever for the output of a command, until it
\* is cancelled (CallsEnd of module Executor).
HeldByExecutor == at = "executing" /\ ~cancelled

\* The event loop runs what is ready; models, reviewers and reconciliation answer
\* or time out.  A woken request is resumed, since the loop serves in turn what is
\* ready.  Users, crashes and the Executor's calls are free.
Fairness ==
  /\ WF_vars(RunStep /\ ~HeldByExecutor)
  /\ SF_vars(WakeStop \/ WakeMessage)

FairSpec == Spec /\ Fairness

-------------------------------------------------------------------------------
(***************************************************************************)
(* Safety.                                                                 *)
(***************************************************************************)
\* No operation is handed to the Executor twice, although a saved answer is
\* replayed after every stop, hold and restart until it is consumed.
StartedOnce == \A op \in Operations : starts[op] <= 1

\* At most one operation of the task is in doubt at any time: nothing new is
\* started beside an operation that lost its result or has an unknown effect.
InDoubt(op) ==
  \/ rows[op].state = "executing"
  \/ rows[op].state = "recorded" /\ rows[op].outcome = "unknown"

OneInDoubt ==
  \A op \in Operations : InDoubt(op) => \A p \in Operations \ {op} : ~InDoubt(p)

\* A later tool of an answer exists only after the earlier one succeeded, also
\* when the batch was interrupted and replayed.
BatchOrder ==
  \A c \in Calls, i \in Tools :
    i > 1 /\ rows[<<c, i>>].state # "absent" =>
      rows[<<c, i - 1>>].state = "recorded" /\ rows[<<c, i - 1>>].outcome = "succeeded"

\* A completed task was completed for the instructions it has now: none is
\* waiting to be read and no operation is unresolved.
CompletionSound ==
  status = "completed" =>
    /\ final = source
    /\ ~pending
    /\ \A op \in Operations : ~Unresolved(op)

\* There is never more than one saved answer to act on, so a replay cannot mix
\* the tools of two answers, and no paid answer is bought twice.
OneLiveAnswer ==
  \A c \in Calls :
    calls[c].state = "responded" /\ ~calls[c].consumed /\ calls[c].source = source =>
      \A d \in Calls \ {c} :
        ~ /\ calls[d].state = "responded" /\ ~calls[d].consumed
          /\ calls[d].source = source /\ calls[d].phase = calls[c].phase

\* An answer is retired only when nothing it started is open: no operation of
\* a consumed answer is unstarted or in doubt.
ConsumedIsSettled ==
  \A op \in Operations : calls[op[1]].consumed => ~Unresolved(op)

\* A saved answer can be replayed after any interruption: its operations start
\* once, in order and one at a time, and it is retired when all are settled.
ReplaySound == StartedOnce /\ OneInDoubt /\ BatchOrder /\ OneLiveAnswer /\ ConsumedIsSettled

\* The status a user sees agrees with the run: 'running' only with a run under
\* way, and a run under way never looks held, completed, waiting for the user or
\* to be recovered.  It may look stopped, by a stop that had awaited the run
\* before it.
StatusTellsTruth ==
  /\ status = "running" => at \notin {"none", "ready"}
  /\ at \notin {"none", "ready"} => status \in {"running", "source_update_required", "stopped"}
  /\ status = "completed" => at = "none"

\* "Stop a task at work before you put it away": a task that looks stopped may be
\* archived or deleted as one that no run works on.
StoppedIsAtRest == status = "stopped" => at \in {"none", "ready"}

(***************************************************************************)
(* What no step may do.                                                    *)
(***************************************************************************)
\* An operation starts only for the instructions in force: its answer and its
\* row were made for the current source, and no instruction is unread.
NoStaleStart ==
  [][\A op \in Operations : starts'[op] # starts[op] =>
        /\ calls[op[1]].source = source
        /\ rows[op].source = source
        /\ ~pending]_starts

\* After a stop nothing starts until the user resumes the task or adds an
\* instruction, unless the stop came while an instruction was being delivered.
StopHolds ==
  [][\A op \in Operations : starts'[op] # starts[op] => command # "stop"]_starts

\* What starts was decided for the instructions in force and not stopped since.
StartsAsTold == NoStaleStart /\ StopHolds

\* "Stop affects the selected task": once the user's last command is a stop,
\* no operation starts.
NoStartAfterStop ==
  [][\A op \in Operations : starts'[op] # starts[op] => command = "go"]_vars

(***************************************************************************)
(* Why all of these hold.                                                  *)
(***************************************************************************)
\* An answer that waits to be acted on, and the places of a run that acts on one.
Live(c) == calls[c].state = "responded" /\ ~calls[c].consumed
Batch == {"act", "start", "executing", "after", "consume"}
Finishing == {"finish", "review", "commit"}
Acting == {"apply", "decide"} \cup Batch \cup Finishing

\* Every instruction is a source, and the run has seen some of them.
SourcesCounted == source = 1 + Cardinality(delivered) /\ seen <= source

\* A plan for the sources names no action; an answer that waits is the only one
\* of its phase for its sources.
AnswersKnown ==
  /\ \A c \in Calls :
       /\ calls[c].consumed => calls[c].state = "responded"
       /\ calls[c].state = "responded" =>
            (calls[c].action = "none" <=> calls[c].phase = "source_reconciliation")
  /\ \A c \in Calls : Live(c) =>
       \A d \in Calls \ {c} :
         ~(Live(d) /\ calls[d].source = calls[c].source /\ calls[d].phase = calls[c].phase)

\* A row belongs to a tool of an answer, after tools that succeeded; it was
\* started if its state says so, and it is settled once its answer is retired.
Succeeded(op) == rows[op].state = "recorded" /\ rows[op].outcome = "succeeded"
RowKnown(op) ==
  /\ starts[op] <= 1
  /\ rows[op].state \notin {"executing", "recorded"} => starts[op] = 0
  /\ rows[op].state # "absent" =>
       /\ calls[op[1]].state = "responded" /\ calls[op[1]].action = "tools"
       /\ op[2] <= calls[op[1]].size
       /\ \A i \in Tools : i < op[2] => Succeeded(<<op[1], i>>)
  /\ calls[op[1]].consumed => ~Unresolved(op)

\* The run has bought an answer that no other answer can stand for.
Asked ==
  at \in {"sources", "model"} =>
    /\ calls[call].state = "started" /\ calls[call].source = seen
    /\ calls[call].phase = IF at = "sources" THEN "source_reconciliation" ELSE "next_action"
    /\ \A d \in Calls \ {call} :
         ~(Live(d) /\ calls[d].source = seen /\ calls[d].phase = calls[call].phase)

\* The run acts on an answer to the sources it saw, and they are all read.
Answered ==
  /\ at \in Acting => Live(call) /\ calls[call].source = seen
  /\ at = "apply" => calls[call].action = "none"
  /\ at = "decide" => calls[call].action # "none"
  /\ at \in Finishing => calls[call].action = "complete"
  /\ at \in {"model"} \cup (Acting \ {"apply"}) /\ source = seen => ~pending

\* It works on a tool of that answer whose predecessors succeeded.
AtTool ==
  /\ at = "recover" => Doubtful(tool)
  /\ at \in Batch =>
       /\ calls[call].action = "tools"
       /\ tool[1] = call /\ tool[2] <= calls[call].size
       /\ \A i \in Tools : i < tool[2] => Succeeded(<<call, i>>)
  /\ at = "start" => rows[tool].state = "proposed"
  /\ at = "executing" => rows[tool].state = "executing"
  /\ at = "after" => rows[tool].state = "recorded"
  /\ at = "consume" => \A i \in Tools : ~Unresolved(<<call, i>>)
  /\ at \in {"review", "commit"} => \A op \in Operations : ~Unresolved(op)

\* A status is of a run under way or of none; completed is a task without one.
RunKnown ==
  /\ at \notin {"none", "ready"} => status \in {"running", "source_update_required", "stopped"}
  /\ status = "running" => at \notin {"none", "ready"}
  /\ status = "completed" => at = "none"

\* A stop stays requested until the user says otherwise.
StopKept ==
  command = "stop" => (stopRequested \/ at = "none") /\ ~InFlight("message")

\* The inductive invariant: what the run_task() of a task relies on in the records
\* it finds, whatever stopped the one before it and whoever waits for it to end.
TaskInv ==
  /\ TypeOK /\ SourcesCounted /\ AnswersKnown /\ \A op \in Operations : RowKnown(op)
  /\ OneInDoubt /\ CompletionSound /\ Asked /\ Answered /\ AtTool /\ RunKnown /\ StopKept

(***************************************************************************)
(* Liveness.                                                               *)
(***************************************************************************)
\* A stopped run ends, whatever it was awaiting, but for a call of the Executor
\* that never ends and that nobody cancels again.
StopEndsRun ==
  (stopRequested /\ at # "none") ~> (at = "none" \/ ~stopRequested \/ []HeldByExecutor)

\* A message that arrives during a run is answered, however many stop requests
\* are made meanwhile, unless the process dies or the run never ends because of
\* such a call.
MessageReturns == InFlight("message") ~> (~InFlight("message") \/ []HeldByExecutor)

===============================================================================
