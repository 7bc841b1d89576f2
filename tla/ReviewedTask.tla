----------------------------- MODULE ReviewedTask -----------------------------
(***************************************************************************)
(* The fully reviewed task (engine.py): every operation of a task passes   *)
(* one durable cycle, select, pre, execute, post, learn and close_cycle,   *)
(* whose stages are told by the status of its record.  The judgments are   *)
(* model calls, so that anything may happen between two stages: the user   *)
(* adds a source, approves another policy or stops the task, and the       *)
(* process may die.  One task; what reviewers answer is a choice.          *)
(***************************************************************************)
EXTENDS Naturals

CONSTANTS MaxOps, MaxSources, MaxPolicies, MaxCrashes   \* bounds of an instance

VARIABLES
  task,      \* its record: status, plan, cur, source, pending, policy, final
  op,        \* op[o]: the record of operation o
  policy,    \* the version of the policy that was approved last
  pc,        \* where the coroutine of the task is; "off" when it has ended
  stopping,  \* "no", "stop" or "submit": stop_task waits for the coroutine
  entered,   \* entered[o]: how often the effect of o was entered
  crashes

vars == <<task, op, policy, pc, stopping, entered, crashes>>

Ops == 1..MaxOps
NoOp == 0
Kinds == {"plan_task", "exec", "reconcile", "adopt_policy", "finish"}
Statuses == {"absent", "proposed", "reviewed", "executing", "result_recorded", "post_reviewed",
             "learned", "cycle_complete", "superseded", "revision_required"}

NoRecord == [st |-> "absent", kind |-> "exec", source |-> 0, policy |-> 0,
             result |-> "absent", target |-> NoOp, seen |-> "absent", draft |-> 0]

Init ==
  /\ task = [status |-> "created", plan |-> FALSE, cur |-> NoOp, source |-> 1,
             pending |-> TRUE, policy |-> 1, final |-> 0]
  /\ op = [o \in Ops |-> NoRecord]
  /\ policy = 1 /\ pc = "off" /\ stopping = "no" /\ crashes = 0
  /\ entered = [o \in Ops |-> 0]

\* operation_started_without_result: a permit was consumed.
Started(o) == op[o].st = "executing"
Unstarted(record) == record.result = "absent" /\ record.st # "executing"
Unresolved(o) == op[o].result = "unknown" \/ Started(o)
Cur == task.cur
Absent == {o \in Ops : op[o].st = "absent"}
NewOp == CHOOSE o \in Absent : \A p \in Absent : o <= p

Set(o, status) == [op EXCEPT ![o].st = status]
Popped(aTask, o) == IF aTask.cur = o THEN [aTask EXCEPT !.cur = NoOp] ELSE aTask
With(aTask, status) == [aTask EXCEPT !.status = status]

-------------------------------------------------------------------------------
(* Beginning and ending *)

\* A consumed permit without a result: what it did is unknown.
PreserveStartedResultGaps(records) ==
  [o \in Ops |-> IF records[o].st = "executing"
                 THEN [records[o] EXCEPT !.st = "result_recorded", !.result = "unknown"]
                 ELSE records[o]]

StartTask ==
  /\ pc = "off" /\ stopping = "no" /\ task.status \notin {"completed", "retired"}
  /\ op' = PreserveStartedResultGaps(op)
  /\ task' = With(task, "running") /\ pc' = "loop"
  /\ UNCHANGED <<policy, stopping, entered, crashes>>

\* An interruption never overwrites what has been completed.
Interrupted(aTask, status) ==
  IF aTask.status = "completed" THEN aTask ELSE With(aTask, status)

\* From its permit to its result an operation of the controller waits for
\* nothing: only the end of the process comes between.
Controlled == {"plan_task", "adopt_policy", "finish"}
Synchronous == pc = "closed" \/ (pc = "acting" /\ op[Cur].kind \in Controlled)

Attention == task' = Interrupted(task, "attention_required") /\ pc' = "off"

\* stop_task: the coroutine is cancelled, and waited for.
StopTask ==
  /\ stopping = "no" /\ ~Synchronous /\ task.status \notin {"completed", "retired"}
  /\ stopping' = "stop"
  /\ UNCHANGED <<task, op, policy, pc, entered, crashes>>

\* The cancellation reaches the coroutine where it waits; an action that was
\* started has an unknown effect, which is recorded first.
Cancelled ==
  /\ stopping # "no" /\ pc # "off"
  /\ op' = IF pc = "acting" THEN [op EXCEPT ![Cur].st = "result_recorded",
                                           ![Cur].result = "unknown"]
           ELSE op
  /\ task' = Interrupted(task, "stopped") /\ pc' = "off"
  /\ UNCHANGED <<policy, stopping, entered, crashes>>

Stopped ==
  /\ stopping = "stop" /\ pc = "off"
  /\ task' = Interrupted(task, "stopped") /\ stopping' = "no"
  /\ UNCHANGED <<op, policy, pc, entered, crashes>>

\* _submit_source: the exact source is committed before anything is waited for.
SubmitSource ==
  /\ stopping = "no" /\ ~Synchronous /\ task.source < MaxSources
  /\ task' = [task EXCEPT !.source = @ + 1, !.pending = TRUE, !.status = "source_update_required"]
  /\ stopping' = "submit"
  /\ UNCHANGED <<op, policy, pc, entered, crashes>>

Superseded(records, o) ==
  IF o # NoOp /\ Unstarted(records[o]) THEN [records EXCEPT ![o].st = "superseded"] ELSE records

SubmitStopped ==
  /\ stopping = "submit" /\ pc = "off"
  /\ op' = Superseded(op, Cur)
  /\ task' = [task EXCEPT !.plan = FALSE, !.final = 0, !.status = "source_update_required",
                          !.cur = IF @ # NoOp /\ Unstarted(op[@]) THEN NoOp ELSE @]
  /\ stopping' = "no"
  /\ UNCHANGED <<policy, pc, entered, crashes>>

\* resolve_approval, for an amendment that the user was asked about.
ResolveApproval ==
  /\ policy < MaxPolicies /\ ~Synchronous
  /\ policy' = policy + 1
  /\ UNCHANGED <<task, op, pc, stopping, entered, crashes>>

\* The process dies; Engine.__init__ of the next one.
Crash ==
  /\ crashes < MaxCrashes /\ crashes' = crashes + 1
  /\ pc' = "off" /\ stopping' = "no"
  /\ IF task.status = "running" \/ \E o \in Ops : Started(o)
     THEN op' = PreserveStartedResultGaps(op) /\ task' = With(task, "recovery_required")
     ELSE UNCHANGED <<op, task>>
  /\ UNCHANGED <<policy, entered>>

-------------------------------------------------------------------------------
(* run_task: one turn of the loop *)

\* _source_boundary: a source that is not reconciled takes the plan away, and
\* an operation of an earlier source that was not started.
SourceBoundary(aTask, records) ==
  LET old == aTask.cur # NoOp /\ Unstarted(records[aTask.cur])
             /\ records[aTask.cur].source # aTask.source
  IN IF ~aTask.pending THEN <<aTask, records>>
     ELSE <<[aTask EXCEPT !.plan = FALSE, !.cur = IF old THEN NoOp ELSE @],
            IF old THEN Superseded(records, aTask.cur) ELSE records>>

Propose(aTask, records, o, kind, target) ==
  /\ op' = [records EXCEPT ![o] = [NoRecord EXCEPT !.st = "proposed", !.kind = kind,
                                   !.source = aTask.source, !.policy = policy,
                                   !.target = target]]
  /\ task' = [aTask EXCEPT !.cur = o]

\* _adopt_current_policy: the operation at hand is suspended, or superseded
\* when it was not started.
AdoptCurrentPolicy(aTask, records) ==
  LET o == aTask.cur
      drop == o # NoOp /\ Unstarted(records[o])
  IN /\ Absent # {}
     /\ Propose(aTask, Superseded(records, o), NewOp, "adopt_policy", IF drop THEN NoOp ELSE o)

Turn ==
  LET boundary == SourceBoundary(task, op)
      aTask == boundary[1]
      records == PreserveStartedResultGaps(boundary[2])
  IN /\ pc = "loop" /\ stopping = "no"
     /\ IF aTask.status = "completed"
        THEN pc' = "off" /\ UNCHANGED <<task, op>>
        ELSE IF aTask.policy # policy
                /\ ~(aTask.cur # NoOp /\ records[aTask.cur].kind = "adopt_policy")
        THEN AdoptCurrentPolicy(aTask, records) /\ pc' = "pre"
        ELSE /\ task' = aTask /\ op' = records
             /\ pc' = IF aTask.cur # NoOp THEN "pre" ELSE "select"
     /\ UNCHANGED <<policy, stopping, entered, crashes>>

\* _initialize_task and _select: what the model proposes next.
Select ==
  /\ pc = "select" /\ stopping = "no" /\ Absent # {}
  /\ IF ~task.plan THEN Propose(task, op, NewOp, "plan_task", NoOp)
     ELSE \/ \E kind \in {"exec", "finish"} : Propose(task, op, NewOp, kind, NoOp)
          \/ \E o \in Ops : Unresolved(o) /\ Propose(task, op, NewOp, "reconcile", o)
  /\ pc' = "pre"
  /\ UNCHANGED <<policy, stopping, entered, crashes>>

-------------------------------------------------------------------------------
(* The cycle of an operation *)

\* RevisionNeeded, as run_task consumes it.
Revise(o) ==
  /\ pc' = "loop"
  /\ IF Unstarted(op[o]) THEN op' = Set(o, "revision_required") /\ task' = Popped(task, o)
     ELSE UNCHANGED <<op, task>>

\* _pre: assessed, reviewed and disposed of before it is executed.
Pre ==
  /\ pc = "pre" /\ stopping = "no"
  /\ IF op[Cur].st # "proposed" THEN pc' = "execute" /\ UNCHANGED <<task, op>>
     ELSE IF op[Cur].source # task.source THEN Revise(Cur)
     ELSE \/ op' = Set(Cur, "reviewed") /\ pc' = "execute" /\ UNCHANGED task
          \/ Revise(Cur)
          \/ Attention /\ UNCHANGED op
  /\ UNCHANGED <<policy, stopping, entered, crashes>>

\* _allowed_with_unknown
AllowedWithUnknown(o) ==
  \/ \A p \in Ops : ~Unresolved(p)
  \/ op[o].kind \in {"reconcile", "adopt_policy", "plan_task"}

\* The checks repeated with the lease of the workspace, before the dispatch.
Lease(o) == op[o].source = task.source /\ op[o].policy = policy

\* _execute, up to its wait for the workspace.
Execute ==
  /\ pc = "execute" /\ stopping = "no"
  /\ IF op[Cur].result # "absent" THEN pc' = "post" /\ UNCHANGED <<task, op>>
     ELSE IF op[Cur].source # task.source THEN Revise(Cur)
     ELSE IF op[Cur].st # "reviewed" \/ ~AllowedWithUnknown(Cur) \/ op[Cur].policy # policy
     THEN Attention /\ UNCHANGED op
     ELSE pc' = "lease" /\ UNCHANGED <<task, op>>
  /\ UNCHANGED <<policy, stopping, entered, crashes>>

\* issue_permit and consume_permit: from here it is never started again.
Permit ==
  /\ pc = "lease" /\ stopping = "no"
  /\ IF Lease(Cur) THEN op' = Set(Cur, "executing") /\ pc' = "acting" /\ UNCHANGED task
     ELSE Revise(Cur)
  /\ UNCHANGED <<policy, stopping, entered, crashes>>

\* _controller_commit: the effect and its receipt are one transaction; an
\* executor keeps a record of its own.
Enter ==
  /\ pc = "acting" /\ entered[Cur] = 0
  /\ entered' = [entered EXCEPT ![Cur] = 1]
  /\ task' = IF op[Cur].kind = "plan_task"
             THEN [task EXCEPT !.plan = TRUE, !.pending = FALSE] ELSE task
  /\ UNCHANGED <<op, policy, pc, stopping, crashes>>

Recorded(o, result, seen) ==
  [op EXCEPT ![o].st = "result_recorded", ![o].result = result, ![o].seen = seen]

\* _recover_effect: what the domain of the operation tells today.
RecoverEffect(o) ==
  CASE op[o].kind = "finish" -> {"none"}
    [] op[o].kind = "reconcile" -> {"none"}
    [] entered[o] = 1 -> IF op[o].kind = "exec" THEN {"confirmed", "none", "unknown"}
                         ELSE {"confirmed"}
    [] OTHER -> {"unknown"}

\* _dispatch and the result that is recorded of it; _observe_recovery keeps
\* what was seen for the learning, the operation is not run again.
Dispatch ==
  /\ pc = "acting" /\ stopping = "no"
  /\ CASE op[Cur].kind = "exec" ->
            \E result \in {"confirmed", "none", "unknown"} :
              /\ result = "confirmed" => entered[Cur] = 1
              /\ op' = Recorded(Cur, result, "absent")
       [] op[Cur].kind = "reconcile" ->
            \E seen \in RecoverEffect(op[Cur].target) : op' = Recorded(Cur, "none", seen)
       [] op[Cur].kind = "finish" -> op' = Recorded(Cur, "none", "absent")
       [] OTHER -> entered[Cur] = 1 /\ op' = Recorded(Cur, "confirmed", "absent")
  /\ pc' = "post"
  /\ UNCHANGED <<task, policy, stopping, entered, crashes>>

\* _post: the actual result is assessed, and what is learned from it.
Post ==
  /\ pc = "post" /\ stopping = "no"
  /\ IF op[Cur].st # "result_recorded" THEN pc' = "learn" /\ UNCHANGED <<task, op>>
     ELSE \/ op' = Set(Cur, "post_reviewed") /\ pc' = "learn" /\ UNCHANGED task
          \/ Revise(Cur)
          \/ Attention /\ UNCHANGED op
  /\ UNCHANGED <<policy, stopping, entered, crashes>>

\* _learn: a proposal that does not fit goes back to the review.  What a
\* recovery has seen becomes the result of its operation.
Learn ==
  /\ pc = "learn" /\ stopping = "no"
  /\ IF op[Cur].st # "post_reviewed" THEN pc' = "close" /\ UNCHANGED <<task, op>>
     ELSE \/ /\ op' = [o \in Ops |->
                   IF o = Cur THEN [op[o] EXCEPT !.st = "learned"]
                   ELSE IF o = op[Cur].target /\ op[Cur].kind = "reconcile"
                           /\ op[Cur].result = "none" /\ op[Cur].seen # "unknown"
                   THEN [op[o] EXCEPT !.result = op[Cur].seen]
                   ELSE op[o]]
             /\ pc' = "close" /\ UNCHANGED task
          \/ op' = Set(Cur, "result_recorded") /\ pc' = "loop" /\ UNCHANGED task
          \/ Attention /\ UNCHANGED op
  /\ UNCHANGED <<policy, stopping, entered, crashes>>

\* Fault: only a missing result holds the end, not one that tells nothing.
MayFinishRecorded == ~task.pending /\ \A o \in Ops : ~Started(o)

\* The holds of _finalize.
MayFinish == ~task.pending /\ \A o \in Ops : ~Unresolved(o)

Closed(aTask, o) ==
  IF op[o].kind = "adopt_policy" /\ op[o].target # NoOp
  THEN [Popped(aTask, o) EXCEPT !.cur = IF aTask.cur = o THEN op[o].target ELSE @]
  ELSE Popped(aTask, o)

\* _close_cycle.  An adoption gives the operation it suspended its turn again,
\* with a review under the adopted policy; a finish goes on to _finalize.
CloseCycle ==
  /\ pc = "close" /\ stopping = "no"
  /\ IF op[Cur].kind = "finish" /\ op[Cur].st = "learned" /\ MayFinish
     THEN /\ op' = [op EXCEPT ![Cur].draft = IF @ = 0 THEN policy ELSE @]
          /\ pc' = "final" /\ UNCHANGED task
     ELSE /\ pc' = "loop"
          /\ LET adopted == op[Cur].kind = "adopt_policy" /\ op[Cur].result = "confirmed"
                 s == op[Cur].target
             IN /\ op' = [o \in Ops |->
                     IF o = Cur THEN [op[o] EXCEPT !.st = "cycle_complete"]
                     ELSE IF adopted /\ o = s THEN [op[o] EXCEPT !.st = "result_recorded"]
                     ELSE op[o]]
                /\ task' = Closed(IF adopted THEN [task EXCEPT !.policy = policy] ELSE task, Cur)
  /\ UNCHANGED <<policy, stopping, entered, crashes>>

\* _assert_finalization_evidence: the draft is of this source and policy.
Evidence == ~task.pending /\ op[Cur].draft = policy

\* _finalize, after its judgments: published in one transaction, or held.
Finalize ==
  /\ pc = "final" /\ stopping = "no"
  /\ \/ /\ Evidence
        /\ task' = [task EXCEPT !.status = "completed", !.final = task.source]
        /\ pc' = "closed" /\ UNCHANGED op
     \/ op' = Set(Cur, "cycle_complete") /\ task' = Popped(task, Cur) /\ pc' = "loop"
     \/ Attention /\ UNCHANGED op
  /\ UNCHANGED <<policy, stopping, entered, crashes>>

CloseFinish ==
  /\ pc = "closed"
  /\ op' = Set(Cur, "cycle_complete") /\ task' = Popped(task, Cur) /\ pc' = "off"
  /\ UNCHANGED <<policy, stopping, entered, crashes>>

Next ==
  \/ StartTask \/ StopTask \/ Cancelled \/ Stopped \/ SubmitSource \/ SubmitStopped
  \/ ResolveApproval \/ Crash \/ Turn \/ Select \/ Pre \/ Execute \/ Permit \/ Enter
  \/ Dispatch \/ Post \/ Learn \/ CloseCycle \/ Finalize \/ CloseFinish

Spec == Init /\ [][Next]_vars

-------------------------------------------------------------------------------
Finished == {"result_recorded", "post_reviewed", "learned", "cycle_complete"}
Results == {"absent", "confirmed", "none", "unknown"}
Stages == {"off", "loop", "select", "pre", "execute", "lease", "acting", "post", "learn",
           "close", "final", "closed"}

Tasks == [status : {"created", "running", "stopped", "attention_required", "completed",
                    "recovery_required", "source_update_required"},
          plan : BOOLEAN, cur : Ops \cup {NoOp}, source : 1..MaxSources, pending : BOOLEAN,
          policy : 1..MaxPolicies, final : 0..MaxSources]
Records == [st : Statuses, kind : Kinds, source : 0..MaxSources, policy : 0..MaxPolicies,
            result : Results, target : Ops \cup {NoOp}, seen : Results,
            draft : 0..MaxPolicies]

TypeOK ==
  /\ task \in Tasks /\ op \in [Ops -> Records] /\ policy \in 1..MaxPolicies
  /\ pc \in Stages /\ stopping \in {"no", "stop", "submit"} /\ entered \in [Ops -> 0..1]

\* Work in hand: it has a permit or a result, and its cycle is not complete.
InHand == {o \in Ops : /\ op[o].st # "cycle_complete"
                       /\ Started(o) \/ op[o].result # "absent"}

Planned == \E o \in Ops : /\ op[o].kind = "plan_task" /\ entered[o] = 1
                          /\ op[o].source = task.source

\* The policy of a task that left its first one was adopted; or an earlier one
\* was, when another is approved while its adoption is reviewed.
Adopted == \E o \in Ops : /\ op[o].kind = "adopt_policy" /\ entered[o] = 1
                          /\ op[o].policy \in 2..task.policy

\* The actions that may have had an effect nobody has seen.
UnknownActions == {o \in Ops : op[o].kind = "exec" /\ Unresolved(o)}

\* Across sources, stops and crashes: one operation at a time is in hand, while
\* the policy stays; the sources of the task are reconciled by a reviewed plan
\* of exactly these; at most one action has an effect nobody knows; and a
\* completed task has none, no source left to reconcile and no cycle to close.
TaskSound ==
  /\ TypeOK
  /\ ~task.pending => Planned
  /\ task.policy # 1 => Adopted
  /\ \A o, p \in UnknownActions : o = p
  /\ policy = 1 => InHand \subseteq {Cur}
  /\ task.status = "completed" =>
       /\ ~task.pending /\ task.plan /\ task.final = task.source
       /\ \A o \in Ops : ~Unresolved(o)
       /\ policy = 1 => \A o \in InHand : op[o].kind = "finish"

\* An adoption applies the policy "without dropping unfinished effects": an
\* operation in hand is the current one, or the one that an adoption suspends.
NoResultDropped == \A o \in InHand : o = Cur \/ (Cur # NoOp /\ op[Cur].target = o)

\* The policy of a task is one that an operation adopted.
AdoptedExactly ==
  task.policy # 1 => \E o \in Ops : /\ op[o].kind = "adopt_policy" /\ entered[o] = 1
                                    /\ op[o].policy = task.policy

-------------------------------------------------------------------------------
(* What a record tells, what the stages of the cycle rely on, and what the   *)
(* task does: with TaskSound, what every step keeps.                         *)

\* The operation at hand, and the one that its adoption suspends.
Held(o) == o = Cur \/ (Cur # NoOp /\ op[Cur].kind = "adopt_policy" /\ op[Cur].target = o)

RecordSound(o) ==
  /\ op[o].st = "absent" => op[o].kind = "exec" /\ op[o].target = NoOp
  /\ Started(o) => pc = "acting" /\ o = Cur
  /\ op[o].result # "absent" => op[o].st \in Finished
  /\ entered[o] = 1 => Started(o) \/ op[o].result # "absent"
  /\ op[o].result = "confirmed" => entered[o] = 1
  /\ op[o].target # NoOp => op[op[o].target].result # "absent"
  /\ op[o].seen = "confirmed" => op[o].target # NoOp /\ entered[op[o].target] = 1
  /\ op[o].kind = "adopt_policy" =>
       /\ op[o].policy \in 2..policy
       /\ op[o].target # NoOp => op[op[o].target].kind # "adopt_policy"
  /\ op[o].kind = "reconcile" => op[o].target # NoOp
  /\ op[o].kind = "reconcile" /\ op[o].result = "none" /\ Held(o) => op[o].seen # "absent"

StageSound ==
  /\ pc \notin {"off", "loop", "select"} => Cur # NoOp
  /\ pc = "select" => Cur = NoOp
  /\ pc = "lease" => op[Cur].st = "reviewed"
  /\ pc = "acting" => Started(Cur)
  /\ pc \in {"lease", "acting"} /\ op[Cur].kind = "exec" =>
       \A p \in Ops : p # Cur => op[p].result # "unknown"
  /\ pc = "acting" /\ op[Cur].kind \in Controlled => Lease(Cur)
  /\ pc \in {"final", "closed"} =>
       op[Cur].kind = "finish" /\ \A o \in Ops : op[o].result # "unknown"

RunSound ==
  /\ task.policy <= policy
  /\ ~task.pending => task.plan
  /\ stopping # "no" => ~Synchronous
  /\ stopping = "submit" => task.pending
  /\ pc = "closed" => task.status = "completed"
  /\ task.status = "completed" => pc \in {"off", "closed"} /\ stopping = "no"

ReviewInv == TaskSound /\ StageSound /\ RunSound /\ \A o \in Ops : RecordSound(o)
===============================================================================
