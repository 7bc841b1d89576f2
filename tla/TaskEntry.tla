------------------------------ MODULE TaskEntry ------------------------------
(***************************************************************************)
(* How a task comes in and what it may do (store.py create_task and        *)
(* claim_submission_start, server.py new_task, access.py and its callers   *)
(* in practical_engine.py).  A client repeats a submission until it has an *)
(* answer; the user changes the access mode, answers approvals and adds    *)
(* instructions while an operation is being prepared; the process may die  *)
(* between any two commits.  A handler that does not await is one chain of *)
(* steps that only a crash interrupts.                                     *)
(***************************************************************************)
EXTENDS Naturals

CONSTANTS Payloads, MaxSources, MaxRevisions, MaxOps, MaxCrashes

VARIABLES
    task,      \* the task of the submission: its row, source and access records
    claimed,   \* task_submissions.start_claimed
    request,   \* how far the create request being served is
    starts,    \* how often a create request started the engine
    approval,  \* tool_approval: the answer to each exact request
    allowed,   \* what the user really allowed: source, access revision, operation
    engine,    \* the run of the task
    op,        \* the operation the saved model answer asks for
    count,     \* how many operations came before it
    act,       \* the last action taken, with the access it was taken under
    crashes

vars == <<task, claimed, request, starts, approval, allowed, engine, op, count, act, crashes>>

Modes == {"workspace", "ask", "read_only", "full"}
Tools == {"read", "program", "command", "web"}
WriteTools == {"program", "command"}

Bindings == [source : 1 .. MaxSources, revision : 0 .. MaxRevisions, op : 1 .. MaxOps]

NoTask == [status |-> "none", payload |-> 0, runtime |-> FALSE, source |-> 1,
           mode |-> "workspace", revision |-> 0]
NoOp == [tool |-> "none", status |-> "none", full |-> FALSE, source |-> 0]
NoAct == [tool |-> "none", mode |-> "workspace", full |-> FALSE, allowed |-> FALSE]

Init ==
    /\ task = NoTask /\ claimed = FALSE /\ request = "idle" /\ starts = 0
    /\ approval = [b \in Bindings |-> "none"] /\ allowed = {}
    /\ engine = "idle" /\ op = NoOp /\ count = 0 /\ act = NoAct
    /\ crashes = 0

\* The event loop serves another request only when nothing runs without awaiting.
Served == request = "idle" /\ engine # "saved"

-----------------------------------------------------------------------------
(* Submission                                                              *)

\* Row, sources, access options and event are one transaction.  A payload may
\* carry an access mode; a repeat must carry the same content.
CreateTask(p) ==
    /\ Served
    /\ task.status # "none" => task.payload = p
    /\ task' = IF task.status # "none" THEN task
               ELSE IF p = 1 THEN [NoTask EXCEPT !.status = "created", !.payload = p]
               ELSE [NoTask EXCEPT !.status = "created", !.payload = p,
                                   !.mode = "ask", !.revision = 1]
    /\ request' = "created"
    /\ UNCHANGED <<claimed, starts, approval, allowed, engine, op, count, act, crashes>>

\* Fault: every request for an unstarted task starts it.
UnclaimedAny == task.status \in {"created", "recovery_required"}

\* Only an untouched submission is started, and only once.
Unclaimed == ~claimed /\ task.status = "created"

ClaimStart ==
    /\ request = "created"
    /\ IF Unclaimed
         THEN claimed' = TRUE /\ task' = [task EXCEPT !.status = "running"] /\ request' = "claimed"
         ELSE UNCHANGED <<claimed, task>> /\ request' = "idle"
    /\ UNCHANGED <<starts, approval, allowed, engine, op, count, act, crashes>>

\* start_task marks the row as this runtime's and schedules the run.
Scheduled == engine' = "starting" /\ task' = [task EXCEPT !.runtime = TRUE]

Dispatch ==
    /\ request = "claimed" /\ request' = "idle"
    /\ \/ Scheduled /\ starts' = starts + 1
       \/ \* the service is about to restart: dispatch_unknown
          /\ task' = [task EXCEPT !.status = "recovery_required"]
          /\ UNCHANGED <<engine, starts>>
    /\ UNCHANGED <<claimed, approval, allowed, op, count, act, crashes>>

-----------------------------------------------------------------------------
(* Access                                                                  *)

\* Fault: an approval outlives the access mode it was given under.
BindingOfAnyRevision(o) == [source |-> task.source, revision |-> 0, op |-> o]

\* The exact request: this task's instructions, access revision and operation.
Binding(o) == [source |-> task.source, revision |-> task.revision, op |-> o]

This == Binding(count + 1)

Forbidden ==
    \/ op.tool = "command" /\ task.mode # "full"
    \/ task.mode = "read_only" /\ op.tool \in WriteTools
Asks == task.mode = "ask" /\ op.tool # "read"

Refused == Forbidden \/ (Asks /\ approval[This] = "rejected")
Waits == ~Forbidden /\ Asks /\ approval[This] \in {"none", "awaiting_user"}
Passes == ~Refused /\ ~Waits

\* check records what it waits for.
Asked == approval' = [approval EXCEPT ![This] = "awaiting_user"]

\* _execute_saved, check_access: instructions and kind of access as when it was saved.
Unmoved == op.source = task.source /\ op.full = (task.mode = "full")

-----------------------------------------------------------------------------
(* The run                                                                 *)

Begin ==
    /\ engine = "starting" /\ Served
    /\ engine' = "turn"
    /\ task' = [task EXCEPT !.status = "running"]
    /\ UNCHANGED <<claimed, request, starts, approval, allowed, op, count, act, crashes>>

\* The saved answer of a model call asks for a tool.
Answer(t) ==
    /\ engine = "turn" /\ Served /\ op.status = "none" /\ count < MaxOps
    /\ op' = [NoOp EXCEPT !.tool = t, !.status = "asked", !.source = task.source]
    /\ UNCHANGED <<task, claimed, request, starts, approval, allowed, engine, count, act, crashes>>

Finished == op' = NoOp /\ count' = count + 1
Await == engine' = "idle" /\ task' = [task EXCEPT !.status = "awaiting_user"]

\* _perform: a refusal is a failed result of the operation, a question ends the run.
Perform ==
    /\ engine = "turn" /\ op.status = "asked"
    /\ \/ Refused /\ Finished /\ UNCHANGED <<task, approval, engine>>
       \/ Waits /\ Asked /\ Await /\ UNCHANGED <<op, count>>
       \/ /\ Passes
          /\ op' = [op EXCEPT !.status = "proposed", !.full = (task.mode = "full")]
          /\ engine' = "saved"
          /\ UNCHANGED <<task, approval, count>>
    /\ UNCHANGED <<claimed, request, starts, allowed, act, crashes>>

\* _execute_saved; also when a run finds the row of an earlier one.
ExecuteSaved ==
    /\ op.status = "proposed" /\ engine \in {"turn", "saved"}
    /\ \/ /\ Unmoved /\ Passes
          /\ op' = [op EXCEPT !.status = "executing"]
          /\ engine' = IF op.tool = "program" THEN "prepare" ELSE "execute"
          /\ UNCHANGED <<task, approval>>
       \/ Unmoved /\ Waits /\ Asked /\ Await /\ UNCHANGED op
       \/ /\ ~Unmoved \/ Refused      \* ACCESS_CHANGED, or refused: the task is held
          /\ engine' = "idle" /\ task' = [task EXCEPT !.status = "held"]
          /\ UNCHANGED <<op, approval>>
    /\ UNCHANGED <<claimed, request, starts, allowed, count, act, crashes>>

\* The environment is prepared; access is checked again, and a question asked
\* here is no longer waited for: the operation fails.
Prepared ==
    /\ engine = "prepare" /\ Served
    /\ \/ Passes /\ engine' = "execute" /\ UNCHANGED <<op, count, approval>>
       \/ /\ ~Passes
          /\ IF Waits THEN Asked ELSE UNCHANGED approval
          /\ Finished /\ engine' = "turn"
    /\ UNCHANGED <<task, claimed, request, starts, allowed, act, crashes>>

\* Fault: the executor relies on the checks made before it was called.
NotChecked == TRUE

\* The check the executor makes at the last moment, before_start.
BeforeStart == Unmoved /\ Passes

Act ==
    /\ engine = "execute" /\ Served
    /\ \/ /\ BeforeStart
          /\ act' = [tool |-> op.tool, mode |-> task.mode, full |-> op.full,
                     allowed |-> <<task.source, task.revision, count + 1>> \in allowed]
          /\ UNCHANGED approval
       \/ /\ ~BeforeStart
          /\ IF Unmoved /\ Waits THEN Asked ELSE UNCHANGED approval
          /\ UNCHANGED act
    /\ Finished /\ engine' = "turn"
    /\ UNCHANGED <<task, claimed, request, starts, allowed, crashes>>

-----------------------------------------------------------------------------
(* The user                                                                *)

Running == engine # "idle"
Start == engine' = IF Running THEN engine ELSE "starting"

\* Access.set, and task_access that resumes a task that was waiting.
SetAccess(m) ==
    /\ Served /\ task.runtime /\ task.revision < MaxRevisions
    /\ task' = [task EXCEPT !.mode = m, !.revision = @ + 1]
    /\ IF task.status = "awaiting_user" THEN Start ELSE UNCHANGED engine
    /\ UNCHANGED <<claimed, request, starts, approval, allowed, op, count, act, crashes>>

\* Access.resolve: only for the instructions and the access it was asked under.
Resolve(b, answer) ==
    /\ Served /\ approval[b] = "awaiting_user"
    /\ b = Binding(b.op)
    /\ approval' = [approval EXCEPT ![b] = answer]
    /\ allowed' = IF answer = "approved"
                    THEN allowed \cup {<<task.source, task.revision, b.op>>} ELSE allowed
    /\ IF task.status = "awaiting_user" THEN Start ELSE UNCHANGED engine
    /\ UNCHANGED <<task, claimed, request, starts, op, count, act, crashes>>

\* What was started is recorded as interrupted; what was saved stays.
Interrupted == IF op.status = "executing" THEN Finished ELSE UNCHANGED <<op, count>>

Stop ==
    /\ Served /\ task.runtime
    /\ engine' = "idle"
    /\ task' = [task EXCEPT !.status = "stopped"]
    /\ Interrupted
    /\ UNCHANGED <<claimed, request, starts, approval, allowed, act, crashes>>

\* A message stops the run, supersedes what was not started and starts again.
Message ==
    /\ Served /\ task.runtime /\ task.source < MaxSources
    /\ task' = [task EXCEPT !.source = @ + 1, !.status = "source_update_required"]
    /\ engine' = "starting"
    /\ IF op.status = "none" THEN UNCHANGED <<op, count>> ELSE Finished
    /\ UNCHANGED <<claimed, request, starts, approval, allowed, act, crashes>>

Resume ==
    /\ Served /\ ~Running /\ task.status \notin {"none", "created"}
    /\ Scheduled
    /\ UNCHANGED <<claimed, request, starts, approval, allowed, op, count, act, crashes>>

\* The next process marks the running tasks of its own runtime for recovery.
Crash ==
    /\ crashes < MaxCrashes /\ crashes' = crashes + 1
    /\ task' = IF task.status = "running" /\ task.runtime
                 THEN [task EXCEPT !.status = "recovery_required"] ELSE task
    /\ request' = "idle" /\ engine' = "idle"
    /\ Interrupted
    /\ UNCHANGED <<claimed, starts, approval, allowed, act>>

\* It may die between the new access and the resumption of the task.
SetAccessDies(m) ==
    /\ crashes < MaxCrashes /\ crashes' = crashes + 1
    /\ Served /\ ~Running /\ task.status = "awaiting_user" /\ task.revision < MaxRevisions
    /\ task' = [task EXCEPT !.mode = m, !.revision = @ + 1]
    /\ UNCHANGED <<claimed, request, starts, approval, allowed, engine, op, count, act>>

Next ==
    \/ \E p \in Payloads : CreateTask(p)
    \/ ClaimStart \/ Dispatch \/ Begin \/ \E t \in Tools : Answer(t)
    \/ Perform \/ ExecuteSaved \/ Prepared \/ Act
    \/ \E m \in Modes : SetAccess(m) \/ SetAccessDies(m)
    \/ \E b \in Bindings : \E a \in {"approved", "rejected"} : Resolve(b, a)
    \/ Stop \/ Message \/ Resume \/ Crash

Spec == Init /\ [][Next]_vars

-----------------------------------------------------------------------------
(* However often the client repeats a submission and wherever the process  *)
(* died, it is started at most once, and only after the claim was saved    *)
(* (claim_submission_start).                                               *)
StartedOnce == starts <= 1 /\ (starts = 1 => claimed)

(* Whatever the user changed while an operation was prepared or waited for *)
(* its turn, it acts only under the access of that moment: nothing is      *)
(* written read-only, a command needs full access, and in ask mode the     *)
(* user allowed this operation under this access and these instructions    *)
(* (check_access as before_start).                                         *)
ActedWithConsent ==
    /\ act.tool \in WriteTools => act.mode # "read_only"
    /\ act.tool = "command" => act.mode = "full"
    /\ act.full = (act.mode = "full")
    /\ act.mode = "ask" /\ act.tool # "read" => act.allowed

(* A task that waits for the user shows a question that can be answered,   *)
(* unless a process died between an answer and the resumption it causes    *)
(* (pending, resolve_approval, task_access).                               *)
AskedIsAnswerable ==
    task.status = "awaiting_user" /\ ~Running /\ crashes = 0 => approval[This] = "awaiting_user"

EntrySound == StartedOnce /\ ActedWithConsent /\ AskedIsAnswerable

(* What the handlers rely on: the start is claimed before the engine is     *)
(* started, an answered question is one the user answered, and a number is  *)
(* left for every operation that is asked for.                              *)
Tasks ==
    [status : {"none", "created", "running", "awaiting_user", "held", "stopped",
               "source_update_required", "recovery_required"},
     payload : Payloads \cup {0}, runtime : BOOLEAN, source : 1 .. MaxSources,
     mode : Modes, revision : 0 .. MaxRevisions]
Operations == [tool : Tools \cup {"none"}, status : {"none", "asked", "proposed", "executing"},
               full : BOOLEAN, source : 0 .. MaxSources]
Answers == {"none", "awaiting_user", "approved", "rejected"}

EntryTypes ==
    /\ task \in Tasks
    /\ claimed \in BOOLEAN /\ starts \in 0 .. 1
    /\ approval \in [Bindings -> Answers]
    /\ op \in Operations
    /\ count \in 0 .. MaxOps /\ crashes \in 0 .. MaxCrashes

ClaimedFirst == request = "claimed" => claimed /\ starts = 0
ApprovedByUser ==
    \A b \in Bindings : approval[b] = "approved" => <<b.source, b.revision, b.op>> \in allowed
OperationOpen ==
    /\ engine \in {"prepare", "execute"} => op.status = "executing"
    /\ op.status # "none" => count < MaxOps

EntryInv == EntryTypes /\ ClaimedFirst /\ ApprovedByUser /\ OperationOpen /\ EntrySound

(* "the persisted running state enters normal controller restart recovery  *)
(* even if the process dies before scheduling the engine" (store.py,       *)
(* claim_submission_start): a task that is shown as running is run.        *)
RunningIsRun == task.status = "running" /\ request = "idle" => Running
=============================================================================
