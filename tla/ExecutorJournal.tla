--------------------------- MODULE ExecutorJournal ---------------------------
(***************************************************************************)
(* What every operation of the Executor shares, whatever it runs: the      *)
(* durable journal (one JSON file per operation id), the in-memory copy of *)
(* the record that a running execute() edits and saves, the workspace      *)
(* lease, and the prologue and epilogue of execute().                      *)
(*                                                                         *)
(* One workspace is modelled: the lease, the journal scan and the blockers *)
(* are all per workspace.  Several processes may share it in turn; a crash *)
(* loses memory and the lease and keeps the journal.                       *)
(***************************************************************************)
EXTENDS Naturals, FiniteSets

CONSTANTS
  Ops,        \* operation ids
  Kind,       \* Kind[o]: what operation o does
  Nobody,     \* no operation holds the lease
  MaxStops    \* cancellations one execute() may receive

Kinds == {"file_read", "file_write", "capability_request", "container", "native"}

ASSUME KindAssumption == Kind \in [Ops -> Kinds]
ASSUME NobodyAssumption == Nobody \notin Ops
ASSUME MaxStopsAssumption == MaxStops \in Nat

VARIABLES
  journal,    \* journal[o]: the record on disk
  memory,     \* memory[o]: the dict execute() (and its worker thread) edits
  current,    \* the operation holding the lease, or Nobody
  at,         \* where the coroutine of the current operation is
  answer,     \* answer[o]: the result last returned to a caller
  cancelled,  \* a cancellation not yet delivered to the coroutine
  stops       \* cancellations this execute() has been sent

journalVars == <<journal, memory, current, at, answer, cancelled, stops>>

Phases == {"absent", "prepared", "file_write_started", "creating", "created",
           "starting", "native_prepared", "native_started", "finished",
           "unresolved"}

Labels == {"idle", "dispatch", "file", "await_work", "await_again", "creating",
           "created", "attaching", "attached", "observe", "native",
           "reconcile", "cleanup", "return"}

Results == [status: {"missing", "succeeded", "failed", "unknown", "pending"},
            effect: {"none", "confirmed", "unknown"}]

\* started: target_started; named: container_name; identified: container_id;
\* native: the native flag; fault: first_fault is set.
Records == [phase: Phases, started: BOOLEAN, named: BOOLEAN, identified: BOOLEAN,
            native: BOOLEAN, fault: BOOLEAN, result: Results]

Result(status, effect) == [status |-> status, effect |-> effect]
Missing == Result("missing", "none")      \* no result has been recorded
Unknown == Result("unknown", "unknown")
FailedNone == Result("failed", "none")

NoRecord == [phase |-> "absent", started |-> FALSE, named |-> FALSE,
             identified |-> FALSE, native |-> FALSE, fault |-> FALSE,
             result |-> Missing]

Prepared == [NoRecord EXCEPT !.phase = "prepared"]

JournalInit ==
  /\ journal = [o \in Ops |-> NoRecord]
  /\ memory = [o \in Ops |-> NoRecord]
  /\ current = Nobody
  /\ at = "idle"
  /\ answer = [o \in Ops |-> Missing]
  /\ cancelled = FALSE
  /\ stops = 0

JournalTypeOK ==
  /\ journal \in [Ops -> Records]
  /\ memory \in [Ops -> Records]
  /\ current \in Ops \cup {Nobody}
  /\ at \in Labels
  /\ answer \in [Ops -> Results]
  /\ cancelled \in BOOLEAN
  /\ stops \in 0..MaxStops

(***************************************************************************)
(* execute(), up to the dispatch on the kind.  Nothing is awaited between  *)
(* the lease and the dispatch, so each outcome is one step.                *)
(***************************************************************************)
IsFinished(r) == r.phase = "finished" /\ r.result # Missing

\* Fault: only records whose target started count as unresolved.
UnresolvedStarted(o) ==
  {p \in Ops \ {o} : /\ journal[p].started
                     /\ \/ journal[p].phase # "finished"
                        \/ journal[p].result.effect = "unknown"}

\* An operation of the workspace whose journal is not finished, or whose
\* finished result still has an unknown effect.
Unresolved(o) ==
  {p \in Ops \ {o} : /\ journal[p].phase # "absent"
                     /\ \/ journal[p].phase # "finished"
                        \/ journal[p].result.effect = "unknown"}

Enter(o, label) ==
  /\ current' = o
  /\ at' = label
  /\ cancelled' = FALSE
  /\ stops' = 0

Replay(o) ==
  /\ current = Nobody
  /\ IsFinished(journal[o])
  /\ answer' = [answer EXCEPT ![o] = journal[o].result]
  /\ UNCHANGED <<journal, memory, current, at, cancelled, stops>>

\* Fault: a repeated call runs the operation again instead of reconciling it.
ReenterToRetry(o) ==
  /\ current = Nobody
  /\ journal[o].phase # "absent"
  /\ ~IsFinished(journal[o])
  /\ Enter(o, "dispatch")
  /\ memory' = [memory EXCEPT ![o] = journal[o]]
  /\ UNCHANGED <<journal, answer>>

Reenter(o) ==
  /\ current = Nobody
  /\ journal[o].phase # "absent"
  /\ ~IsFinished(journal[o])
  /\ Enter(o, "reconcile")
  /\ UNCHANGED <<journal, memory, answer>>

Refuse(o) ==
  /\ current = Nobody
  /\ journal[o].phase = "absent"
  /\ Unresolved(o) # {}
  /\ answer' = [answer EXCEPT ![o] = Result("pending", "none")]
  /\ UNCHANGED <<journal, memory, current, at, cancelled, stops>>

Prepare(o) ==
  /\ current = Nobody
  /\ journal[o].phase = "absent"
  /\ Unresolved(o) = {}
  /\ journal' = [journal EXCEPT ![o] = Prepared]
  /\ memory' = [memory EXCEPT ![o] = Prepared]
  /\ Enter(o, "dispatch")
  /\ UNCHANGED answer

(***************************************************************************)
(* Edits of the in-memory record, with or without a _save.                 *)
(***************************************************************************)
Save(o, r) ==
  /\ memory' = [memory EXCEPT ![o] = r]
  /\ journal' = [journal EXCEPT ![o] = r]

Goto(label) == at' = label

\* Fault: the result's status is stored as the record's phase.
PhaseOfStatus(r) == r.status

\* The phase the epilogue of execute() gives a record with result r.
PhaseOf(r) ==
  IF r.effect # "unknown" /\ r.status # "pending" THEN "finished" ELSE "unresolved"

\* The epilogue: store the result in the record, choose the phase, save.  An
\* exec with a known container goes on to remove it.
Settle(o, r, faulted) ==
  LET settled == [memory[o] EXCEPT !.result = r, !.phase = PhaseOf(r),
                                   !.fault = @ \/ faulted]
  IN /\ Save(o, settled)
     /\ Goto(IF settled.phase = "finished" /\ settled.identified
             THEN "cleanup" ELSE "return")
     /\ UNCHANGED <<current, answer, stops>>

\* except (OSError, ValueError, PolicyError)
Fail(o) ==
  /\ Settle(o, IF memory[o].started THEN Unknown ELSE FailedNone, TRUE)
  /\ UNCHANGED cancelled

\* except asyncio.CancelledError
Interrupt(o) ==
  /\ cancelled
  /\ cancelled' = FALSE
  /\ Settle(o, IF memory[o].started \/ memory[o].named THEN Unknown ELSE FailedNone,
            TRUE)

\* The lease is released and the caller has the result.
Return(o) ==
  /\ current = o
  /\ at = "return"
  /\ answer' = [answer EXCEPT ![o] = memory[o].result]
  /\ current' = Nobody
  /\ Goto("idle")
  /\ cancelled' = FALSE
  /\ stops' = 0
  /\ UNCHANGED <<journal, memory>>

\* A stop of the task: handle.cancel() while execute() or reconcile() runs.
RequestStop ==
  /\ current # Nobody
  /\ ~cancelled
  /\ stops < MaxStops
  /\ cancelled' = TRUE
  /\ stops' = stops + 1
  /\ UNCHANGED <<journal, memory, current, at, answer>>

(***************************************************************************)
(* reconcile(): observe, never start.  Trusted callers call it without the *)
(* lease, but never while execute() runs in the same task.                 *)
(***************************************************************************)
\* Fault: reconcile() observes finished records again.
RecoverFinished(o) ==
  /\ current = Nobody
  /\ journal[o].phase # "absent"
  /\ Enter(o, "reconcile")
  /\ UNCHANGED <<journal, memory, answer>>

Recover(o) ==
  /\ current = Nobody
  /\ journal[o].phase # "absent"
  /\ ~IsFinished(journal[o])
  /\ Enter(o, "reconcile")
  /\ UNCHANGED <<journal, memory, answer>>

\* Fault: the observation is returned and not stored.
ObservedUnsaved(o, r) ==
  /\ answer' = [answer EXCEPT ![o] = r]
  /\ current' = Nobody
  /\ Goto("idle")
  /\ cancelled' = FALSE
  /\ stops' = 0
  /\ UNCHANGED <<journal, memory>>

\* Store what was observed in the record read from disk and return it.
Observed(o, r) ==
  /\ journal' = [journal EXCEPT ![o].result = r, ![o].phase = PhaseOf(r),
                                ![o].fault = TRUE]
  /\ answer' = [answer EXCEPT ![o] = r]
  /\ current' = Nobody
  /\ Goto("idle")
  /\ cancelled' = FALSE
  /\ stops' = 0
  /\ UNCHANGED memory

\* A cancellation while reconcile() awaits the container engine: nothing is
\* recorded, the caller sees the exception.
AbandonReconcile(o) ==
  /\ current = o
  /\ at = "reconcile"
  /\ cancelled
  /\ journal[o].named
  /\ current' = Nobody
  /\ Goto("idle")
  /\ cancelled' = FALSE
  /\ stops' = 0
  /\ UNCHANGED <<journal, memory, answer>>

\* The controller process dies: memory, the lease and every thread go.
LoseProcess ==
  /\ memory' = [o \in Ops |-> NoRecord]
  /\ current' = Nobody
  /\ Goto("idle")
  /\ cancelled' = FALSE
  /\ stops' = 0
  /\ UNCHANGED <<journal, answer>>

=============================================================================
