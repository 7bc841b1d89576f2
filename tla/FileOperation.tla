---------------------------- MODULE FileOperation ----------------------------
(***************************************************************************)
(* file_read, file_write and capability_request: the kinds the Executor    *)
(* runs in its own process.  A confined operation runs on the event loop,  *)
(* where no cancellation can reach it; a full-access one runs in a worker  *)
(* thread which the coroutine awaits behind a shield.                      *)
(*                                                                         *)
(* A file is a content; the digest of a content is the content itself,     *)
(* because the code only compares digests for equality.                    *)
(***************************************************************************)
EXTENDS ExecutorJournal

CONSTANTS
  Full,        \* operations dispatched with full_access=True
  Contents,    \* what the file can hold
  Absent,      \* the file does not exist
  Data,        \* Data[o]: the bytes write o puts there
  Expected,    \* Expected[o]: its expected_sha256, or Unchecked
  Unchecked,
  NewParent,   \* writes whose parent directory has to be created
  Edits        \* contents the user's other programs may leave in the file

ASSUME FileAssumption ==
  /\ Full \subseteq Ops
  /\ Absent \notin Contents
  /\ Data \in [Ops -> Contents]
  /\ Expected \in [Ops -> Contents \cup {Absent, Unchecked}]
  /\ NewParent \subseteq Ops
  /\ Edits \subseteq Contents \cup {Absent}

VARIABLES
  file,        \* the target file of the workspace
  before,      \* before[o]: the content recorded before o acts
  temps,       \* writes whose temporary file is on disk
  parents,     \* writes whose parent directories were created by them
  step,        \* step[o]: how far the file work of o is
  registrar,   \* the operation that registered the capability, or Nobody
  acted,       \* acted[o]: how often o changed the world (history)
  disturbed    \* operations whose effect an edit may have hidden (history)

fileVars == <<file, before, temps, parents, step, registrar>>
historyVars == <<acted, disturbed>>

Steps == {"none", "queued", "marked", "staged", "verified", "replaced",
          "ok", "error"}

FileInit ==
  /\ file = Absent
  /\ before = [o \in Ops |-> Absent]
  /\ temps = {}
  /\ parents = {}
  /\ step = [o \in Ops |-> "none"]
  /\ registrar = Nobody
  /\ acted = [o \in Ops |-> 0]
  /\ disturbed = {}

FileTypeOK ==
  /\ file \in Contents \cup {Absent}
  /\ before \in [Ops -> Contents \cup {Absent}]
  /\ temps \subseteq Ops
  /\ parents \subseteq Ops
  /\ step \in [Ops -> Steps]
  /\ registrar \in Ops \cup {Nobody}
  /\ acted \in [Ops -> Nat]
  /\ disturbed \subseteq Ops

FileKinds == {"file_read", "file_write", "capability_request"}

Advance(o, s) == step' = [step EXCEPT ![o] = s]
Act(o) == acted' = [acted EXCEPT ![o] = @ + 1]

\* execute() hands the operation to its file work.
StartWork(o) ==
  /\ current = o
  /\ at = "dispatch"
  /\ Kind[o] \in FileKinds
  /\ Advance(o, "queued")
  /\ Goto(IF o \in Full /\ Kind[o] # "capability_request" THEN "await_work" ELSE "file")
  /\ UNCHANGED <<journal, memory, current, answer, cancelled, stops,
                 file, before, temps, parents, registrar, historyVars>>

(***************************************************************************)
(* The work itself: run by the thread, or by the event loop.               *)
(***************************************************************************)
ReadFile(o) ==
  /\ Kind[o] = "file_read"
  /\ step[o] = "queued"
  /\ Advance(o, IF file = Absent THEN "error" ELSE "ok")
  /\ UNCHANGED <<journalVars, file, before, temps, parents, registrar, historyVars>>

\* Exclusive creation of the capability's file: the first operation that
\* registers a candidate owns it, a later one is handed the existing record.
Register(o) ==
  /\ Kind[o] = "capability_request"
  /\ step[o] = "queued"
  /\ IF registrar = Nobody
     THEN registrar' = o /\ Act(o)
     ELSE UNCHANGED <<registrar, acted>>
  /\ Advance(o, "ok")
  /\ UNCHANGED <<journalVars, file, before, temps, parents, disturbed>>

\* A schema, path or source check raises before anything is changed.
RejectWork(o) ==
  /\ step[o] = "queued"
  /\ Advance(o, "error")
  /\ UNCHANGED <<journalVars, file, before, temps, parents, registrar, historyVars>>

\* Fault: the write's record does not say that its target started.
MarkWriteUnstarted(o) ==
  /\ Kind[o] = "file_write"
  /\ step[o] = "queued"
  /\ Expected[o] \in {Unchecked, file}
  /\ Save(o, [memory[o] EXCEPT !.phase = "file_write_started"])
  /\ before' = [before EXCEPT ![o] = file]
  /\ Advance(o, "marked")
  /\ UNCHANGED <<current, at, answer, cancelled, stops, file, temps, parents,
                 registrar, historyVars>>

\* The write records its preimage and the intent to write before any effect.
MarkWrite(o) ==
  /\ Kind[o] = "file_write"
  /\ step[o] = "queued"
  /\ Expected[o] \in {Unchecked, file}
  /\ Save(o, [memory[o] EXCEPT !.phase = "file_write_started", !.started = TRUE])
  /\ before' = [before EXCEPT ![o] = file]
  /\ Advance(o, "marked")
  /\ UNCHANGED <<current, at, answer, cancelled, stops, file, temps, parents,
                 registrar, historyVars>>

\* mkdir(parents=True), then the temporary file.
StageWrite(o) ==
  /\ step[o] = "marked"
  /\ parents' = parents \cup ({o} \cap NewParent)
  /\ temps' = temps \cup {o}
  /\ Advance(o, "staged")
  /\ UNCHANGED <<journalVars, file, before, registrar, historyVars>>

\* The target is compared with the preimage once more before the replacement.
VerifyWrite(o) ==
  /\ step[o] = "staged"
  /\ IF file = before[o]
     THEN Advance(o, "verified") /\ UNCHANGED temps
     ELSE Advance(o, "error") /\ temps' = temps \ {o}
  /\ UNCHANGED <<journalVars, file, before, parents, registrar, historyVars>>

ReplaceFile(o) ==
  /\ step[o] = "verified"
  /\ file' = Data[o]
  /\ temps' = temps \ {o}
  /\ Act(o)
  /\ Advance(o, "replaced")
  /\ UNCHANGED <<journalVars, before, parents, registrar, disturbed>>

ReadBack(o) ==
  /\ step[o] = "replaced"
  /\ Advance(o, IF file = Data[o] THEN "ok" ELSE "error")
  /\ UNCHANGED <<journalVars, file, before, temps, parents, registrar, historyVars>>

\* mkdir, the temporary file or the replacement raises OSError.
BreakWrite(o) ==
  /\ step[o] \in {"marked", "staged", "verified"}
  /\ parents' \in {parents, parents \cup ({o} \cap NewParent)}
  /\ temps' = temps \ {o}
  /\ Advance(o, "error")
  /\ UNCHANGED <<journalVars, file, before, registrar, historyVars>>

Work(o) ==
  \/ ReadFile(o)
  \/ Register(o)
  \/ RejectWork(o)
  \/ MarkWrite(o)
  \/ StageWrite(o)
  \/ VerifyWrite(o)
  \/ ReplaceFile(o)
  \/ ReadBack(o)
  \/ BreakWrite(o)

(***************************************************************************)
(* The coroutine's side.                                                   *)
(***************************************************************************)
SuccessOf(o) ==
  Result("succeeded", IF Kind[o] = "file_read" THEN "none" ELSE "confirmed")

\* Fault: an exception of the work is never collected.
FinishWorkOnSuccess(o) ==
  /\ current = o
  /\ at \in {"file", "await_work", "await_again"}
  /\ step[o] = "ok" /\ Settle(o, SuccessOf(o), FALSE)
  /\ Advance(o, "none")
  /\ UNCHANGED <<cancelled, file, before, temps, parents, registrar, historyVars>>

\* The work has ended; its result, or its exception, becomes the record's.
FinishWork(o) ==
  /\ current = o
  /\ at \in {"file", "await_work", "await_again"}
  /\ \/ step[o] = "ok" /\ Settle(o, SuccessOf(o), FALSE) /\ UNCHANGED cancelled
     \/ step[o] = "error" /\ Fail(o)
  /\ Advance(o, "none")
  /\ UNCHANGED <<file, before, temps, parents, registrar, historyVars>>

\* Fault: the first cancellation already leaves the work behind.
CancelUnawaited(o) ==
  /\ current = o
  /\ at = "await_work"
  /\ Interrupt(o)
  /\ UNCHANGED <<fileVars, historyVars>>

\* The first cancellation leaves the shielded work alone and awaits it.
CancelShielded(o) ==
  /\ current = o
  /\ at = "await_work"
  /\ cancelled
  /\ cancelled' = FALSE
  /\ Goto("await_again")
  /\ UNCHANGED <<journal, memory, current, answer, stops, fileVars, historyVars>>

\* The second one interrupts that await: the thread is not stopped by it.
CancelUnshielded(o) ==
  /\ current = o
  /\ at = "await_again"
  /\ Interrupt(o)
  /\ UNCHANGED <<fileVars, historyVars>>

(***************************************************************************)
(* reconcile() of a record without a container: the effect is what the     *)
(* workspace shows now, and the operation is never promoted to success.    *)
(***************************************************************************)
ObservedEffect(o) ==
  CASE Kind[o] = "file_write" /\ journal[o].started ->
         IF file # before[o] \/ o \in temps \/ o \in parents
         THEN "confirmed" ELSE "none"
    [] Kind[o] = "capability_request" /\ registrar = o -> "confirmed"
    [] OTHER -> "none"

\* Fault: an observed effect is taken for the success of the operation.
ReconcileFileAsSuccess(o) ==
  /\ current = o
  /\ at = "reconcile"
  /\ Kind[o] \in FileKinds
  /\ Observed(o, Result(IF ObservedEffect(o) = "confirmed" THEN "succeeded" ELSE "failed",
                        ObservedEffect(o)))
  /\ UNCHANGED <<fileVars, historyVars>>

ReconcileFile(o) ==
  /\ current = o
  /\ at = "reconcile"
  /\ Kind[o] \in FileKinds
  /\ Observed(o, Result("failed", ObservedEffect(o)))
  /\ UNCHANGED <<fileVars, historyVars>>

\* The workspace or the file cannot be read: the fault is saved, the result is
\* not, and the operation stays open.
ReconcileFileFails(o) ==
  /\ current = o
  /\ at = "reconcile"
  /\ Kind[o] \in FileKinds
  /\ journal' = [journal EXCEPT ![o].fault = TRUE]
  /\ answer' = [answer EXCEPT ![o] = Unknown]
  /\ current' = Nobody
  /\ Goto("idle")
  /\ cancelled' = FALSE
  /\ stops' = 0
  /\ UNCHANGED <<memory, fileVars, historyVars>>

\* Another program of the user changes the file.
EditFile ==
  /\ file' \in Edits \ {file}
  /\ disturbed' = disturbed \cup {o \in Ops : acted[o] > 0}
  /\ UNCHANGED <<journalVars, before, temps, parents, step, registrar, acted>>

\* A crash stops every worker; what it left on disk stays.
LoseWorkers ==
  /\ step' = [o \in Ops |-> "none"]
  /\ UNCHANGED <<file, before, temps, parents, registrar, historyVars>>

=============================================================================
