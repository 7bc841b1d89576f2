------------------------------- MODULE Executor -------------------------------
(***************************************************************************)
(* The Executor: execute() and reconcile() over one journal, for files,    *)
(* capability registrations, containers and native commands, with          *)
(* cancellations, crashes, edits by the user's other programs and a        *)
(* container engine that answers late.                                     *)
(***************************************************************************)
EXTENDS CommandOperation

vars == <<journalVars, fileVars, historyVars, containerVars, nativeVars>>

Init ==
  /\ JournalInit
  /\ FileInit
  /\ ContainerInit
  /\ NativeInit

TypeOK ==
  /\ JournalTypeOK
  /\ FileTypeOK
  /\ ContainerTypeOK
  /\ NativeTypeOK

targetVars == <<fileVars, historyVars, containerVars, nativeVars>>

JournalStep(o) ==
  /\ \/ Replay(o) \/ Reenter(o) \/ Refuse(o) \/ Prepare(o)
     \/ Return(o) \/ Recover(o) \/ AbandonReconcile(o)
  /\ UNCHANGED targetVars

\* A container or native record without the field that tells how to look for
\* its target: unknown, and nothing is saved.
ReconcileUnspecified(o) ==
  /\ Running(o, "reconcile")
  /\ Kind[o] \in {"container", "native"}
  /\ ~journal[o].named /\ ~journal[o].native
  /\ answer' = [answer EXCEPT ![o] = Unknown]
  /\ current' = Nobody
  /\ Goto("idle")
  /\ cancelled' = FALSE
  /\ stops' = 0
  /\ UNCHANGED <<journal, memory, targetVars>>

FileStep(o) ==
  /\ \/ StartWork(o) \/ FinishWork(o) \/ CancelShielded(o)
     \/ CancelUnshielded(o) \/ ReconcileFile(o) \/ ReconcileFileFails(o)
  /\ UNCHANGED <<containerVars, nativeVars>>

WorkStep(o) == Work(o) /\ UNCHANGED <<containerVars, nativeVars>>

ContainerStep(o) ==
  /\ \/ RejectContainer(o) \/ InterruptBeforeCreate(o) \/ RequestCreate(o)
     \/ CreateReplied(o) \/ CreateRefused(o) \/ CreateLost(o)
     \/ RecheckAndStart(o) \/ RefuseStart(o) \/ InterruptContainer(o)
     \/ SpawnAttach(o) \/ SpawnFails(o) \/ AttachEnds(o) \/ StopAttached(o)
     \/ ObserveTerminal(o) \/ ObserveNothing(o) \/ Cleanup(o)
     \/ KillOwned(o) \/ ReconcileTerminal(o) \/ ReconcileRunning(o)
     \/ ReconcileUnobserved(o)
  /\ UNCHANGED nativeVars

EngineStep(o) == Engine(o) /\ UNCHANGED nativeVars

NativeStep(o) ==
  /\ \/ RejectCommand(o) \/ PrepareNative(o) \/ Launch(o) \/ LaunchFails(o)
     \/ Go(o) \/ StopNative(o) \/ InterruptNative(o) \/ BreakNative(o)
     \/ FinishNative(o) \/ ReconcileNative(o)
  /\ UNCHANGED containerVars

CommandStep(o) == (ExitNative(o) \/ CloseOutput(o)) /\ UNCHANGED containerVars

Stop == RequestStop /\ UNCHANGED targetVars

Edit == EditFile /\ UNCHANGED <<containerVars, nativeVars>>

Crash ==
  /\ LoseProcess
  /\ LoseWorkers
  /\ LoseNative
  /\ UNCHANGED containerVars

Next ==
  \/ \E o \in Ops : \/ JournalStep(o) \/ ReconcileUnspecified(o)
                    \/ FileStep(o) \/ WorkStep(o)
                    \/ ContainerStep(o) \/ EngineStep(o)
                    \/ NativeStep(o) \/ CommandStep(o)
  \/ Stop
  \/ Edit
  \/ Crash

Spec == Init /\ [][Next]_vars

\* The waits for the container engine, and the time limits that end them.
Waiting == at \in {"creating", "attached"}

TimeLimit(o) == (CreateLost(o) \/ StopAttached(o)) /\ UNCHANGED nativeVars

\* The output of a command is read to its end without a time limit; only a
\* cancellation ends that wait.
OutputHeld(o) == InNative(o) /\ process[o] = "held"
NativeProgress(o) ==
  \/ NativeStep(o) /\ ~OutputHeld(o)
  \/ InterruptNative(o) /\ UNCHANGED containerVars

\* The event loop runs the coroutine that holds the lease, and the operating
\* system runs its worker.  Nothing is assumed of the container engine, the
\* commands, the user, or callers: a wait for the engine or for a command is
\* ended by its time limit, and one for the output of a command by nothing.
Fairness ==
  /\ \A o \in Ops :
       WF_vars(/\ current = o
               /\ \/ Return(o) /\ UNCHANGED targetVars
                  \/ FileStep(o)
                  \/ ContainerStep(o) /\ ~Waiting
                  \/ TimeLimit(o)
                  \/ NativeProgress(o)
                  \/ ReconcileUnspecified(o))
  /\ \A o \in Ops : WF_vars(WorkStep(o))

FairSpec == Spec /\ Fairness

-------------------------------------------------------------------------------
(***************************************************************************)
(* Safety.                                                                 *)
(***************************************************************************)
\* However often execute() and reconcile() are called for one operation, by
\* retries, replays or after crashes, its target acts at most once.
ActsAtMostOnce == \A o \in Ops : acted[o] <= 1

\* Intent before effect: whenever a file was replaced, a container ran or a
\* command was given to its launcher, the journal on disk already says that
\* the target started, so no crash can make the effect look impossible.
IntentBeforeEffect ==
  \A o \in Ops : acted[o] > 0 /\ Kind[o] # "capability_request" => journal[o].started

\* Recorded success means the target acted, and only one whose own end was
\* seen: not a container or command that was stopped or failed.
SeenThrough(o) ==
  /\ Kind[o] = "file_write" => acted[o] = 1
  /\ Kind[o] = "container" => acted[o] = 1 /\ exitOk[o]
  /\ Kind[o] = "native" => acted[o] = 1 /\ commandOk[o]

SuccessIsReal ==
  \A o \in Ops : journal[o].result.status = "succeeded" => SeenThrough(o)

\* At most one operation of the workspace is open: an unfinished record, or
\* one with an unknown effect, keeps every other operation from starting.
Open(o) == /\ journal[o].phase # "absent"
           /\ journal[o].phase # "finished"

OneOpen == \A o, p \in Ops : Open(o) /\ Open(p) => o = p

\* "Atomic file operations already started must finish recording their actual
\* result before cancellation": no worker is at work on an operation whose
\* execute() is over.
WorkFinishesFirst ==
  \A o \in Ops : step[o] \notin {"none", "ok", "error"} => current = o

\* A file operation or command reported to have had no effect had none, now
\* and later, unless another program (a container that started late is one) has
\* since changed the file or the write left the bytes it found.
NoEffect(o) ==
  \/ acted[o] = 0
  \/ o \in disturbed
  \/ Kind[o] = "file_write" /\ Data[o] = before[o]

NoneStaysTrue ==
  \A o \in Ops : answer[o] = FailedNone /\ Kind[o] # "container" => NoEffect(o)

(***************************************************************************)
(* What no step may do.                                                    *)
(***************************************************************************)
\* A finished record is final: its result and its phase never change again,
\* through later calls, cancellations and restarts.
StaysFinished(o) ==
  IsFinished(journal[o]) =>
    journal'[o].result = journal[o].result /\ IsFinished(journal'[o])

FinishedIsFinal == [][\A o \in Ops : StaysFinished(o)]_vars

\* Callers are never told two different outcomes of one operation.
StaysTold(o) == answer[o].status \in {"succeeded", "failed"} => answer'[o] = answer[o]

OneOutcome == [][\A o \in Ops : StaysTold(o)]_vars

\* Recovery only observes: a result recorded by reconcile() is never success.
ObservesOnly(o) ==
  at = "reconcile" /\ current = o => journal'[o].result.status # "succeeded"

NeverPromoted == [][\A o \in Ops : ObservesOnly(o)]_vars

\* What a caller or the disk was once told of an operation stays so.
OutcomesAreFinal == FinishedIsFinal /\ OneOutcome /\ NeverPromoted

\* When "no effect" is put on record for a container, its program has not
\* started by then.
RecordedNone(o) ==
  /\ Kind[o] = "container"
  /\ journal'[o].result # journal[o].result
  /\ journal'[o].result.effect = "none"
  => acted'[o] = 0

NoneWhenRecorded == [][\A o \in Ops : RecordedNone(o)]_vars

(***************************************************************************)
(* Liveness.                                                               *)
(***************************************************************************)
\* Every call ends: neither a lost reply of the container engine, a hanging
\* command nor a cancelled worker keeps the workspace lease for ever.  Only a
\* process that left the command's group and keeps its output open does, as long
\* as nobody cancels the call.
CallsEnd ==
  \A o \in Ops : current = o ~> (current # o \/ [](OutputHeld(o) /\ ~cancelled))

\* "Descendants may still own those pipes; close their job before draining": then
\* the time limits end every call.
EveryCallEnds == \A o \in Ops : current = o ~> current # o

-------------------------------------------------------------------------------
(***************************************************************************)
(* Why ActsAtMostOnce and IntentBeforeEffect hold: the inductive invariant *)
(* of their proofs, in named parts.                                        *)
(***************************************************************************)
\* Each kind of target belongs to operations of one kind.
OwnTarget(o) ==
  /\ step[o] # "none" => Kind[o] \in FileKinds
  /\ step[o] \in {"marked", "staged", "verified", "replaced"} => Kind[o] = "file_write"
  /\ box[o] # "none" => Kind[o] = "container"
  /\ \A verb \in Verbs : <<o, verb>> \in wire => Kind[o] = "container"
  /\ process[o] # "none" => Kind[o] = "native"

OwnLabel(o) ==
  current = o =>
    /\ at \in {"creating", "created", "attaching", "attached", "observe"}
         => Kind[o] = "container"
    /\ at = "native" => Kind[o] = "native"
    /\ at \in {"file", "await_work", "await_again"} => Kind[o] \in FileKinds

\* An operation that was not dispatched has no target.
Fresh(o) ==
  /\ acted[o] = 0
  /\ step[o] = "none"
  /\ box[o] = "none"
  /\ process[o] = "none"
  /\ \A verb \in Verbs : <<o, verb>> \notin wire

Untouched(o) ==
  journal[o].phase = "absent" \/ (current = o /\ at = "dispatch") => Fresh(o)

\* Before its point of no return a target has not acted.
NotYet(o) ==
  /\ step[o] \in {"queued", "marked", "staged", "verified"} => acted[o] = 0
  /\ Kind[o] = "container" /\ box[o] \in {"none", "created"} => acted[o] = 0
  /\ Kind[o] = "native" /\ process[o] \in {"none", "waiting"} => acted[o] = 0
  /\ <<o, "create">> \in wire => box[o] = "none"

\* A record on disk is never dropped: the lease and the memory of a running
\* call belong to one.
OnRecord(o) ==
  current = o =>
    /\ journal[o].phase # "absent"
    /\ at \in {"attaching", "attached"} => memory[o].phase # "absent"

\* A target that acted, or still can without the Executor, is on record as
\* started, and no later save takes that back.
Intent(o) ==
  /\ acted[o] > 0 /\ Kind[o] # "capability_request" => journal[o].started
  /\ step[o] \in {"marked", "staged", "verified", "replaced"} => journal[o].started
  /\ <<o, "start">> \in wire => journal[o].started
  /\ process[o] \in {"waiting", "running"} => journal[o].started
  /\ current = o /\ at \in {"attaching", "attached"} => journal[o].started
  /\ current = o /\ at # "reconcile" /\ journal[o].started => memory[o].started

OpInv(o) ==
  /\ acted[o] <= 1
  /\ OwnTarget(o) /\ OwnLabel(o)
  /\ Untouched(o) /\ NotYet(o) /\ OnRecord(o)
  /\ Intent(o)

IInv == TypeOK /\ \A o \in Ops : OpInv(o)

(***************************************************************************)
(* Why SuccessIsReal and NoneWhenRecorded hold.                            *)
(***************************************************************************)
\* What is seen of a target, and what it then did.
Evidence(o) ==
  /\ Kind[o] = "file_write" /\ step[o] \in {"replaced", "ok"} => acted[o] = 1
  /\ box[o] \in {"running", "exited"} => acted[o] = 1
  /\ exitOk[o] = TRUE => acted[o] = 1 /\ box[o] \in {"exited", "removed"}
  /\ process[o] = "running" => acted[o] = 1
  /\ commandOk[o] = TRUE => acted[o] = 1 /\ process[o] \in Closed

Real(o) ==
  "succeeded" \in {journal[o].result.status, memory[o].result.status} => SeenThrough(o)

\* The records on disk and in memory: of one kind, with one result, and not
\* started before the point where a container may have been.
OneRecord(o) ==
  /\ journal[o].phase = "absent" => journal[o].result = Missing
  /\ current = o /\ at # "reconcile" => memory[o].result = journal[o].result
  /\ TRUE \in {journal[o].native, memory[o].native} => Kind[o] = "native"
  /\ current = o /\ at \in {"dispatch", "creating", "created"}
       => memory[o].started = FALSE

RealOp(o) == Evidence(o) /\ Real(o) /\ OneRecord(o)

RealInv == IInv /\ \A o \in Ops : RealOp(o)

(***************************************************************************)
(* Why the others hold while an execute() is cancelled at most once: its   *)
(* work is never left behind, so a record changes only while its operation *)
(* holds the lease.                                                        *)
(***************************************************************************)
CancelledOnce ==
  /\ cancelled = TRUE => stops >= 1
  /\ at = "await_again" => stops >= 1 /\ cancelled = FALSE

Awaited(o) ==
  step[o] # "none" => current = o /\ at \in {"file", "await_work", "await_again"}

Alone(o) == current = o => \A p \in Ops \ {o} : ~Open(p)

\* Finished means a definite result, on disk and in memory.
Definite(r) == r.phase = "finished" <=> r.result.status \in {"succeeded", "failed"}

Unfinished(o) ==
  /\ Definite(journal[o]) /\ Definite(memory[o])
  /\ current = o /\ at \notin {"cleanup", "return"} => journal[o].phase # "finished"
  /\ process[o] \in {"waiting", "running"} => journal[o].phase # "finished"

\* Callers are told of a definite result only what the disk says.
Told(o) ==
  answer[o].status \in {"succeeded", "failed"} =>
    journal[o].phase = "finished" /\ journal[o].result = answer[o]

\* No program but its own touched the file of an open write that acted.
Holds(o) ==
  /\ Open(o) /\ Kind[o] = "file_write" /\ acted[o] = 1 /\ o \notin disturbed
       => file = Data[o]
  /\ acted[o] > 0 /\ Kind[o] = "capability_request" => registrar = o
  /\ Kind[o] = "capability_request" /\ step[o] = "error" => acted[o] = 0
  /\ Kind[o] = "file_read" => acted[o] = 0

Nothing(o) ==
  journal[o].result = FailedNone /\ Kind[o] # "container" => NoEffect(o)

CallInv(o) ==
  /\ Awaited(o) /\ Alone(o) /\ Unfinished(o) /\ Told(o) /\ Holds(o) /\ Nothing(o)

OutcomeInv == RealInv /\ OneOpen /\ CancelledOnce /\ \A o \in Ops : CallInv(o)

===============================================================================
