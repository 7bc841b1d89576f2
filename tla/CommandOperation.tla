--------------------------- MODULE CommandOperation ---------------------------
(***************************************************************************)
(* exec: a command runs in a container or, with full access, as the        *)
(* current user.                                                           *)
(***************************************************************************)
EXTENDS FileOperation

-------------------------------------------------------------------------------
(***************************************************************************)
(* A container is created, started, attached to, observed and removed      *)
(* through the docker command line.  The container engine is a separate    *)
(* process: a request handed to the command line may be served late, also  *)
(* after the command line was killed or the controller died, and an        *)
(* inspection may fail.                                                    *)
(***************************************************************************)
VARIABLES
  box,      \* box[o]: the container labelled with operation o
  exitOk,   \* exitOk[o]: it exited with code 0
  wire      \* requests <<o, verb>> the engine has not served

containerVars == <<box, exitOk, wire>>

Boxes == {"none", "created", "running", "exited", "removed"}
Verbs == {"create", "start"}

ContainerInit ==
  /\ box = [o \in Ops |-> "none"]
  /\ exitOk = [o \in Ops |-> FALSE]
  /\ wire = {}

ContainerTypeOK ==
  /\ box \in [Ops -> Boxes]
  /\ exitOk \in [Ops -> BOOLEAN]
  /\ wire \subseteq Ops \X Verbs

Become(o, state) == box' = [box EXCEPT ![o] = state]
Running(o, label) == current = o /\ at = label

(***************************************************************************)
(* _execute_container()                                                    *)
(***************************************************************************)
\* Arguments, capability, source hashes, image or manifest are not as reviewed.
RejectContainer(o) ==
  /\ Running(o, "dispatch") /\ Kind[o] = "container"
  /\ Fail(o)
  /\ UNCHANGED <<fileVars, historyVars, containerVars>>

\* The cancellation lands while the image is inspected.
InterruptBeforeCreate(o) ==
  /\ Running(o, "dispatch") /\ Kind[o] = "container"
  /\ Interrupt(o)
  /\ UNCHANGED <<fileVars, historyVars, containerVars>>

\* The manifest and the container's name are on disk before docker create.
RequestCreate(o) ==
  /\ Running(o, "dispatch") /\ Kind[o] = "container"
  /\ Save(o, [memory[o] EXCEPT !.phase = "creating", !.named = TRUE])
  /\ before' = [before EXCEPT ![o] = file]
  /\ wire' = wire \cup {<<o, "create">>}
  /\ Goto("creating")
  /\ UNCHANGED <<current, answer, cancelled, stops, file, temps, parents, step,
                 registrar, historyVars, box, exitOk>>

CreateReplied(o) ==
  /\ Running(o, "creating")
  /\ box[o] = "created"
  /\ Save(o, [memory[o] EXCEPT !.phase = "created", !.identified = TRUE])
  /\ Goto("created")
  /\ UNCHANGED <<current, answer, cancelled, stops, fileVars, historyVars, containerVars>>

\* docker create exits with an error, whatever the engine did.
CreateRefused(o) ==
  /\ Running(o, "creating")
  /\ Settle(o, FailedNone, TRUE)
  /\ UNCHANGED <<cancelled, fileVars, historyVars, containerVars>>

\* The reply is lost (timeout, broken pipe, cancellation, no usable id): the
\* engine may have acted, so the target counts as started.
CreateLost(o) ==
  /\ Running(o, "creating")
  /\ Save(o, [memory[o] EXCEPT !.started = TRUE, !.fault = TRUE,
                               !.result = Unknown, !.phase = "unresolved"])
  /\ cancelled' \in {FALSE, cancelled}
  /\ Goto("return")
  /\ UNCHANGED <<current, answer, stops, fileVars, historyVars, containerVars>>

\* Fault: the start is noted in memory and not saved.
RecheckAndStartUnsaved(o) ==
  /\ Running(o, "created")
  /\ file = before[o]
  /\ memory' = [memory EXCEPT ![o].phase = "starting", ![o].started = TRUE]
  /\ Goto("attaching")
  /\ UNCHANGED <<journal, current, answer, cancelled, stops, fileVars, historyVars,
                 containerVars>>

\* Ownership is inspected and the manifest compared again before the start.
RecheckAndStart(o) ==
  /\ Running(o, "created")
  /\ file = before[o]
  /\ Save(o, [memory[o] EXCEPT !.phase = "starting", !.started = TRUE])
  /\ Goto("attaching")
  /\ UNCHANGED <<current, answer, cancelled, stops, fileVars, historyVars, containerVars>>

\* The workspace changed, or ownership could not be established.
RefuseStart(o) ==
  /\ Running(o, "created")
  /\ Fail(o)
  /\ UNCHANGED <<fileVars, historyVars, containerVars>>

InterruptContainer(o) ==
  /\ current = o
  /\ at \in {"created", "attaching", "observe"}
  /\ Interrupt(o)
  /\ UNCHANGED <<fileVars, historyVars, containerVars>>

(***************************************************************************)
(* _attach()                                                               *)
(***************************************************************************)
SpawnAttach(o) ==
  /\ Running(o, "attaching")
  /\ wire' = wire \cup {<<o, "start">>}
  /\ Goto("attached")
  /\ UNCHANGED <<journal, memory, current, answer, cancelled, stops, fileVars,
                 historyVars, box, exitOk>>

SpawnFails(o) ==
  /\ Running(o, "attaching")
  /\ Fail(o)
  /\ UNCHANGED <<fileVars, historyVars, containerVars>>

\* docker start --attach ends: with the program, or because the connection or
\* the start itself failed.  A nonzero exit of the command line is a fault.
AttachEnds(o) ==
  /\ Running(o, "attached")
  /\ \E clean \in BOOLEAN :
       /\ clean => box[o] = "exited" /\ exitOk[o]
       /\ Save(o, [memory[o] EXCEPT !.fault = @ \/ ~clean])
  /\ Goto("observe")
  /\ UNCHANGED <<current, answer, cancelled, stops, fileVars, historyVars, containerVars>>

\* Fault: no time limit; only the caller's cancellation ends the attachment.
StopAttachedWhenCancelled(o) ==
  /\ Running(o, "attached")
  /\ cancelled
  /\ cancelled' = FALSE
  /\ Save(o, [memory[o] EXCEPT !.fault = TRUE])
  /\ \/ UNCHANGED <<box, exitOk>>
     \/ /\ box[o] = "running"
        /\ Become(o, "exited")
        /\ exitOk' = [exitOk EXCEPT ![o] = FALSE]
  /\ Goto("observe")
  /\ UNCHANGED <<current, answer, stops, fileVars, historyVars, wire>>

\* The time envelope, the capture capacity or the caller ends it: only a
\* container seen running is killed, and the kill may fail.
StopAttached(o) ==
  /\ Running(o, "attached")
  /\ Save(o, [memory[o] EXCEPT !.fault = TRUE])
  /\ \/ UNCHANGED <<box, exitOk>>
     \/ /\ box[o] = "running"
        /\ Become(o, "exited")
        /\ exitOk' = [exitOk EXCEPT ![o] = FALSE]
  /\ cancelled' \in {FALSE, cancelled}
  /\ Goto("observe")
  /\ UNCHANGED <<current, answer, stops, fileVars, historyVars, wire>>

\* What a terminal container and the workspace readback show.
Terminal(o) == box[o] \in {"created", "exited"}

\* Fault: only the workspace is compared.
TerminalEffectOfFiles(o) == IF file # before[o] THEN "confirmed" ELSE "none"

TerminalEffect(o) ==
  IF box[o] = "exited" \/ file # before[o] THEN "confirmed" ELSE "none"

\* Fault: a container that exited is a success, whatever its exit code.
ObserveTerminalAsSuccess(o) ==
  /\ Running(o, "observe")
  /\ Terminal(o)
  /\ LET clean == box[o] = "exited"
     IN Settle(o, Result(IF clean THEN "succeeded" ELSE "failed", TerminalEffect(o)),
               ~clean)
  /\ UNCHANGED <<cancelled, fileVars, historyVars, containerVars>>

ObserveTerminal(o) ==
  /\ Running(o, "observe")
  /\ Terminal(o)
  /\ LET clean == box[o] = "exited" /\ exitOk[o] /\ ~memory[o].fault
     IN Settle(o, Result(IF clean THEN "succeeded" ELSE "failed", TerminalEffect(o)),
               ~clean)
  /\ UNCHANGED <<cancelled, fileVars, historyVars, containerVars>>

\* Still running, not inspectable, or the workspace cannot be read back.
ObserveNothing(o) ==
  /\ Running(o, "observe")
  /\ Settle(o, Unknown, TRUE)
  /\ UNCHANGED <<cancelled, fileVars, historyVars, containerVars>>

(***************************************************************************)
(* cleanup(): the result is on disk already; only a terminal container is  *)
(* removed, and an interrupted or failed removal changes no result.        *)
(***************************************************************************)
Cleanup(o) ==
  /\ Running(o, "cleanup")
  /\ \/ Terminal(o) /\ Become(o, "removed")
     \/ UNCHANGED box
  /\ cancelled' \in {FALSE, cancelled}
  /\ Goto("return")
  /\ UNCHANGED <<journal, memory, current, answer, stops, fileVars, historyVars,
                 exitOk, wire>>

(***************************************************************************)
(* reconcile() of a record with a container name.                          *)
(***************************************************************************)
\* stop=True: the exact owned container is killed before it is observed.
KillOwned(o) ==
  /\ Running(o, "reconcile")
  /\ journal[o].named
  /\ box[o] = "running"
  /\ Become(o, "exited")
  /\ exitOk' = [exitOk EXCEPT ![o] = FALSE]
  /\ UNCHANGED <<journalVars, fileVars, historyVars, wire>>

ReconcileTerminal(o) ==
  /\ Running(o, "reconcile")
  /\ journal[o].named
  /\ Terminal(o)
  /\ Observed(o, Result("failed", TerminalEffect(o)))
  /\ UNCHANGED <<fileVars, historyVars, containerVars>>

ReconcileRunning(o) ==
  /\ Running(o, "reconcile")
  /\ journal[o].named
  /\ box[o] = "running"
  /\ Observed(o, Result("pending", "unknown"))
  /\ UNCHANGED <<fileVars, historyVars, containerVars>>

ReconcileUnobserved(o) ==
  /\ Running(o, "reconcile")
  /\ journal[o].named
  /\ Observed(o, Unknown)
  /\ UNCHANGED <<fileVars, historyVars, containerVars>>

(***************************************************************************)
(* The container engine (external).                                        *)
(***************************************************************************)
ServeCreate(o) ==
  /\ <<o, "create">> \in wire
  /\ Become(o, "created")
  /\ wire' = wire \ {<<o, "create">>}
  /\ UNCHANGED <<journalVars, fileVars, historyVars, exitOk>>

ServeStart(o) ==
  /\ <<o, "start">> \in wire
  /\ box[o] = "created"
  /\ Become(o, "running")
  /\ Act(o)
  /\ wire' = wire \ {<<o, "start">>}
  /\ UNCHANGED <<journalVars, fileVars, disturbed, exitOk>>

\* A request that fails, or never reached the engine.
DropRequest(o) ==
  /\ \E verb \in Verbs : /\ <<o, verb>> \in wire
                         /\ wire' = wire \ {<<o, verb>>}
  /\ UNCHANGED <<journalVars, fileVars, historyVars, box, exitOk>>

\* The program ends, having left the file alone or written its own output over
\* what others left there.
ExitContainer(o) ==
  /\ box[o] = "running"
  /\ Become(o, "exited")
  /\ exitOk' \in {[exitOk EXCEPT ![o] = ok] : ok \in BOOLEAN}
  /\ \/ UNCHANGED <<file, disturbed>>
     \/ file' = Data[o] /\ disturbed' = disturbed \cup {p \in Ops \ {o} : acted[p] > 0}
  /\ UNCHANGED <<journalVars, before, temps, parents, step, registrar, acted, wire>>

Engine(o) ==
  \/ ServeCreate(o)
  \/ ServeStart(o)
  \/ DropRequest(o)
  \/ ExitContainer(o)

-------------------------------------------------------------------------------
(***************************************************************************)
(* With full access the command runs as the current user.  A small         *)
(* launcher waits for its command on stdin, so the journal can say that    *)
(* the target started before the command can have any effect.              *)
(***************************************************************************)
VARIABLES
  process,   \* process[o]: the launcher and the command it becomes
  commandOk  \* commandOk[o]: it exited with code 0

nativeVars == <<process, commandOk>>

\* held: the command's process group was closed, but a process that had left
\* the group keeps the command's output open.
Processes == {"none", "waiting", "running", "held", "ended"}
Closed == {"held", "ended"}

NativeInit ==
  /\ process = [o \in Ops |-> "none"]
  /\ commandOk = [o \in Ops |-> FALSE]

NativeTypeOK ==
  /\ process \in [Ops -> Processes]
  /\ commandOk \in [Ops -> BOOLEAN]

SetProcess(o, state) == process' = [process EXCEPT ![o] = state]
InNative(o) == current = o /\ at = "native"

\* The command, its working directory or its time limit is not acceptable.
RejectCommand(o) ==
  /\ current = o /\ at = "dispatch" /\ Kind[o] = "native"
  /\ Fail(o)
  /\ UNCHANGED <<fileVars, historyVars, nativeVars>>

PrepareNative(o) ==
  /\ current = o /\ at = "dispatch" /\ Kind[o] = "native"
  /\ Save(o, [memory[o] EXCEPT !.phase = "native_prepared", !.native = TRUE])
  /\ Goto("native")
  /\ UNCHANGED <<current, answer, cancelled, stops, fileVars, historyVars, nativeVars>>

\* Fault: the start is noted in memory and not saved.
LaunchUnsaved(o) ==
  /\ InNative(o) /\ process[o] = "none"
  /\ memory' = [memory EXCEPT ![o].phase = "native_started", ![o].started = TRUE]
  /\ SetProcess(o, "waiting")
  /\ UNCHANGED <<journal, current, at, answer, cancelled, stops, fileVars, historyVars,
                 commandOk>>

\* The launcher is spawned and the journal says so; it has no command yet.
Launch(o) ==
  /\ InNative(o) /\ process[o] = "none"
  /\ Save(o, [memory[o] EXCEPT !.phase = "native_started", !.started = TRUE])
  /\ SetProcess(o, "waiting")
  /\ UNCHANGED <<current, at, answer, cancelled, stops, fileVars, historyVars, commandOk>>

LaunchFails(o) ==
  /\ InNative(o) /\ process[o] = "none"
  /\ \/ Fail(o)
     \/ Interrupt(o)
  /\ UNCHANGED <<fileVars, historyVars, nativeVars>>

\* The command line reaches the launcher.
Go(o) ==
  /\ InNative(o) /\ process[o] = "waiting"
  /\ SetProcess(o, "running")
  /\ Act(o)
  /\ UNCHANGED <<journalVars, fileVars, disturbed, commandOk>>

\* Timeout or cancellation while the command runs: a fault, then the process
\* group is closed and its output read to the end.
StopNative(o) ==
  /\ InNative(o) /\ process[o] = "running"
  /\ memory' = [memory EXCEPT ![o].fault = TRUE]
  /\ cancelled' \in {FALSE, cancelled}
  /\ \E state \in Closed : SetProcess(o, state)
  /\ commandOk' = [commandOk EXCEPT ![o] = FALSE]
  /\ UNCHANGED <<journal, current, at, answer, stops, fileVars, historyVars>>

\* A cancellation while stdin drains or while the output is read to its end.
InterruptNative(o) ==
  /\ InNative(o) /\ process[o] # "none"
  /\ Interrupt(o)
  /\ SetProcess(o, "ended")
  /\ UNCHANGED <<fileVars, historyVars, commandOk>>

\* The launcher dies before it is given the command (broken pipe), or the
\* captured streams cannot be saved or read back.
BreakNative(o) ==
  /\ InNative(o) /\ process[o] \in {"waiting"} \cup Closed
  /\ Fail(o)
  /\ SetProcess(o, "ended")
  /\ UNCHANGED <<fileVars, historyVars, commandOk>>

\* Fault: the exit code is not looked at.
FinishNativeUnchecked(o) ==
  /\ InNative(o) /\ process[o] = "ended"
  /\ LET clean == ~memory[o].fault
     IN Settle(o, Result(IF clean THEN "succeeded" ELSE "failed", "confirmed"), ~clean)
  /\ UNCHANGED <<cancelled, fileVars, historyVars, nativeVars>>

\* There is no time limit on the wait for the end of the output.
FinishNative(o) ==
  /\ InNative(o) /\ process[o] = "ended"
  /\ LET clean == commandOk[o] /\ ~memory[o].fault
     IN Settle(o, Result(IF clean THEN "succeeded" ELSE "failed", "confirmed"), ~clean)
  /\ UNCHANGED <<cancelled, fileVars, historyVars, nativeVars>>

\* The command ends by itself, having left the file alone or written it.
ExitNative(o) ==
  /\ process[o] = "running"
  /\ \E state \in Closed : SetProcess(o, state)
  /\ commandOk' \in {[commandOk EXCEPT ![o] = ok] : ok \in BOOLEAN}
  /\ file' \in {file, Data[o]}
  /\ UNCHANGED <<journalVars, before, temps, parents, step, registrar, historyVars>>

\* A process the command left behind closes its output.  What such a process
\* writes is an edit by another program.
CloseOutput(o) ==
  /\ process[o] = "held"
  /\ SetProcess(o, "ended")
  /\ UNCHANGED <<journalVars, fileVars, historyVars, commandOk>>

\* Fault: a command whose exit was lost is taken to have done nothing.
ReconcileNativeAsNone(o) ==
  /\ current = o /\ at = "reconcile"
  /\ journal[o].native
  /\ Observed(o, FailedNone)
  /\ UNCHANGED <<fileVars, historyVars, nativeVars>>

\* A lost exit stays unknown; a command that never started had no effect.
ReconcileNative(o) ==
  /\ current = o /\ at = "reconcile"
  /\ journal[o].native
  /\ Observed(o, IF journal[o].started THEN Unknown ELSE FailedNone)
  /\ UNCHANGED <<fileVars, historyVars, nativeVars>>

\* A dead controller closes the job on Windows and the launcher's stdin
\* everywhere; elsewhere a running command may survive it.
LoseNative ==
  /\ process' \in [Ops -> Processes]
  /\ \A o \in Ops : process'[o] \in CASE process[o] = "waiting" -> {"ended"}
                                      [] process[o] = "running" -> {"running", "ended"}
                                      [] OTHER -> {process[o]}
  /\ UNCHANGED commandOk

===============================================================================
