---------------------------- MODULE ExecutorProofs ----------------------------
(***************************************************************************)
(* Proofs about the Executor for every set of operations, every file       *)
(* content and every number of cancellations: its type invariant, and      *)
(* through the inductive invariant IInv that a target acts at most once    *)
(* and never before the journal says so, that recorded success is real,    *)
(* and that a container recorded as without effect had not started.        *)
(* One operation open at a time, work that ends before its call, outcomes  *)
(* that are final and "no effect" that stays true: as long as no execute() *)
(* is cancelled twice.                                                     *)
(***************************************************************************)
EXTENDS Executor, TLAPS

-------------------------------------------------------------------------------
(***************************************************************************)
(* Records and saves.                                                      *)
(***************************************************************************)
\* The constant records and results are well formed.
LEMMA ConstantTypes ==
  /\ NoRecord \in Records
  /\ Prepared \in Records
  /\ Missing \in Results /\ Unknown \in Results /\ FailedNone \in Results
  BY DEF NoRecord, Prepared, Records, Phases, Results, Missing, Unknown,
         FailedNone, Result

\* The epilogue of execute() keeps the journal, the memory and the label typed.
LEMMA SettleType ==
  ASSUME JournalTypeOK, NEW o \in Ops, NEW r \in Results, NEW faulted \in BOOLEAN,
         Settle(o, r, faulted)
  PROVE  /\ journal' \in [Ops -> Records]
         /\ memory' \in [Ops -> Records]
         /\ at' \in {"cleanup", "return"}
         /\ current' = current /\ answer' = answer /\ stops' = stops
  <1> DEFINE settled == [memory[o] EXCEPT !.result = r, !.phase = PhaseOf(r),
                                          !.fault = @ \/ faulted]
  <1>1. memory[o] \in Records
    BY DEF JournalTypeOK
  <1>2. PhaseOf(r) \in Phases
    BY DEF PhaseOf, Phases
  <1>3. settled \in Records
    BY <1>1, <1>2 DEF Records
  <1>4. /\ memory' = [memory EXCEPT ![o] = settled]
        /\ journal' = [journal EXCEPT ![o] = settled]
    BY DEF Settle, Save
  <1>5. at' \in {"cleanup", "return"}
    BY DEF Settle, Goto
  <1> HIDE DEF settled
  <1> QED
    BY <1>3, <1>4, <1>5 DEF JournalTypeOK, Settle

\* So do its two failing callers.
LEMMA FailType ==
  ASSUME JournalTypeOK, NEW o \in Ops, Fail(o) \/ Interrupt(o)
  PROVE  /\ journal' \in [Ops -> Records]
         /\ memory' \in [Ops -> Records]
         /\ at' \in {"cleanup", "return"}
         /\ current' = current /\ answer' = answer /\ stops' = stops
         /\ cancelled' \in BOOLEAN
  BY SettleType, ConstantTypes DEF Fail, Interrupt, JournalTypeOK

\* A save of a well-formed record, and the result of an observation.
LEMMA SaveType ==
  ASSUME JournalTypeOK, NEW o \in Ops, NEW r \in Records, Save(o, r)
  PROVE  journal' \in [Ops -> Records] /\ memory' \in [Ops -> Records]
  BY DEF Save, JournalTypeOK

\* The result of an observation by reconcile() is stored typed.
LEMMA ObservedType ==
  ASSUME JournalTypeOK, NEW o \in Ops, NEW r \in Results, Observed(o, r)
  PROVE  JournalTypeOK'
  <1> DEFINE seen == [journal[o] EXCEPT !.result = r, !.phase = PhaseOf(r), !.fault = TRUE]
  <1>1. journal[o] \in Records /\ PhaseOf(r) \in Phases
    BY DEF JournalTypeOK, PhaseOf, Phases
  <1>2. seen \in Records
    BY <1>1 DEF Records
  <1>3. journal' = [journal EXCEPT ![o] = seen]
    BY <1>1 DEF Observed, JournalTypeOK, Records
  <1> HIDE DEF seen
  <1>4. journal' \in [Ops -> Records]
    BY <1>2, <1>3 DEF JournalTypeOK
  <1>5. cancelled' \in BOOLEAN
    BY DEF Observed
  <1>6. stops' \in 0..MaxStops /\ at' \in Labels
    BY MaxStopsAssumption DEF Observed, Goto, Labels
  <1>7. /\ memory' \in [Ops -> Records] /\ answer' \in [Ops -> Results]
        /\ current' \in Ops \cup {Nobody}
    BY DEF Observed, JournalTypeOK
  <1> QED
    BY <1>4, <1>5, <1>6, <1>7 DEF JournalTypeOK

-------------------------------------------------------------------------------
(***************************************************************************)
(* The type invariant, action by action.                                   *)
(***************************************************************************)
LEMMA JournalStepType ==
  ASSUME TypeOK, NEW o \in Ops, JournalStep(o)
  PROVE  TypeOK'
  <1> USE MaxStopsAssumption, ConstantTypes DEF TypeOK
  <1>1. FileTypeOK' /\ ContainerTypeOK' /\ NativeTypeOK'
    BY DEF JournalStep, targetVars, fileVars, historyVars, containerVars, nativeVars,
           FileTypeOK, ContainerTypeOK, NativeTypeOK
  <1>2. cancelled' \in BOOLEAN
    BY DEF JournalStep, JournalTypeOK, Replay, Reenter, Refuse, Prepare, Return, Recover,
           AbandonReconcile, Enter
  <1>3. JournalTypeOK'
    <2> USE <1>2
    <2>1. CASE Replay(o)
      BY <2>1 DEF JournalTypeOK, Replay, Records
    <2>2. CASE Reenter(o) \/ Recover(o)
      BY <2>2 DEF JournalTypeOK, Reenter, Recover, Enter, Labels
    <2>3. CASE Refuse(o)
      <3>1. Result("pending", "none") \in Results
        BY DEF Result, Results
      <3> QED
        BY <2>3, <3>1 DEF JournalTypeOK, Refuse
    <2>4. CASE Prepare(o)
      BY <2>4 DEF JournalTypeOK, Prepare, Enter, Labels
    <2>5. CASE Return(o)
      BY <2>5 DEF JournalTypeOK, Return, Goto, Labels, Records
    <2>6. CASE AbandonReconcile(o)
      BY <2>6 DEF JournalTypeOK, AbandonReconcile, Goto, Labels
    <2> QED
      BY <2>1, <2>2, <2>3, <2>4, <2>5, <2>6 DEF JournalStep
  <1> QED
    BY <1>1, <1>3

\* The steps of a file operation on the event loop keep the types.
LEMMA FileStepType ==
  ASSUME TypeOK, NEW o \in Ops, FileStep(o)
  PROVE  TypeOK'
  <1> USE DEF TypeOK
  <1>1. ContainerTypeOK' /\ NativeTypeOK'
    BY DEF FileStep, containerVars, nativeVars, ContainerTypeOK, NativeTypeOK
  <1>2. CASE StartWork(o)
    BY <1>1, <1>2 DEF StartWork, JournalTypeOK, FileTypeOK, Advance, Steps, Goto, Labels,
                      historyVars
  <1>3. CASE FinishWork(o)
    <2>1. SuccessOf(o) \in Results
      BY DEF SuccessOf, Result, Results
    <2>2. JournalTypeOK'
      BY <1>3, <2>1, SettleType, FailType DEF FinishWork, JournalTypeOK, Labels
    <2> QED
      BY <1>1, <1>3, <2>2 DEF FinishWork, FileTypeOK, Advance, Steps, historyVars
  <1>4. CASE CancelShielded(o)
    <2>1. cancelled' \in BOOLEAN
      BY <1>4 DEF CancelShielded
    <2> QED
      BY <1>1, <1>4, <2>1 DEF CancelShielded, JournalTypeOK, FileTypeOK, fileVars, historyVars,
                      Goto, Labels
  <1>5. CASE CancelUnshielded(o)
    BY <1>1, <1>5, FailType
       DEF CancelUnshielded, JournalTypeOK, FileTypeOK, fileVars, historyVars, Labels
  <1>6. CASE ReconcileFile(o)
    <2>1. Result("failed", ObservedEffect(o)) \in Results
      BY DEF Result, Results, ObservedEffect
    <2> QED
      BY <1>1, <1>6, <2>1, ObservedType
         DEF ReconcileFile, FileTypeOK, fileVars, historyVars
  <1>7. CASE ReconcileFileFails(o)
    <2>1. journal[o] \in Records
      BY DEF JournalTypeOK
    <2>2. [journal[o] EXCEPT !.fault = TRUE] \in Records
      BY <2>1 DEF Records
    <2>3. journal' = [journal EXCEPT ![o] = [journal[o] EXCEPT !.fault = TRUE]]
      BY <1>7 DEF ReconcileFileFails, JournalTypeOK
    <2>4. journal' \in [Ops -> Records]
      BY <2>2, <2>3 DEF JournalTypeOK
    <2>5. cancelled' \in BOOLEAN
      BY <1>7 DEF ReconcileFileFails
    <2>6. stops' \in 0..MaxStops /\ at' \in Labels
      BY <1>7, MaxStopsAssumption DEF ReconcileFileFails, Goto, Labels
    <2>7. /\ memory' \in [Ops -> Records] /\ answer' \in [Ops -> Results]
          /\ current' \in Ops \cup {Nobody}
      BY <1>7, ConstantTypes DEF ReconcileFileFails, JournalTypeOK
    <2>8. FileTypeOK'
      BY <1>7 DEF ReconcileFileFails, FileTypeOK, fileVars, historyVars
    <2> QED
      BY <1>1, <2>4, <2>5, <2>6, <2>7, <2>8 DEF JournalTypeOK
  <1> QED
    BY <1>2, <1>3, <1>4, <1>5, <1>6, <1>7 DEF FileStep

\* So do the steps of its worker thread.
LEMMA WorkStepType ==
  ASSUME TypeOK, NEW o \in Ops, WorkStep(o)
  PROVE  TypeOK'
  <1> USE FileAssumption DEF TypeOK, Advance, Steps, Act, historyVars, FileTypeOK
  <1>1. ContainerTypeOK' /\ NativeTypeOK'
    BY DEF WorkStep, containerVars, nativeVars, ContainerTypeOK, NativeTypeOK
  <1>2. CASE MarkWrite(o)
    <2>1. memory[o] \in Records
      BY DEF JournalTypeOK
    <2>2. [memory[o] EXCEPT !.phase = "file_write_started", !.started = TRUE] \in Records
      BY <2>1 DEF Records, Phases
    <2>3. journal' \in [Ops -> Records] /\ memory' \in [Ops -> Records]
      BY <1>2, <2>2, SaveType DEF MarkWrite
    <2> QED
      BY <1>1, <1>2, <2>3 DEF MarkWrite, JournalTypeOK
  <1>3. CASE /\ ~MarkWrite(o)
             /\ Work(o)
    <2>1. JournalTypeOK'
      BY <1>3 DEF Work, ReadFile, Register, RejectWork, StageWrite, VerifyWrite,
                  ReplaceFile, ReadBack, BreakWrite, JournalTypeOK, journalVars
    <2>2. FileTypeOK'
      BY <1>3 DEF Work, ReadFile, Register, RejectWork, StageWrite, VerifyWrite,
                  ReplaceFile, ReadBack, BreakWrite
    <2> QED
      BY <1>1, <2>1, <2>2
  <1> QED
    BY <1>2, <1>3 DEF WorkStep

\* The steps of a container operation keep the types.
LEMMA ContainerStepType ==
  ASSUME TypeOK, NEW o \in Ops, ContainerStep(o)
  PROVE  TypeOK'
  <1> USE DEF TypeOK, ContainerTypeOK
  <1>1. NativeTypeOK'
    BY DEF ContainerStep, nativeVars, NativeTypeOK
  <1>2. memory[o] \in Records /\ journal[o] \in Records
    BY DEF JournalTypeOK
  <1>3. CASE RejectContainer(o) \/ InterruptBeforeCreate(o) \/ RefuseStart(o)
             \/ InterruptContainer(o) \/ SpawnFails(o)
    <2>1. JournalTypeOK'
      BY <1>3, FailType DEF RejectContainer, InterruptBeforeCreate, RefuseStart,
           InterruptContainer, SpawnFails, JournalTypeOK, Labels
    <2> QED
      BY <1>1, <1>3, <2>1 DEF RejectContainer, InterruptBeforeCreate, RefuseStart,
           InterruptContainer, SpawnFails, FileTypeOK, fileVars, historyVars, containerVars
  <1>4. CASE CreateRefused(o) \/ ObserveTerminal(o) \/ ObserveNothing(o)
    <2>1. \A s \in {"succeeded", "failed"} : Result(s, TerminalEffect(o)) \in Results
      BY DEF Result, Results, TerminalEffect
    <2>2. PICK r \in Results, faulted \in BOOLEAN : Settle(o, r, faulted)
      BY <1>4, <2>1, ConstantTypes DEF CreateRefused, ObserveTerminal, ObserveNothing
    <2>3. /\ journal' \in [Ops -> Records] /\ memory' \in [Ops -> Records]
          /\ at' \in Labels
          /\ current' = current /\ answer' = answer /\ stops' = stops
      BY <2>2, SettleType DEF Labels
    <2>4. JournalTypeOK'
      BY <1>4, <2>3 DEF CreateRefused, ObserveTerminal, ObserveNothing, JournalTypeOK
    <2> QED
      BY <1>1, <1>4, <2>4 DEF CreateRefused, ObserveTerminal, ObserveNothing,
           FileTypeOK, fileVars, historyVars, containerVars
  <1>5. CASE KillOwned(o)
    BY <1>1, <1>5 DEF KillOwned, Become, Boxes, JournalTypeOK, journalVars, FileTypeOK,
           fileVars, historyVars
  <1>6. CASE ReconcileTerminal(o) \/ ReconcileRunning(o) \/ ReconcileUnobserved(o)
    <2>1. /\ Result("failed", TerminalEffect(o)) \in Results
          /\ Result("pending", "unknown") \in Results
      BY DEF Result, Results, TerminalEffect
    <2>2. JournalTypeOK'
      BY <1>6, <2>1, ObservedType, ConstantTypes
         DEF ReconcileTerminal, ReconcileRunning, ReconcileUnobserved
    <2> QED
      BY <1>1, <1>6, <2>2 DEF ReconcileTerminal, ReconcileRunning, ReconcileUnobserved,
           FileTypeOK, fileVars, historyVars, containerVars
  <1>7. CASE Cleanup(o) \/ SpawnAttach(o)
    <2>1. cancelled' \in BOOLEAN
      BY <1>7 DEF Cleanup, SpawnAttach, JournalTypeOK
    <2>2. JournalTypeOK'
      BY <1>7, <2>1 DEF Cleanup, SpawnAttach, JournalTypeOK, Goto, Labels
    <2>3. FileTypeOK'
      BY <1>7 DEF Cleanup, SpawnAttach, FileTypeOK, fileVars, historyVars
    <2>4. box' \in [Ops -> Boxes] /\ exitOk' \in [Ops -> BOOLEAN]
      BY <1>7 DEF Cleanup, SpawnAttach, Become, Boxes
    <2>5. <<o, "start">> \in Ops \X Verbs
      BY DEF Verbs
    <2>6. wire' \subseteq Ops \X Verbs
      BY <1>7, <2>5 DEF Cleanup, SpawnAttach
    <2> QED
      BY <1>1, <2>2, <2>3, <2>4, <2>6
  <1>8. CASE RequestCreate(o) \/ CreateReplied(o) \/ CreateLost(o) \/ RecheckAndStart(o)
             \/ AttachEnds(o) \/ StopAttached(o)
    <2>1. PICK r \in Records : Save(o, r)
      <3>1. CASE RequestCreate(o)
        <4>1. [memory[o] EXCEPT !.phase = "creating", !.named = TRUE] \in Records
          BY <1>2 DEF Records, Phases
        <4> QED BY <3>1, <4>1 DEF RequestCreate
      <3>2. CASE CreateReplied(o)
        <4>1. [memory[o] EXCEPT !.phase = "created", !.identified = TRUE] \in Records
          BY <1>2 DEF Records, Phases
        <4> QED BY <3>2, <4>1 DEF CreateReplied
      <3>3. CASE CreateLost(o)
        <4>1. [memory[o] EXCEPT !.started = TRUE, !.fault = TRUE, !.result = Unknown,
                                !.phase = "unresolved"] \in Records
          BY <1>2, ConstantTypes DEF Records, Phases
        <4> QED BY <3>3, <4>1 DEF CreateLost
      <3>4. CASE RecheckAndStart(o)
        <4>1. [memory[o] EXCEPT !.phase = "starting", !.started = TRUE] \in Records
          BY <1>2 DEF Records, Phases
        <4> QED BY <3>4, <4>1 DEF RecheckAndStart
      <3>5. CASE AttachEnds(o)
        <4>1. \A clean \in BOOLEAN : [memory[o] EXCEPT !.fault = @ \/ ~clean] \in Records
          BY <1>2 DEF Records
        <4> QED BY <3>5, <4>1 DEF AttachEnds
      <3>6. CASE StopAttached(o)
        <4>1. [memory[o] EXCEPT !.fault = TRUE] \in Records
          BY <1>2 DEF Records
        <4> QED BY <3>6, <4>1 DEF StopAttached
      <3> QED BY <1>8, <3>1, <3>2, <3>3, <3>4, <3>5, <3>6
    <2>2. journal' \in [Ops -> Records] /\ memory' \in [Ops -> Records]
      BY <2>1, SaveType
    <2>3. cancelled' \in BOOLEAN
      BY <1>8 DEF RequestCreate, CreateReplied, CreateLost, RecheckAndStart, AttachEnds,
           StopAttached, JournalTypeOK
    <2>4. JournalTypeOK'
      BY <1>8, <2>2, <2>3 DEF RequestCreate, CreateReplied, CreateLost, RecheckAndStart,
           AttachEnds, StopAttached, JournalTypeOK, Goto, Labels
    <2> USE <1>8 DEF RequestCreate, CreateReplied, CreateLost, RecheckAndStart,
           AttachEnds, StopAttached, fileVars, historyVars, containerVars
    <2>5. FileTypeOK'
      BY DEF FileTypeOK
    <2>6. box' \in [Ops -> Boxes] /\ exitOk' \in [Ops -> BOOLEAN]
      BY DEF Become, Boxes
    <2>7. <<o, "create">> \in Ops \X Verbs
      BY DEF Verbs
    <2>8. wire' \subseteq Ops \X Verbs
      BY <2>7
    <2> QED
      BY <1>1, <2>4, <2>5, <2>6, <2>8
  <1> QED
    BY <1>3, <1>4, <1>5, <1>6, <1>7, <1>8 DEF ContainerStep

\* So do the steps of the container engine and of the program it runs.
LEMMA EngineStepType ==
  ASSUME TypeOK, NEW o \in Ops, EngineStep(o)
  PROVE  TypeOK'
  <1> USE DEF TypeOK
  <1>1. JournalTypeOK' /\ NativeTypeOK'
    BY DEF EngineStep, Engine, ServeCreate, ServeStart, DropRequest, ExitContainer,
           journalVars, nativeVars, JournalTypeOK, NativeTypeOK
  <1>2. FileTypeOK'
    BY FileAssumption DEF EngineStep, Engine, ServeCreate, ServeStart, DropRequest,
           ExitContainer, Act, fileVars, historyVars, FileTypeOK
  <1>3. box' \in [Ops -> Boxes] /\ exitOk' \in [Ops -> BOOLEAN]
    BY DEF EngineStep, Engine, ServeCreate, ServeStart, DropRequest, ExitContainer,
           Become, Boxes, ContainerTypeOK
  <1>4. wire' \subseteq Ops \X Verbs
    BY DEF EngineStep, Engine, ServeCreate, ServeStart, DropRequest, ExitContainer,
           ContainerTypeOK
  <1> QED
    BY <1>1, <1>2, <1>3, <1>4 DEF ContainerTypeOK

\* The steps of a native command keep the types.
LEMMA NativeStepType ==
  ASSUME TypeOK, NEW o \in Ops, NativeStep(o)
  PROVE  TypeOK'
  <1> USE DEF TypeOK
  <1> USE DEF NativeStep, RejectCommand, PrepareNative, Launch, LaunchFails, Go, StopNative,
              InterruptNative, BreakNative, FinishNative, ReconcileNative
  <1>1. ContainerTypeOK'
    BY DEF containerVars, ContainerTypeOK
  <1>2. FileTypeOK'
    <2>1. acted' \in [Ops -> Nat]
      <3>1. CASE Go(o)
        BY ONLY TypeOK, <3>1, o \in Ops DEF Go, Act, FileTypeOK, TypeOK
      <3>2. CASE ~Go(o)
        <4>1. acted' = acted
          BY <3>2 DEF historyVars
        <4> QED
          BY <4>1 DEF FileTypeOK
      <3> QED
        BY <3>1, <3>2
    <2>2. UNCHANGED <<file, before, temps, parents, step, registrar, disturbed>>
      BY DEF fileVars, historyVars
    <2> QED
      BY <2>1, <2>2 DEF FileTypeOK
  <1>3. NativeTypeOK'
    <2>1. process' \in [Ops -> Processes]
      BY DEF NativeTypeOK, nativeVars, SetProcess, Processes, Closed
    <2>2. commandOk' \in [Ops -> BOOLEAN]
      BY DEF NativeTypeOK, nativeVars
    <2> QED
      BY <2>1, <2>2 DEF NativeTypeOK
  <1>4. memory[o] \in Records
    BY DEF JournalTypeOK
  <1>5. JournalTypeOK'
    <2>1. CASE RejectCommand(o) \/ LaunchFails(o) \/ InterruptNative(o) \/ BreakNative(o)
      BY <2>1, FailType DEF JournalTypeOK, Labels
    <2>2. CASE PrepareNative(o)
      <3>1. [memory[o] EXCEPT !.phase = "native_prepared", !.native = TRUE] \in Records
        BY <1>4 DEF Records, Phases
      <3>2. journal' \in [Ops -> Records] /\ memory' \in [Ops -> Records]
        BY <2>2, <3>1, SaveType
      <3> QED
        BY <2>2, <3>2 DEF JournalTypeOK, Goto, Labels
    <2>3. CASE Launch(o)
      <3>1. [memory[o] EXCEPT !.phase = "native_started", !.started = TRUE] \in Records
        BY <1>4 DEF Records, Phases
      <3>2. journal' \in [Ops -> Records] /\ memory' \in [Ops -> Records]
        BY <2>3, <3>1, SaveType
      <3> QED
        BY <2>3, <3>2 DEF JournalTypeOK
    <2>4. CASE Go(o)
      BY <2>4 DEF JournalTypeOK, journalVars
    <2>5. CASE StopNative(o)
      <3>1. memory' = [memory EXCEPT ![o] = [memory[o] EXCEPT !.fault = TRUE]]
        BY <2>5
      <3>2. [memory[o] EXCEPT !.fault = TRUE] \in Records
        BY <1>4 DEF Records
      <3>3. memory' \in [Ops -> Records]
        BY <3>1, <3>2 DEF JournalTypeOK
      <3>4. cancelled' \in BOOLEAN
        BY <2>5 DEF JournalTypeOK
      <3> QED
        BY <2>5, <3>3, <3>4 DEF JournalTypeOK
    <2>6. CASE FinishNative(o)
      <3>1. \A s \in {"succeeded", "failed"} : Result(s, "confirmed") \in Results
        BY DEF Result, Results
      <3>2. PICK r \in Results, faulted \in BOOLEAN : Settle(o, r, faulted)
        BY <2>6, <3>1
      <3>3. /\ journal' \in [Ops -> Records] /\ memory' \in [Ops -> Records]
            /\ at' \in Labels
            /\ current' = current /\ answer' = answer /\ stops' = stops
        BY <3>2, SettleType DEF Labels
      <3> QED
        BY <2>6, <3>3 DEF JournalTypeOK
    <2>7. CASE ReconcileNative(o)
      BY <2>7, ObservedType, ConstantTypes
    <2> QED
      BY <2>1, <2>2, <2>3, <2>4, <2>5, <2>6, <2>7
  <1> QED
    BY <1>1, <1>2, <1>3, <1>5

\* So do the end of a command, a stop, an edit, a crash and an unspecified record.
LEMMA OtherStepType ==
  ASSUME TypeOK,
         \/ \E o \in Ops : ReconcileUnspecified(o) \/ CommandStep(o)
         \/ Stop \/ Edit \/ Crash
  PROVE  TypeOK'
  <1> USE DEF TypeOK
  <1>1. CASE \E o \in Ops : ReconcileUnspecified(o)
    <2>1. PICK o \in Ops : ReconcileUnspecified(o)
      BY <1>1
    <2>2. FileTypeOK' /\ ContainerTypeOK' /\ NativeTypeOK'
      BY <2>1 DEF ReconcileUnspecified, targetVars, fileVars, historyVars, containerVars,
                  nativeVars, FileTypeOK, ContainerTypeOK, NativeTypeOK
    <2>3. cancelled' \in BOOLEAN
      BY <2>1 DEF ReconcileUnspecified
    <2>4. stops' \in 0..MaxStops /\ at' \in Labels
      BY <2>1, MaxStopsAssumption DEF ReconcileUnspecified, Goto, Labels
    <2>5. answer' \in [Ops -> Results]
      BY <2>1, ConstantTypes DEF ReconcileUnspecified, JournalTypeOK
    <2> QED
      BY <2>1, <2>2, <2>3, <2>4, <2>5 DEF ReconcileUnspecified, JournalTypeOK
  <1>2. CASE \E o \in Ops : CommandStep(o)
    <2>1. PICK o \in Ops : ExitNative(o) \/ CloseOutput(o)
      BY <1>2 DEF CommandStep
    <2>2. JournalTypeOK' /\ ContainerTypeOK'
      BY <1>2 DEF CommandStep, ExitNative, CloseOutput, journalVars, containerVars,
                  JournalTypeOK, ContainerTypeOK
    <2>3. FileTypeOK'
      BY <2>1, FileAssumption DEF ExitNative, CloseOutput, FileTypeOK, fileVars, historyVars
    <2>4. process' \in [Ops -> Processes]
      BY <2>1 DEF ExitNative, CloseOutput, NativeTypeOK, SetProcess, Processes, Closed
    <2>5. commandOk' \in [Ops -> BOOLEAN]
      BY <2>1 DEF ExitNative, CloseOutput, NativeTypeOK
    <2> QED
      BY <2>2, <2>3, <2>4, <2>5 DEF NativeTypeOK
  <1>3. CASE Stop
    <2>1. FileTypeOK' /\ ContainerTypeOK' /\ NativeTypeOK'
      BY <1>3 DEF Stop, targetVars, fileVars, historyVars, containerVars, nativeVars,
                  FileTypeOK, ContainerTypeOK, NativeTypeOK
    <2>2. cancelled' \in BOOLEAN
      BY <1>3 DEF Stop, RequestStop
    <2>3. stops' \in 0..MaxStops
      BY <1>3, MaxStopsAssumption DEF Stop, RequestStop, JournalTypeOK
    <2> QED
      BY <1>3, <2>1, <2>2, <2>3 DEF Stop, RequestStop, JournalTypeOK
  <1>4. CASE Edit
    BY <1>4, FileAssumption
       DEF Edit, EditFile, journalVars, containerVars, nativeVars, JournalTypeOK,
           FileTypeOK, ContainerTypeOK, NativeTypeOK
  <1>5. CASE Crash
    <2>1. FileTypeOK'
      BY <1>5 DEF Crash, LoseWorkers, FileTypeOK, Steps, historyVars
    <2>2. ContainerTypeOK' /\ NativeTypeOK'
      BY <1>5 DEF Crash, LoseNative, containerVars, ContainerTypeOK, NativeTypeOK
    <2>3. cancelled' \in BOOLEAN
      BY <1>5 DEF Crash, LoseProcess
    <2>4. stops' \in 0..MaxStops /\ at' \in Labels
      BY <1>5, MaxStopsAssumption DEF Crash, LoseProcess, Goto, Labels
    <2>5. memory' \in [Ops -> Records]
      BY <1>5, ConstantTypes DEF Crash, LoseProcess
    <2> QED
      BY <1>5, <2>1, <2>2, <2>3, <2>4, <2>5 DEF Crash, LoseProcess, JournalTypeOK
  <1> QED
    BY <1>1, <1>2, <1>3, <1>4, <1>5

\* Every step keeps the types.
LEMMA TypeStep ==
  ASSUME TypeOK, [Next]_vars
  PROVE  TypeOK'
  <1>1. CASE Next
    BY <1>1, JournalStepType, FileStepType, WorkStepType, ContainerStepType,
       EngineStepType, NativeStepType, OtherStepType DEF Next
  <1>2. CASE UNCHANGED vars
    BY <1>2 DEF vars, journalVars, fileVars, historyVars, containerVars, nativeVars,
                TypeOK, JournalTypeOK, FileTypeOK, ContainerTypeOK, NativeTypeOK
  <1> QED
    BY <1>1, <1>2

\* The initial state has them.
LEMMA TypeInit ==
  ASSUME Init
  PROVE  TypeOK
  <1> USE DEF Init
  <1>1. /\ cancelled \in BOOLEAN
        /\ exitOk \in [Ops -> BOOLEAN] /\ commandOk \in [Ops -> BOOLEAN]
    BY DEF JournalInit, ContainerInit, NativeInit
  <1>2. JournalTypeOK
    BY <1>1, ConstantTypes, MaxStopsAssumption DEF JournalInit, JournalTypeOK, Labels
  <1>3. FileTypeOK
    BY DEF FileInit, FileTypeOK, Steps
  <1>4. ContainerTypeOK /\ NativeTypeOK
    BY <1>1 DEF ContainerInit, NativeInit, ContainerTypeOK, NativeTypeOK, Boxes, Processes
  <1> QED
    BY <1>2, <1>3, <1>4 DEF TypeOK

\* Type correctness: every value the journal, the memory of a running call and
\* the targets take is one the code can write.
THEOREM TypeInvariant == Spec => []TypeOK
  BY TypeInit, TypeStep, PTL DEF Spec

-------------------------------------------------------------------------------
(***************************************************************************)
(* What the epilogue and an observation do to the facts IInv is about.     *)
(***************************************************************************)
\* The epilogue saves one record: it never clears a start or a name, leaves
\* the phase "absent" behind and moves the label out of the calls.
LEMMA SettleEffect ==
  ASSUME JournalTypeOK, NEW o \in Ops, NEW r \in Results, NEW faulted \in BOOLEAN,
         Settle(o, r, faulted)
  PROVE  /\ journal'[o].phase # "absent" /\ memory'[o].phase # "absent"
         /\ journal'[o].started = memory[o].started
         /\ memory'[o].started = memory[o].started
         /\ \A p \in Ops \ {o} : journal'[p] = journal[p] /\ memory'[p] = memory[p]
         /\ at' \in {"cleanup", "return"}
         /\ current' = current
  <1> DEFINE settled == [memory[o] EXCEPT !.result = r, !.phase = PhaseOf(r),
                                          !.fault = @ \/ faulted]
  <1>1. memory[o] \in Records
    BY DEF JournalTypeOK
  <1>2. PhaseOf(r) # "absent"
    BY DEF PhaseOf
  <1>3. settled.phase = PhaseOf(r) /\ settled.started = memory[o].started
    BY <1>1 DEF Records
  <1>4. /\ memory' = [memory EXCEPT ![o] = settled]
        /\ journal' = [journal EXCEPT ![o] = settled]
    BY DEF Settle, Save
  <1>5. at' \in {"cleanup", "return"} /\ current' = current
    BY DEF Settle, Goto
  <1> HIDE DEF settled
  <1> QED
    BY <1>2, <1>3, <1>4, <1>5 DEF JournalTypeOK

\* The same of an observation, which releases the lease as well.
LEMMA ObservedEffectOnRecord ==
  ASSUME JournalTypeOK, NEW o \in Ops, NEW r \in Results, Observed(o, r)
  PROVE  /\ journal'[o].phase # "absent"
         /\ journal'[o].started = journal[o].started
         /\ \A p \in Ops \ {o} : journal'[p] = journal[p]
         /\ memory' = memory
         /\ current' = Nobody
  <1> DEFINE seen == [journal[o] EXCEPT !.result = r, !.phase = PhaseOf(r), !.fault = TRUE]
  <1>1. journal[o] \in Records /\ PhaseOf(r) # "absent"
    BY DEF JournalTypeOK, PhaseOf
  <1>2. seen.phase = PhaseOf(r) /\ seen.started = journal[o].started
    BY <1>1 DEF Records
  <1>3. journal' = [journal EXCEPT ![o] = seen]
    BY <1>1 DEF Observed, JournalTypeOK, Records
  <1> HIDE DEF seen
  <1> QED
    BY <1>1, <1>2, <1>3 DEF JournalTypeOK, Observed

\* A step that ends the work of o keeps the invariant of every operation, as
\* long as it starts no target.
Quiet(o) ==
  /\ UNCHANGED <<acted, box, wire>>
  /\ step' \in {step, [step EXCEPT ![o] = "none"]}
  /\ \/ process' = process
     \/ process[o] # "none" /\ process' = [process EXCEPT ![o] = "ended"]

\* A settled call keeps OpInv if its own targets only come to rest.
LEMMA SettleKeeps ==
  ASSUME IInv, NEW o \in Ops, current = o, at # "reconcile",
         NEW r \in Results, NEW faulted \in BOOLEAN, Settle(o, r, faulted), Quiet(o),
         NEW p \in Ops
  PROVE  OpInv(p)'
  <1>1. OpInv(p) /\ OpInv(o) /\ TypeOK
    BY DEF IInv
  <1>2. /\ journal'[o].phase # "absent"
        /\ journal'[o].started = memory[o].started
        /\ memory'[o].started = memory[o].started
        /\ p # o => journal'[p] = journal[p] /\ memory'[p] = memory[p]
        /\ at' \in {"cleanup", "return"}
        /\ current' = o
    BY <1>1, SettleEffect DEF TypeOK
  <1>3. journal[p].started => journal'[p].started
    BY <1>1, <1>2 DEF OpInv, Intent
  <1>4. /\ acted'[p] = acted[p] /\ box'[p] = box[p] /\ wire' = wire
        /\ step'[p] \in {step[p], "none"}
        /\ \/ process'[p] = process[p]
           \/ process[p] # "none" /\ process'[p] = "ended"
    BY <1>1 DEF Quiet, TypeOK, FileTypeOK, NativeTypeOK
  <1>5. (OwnTarget(p) /\ OwnLabel(p))'
    BY <1>1, <1>2, <1>4 DEF OpInv, OwnTarget, OwnLabel
  <1>6. (Untouched(p) /\ NotYet(p) /\ OnRecord(p))'
    BY <1>1, <1>2, <1>4 DEF OpInv, Untouched, Fresh, NotYet, OnRecord
  <1>7. Intent(p)'
    BY <1>1, <1>2, <1>3, <1>4 DEF OpInv, Intent
  <1> QED
    BY <1>1, <1>4, <1>5, <1>6, <1>7 DEF OpInv

\* So does an observation.
LEMMA ObservedKeeps ==
  ASSUME IInv, NEW o \in Ops, current = o, NEW r \in Results, Observed(o, r),
         UNCHANGED targetVars, NEW p \in Ops
  PROVE  OpInv(p)'
  <1>1. OpInv(p) /\ OpInv(o) /\ TypeOK
    BY DEF IInv
  <1>2. /\ journal'[o].phase # "absent"
        /\ journal'[o].started = journal[o].started
        /\ p # o => journal'[p] = journal[p]
        /\ memory' = memory
        /\ current' # p
    BY <1>1, ObservedEffectOnRecord, NobodyAssumption DEF TypeOK
  <1>3. UNCHANGED <<acted, step, box, wire, process>>
    BY DEF targetVars, fileVars, historyVars, containerVars, nativeVars
  <1> QED
    BY <1>1, <1>2, <1>3 DEF OpInv, OwnTarget, OwnLabel, Untouched, Fresh, NotYet,
                            OnRecord, Intent

\* A save of the current record keeps it as well, if it takes nothing back.
LEMMA SaveKeeps ==
  ASSUME IInv, NEW o \in Ops, current = o, current' = o, at # "reconcile",
         NEW r \in Records, Save(o, r),
         r.phase # "absent", memory[o].started => r.started,
         at' \in {"attaching", "attached"} => r.started,
         at' # "dispatch", OwnLabel(o)',
         UNCHANGED <<acted, step, wire, process>>,
         \/ box' = box
         \/ box[o] = "running" /\ Become(o, "exited"),
         NEW p \in Ops
  PROVE  OpInv(p)'
  <1>1. OpInv(p) /\ OpInv(o) /\ TypeOK
    BY DEF IInv
  <1>2. /\ journal'[o] = r /\ memory'[o] = r
        /\ p # o => journal'[p] = journal[p] /\ memory'[p] = memory[p]
    BY <1>1 DEF Save, TypeOK, JournalTypeOK
  <1>3. journal[p].started => journal'[p].started
    BY <1>1, <1>2 DEF OpInv, Intent
  <1>4. box'[p] = box[p] \/ (box[p] = "running" /\ box'[p] = "exited")
    <2>1. box \in [Ops -> Boxes]
      BY <1>1 DEF TypeOK, ContainerTypeOK
    <2> QED
      BY <2>1 DEF Become
  <1>5. (OwnTarget(p) /\ OwnLabel(p))'
    BY <1>1, <1>2, <1>4 DEF OpInv, OwnTarget, OwnLabel
  <1>6. (Untouched(p) /\ NotYet(p) /\ OnRecord(p))'
    BY <1>1, <1>2, <1>4 DEF OpInv, Untouched, Fresh, NotYet, OnRecord
  <1>7. Intent(p)'
    BY <1>1, <1>2, <1>3 DEF OpInv, Intent
  <1> QED
    BY <1>1, <1>5, <1>6, <1>7 DEF OpInv

-------------------------------------------------------------------------------
(***************************************************************************)
(* IInv, action by action.                                                 *)
(***************************************************************************)
\* The prologue, the return and a repeated call keep OpInv.
LEMMA JournalStepKeeps ==
  ASSUME IInv, NEW o \in Ops, JournalStep(o), NEW p \in Ops
  PROVE  OpInv(p)'
  <1>1. OpInv(p) /\ OpInv(o) /\ TypeOK
    BY DEF IInv
  <1>2. UNCHANGED <<acted, step, box, wire, process>>
    BY DEF JournalStep, targetVars, fileVars, historyVars, containerVars, nativeVars
  <1> USE DEF OpInv, OwnTarget, OwnLabel, Untouched, Fresh, NotYet, OnRecord, Intent
  <1>3. CASE Replay(o) \/ Refuse(o)
    BY <1>1, <1>2, <1>3 DEF Replay, Refuse
  <1>4. CASE Reenter(o) \/ Recover(o)
    BY <1>1, <1>2, <1>4 DEF Reenter, Recover, Enter
  <1>5. CASE Prepare(o)
    <2>1. /\ journal'[o] = Prepared /\ memory'[o] = Prepared
          /\ p # o => journal'[p] = journal[p] /\ memory'[p] = memory[p]
      BY <1>1, <1>5 DEF Prepare, TypeOK, JournalTypeOK
    <2>2. Prepared.phase = "prepared" /\ Prepared.started = FALSE
      BY DEF Prepared, NoRecord
    <2>3. journal[o].phase = "absent" /\ current' = o /\ at' = "dispatch"
      BY <1>5 DEF Prepare, Enter
    <2>4. (OwnTarget(p) /\ OwnLabel(p) /\ NotYet(p))'
      BY <1>1, <1>2, <2>3
    <2>5. (Untouched(p) /\ OnRecord(p))'
      BY <1>1, <1>2, <2>1, <2>2, <2>3
    <2>6. Intent(p)'
      BY <1>1, <1>2, <2>1, <2>2, <2>3 DEF Verbs
    <2> QED
      BY <1>1, <1>2, <2>4, <2>5, <2>6
  <1>6. CASE Return(o) \/ AbandonReconcile(o)
    BY <1>1, <1>2, <1>6, NobodyAssumption DEF Return, AbandonReconcile, Goto
  <1> QED
    BY <1>3, <1>4, <1>5, <1>6 DEF JournalStep

\* A file operation keeps OpInv on the event loop.
LEMMA FileStepKeeps ==
  ASSUME IInv, NEW o \in Ops, FileStep(o), NEW p \in Ops
  PROVE  OpInv(p)'
  <1>1. OpInv(p) /\ OpInv(o) /\ TypeOK
    BY DEF IInv
  <1>2. UNCHANGED <<acted, box, wire, process>>
    BY DEF FileStep, StartWork, FinishWork, CancelShielded, CancelUnshielded,
           ReconcileFile, ReconcileFileFails, fileVars, historyVars, containerVars,
           nativeVars
  <1>3. CASE StartWork(o)
    <2>1. /\ current = o /\ at = "dispatch" /\ current' = o
          /\ at' \in {"await_work", "file"}
          /\ UNCHANGED <<journal, memory>>
          /\ Kind[o] \in FileKinds
      BY <1>3 DEF StartWork, Goto
    <2>2. step'[o] = "queued" /\ (p # o => step'[p] = step[p])
      BY <1>1, <1>3 DEF StartWork, Advance, TypeOK, FileTypeOK
    <2> QED
      BY <1>1, <1>2, <2>1, <2>2
         DEF OpInv, OwnTarget, OwnLabel, Untouched, Fresh, NotYet, OnRecord, Intent,
             FileKinds
  <1>4. CASE FinishWork(o)
    <2>1. SuccessOf(o) \in Results
      BY DEF SuccessOf, Result, Results
    <2>2. PICK r \in Results, faulted \in BOOLEAN : Settle(o, r, faulted)
      BY <1>4, <2>1, ConstantTypes DEF FinishWork, Fail
    <2>3. Quiet(o) /\ current = o /\ at # "reconcile"
      BY <1>2, <1>4 DEF FinishWork, Quiet, Advance
    <2> QED
      BY <2>2, <2>3, SettleKeeps
  <1>5. CASE CancelShielded(o)
    BY <1>1, <1>2, <1>5
       DEF CancelShielded, Goto, fileVars, OpInv, OwnTarget, OwnLabel, Untouched, Fresh,
           NotYet, OnRecord, Intent
  <1>6. CASE CancelUnshielded(o)
    <2>1. PICK r \in Results, faulted \in BOOLEAN : Settle(o, r, faulted)
      BY <1>6, ConstantTypes DEF CancelUnshielded, Interrupt
    <2>2. Quiet(o) /\ current = o /\ at # "reconcile"
      BY <1>2, <1>6 DEF CancelUnshielded, Quiet, fileVars
    <2> QED
      BY <2>1, <2>2, SettleKeeps
  <1>7. CASE ReconcileFile(o)
    <2>1. Result("failed", ObservedEffect(o)) \in Results
      BY DEF Result, Results, ObservedEffect
    <2>2. UNCHANGED targetVars
      BY <1>7 DEF FileStep, ReconcileFile, targetVars, containerVars, nativeVars
    <2> QED
      BY <1>7, <2>1, <2>2, ObservedKeeps DEF ReconcileFile
  <1>8. CASE ReconcileFileFails(o)
    <2>1. journal[o] \in Records
      BY <1>1 DEF TypeOK, JournalTypeOK
    <2>2. journal' = [journal EXCEPT ![o] = [journal[o] EXCEPT !.fault = TRUE]]
      BY <1>1, <1>8 DEF ReconcileFileFails, TypeOK, JournalTypeOK
    <2>3. /\ journal'[p].phase = journal[p].phase
          /\ journal'[p].started = journal[p].started
      BY <1>1, <2>1, <2>2 DEF TypeOK, JournalTypeOK, Records
    <2>4. current' # p /\ UNCHANGED <<memory, step>>
      BY <1>8, NobodyAssumption DEF ReconcileFileFails, fileVars
    <2> QED
      BY <1>1, <1>2, <2>3, <2>4
         DEF OpInv, OwnTarget, OwnLabel, Untouched, Fresh, NotYet, OnRecord, Intent
  <1> QED
    BY <1>3, <1>4, <1>5, <1>6, <1>7, <1>8 DEF FileStep

\* Its worker thread does: it acts once, after its intent was saved.
LEMMA WorkStepKeeps ==
  ASSUME IInv, NEW o \in Ops, WorkStep(o), NEW p \in Ops
  PROVE  OpInv(p)'
  <1>1. OpInv(p) /\ OpInv(o) /\ TypeOK
    BY DEF IInv
  <1>2. UNCHANGED <<box, wire, process>>
    BY DEF WorkStep, containerVars, nativeVars
  <1> USE DEF OpInv, OwnTarget, OwnLabel, Untouched, Fresh, NotYet, OnRecord, Intent,
              Advance, FileKinds
  <1>3. CASE ReadFile(o) \/ RejectWork(o) \/ StageWrite(o) \/ VerifyWrite(o)
             \/ ReadBack(o) \/ BreakWrite(o)
    <2>1. /\ UNCHANGED <<journal, memory, current, at, acted>>
          /\ p # o => step'[p] = step[p]
          /\ \/ step'[o] \in {"ok", "error"} /\ step[o] # "none"
             \/ step[o] = "marked" /\ step'[o] = "staged"
             \/ step[o] = "staged" /\ step'[o] = "verified"
      BY <1>1, <1>3 DEF ReadFile, RejectWork, StageWrite, VerifyWrite, ReadBack,
           BreakWrite, journalVars, historyVars, TypeOK, FileTypeOK
    <2> QED
      BY <1>1, <1>2, <2>1
  <1>4. CASE MarkWrite(o)
    <2>1. PICK r \in Records : Save(o, r) /\ r.started /\ r.phase # "absent"
      <3>1. memory[o] \in Records
        BY <1>1 DEF TypeOK, JournalTypeOK
      <3> DEFINE r == [memory[o] EXCEPT !.phase = "file_write_started", !.started = TRUE]
      <3>2. r \in Records
        BY <3>1 DEF Records, Phases
      <3>3. r.started /\ r.phase # "absent"
        BY <3>1 DEF Records
      <3>4. Save(o, r)
        BY <1>4 DEF MarkWrite
      <3> QED
        BY <3>2, <3>3, <3>4
    <2>2. /\ journal'[o] = r /\ memory'[o] = r
          /\ p # o => journal'[p] = journal[p] /\ memory'[p] = memory[p]
      BY <1>1, <2>1 DEF Save, TypeOK, JournalTypeOK
    <2>3. /\ UNCHANGED <<current, at, acted>>
          /\ Kind[o] = "file_write" /\ step[o] = "queued"
          /\ step'[o] = "marked" /\ (p # o => step'[p] = step[p])
      BY <1>1, <1>4 DEF MarkWrite, historyVars, TypeOK, FileTypeOK
    <2> QED
      BY <1>1, <1>2, <2>1, <2>2, <2>3
  <1>5. CASE Register(o) \/ ReplaceFile(o)
    <2>1. /\ UNCHANGED <<journal, memory, current, at>>
          /\ p # o => step'[p] = step[p] /\ acted'[p] = acted[p]
          /\ step[o] \in {"queued", "verified"} /\ step'[o] \in {"ok", "replaced"}
          /\ step[o] = "queued" => Kind[o] = "capability_request" /\ step'[o] = "ok"
          /\ acted'[o] \in {acted[o], acted[o] + 1}
      BY <1>1, <1>5 DEF Register, ReplaceFile, Act, journalVars, TypeOK, FileTypeOK
    <2>2. acted[o] = 0
      BY <1>1, <2>1
    <2> QED
      BY <1>1, <1>2, <2>1, <2>2
  <1> QED
    BY <1>3, <1>4, <1>5 DEF WorkStep, Work

\* The records a container call saves: each keeps the phase and the start.
LEMMA ContainerSaves ==
  ASSUME TypeOK, NEW o \in Ops,
         \/ RequestCreate(o) \/ CreateReplied(o) \/ CreateLost(o)
         \/ RecheckAndStart(o) \/ AttachEnds(o) \/ StopAttached(o)
  PROVE  \E r \in Records :
           /\ Save(o, r)
           /\ \/ r.phase # "absent"
              \/ at = "attached" /\ r.phase = memory[o].phase
           /\ memory[o].started => r.started
           /\ RecheckAndStart(o) => r.started
  <1>1. memory[o] \in Records
    BY DEF TypeOK, JournalTypeOK
  <1>2. CASE RequestCreate(o)
    <2> DEFINE r == [memory[o] EXCEPT !.phase = "creating", !.named = TRUE]
    <2>1. r \in Records /\ r.phase # "absent" /\ r.started = memory[o].started
      BY <1>1 DEF Records, Phases
    <2>2. Save(o, r) /\ ~RecheckAndStart(o)
      BY <1>2 DEF RequestCreate, RecheckAndStart, Running
    <2> QED BY <2>1, <2>2
  <1>3. CASE CreateReplied(o)
    <2> DEFINE r == [memory[o] EXCEPT !.phase = "created", !.identified = TRUE]
    <2>1. r \in Records /\ r.phase # "absent" /\ r.started = memory[o].started
      BY <1>1 DEF Records, Phases
    <2>2. Save(o, r) /\ ~RecheckAndStart(o)
      BY <1>3 DEF CreateReplied, RecheckAndStart, Running
    <2> QED BY <2>1, <2>2
  <1>4. CASE CreateLost(o)
    <2> DEFINE r == [memory[o] EXCEPT !.started = TRUE, !.fault = TRUE, !.result = Unknown,
                                      !.phase = "unresolved"]
    <2>1. r \in Records /\ r.phase # "absent" /\ r.started
      BY <1>1, ConstantTypes DEF Records, Phases
    <2>2. Save(o, r)
      BY <1>4 DEF CreateLost
    <2> QED BY <2>1, <2>2
  <1>5. CASE RecheckAndStart(o)
    <2> DEFINE r == [memory[o] EXCEPT !.phase = "starting", !.started = TRUE]
    <2>1. r \in Records /\ r.phase # "absent" /\ r.started
      BY <1>1 DEF Records, Phases
    <2>2. Save(o, r)
      BY <1>5 DEF RecheckAndStart
    <2> QED BY <2>1, <2>2
  <1>6. CASE AttachEnds(o)
    <2>1. PICK clean \in BOOLEAN : Save(o, [memory[o] EXCEPT !.fault = @ \/ ~clean])
      BY <1>6 DEF AttachEnds
    <2> DEFINE r == [memory[o] EXCEPT !.fault = @ \/ ~clean]
    <2>2. r \in Records /\ r.phase = memory[o].phase /\ r.started = memory[o].started
      BY <1>1 DEF Records
    <2>3. Save(o, r) /\ ~RecheckAndStart(o) /\ at = "attached"
      BY <1>6, <2>1 DEF AttachEnds, RecheckAndStart, Running
    <2> QED BY <2>2, <2>3
  <1>7. CASE StopAttached(o)
    <2> DEFINE r == [memory[o] EXCEPT !.fault = TRUE]
    <2>1. r \in Records /\ r.phase = memory[o].phase /\ r.started = memory[o].started
      BY <1>1 DEF Records
    <2>2. Save(o, r) /\ ~RecheckAndStart(o) /\ at = "attached"
      BY <1>7 DEF StopAttached, RecheckAndStart, Running
    <2> QED BY <2>1, <2>2
  <1> QED
    BY <1>2, <1>3, <1>4, <1>5, <1>6, <1>7

\* A container operation does: the start is saved before it is requested.
LEMMA ContainerStepKeeps ==
  ASSUME IInv, NEW o \in Ops, ContainerStep(o), NEW p \in Ops
  PROVE  OpInv(p)'
  <1>1. OpInv(p) /\ OpInv(o) /\ TypeOK /\ JournalTypeOK
    BY DEF IInv, TypeOK
  <1>2. process' = process
    BY DEF ContainerStep, nativeVars
  <1>3. CASE \/ RejectContainer(o) \/ InterruptBeforeCreate(o) \/ RefuseStart(o)
             \/ InterruptContainer(o) \/ SpawnFails(o)
             \/ CreateRefused(o) \/ ObserveTerminal(o) \/ ObserveNothing(o)
    <2>1. \A s \in {"succeeded", "failed"} : Result(s, TerminalEffect(o)) \in Results
      BY DEF Result, Results, TerminalEffect
    <2>2. PICK r \in Results, faulted \in BOOLEAN : Settle(o, r, faulted)
      BY <1>3, <2>1, ConstantTypes
         DEF RejectContainer, InterruptBeforeCreate, RefuseStart, InterruptContainer,
             SpawnFails, CreateRefused, ObserveTerminal, ObserveNothing, Fail, Interrupt
    <2>3. Quiet(o) /\ current = o /\ at # "reconcile"
      BY <1>2, <1>3
         DEF RejectContainer, InterruptBeforeCreate, RefuseStart, InterruptContainer,
             SpawnFails, CreateRefused, ObserveTerminal, ObserveNothing, Quiet, Running,
             fileVars, historyVars, containerVars
    <2> QED
      BY <2>2, <2>3, SettleKeeps
  <1>4. CASE ReconcileTerminal(o) \/ ReconcileRunning(o) \/ ReconcileUnobserved(o)
    <2>1. /\ Result("failed", TerminalEffect(o)) \in Results
          /\ Result("pending", "unknown") \in Results
      BY DEF Result, Results, TerminalEffect
    <2>2. PICK r \in Results : Observed(o, r)
      BY <1>4, <2>1, ConstantTypes
         DEF ReconcileTerminal, ReconcileRunning, ReconcileUnobserved
    <2>3. UNCHANGED targetVars /\ current = o
      BY <1>4 DEF ContainerStep, ReconcileTerminal, ReconcileRunning,
                  ReconcileUnobserved, Running, targetVars
    <2> QED
      BY <2>2, <2>3, ObservedKeeps
  <1>5. CASE CreateReplied(o) \/ CreateLost(o) \/ RecheckAndStart(o) \/ AttachEnds(o)
             \/ StopAttached(o)
    <2> USE <1>5 DEF CreateReplied, CreateLost, RecheckAndStart, AttachEnds,
                     StopAttached, Running, Goto
    <2>1. PICK r \in Records : /\ Save(o, r)
                               /\ \/ r.phase # "absent"
                                  \/ at = "attached" /\ r.phase = memory[o].phase
                               /\ memory[o].started => r.started
                               /\ RecheckAndStart(o) => r.started
      BY ONLY <1>1, <1>5, ContainerSaves, o \in Ops
    <2>2. /\ current = o /\ current' = o
          /\ at \in {"creating", "created", "attached"}
          /\ at' \in {"created", "return", "attaching", "observe"}
          /\ at' = "attaching" => RecheckAndStart(o)
      OBVIOUS
    <2>3. r.phase # "absent"
      BY <1>1, <2>1, <2>2 DEF OpInv, OnRecord
    <2>4. Kind[o] = "container"
      BY <1>1, <2>2 DEF OpInv, OwnLabel
    <2>5. OwnLabel(o)'
      BY <2>2, <2>4 DEF OwnLabel
    <2>6. /\ UNCHANGED <<acted, step, wire, process>>
          /\ \/ box' = box
             \/ box[o] = "running" /\ Become(o, "exited")
      BY <1>2 DEF fileVars, historyVars, containerVars
    <2> QED
      BY <2>1, <2>2, <2>3, <2>5, <2>6, SaveKeeps
  <1> USE DEF OpInv, OwnTarget, OwnLabel, Untouched, Fresh, NotYet, OnRecord, Intent
  <1>6. CASE RequestCreate(o)
    <2>1. PICK r \in Records : /\ Save(o, r)
                               /\ r.phase # "absent" \/ at = "attached"
                               /\ memory[o].started => r.started
      BY <1>1, <1>6, ContainerSaves
    <2>2. /\ journal'[o] = r /\ memory'[o] = r
          /\ p # o => journal'[p] = journal[p] /\ memory'[p] = memory[p]
      BY <1>1, <2>1 DEF Save, JournalTypeOK
    <2>3. /\ current = o /\ at = "dispatch" /\ current' = o /\ at' = "creating"
          /\ Kind[o] = "container"
          /\ UNCHANGED <<step, acted, box>>
          /\ wire' = wire \cup {<<o, "create">>}
      BY <1>6 DEF RequestCreate, Running, Goto, historyVars
    <2>4. r.phase # "absent"
      BY <2>1, <2>3
    <2>5. journal[p].started => journal'[p].started
      BY <1>1, <2>1, <2>2, <2>3
    <2>6. (OwnTarget(p) /\ OwnLabel(p) /\ NotYet(p))'
      BY <1>1, <1>2, <2>3
    <2>7. (Untouched(p) /\ OnRecord(p))'
      BY <1>1, <1>2, <2>2, <2>3, <2>4
    <2>8. Intent(p)'
      BY <1>1, <1>2, <2>1, <2>2, <2>3, <2>5
    <2> QED
      BY <1>1, <2>3, <2>6, <2>7, <2>8
  <1>7. CASE SpawnAttach(o)
    <2>1. /\ current = o /\ at = "attaching" /\ current' = o /\ at' = "attached"
          /\ UNCHANGED <<journal, memory, step, acted, box>>
          /\ wire' = wire \cup {<<o, "start">>}
      BY <1>7 DEF SpawnAttach, Running, Goto, fileVars, historyVars
    <2> QED
      BY <1>1, <1>2, <2>1
  <1>8. CASE Cleanup(o) \/ KillOwned(o)
    <2>1. /\ current = o /\ current' = o
          /\ at \in {"cleanup", "reconcile"}
          /\ at' = (IF at = "cleanup" THEN "return" ELSE "reconcile")
          /\ UNCHANGED <<journal, memory, step, acted, wire>>
      BY <1>8 DEF Cleanup, KillOwned, Running, Goto, journalVars, fileVars, historyVars
    <2>2. /\ p # o => box'[p] = box[p]
          /\ \/ box'[o] = box[o]
             \/ box[o] = "running" /\ box'[o] = "exited"
             \/ Terminal(o) /\ at = "cleanup" /\ box'[o] = "removed"
      <3>1. box \in [Ops -> Boxes]
        BY <1>1 DEF TypeOK, ContainerTypeOK
      <3> QED
        BY <1>8, <3>1 DEF Cleanup, KillOwned, Become, Running
    <2> QED
      BY <1>1, <1>2, <2>1, <2>2 DEF Terminal
  <1> QED
    BY <1>3, <1>4, <1>5, <1>6, <1>7, <1>8 DEF ContainerStep

\* The engine does: a request is served once, a container runs once.
LEMMA EngineStepKeeps ==
  ASSUME IInv, NEW o \in Ops, EngineStep(o), NEW p \in Ops
  PROVE  OpInv(p)'
  <1>1. OpInv(p) /\ OpInv(o) /\ TypeOK
    BY DEF IInv
  <1>2. UNCHANGED <<journal, memory, current, at, step, process>>
    BY DEF EngineStep, Engine, ServeCreate, ServeStart, DropRequest, ExitContainer,
           journalVars, fileVars, nativeVars
  <1>3. box \in [Ops -> Boxes] /\ acted \in [Ops -> Nat]
    BY <1>1 DEF TypeOK, ContainerTypeOK, FileTypeOK
  <1> USE DEF OpInv, OwnTarget, OwnLabel, Untouched, Fresh, NotYet, OnRecord, Intent,
              Verbs
  <1>4. CASE ServeCreate(o)
    <2>1. /\ <<o, "create">> \in wire
          /\ box'[o] = "created" /\ (p # o => box'[p] = box[p])
          /\ wire' = wire \ {<<o, "create">>}
          /\ acted' = acted
      BY <1>3, <1>4 DEF ServeCreate, Become, historyVars
    <2> QED
      BY <1>1, <1>2, <2>1
  <1>5. CASE ServeStart(o)
    <2>1. /\ <<o, "start">> \in wire /\ box[o] = "created"
          /\ box'[o] = "running" /\ acted'[o] = acted[o] + 1
          /\ p # o => box'[p] = box[p] /\ acted'[p] = acted[p]
          /\ wire' = wire \ {<<o, "start">>}
      BY <1>3, <1>5 DEF ServeStart, Become, Act
    <2>2. acted[o] = 0 /\ journal[o].started /\ Kind[o] = "container"
      BY <1>1, <2>1
    <2>3. CASE p = o
      <3>1. acted'[p] = 1
        BY <2>1, <2>2, <2>3
      <3>2. (OwnTarget(p) /\ OwnLabel(p) /\ NotYet(p))'
        BY <1>1, <1>2, <2>1, <2>2, <2>3 DEF FileKinds
      <3>3. (Untouched(p) /\ OnRecord(p))'
        BY <1>1, <1>2, <2>1, <2>2, <2>3
      <3>4. Intent(p)'
        BY <1>1, <1>2, <2>1, <2>2, <2>3
      <3> QED
        BY <3>1, <3>2, <3>3, <3>4
    <2>4. CASE p # o
      BY <1>1, <1>2, <2>1, <2>4
    <2> QED
      BY <2>3, <2>4
  <1>6. CASE DropRequest(o)
    <2>1. /\ UNCHANGED <<box, acted>>
          /\ wire' \subseteq wire
      BY <1>6 DEF DropRequest, historyVars
    <2> QED
      BY <1>1, <1>2, <2>1
  <1>7. CASE ExitContainer(o)
    <2>1. /\ box[o] = "running"
          /\ box'[o] = "exited" /\ (p # o => box'[p] = box[p])
          /\ UNCHANGED <<wire, acted>>
      BY <1>3, <1>7 DEF ExitContainer, Become, historyVars
    <2> QED
      BY <1>1, <1>2, <2>1
  <1> QED
    BY <1>4, <1>5, <1>6, <1>7 DEF EngineStep, Engine

\* A native command does: its start is saved before its launcher gets it.
LEMMA NativeStepKeeps ==
  ASSUME IInv, NEW o \in Ops, NativeStep(o), NEW p \in Ops
  PROVE  OpInv(p)'
  <1>1. OpInv(p) /\ OpInv(o) /\ TypeOK /\ JournalTypeOK
    BY DEF IInv, TypeOK
  <1>2. UNCHANGED <<box, wire>>
    BY DEF NativeStep, containerVars
  <1>3. process \in [Ops -> Processes] /\ acted \in [Ops -> Nat] /\ memory[o] \in Records
    BY <1>1 DEF TypeOK, NativeTypeOK, FileTypeOK, JournalTypeOK
  <1>4. CASE \/ RejectCommand(o) \/ LaunchFails(o) \/ InterruptNative(o)
             \/ BreakNative(o) \/ FinishNative(o)
    <2>1. \A s \in {"succeeded", "failed"} : Result(s, "confirmed") \in Results
      BY DEF Result, Results
    <2>2. PICK r \in Results, faulted \in BOOLEAN : Settle(o, r, faulted)
      BY <1>4, <2>1, ConstantTypes
         DEF RejectCommand, LaunchFails, InterruptNative, BreakNative, FinishNative,
             Fail, Interrupt
    <2>3. Quiet(o) /\ current = o /\ at # "reconcile"
      BY <1>2, <1>4 DEF RejectCommand, LaunchFails, InterruptNative, BreakNative,
           FinishNative, InNative, SetProcess, Quiet, Closed, fileVars, historyVars,
           nativeVars
    <2> QED
      BY <2>2, <2>3, SettleKeeps
  <1>5. CASE ReconcileNative(o)
    <2>1. PICK r \in Results : Observed(o, r)
      BY <1>5, ConstantTypes DEF ReconcileNative
    <2>2. UNCHANGED targetVars /\ current = o
      BY <1>5 DEF NativeStep, ReconcileNative, targetVars
    <2> QED
      BY <2>1, <2>2, ObservedKeeps
  <1>6. CASE PrepareNative(o)
    <2> DEFINE r == [memory[o] EXCEPT !.phase = "native_prepared", !.native = TRUE]
    <2>1. r \in Records /\ r.phase # "absent" /\ r.started = memory[o].started
      BY <1>3 DEF Records, Phases
    <2>2. /\ Save(o, r) /\ Kind[o] = "native"
          /\ current = o /\ current' = o /\ at = "dispatch" /\ at' = "native"
          /\ UNCHANGED <<acted, step, wire, process>> /\ box' = box
      BY <1>2, <1>6 DEF PrepareNative, Goto, fileVars, historyVars, nativeVars
    <2>3. OwnLabel(o)'
      BY <2>2 DEF OwnLabel
    <2> HIDE DEF r
    <2> QED
      BY <2>1, <2>2, <2>3, SaveKeeps
  <1> USE DEF OpInv, OwnTarget, OwnLabel, Untouched, Fresh, NotYet, OnRecord, Intent
  <1>7. CASE Launch(o)
    <2> DEFINE r == [memory[o] EXCEPT !.phase = "native_started", !.started = TRUE]
    <2>1. r.phase = "native_started" /\ r.started
      BY <1>3 DEF Records
    <2>2. /\ journal'[o] = r /\ memory'[o] = r
          /\ p # o => journal'[p] = journal[p] /\ memory'[p] = memory[p]
      BY <1>1, <1>7 DEF Launch, Save, JournalTypeOK
    <2>3. /\ current = o /\ at = "native" /\ current' = o /\ at' = "native"
          /\ UNCHANGED <<step, acted>>
          /\ process[o] = "none" /\ process'[o] = "waiting"
          /\ p # o => process'[p] = process[p]
      BY <1>3, <1>7 DEF Launch, InNative, SetProcess, fileVars, historyVars
    <2> HIDE DEF r
    <2>4. (OwnTarget(p) /\ OwnLabel(p) /\ NotYet(p))'
      BY <1>1, <1>2, <2>3
    <2>5. (Untouched(p) /\ OnRecord(p))'
      BY <1>1, <1>2, <2>1, <2>2, <2>3
    <2>6. Intent(p)'
      BY <1>1, <1>2, <2>1, <2>2, <2>3
    <2> QED
      BY <1>1, <2>3, <2>4, <2>5, <2>6
  <1>8. CASE Go(o)
    <2>1. /\ current = o /\ at = "native"
          /\ UNCHANGED <<journal, memory, current, at, step>>
          /\ process[o] = "waiting" /\ process'[o] = "running"
          /\ acted'[o] = acted[o] + 1
          /\ p # o => process'[p] = process[p] /\ acted'[p] = acted[p]
      BY <1>3, <1>8 DEF Go, InNative, SetProcess, Act, journalVars, fileVars
    <2>2. acted[o] = 0 /\ journal[o].started /\ Kind[o] = "native"
      BY <1>1, <2>1
    <2>3. CASE p = o
      <3>1. acted'[p] = 1
        BY <2>1, <2>2, <2>3
      <3>2. (OwnTarget(p) /\ OwnLabel(p) /\ NotYet(p))'
        BY <1>1, <1>2, <2>1, <2>2, <2>3 DEF FileKinds
      <3>3. (Untouched(p) /\ OnRecord(p))'
        BY <1>1, <1>2, <2>1, <2>2, <2>3
      <3>4. Intent(p)'
        BY <1>1, <1>2, <2>1, <2>2, <2>3
      <3> QED
        BY <3>1, <3>2, <3>3, <3>4
    <2>4. CASE p # o
      BY <1>1, <1>2, <2>1, <2>4
    <2> QED
      BY <2>3, <2>4
  <1>9. CASE StopNative(o)
    <2>1. /\ current = o /\ at = "native"
          /\ UNCHANGED <<journal, current, at, step, acted>>
          /\ process[o] = "running" /\ process'[o] \in {"held", "ended"}
          /\ p # o => process'[p] = process[p]
      BY <1>3, <1>9 DEF StopNative, InNative, SetProcess, Closed, fileVars, historyVars
    <2>2. memory'[p].started = memory[p].started
      BY <1>1, <1>3, <1>9 DEF StopNative, JournalTypeOK, Records
    <2> QED
      BY <1>1, <1>2, <2>1, <2>2
  <1> QED
    BY <1>4, <1>5, <1>6, <1>7, <1>8, <1>9 DEF NativeStep

\* The end of a command, a stop, an edit and a crash do.
LEMMA OtherStepKeeps ==
  ASSUME IInv,
         \/ \E o \in Ops : ReconcileUnspecified(o) \/ CommandStep(o)
         \/ Stop \/ Edit \/ Crash,
         NEW p \in Ops
  PROVE  OpInv(p)'
  <1>1. OpInv(p) /\ TypeOK
    BY DEF IInv
  <1> USE NobodyAssumption
      DEF OpInv, OwnTarget, OwnLabel, Untouched, Fresh, NotYet, OnRecord, Intent
  <1>2. CASE \E o \in Ops : ReconcileUnspecified(o)
    <2>1. /\ UNCHANGED <<journal, memory, acted, step, box, wire, process>>
          /\ current' = Nobody
      BY <1>2 DEF ReconcileUnspecified, targetVars, fileVars, historyVars, containerVars,
                  nativeVars
    <2> QED
      BY <1>1, <2>1
  <1>3. CASE \E o \in Ops : CommandStep(o)
    <2>1. PICK o \in Ops : CommandStep(o)
      BY <1>3
    <2>2. /\ UNCHANGED <<journal, memory, current, at, acted, step, box, wire>>
          /\ process[o] \in {"running", "held"}
          /\ \E state \in {"held", "ended"} : process' = [process EXCEPT ![o] = state]
      BY <2>1 DEF CommandStep, ExitNative, CloseOutput, Closed, SetProcess, journalVars,
                  fileVars, historyVars, containerVars
    <2>3. \/ process[p] = process'[p]
          \/ process[p] \in {"running", "held"} /\ process'[p] \in {"held", "ended"}
      BY <1>1, <2>2 DEF TypeOK, NativeTypeOK
    <2> QED
      BY <1>1, <2>2, <2>3
  <1>4. CASE Stop \/ Edit
    <2>1. UNCHANGED <<journal, memory, current, at, acted, step, box, wire, process>>
      BY <1>4 DEF Stop, RequestStop, Edit, EditFile, journalVars, targetVars, fileVars,
                  historyVars, containerVars, nativeVars
    <2> QED
      BY <1>1, <2>1
  <1>5. CASE Crash
    <2>1. /\ UNCHANGED <<journal, acted, box, wire>>
          /\ current' = Nobody
          /\ step'[p] = "none"
      BY <1>5 DEF Crash, LoseProcess, LoseWorkers, historyVars, containerVars
    <2>2. /\ process'[p] = process[p] \/ process'[p] = "ended"
          /\ process[p] = "none" => process'[p] = "none"
      BY <1>5 DEF Crash, LoseNative
    <2> QED
      BY <1>1, <2>1, <2>2
  <1> QED
    BY <1>2, <1>3, <1>4, <1>5

-------------------------------------------------------------------------------
(***************************************************************************)
(* The theorems.                                                           *)
(***************************************************************************)
\* IInv holds initially.
LEMMA IInvInit ==
  ASSUME Init
  PROVE  IInv
  <1>1. TypeOK
    BY TypeInit
  <1>2. ASSUME NEW o \in Ops
        PROVE  OpInv(o)
    BY NobodyAssumption
       DEF Init, JournalInit, FileInit, ContainerInit, NativeInit, NoRecord, OpInv,
           OwnTarget, OwnLabel, Untouched, Fresh, NotYet, OnRecord, Intent
  <1> QED
    BY <1>1, <1>2 DEF IInv

\* Every step keeps IInv.
LEMMA IInvStep ==
  ASSUME IInv, [Next]_vars
  PROVE  IInv'
  <1>1. TypeOK'
    BY TypeStep DEF IInv
  <1>2. ASSUME NEW p \in Ops
        PROVE  OpInv(p)'
    <2>1. CASE Next
      BY <2>1, JournalStepKeeps, FileStepKeeps, WorkStepKeeps, ContainerStepKeeps,
         EngineStepKeeps, NativeStepKeeps, OtherStepKeeps DEF Next
    <2>2. CASE UNCHANGED vars
      BY <2>2 DEF vars, journalVars, fileVars, historyVars, containerVars, nativeVars,
           IInv, OpInv, OwnTarget, OwnLabel, Untouched, Fresh, NotYet, OnRecord, Intent
    <2> QED
      BY <2>1, <2>2
  <1> QED
    BY <1>1, <1>2 DEF IInv

\* IInv is an invariant: records and targets agree in every reachable state.
LEMMA InductiveInvariant == Spec => []IInv
  BY IInvInit, IInvStep, PTL DEF Spec

\* The target of an operation acts at most once, whatever calls, cancellations,
\* crashes and late replies of the container engine happen: execute() reserves
\* the journal before it starts anything and never starts from reconcile().
THEOREM AtMostOnce == Spec => []ActsAtMostOnce
  <1>1. IInv => ActsAtMostOnce
    BY DEF IInv, OpInv, ActsAtMostOnce
  <1> QED
    BY <1>1, InductiveInvariant, PTL

\* Whatever a file write, a container or a command did, the journal on disk
\* says that its target started: a restarted controller can see it.
THEOREM IntentFirst == Spec => []IntentBeforeEffect
  <1>1. IInv => IntentBeforeEffect
    BY DEF IInv, OpInv, Intent, IntentBeforeEffect
  <1> QED
    BY <1>1, InductiveInvariant, PTL

-------------------------------------------------------------------------------
(***************************************************************************)
(* What a save, the epilogue and an observation do to a record.            *)
(***************************************************************************)
\* The epilogue stores the result and its phase, on disk and in memory.
LEMMA SettleRecord ==
  ASSUME JournalTypeOK, NEW o \in Ops, NEW r \in Results, NEW faulted \in BOOLEAN,
         Settle(o, r, faulted)
  PROVE  /\ journal'[o] = memory'[o]
         /\ memory'[o].result = r
         /\ memory'[o].phase = PhaseOf(r)
         /\ memory'[o].native = memory[o].native
         /\ \A p \in Ops \ {o} : journal'[p] = journal[p] /\ memory'[p] = memory[p]
         /\ at' \in {"cleanup", "return"}
         /\ current' = current /\ answer' = answer /\ stops' = stops
  <1> DEFINE settled == [memory[o] EXCEPT !.result = r, !.phase = PhaseOf(r),
                                          !.fault = @ \/ faulted]
  <1>1. memory[o] \in Records
    BY DEF JournalTypeOK
  <1>2. /\ settled.phase = PhaseOf(r) /\ settled.result = r
        /\ settled.native = memory[o].native
    BY <1>1 DEF Records
  <1>3. /\ memory' = [memory EXCEPT ![o] = settled]
        /\ journal' = [journal EXCEPT ![o] = settled]
    BY DEF Settle, Save
  <1>4. /\ at' \in {"cleanup", "return"}
        /\ current' = current /\ answer' = answer /\ stops' = stops
    BY DEF Settle, Goto
  <1> HIDE DEF settled
  <1> QED
    BY <1>2, <1>3, <1>4 DEF JournalTypeOK

\* So does an observation, on disk only, and the caller is told.
LEMMA ObservedRecord ==
  ASSUME JournalTypeOK, NEW o \in Ops, NEW r \in Results, Observed(o, r)
  PROVE  /\ journal'[o].result = r
         /\ journal'[o].phase = PhaseOf(r)
         /\ journal'[o].native = journal[o].native
         /\ \A p \in Ops \ {o} : journal'[p] = journal[p]
         /\ memory' = memory
         /\ answer' = [answer EXCEPT ![o] = r]
         /\ current' = Nobody /\ at' = "idle" /\ cancelled' = FALSE
  <1> DEFINE seen == [journal[o] EXCEPT !.result = r, !.phase = PhaseOf(r), !.fault = TRUE]
  <1>1. journal[o] \in Records
    BY DEF JournalTypeOK
  <1>2. /\ seen.phase = PhaseOf(r) /\ seen.result = r
        /\ seen.native = journal[o].native
    BY <1>1 DEF Records
  <1>3. journal' = [journal EXCEPT ![o] = seen]
    BY <1>1 DEF Observed, JournalTypeOK, Records
  <1> HIDE DEF seen
  <1> QED
    BY <1>2, <1>3 DEF JournalTypeOK, Observed, Goto

\* Before the result, execute() saves edits of the record that leave it alone:
\* a save that keeps the result and does not end the record.
Edited(o, r) ==
  /\ r \in Records
  /\ Save(o, r)
  /\ r.result = memory[o].result
  /\ r.phase \notin {"absent", "finished"} \/ r.phase = memory[o].phase
  /\ r.native = memory[o].native \/ Kind[o] = "native"

\* These are the saves of a container and of a command, up to its start.
LEMMA ContainerEdits ==
  ASSUME TypeOK, NEW o \in Ops,
         \/ RequestCreate(o) \/ CreateReplied(o) \/ RecheckAndStart(o)
         \/ AttachEnds(o) \/ StopAttached(o)
  PROVE  \E r \in Records : /\ Edited(o, r)
                            /\ ~RecheckAndStart(o) => r.started = memory[o].started
                            /\ at # "attached" => r.phase \notin {"absent", "finished"}
  <1>1. memory[o] \in Records
    BY DEF TypeOK, JournalTypeOK
  <1>2. CASE RequestCreate(o)
    <2> DEFINE r == [memory[o] EXCEPT !.phase = "creating", !.named = TRUE]
    <2>1. /\ r \in Records /\ r.phase = "creating" /\ r.result = memory[o].result
          /\ r.native = memory[o].native /\ r.started = memory[o].started
      BY <1>1 DEF Records, Phases
    <2>2. Save(o, r)
      BY <1>2 DEF RequestCreate
    <2> HIDE DEF r
    <2> QED BY <2>1, <2>2 DEF Edited
  <1>3. CASE CreateReplied(o)
    <2> DEFINE r == [memory[o] EXCEPT !.phase = "created", !.identified = TRUE]
    <2>1. /\ r \in Records /\ r.phase = "created" /\ r.result = memory[o].result
          /\ r.native = memory[o].native /\ r.started = memory[o].started
      BY <1>1 DEF Records, Phases
    <2>2. Save(o, r)
      BY <1>3 DEF CreateReplied
    <2> HIDE DEF r
    <2> QED BY <2>1, <2>2 DEF Edited
  <1>4. CASE RecheckAndStart(o)
    <2> DEFINE r == [memory[o] EXCEPT !.phase = "starting", !.started = TRUE]
    <2>1. /\ r \in Records /\ r.phase = "starting" /\ r.result = memory[o].result
          /\ r.native = memory[o].native
      BY <1>1 DEF Records, Phases
    <2>2. Save(o, r)
      BY <1>4 DEF RecheckAndStart
    <2> HIDE DEF r
    <2> QED BY <1>4, <2>1, <2>2 DEF Edited
  <1>5. CASE AttachEnds(o)
    <2>1. PICK clean \in BOOLEAN : Save(o, [memory[o] EXCEPT !.fault = @ \/ ~clean])
      BY <1>5 DEF AttachEnds
    <2> DEFINE r == [memory[o] EXCEPT !.fault = @ \/ ~clean]
    <2>2. /\ r \in Records /\ r.phase = memory[o].phase /\ r.result = memory[o].result
          /\ r.native = memory[o].native /\ r.started = memory[o].started
      BY <1>1 DEF Records
    <2>3. Save(o, r) /\ at = "attached"
      BY <1>5, <2>1 DEF AttachEnds, Running
    <2> HIDE DEF r
    <2> QED BY <2>2, <2>3 DEF Edited
  <1>6. CASE StopAttached(o)
    <2> DEFINE r == [memory[o] EXCEPT !.fault = TRUE]
    <2>1. /\ r \in Records /\ r.phase = memory[o].phase /\ r.result = memory[o].result
          /\ r.native = memory[o].native /\ r.started = memory[o].started
      BY <1>1 DEF Records
    <2>2. Save(o, r) /\ at = "attached"
      BY <1>6 DEF StopAttached, Running
    <2> HIDE DEF r
    <2> QED BY <2>1, <2>2 DEF Edited
  <1> QED
    BY <1>2, <1>3, <1>4, <1>5, <1>6

\* So are those of a file write and of a native command.
LEMMA OtherEdits ==
  ASSUME TypeOK, NEW o \in Ops,
         MarkWrite(o) \/ PrepareNative(o) \/ Launch(o),
         Launch(o) => Kind[o] = "native"
  PROVE  \E r \in Records : Edited(o, r) /\ r.phase \notin {"absent", "finished"}
  <1>1. memory[o] \in Records
    BY DEF TypeOK, JournalTypeOK
  <1>2. CASE MarkWrite(o)
    <2> DEFINE r == [memory[o] EXCEPT !.phase = "file_write_started", !.started = TRUE]
    <2>1. /\ r \in Records /\ r.phase = "file_write_started"
          /\ r.result = memory[o].result /\ r.native = memory[o].native
      BY <1>1 DEF Records, Phases
    <2>2. Save(o, r)
      BY <1>2 DEF MarkWrite
    <2> HIDE DEF r
    <2> QED BY <2>1, <2>2 DEF Edited
  <1>3. CASE PrepareNative(o)
    <2> DEFINE r == [memory[o] EXCEPT !.phase = "native_prepared", !.native = TRUE]
    <2>1. r \in Records /\ r.phase = "native_prepared" /\ r.result = memory[o].result
      BY <1>1 DEF Records, Phases
    <2>2. Save(o, r) /\ Kind[o] = "native"
      BY <1>3 DEF PrepareNative
    <2> HIDE DEF r
    <2> QED BY <2>1, <2>2 DEF Edited
  <1>4. CASE Launch(o)
    <2> DEFINE r == [memory[o] EXCEPT !.phase = "native_started", !.started = TRUE]
    <2>1. /\ r \in Records /\ r.phase = "native_started"
          /\ r.result = memory[o].result /\ r.native = memory[o].native
      BY <1>1 DEF Records, Phases
    <2>2. Save(o, r)
      BY <1>4 DEF Launch
    <2> HIDE DEF r
    <2> QED BY <2>1, <2>2 DEF Edited
  <1> QED
    BY <1>2, <1>3, <1>4

-------------------------------------------------------------------------------
(***************************************************************************)
(* What is seen of the targets.                                            *)
(***************************************************************************)
\* No step brings a target back: what was seen of it stays true.
LEMMA EvidenceKeeps ==
  ASSUME RealInv, [Next]_vars, NEW p \in Ops
  PROVE  Evidence(p)' /\ (SeenThrough(p) => SeenThrough(p)')
  <1>1. IInv /\ IInv' /\ TypeOK /\ OpInv(p) /\ OpInv(p)' /\ Evidence(p)
    BY IInvStep DEF RealInv, RealOp, IInv
  <1>2. /\ acted \in [Ops -> Nat] /\ step \in [Ops -> Steps] /\ box \in [Ops -> Boxes]
        /\ exitOk \in [Ops -> BOOLEAN] /\ process \in [Ops -> Processes]
        /\ commandOk \in [Ops -> BOOLEAN]
    BY <1>1 DEF TypeOK, FileTypeOK, ContainerTypeOK, NativeTypeOK
  <1>3. acted'[p] <= 1
    BY <1>1 DEF OpInv
  <1>4. \A o \in Ops : OpInv(o)
    BY <1>1 DEF IInv
  <1> USE DEF Evidence, SeenThrough
  <1>5. CASE UNCHANGED <<acted, step, box, exitOk, process, commandOk>>
    BY <1>1, <1>5
  <1>6. ASSUME NEW o \in Ops, FileStep(o)
        PROVE  Evidence(p)' /\ (SeenThrough(p) => SeenThrough(p)')
    <2>1. UNCHANGED <<acted, box, exitOk, process, commandOk>>
      BY <1>6 DEF FileStep, StartWork, FinishWork, CancelShielded, CancelUnshielded,
           ReconcileFile, ReconcileFileFails, fileVars, historyVars, containerVars,
           nativeVars
    <2>2. step' = step \/ \E s \in {"queued", "none"} : step' = [step EXCEPT ![o] = s]
      BY <1>6 DEF FileStep, StartWork, FinishWork, CancelShielded, CancelUnshielded,
           ReconcileFile, ReconcileFileFails, fileVars, Advance
    <2>3. step'[p] \in {step[p], "queued", "none"}
      BY <1>2, <2>2
    <2> QED
      BY <1>1, <2>1, <2>3
  <1>7. ASSUME NEW o \in Ops, WorkStep(o)
        PROVE  Evidence(p)' /\ (SeenThrough(p) => SeenThrough(p)')
    <2>1. UNCHANGED <<box, exitOk, process, commandOk>>
      BY <1>7 DEF WorkStep, containerVars, nativeVars
    <2>2. CASE ReadFile(o) \/ Register(o) \/ RejectWork(o) \/ MarkWrite(o)
               \/ StageWrite(o) \/ VerifyWrite(o) \/ BreakWrite(o)
      <3>1. /\ acted' = acted \/ acted' = [acted EXCEPT ![o] = @ + 1]
            /\ \E s \in {"marked", "staged", "verified", "error", "ok"} :
                 /\ step' = [step EXCEPT ![o] = s]
                 /\ s = "ok" => Kind[o] # "file_write"
        BY <2>2 DEF ReadFile, Register, RejectWork, MarkWrite, StageWrite, VerifyWrite,
             BreakWrite, Advance, Act, historyVars
      <3>2. /\ acted'[p] \in {acted[p], acted[p] + 1}
            /\ \/ step'[p] = step[p]
               \/ step'[p] \notin {"replaced", "ok"}
               \/ Kind[p] # "file_write"
        BY <1>2, <3>1
      <3> QED
        BY <1>1, <1>2, <1>3, <2>1, <3>2
    <2>3. CASE ReplaceFile(o)
      <3>1. /\ p = o => step[p] = "verified" /\ acted'[p] = acted[p] + 1
            /\ p # o => step'[p] = step[p] /\ acted'[p] = acted[p]
        BY <1>2, <2>3 DEF ReplaceFile, Advance, Act
      <3>2. p = o => acted[p] = 0
        BY <1>1, <3>1 DEF OpInv, NotYet
      <3> QED
        BY <1>1, <1>2, <1>3, <2>1, <3>1, <3>2
    <2>4. CASE ReadBack(o)
      <3>1. /\ acted' = acted
            /\ p # o => step'[p] = step[p]
            /\ p = o => step[p] = "replaced"
        BY <1>2, <2>4 DEF ReadBack, Advance, historyVars
      <3> QED
        BY <1>1, <2>1, <3>1
    <2> QED
      BY <1>7, <2>2, <2>3, <2>4 DEF WorkStep, Work
  <1>8. ASSUME NEW o \in Ops, ContainerStep(o)
        PROVE  Evidence(p)' /\ (SeenThrough(p) => SeenThrough(p)')
    <2>1. UNCHANGED <<process, commandOk>>
      BY <1>8 DEF ContainerStep, nativeVars
    <2>2. CASE StopAttached(o) \/ KillOwned(o)
      <3>1. UNCHANGED <<acted, step>>
        BY <2>2 DEF StopAttached, KillOwned, fileVars, historyVars
      <3>2. \/ UNCHANGED <<box, exitOk>>
            \/ /\ box[o] = "running"
               /\ box' = [box EXCEPT ![o] = "exited"]
               /\ exitOk' = [exitOk EXCEPT ![o] = FALSE]
        BY <2>2 DEF StopAttached, KillOwned, Become
      <3>3. \/ box'[p] = box[p] /\ exitOk'[p] = exitOk[p]
            \/ box[p] = "running" /\ box'[p] = "exited" /\ exitOk'[p] = FALSE
        BY <1>2, <3>2
      <3> QED
        BY <1>1, <2>1, <3>1, <3>3
    <2>3. CASE Cleanup(o)
      <3>1. UNCHANGED <<acted, step, exitOk>>
        BY <2>3 DEF Cleanup, fileVars, historyVars
      <3>2. \/ box'[p] = box[p]
            \/ box[p] \in {"created", "exited"} /\ box'[p] = "removed"
        BY <1>2, <2>3 DEF Cleanup, Terminal, Become
      <3> QED
        BY <1>1, <2>1, <3>1, <3>2
    <2>4. CASE ~(StopAttached(o) \/ KillOwned(o) \/ Cleanup(o))
      <3>1. UNCHANGED <<acted, step, box, exitOk>>
        BY <1>8, <2>4 DEF ContainerStep, RejectContainer, InterruptBeforeCreate,
             RequestCreate, CreateReplied, CreateRefused, CreateLost, RecheckAndStart,
             RefuseStart, InterruptContainer, SpawnAttach, SpawnFails, AttachEnds,
             ObserveTerminal, ObserveNothing, ReconcileTerminal, ReconcileRunning,
             ReconcileUnobserved, fileVars, historyVars, containerVars
      <3> QED
        BY <1>5, <2>1, <3>1
    <2> QED
      BY <2>2, <2>3, <2>4
  <1>9. ASSUME NEW o \in Ops, EngineStep(o)
        PROVE  Evidence(p)' /\ (SeenThrough(p) => SeenThrough(p)')
    <2>1. UNCHANGED <<step, process, commandOk>>
      BY <1>9 DEF EngineStep, Engine, ServeCreate, ServeStart, DropRequest, ExitContainer,
           fileVars, nativeVars
    <2>2. CASE ServeCreate(o)
      <3>1. /\ UNCHANGED <<acted, exitOk>>
            /\ p # o => box'[p] = box[p]
            /\ p = o => box[p] = "none" /\ box'[p] = "created"
        <4>1. p = o => box[p] = "none"
          BY <1>1, <2>2 DEF ServeCreate, OpInv, NotYet
        <4> QED
          BY <1>2, <2>2, <4>1 DEF ServeCreate, Become, historyVars
      <3> QED
        BY <1>1, <2>1, <3>1
    <2>3. CASE ServeStart(o)
      <3>1. /\ exitOk' = exitOk
            /\ p # o => box'[p] = box[p] /\ acted'[p] = acted[p]
            /\ p = o => /\ box[p] = "created" /\ box'[p] = "running"
                        /\ acted'[p] = acted[p] + 1
        BY <1>2, <2>3 DEF ServeStart, Become, Act
      <3> QED
        BY <1>1, <1>2, <1>3, <2>1, <3>1
    <2>4. CASE DropRequest(o)
      BY <1>5, <2>1, <2>4 DEF DropRequest, historyVars
    <2>5. CASE ExitContainer(o)
      <3>1. /\ acted' = acted
            /\ p # o => box'[p] = box[p] /\ exitOk'[p] = exitOk[p]
            /\ p = o => box[p] = "running" /\ box'[p] = "exited"
        BY <1>2, <2>5 DEF ExitContainer, Become
      <3> QED
        BY <1>1, <2>1, <3>1
    <2> QED
      BY <1>9, <2>2, <2>3, <2>4, <2>5 DEF EngineStep, Engine
  <1>10. ASSUME NEW o \in Ops, NativeStep(o) \/ CommandStep(o)
         PROVE  Evidence(p)' /\ (SeenThrough(p) => SeenThrough(p)')
    <2>1. UNCHANGED <<step, box, exitOk>>
      BY <1>10 DEF NativeStep, CommandStep, containerVars, RejectCommand, PrepareNative,
           Launch, LaunchFails, Go, StopNative, InterruptNative, BreakNative,
           FinishNative, ReconcileNative, ExitNative, CloseOutput, fileVars
    <2>2. CASE RejectCommand(o) \/ PrepareNative(o) \/ LaunchFails(o) \/ FinishNative(o)
               \/ ReconcileNative(o)
      BY <1>5, <2>1, <2>2 DEF RejectCommand, PrepareNative, LaunchFails, FinishNative,
           ReconcileNative, historyVars, nativeVars
    <2>3. CASE Launch(o)
      <3>1. UNCHANGED <<acted, commandOk>> /\ process'[p] \in {process[p], "waiting"}
            /\ (process'[p] = process[p] \/ process[p] = "none")
        BY <1>2, <2>3 DEF Launch, SetProcess, historyVars
      <3> QED
        BY <1>1, <2>1, <3>1 DEF Closed
    <2>4. CASE Go(o)
      <3>1. /\ commandOk' = commandOk
            /\ p # o => process'[p] = process[p] /\ acted'[p] = acted[p]
            /\ p = o => /\ process[p] = "waiting" /\ process'[p] = "running"
                        /\ acted'[p] = acted[p] + 1
        BY <1>2, <2>4 DEF Go, SetProcess, Act
      <3> QED
        BY <1>1, <1>2, <1>3, <2>1, <3>1
    <2>5. CASE InterruptNative(o) \/ BreakNative(o) \/ CloseOutput(o)
      <3>1. UNCHANGED <<acted, commandOk>> /\ process'[p] \in {process[p], "ended"}
        BY <1>2, <2>5 DEF InterruptNative, BreakNative, CloseOutput, SetProcess,
           historyVars
      <3> QED
        BY <1>1, <2>1, <3>1 DEF Closed
    <2>6. CASE StopNative(o) \/ ExitNative(o)
      <3>1. /\ acted' = acted
            /\ p # o => process'[p] = process[p] /\ commandOk'[p] = commandOk[p]
            /\ p = o => process[p] = "running" /\ process'[p] \in Closed
        BY <1>2, <2>6 DEF StopNative, ExitNative, SetProcess, historyVars
      <3> QED
        BY <1>1, <2>1, <3>1 DEF Closed
    <2> QED
      BY <1>10, <2>2, <2>3, <2>4, <2>5, <2>6 DEF NativeStep, CommandStep
  <1>11. CASE Crash
    <2>1. /\ UNCHANGED <<acted, box, exitOk, commandOk>>
          /\ step'[p] = "none"
          /\ process'[p] = process[p] \/ process'[p] = "ended"
          /\ process[p] \notin {"waiting", "running"} => process'[p] = process[p]
      BY <1>11 DEF Crash, LoseWorkers, LoseNative, historyVars, containerVars
    <2> QED
      BY <1>1, <2>1 DEF Closed
  <1>12. CASE Stop \/ Edit \/ UNCHANGED vars
              \/ \E o \in Ops : JournalStep(o) \/ ReconcileUnspecified(o)
    BY <1>5, <1>12 DEF Stop, Edit, EditFile, JournalStep, ReconcileUnspecified, targetVars,
         vars, fileVars, historyVars, containerVars, nativeVars
  <1> QED
    BY <1>6, <1>7, <1>8, <1>9, <1>10, <1>11, <1>12 DEF Next

-------------------------------------------------------------------------------
(***************************************************************************)
(* The records: what success and "no effect" rest on.                      *)
(***************************************************************************)
\* What a step must do to the records of an operation.
RecordKept(p) == Real(p)' /\ OneRecord(p)' /\ RecordedNone(p)

\* A step that leaves the records alone, and enters no earlier part of a call.
LEMMA UntouchedReal ==
  ASSUME RealInv, NEW p \in Ops, SeenThrough(p) => SeenThrough(p)',
         journal'[p] = journal[p], memory'[p] = memory[p],
         current' = p /\ at' # "reconcile" => current = p /\ at # "reconcile",
         current' = p /\ at' \in {"dispatch", "creating", "created"} =>
           at \in {"dispatch", "creating", "created"}
  PROVE  RecordKept(p)
  BY DEF RealInv, RealOp, RecordKept, Real, OneRecord, RecordedNone

\* The epilogue, when what it stores is true.
LEMMA SettleReal ==
  ASSUME RealInv, NEW p \in Ops, SeenThrough(p) => SeenThrough(p)',
         NEW o \in Ops, NEW r \in Results, NEW faulted \in BOOLEAN,
         Settle(o, r, faulted), current = o, at # "reconcile",
         r.status = "succeeded" => SeenThrough(o),
         Kind[o] = "container" /\ r.effect = "none" => acted'[o] = 0
  PROVE  RecordKept(p)
  <1>1. JournalTypeOK /\ RealOp(p) /\ RealOp(o)
    BY DEF RealInv, IInv, TypeOK
  <1>2. /\ journal'[o] = memory'[o]
        /\ memory'[o].result = r /\ memory'[o].phase # "absent"
        /\ memory'[o].native = memory[o].native
        /\ p # o => journal'[p] = journal[p] /\ memory'[p] = memory[p]
        /\ at' \in {"cleanup", "return"} /\ current' = o
    BY <1>1, SettleRecord DEF PhaseOf
  <1> QED
    BY <1>1, <1>2 DEF RealOp, RecordKept, Real, OneRecord, RecordedNone

\* An observation: never a success.
LEMMA ObservedReal ==
  ASSUME RealInv, NEW p \in Ops, SeenThrough(p) => SeenThrough(p)',
         NEW o \in Ops, NEW r \in Results, Observed(o, r), r.status # "succeeded",
         Kind[o] = "container" /\ r.effect = "none" => acted'[o] = 0
  PROVE  RecordKept(p)
  <1>1. JournalTypeOK /\ RealOp(p) /\ RealOp(o)
    BY DEF RealInv, IInv, TypeOK
  <1>2. PhaseOf(r) # "absent"
    BY DEF PhaseOf
  <1>3. /\ journal'[o].result = r /\ journal'[o].phase # "absent"
        /\ journal'[o].native = journal[o].native
        /\ p # o => journal'[p] = journal[p]
        /\ memory' = memory
        /\ current' = Nobody
    BY <1>1, <1>2, ObservedRecord
  <1>4. current' # p
    BY <1>3, NobodyAssumption
  <1> QED
    BY <1>1, <1>3, <1>4 DEF RealOp, RecordKept, Real, OneRecord, RecordedNone

\* An edit of the record of a running call.
LEMMA EditedReal ==
  ASSUME RealInv, NEW p \in Ops, SeenThrough(p) => SeenThrough(p)',
         NEW o \in Ops, NEW r \in Records, Edited(o, r), current' = current,
         \/ current = o /\ at # "reconcile"
         \/ Kind[o] # "container" /\ at' = at,
         memory[o].phase # "absent" \/ r.phase # memory[o].phase,
         current = o /\ at' \in {"dispatch", "creating", "created"} => r.started = FALSE
  PROVE  RecordKept(p)
  <1>1. JournalTypeOK /\ RealOp(p) /\ RealOp(o)
    BY DEF RealInv, IInv, TypeOK
  <1>2. /\ journal'[o] = r /\ memory'[o] = r
        /\ p # o => journal'[p] = journal[p] /\ memory'[p] = memory[p]
    BY <1>1 DEF Edited, Save, JournalTypeOK
  <1>3. CASE p # o
    BY <1>1, <1>2, <1>3 DEF RealOp, RecordKept, Real, OneRecord, RecordedNone, Edited
  <1>4. CASE p = o
    BY <1>1, <1>2, <1>4 DEF RealOp, RecordKept, Real, OneRecord, RecordedNone, Edited
  <1> QED
    BY <1>3, <1>4

\* The prologue and the return.
LEMMA JournalStepReal ==
  ASSUME RealInv, NEW p \in Ops, SeenThrough(p) => SeenThrough(p)',
         NEW o \in Ops, JournalStep(o)
  PROVE  RecordKept(p)
  <1>1. JournalTypeOK /\ RealOp(p)
    BY DEF RealInv, IInv, TypeOK
  <1>2. CASE Prepare(o)
    <2>1. /\ journal'[o] = Prepared /\ memory'[o] = Prepared
          /\ p # o => journal'[p] = journal[p] /\ memory'[p] = memory[p]
          /\ journal[o].phase = "absent" /\ current' = o
      BY <1>1, <1>2 DEF Prepare, Enter, JournalTypeOK
    <2>2. /\ Prepared.result = Missing /\ Prepared.native = FALSE
          /\ Prepared.started = FALSE /\ Prepared.phase = "prepared"
          /\ Missing.status = "missing"
      BY DEF Prepared, NoRecord, Missing, Result
    <2> QED
      BY <1>1, <2>1, <2>2 DEF RealOp, RecordKept, Real, OneRecord, RecordedNone
  <1>3. CASE Replay(o) \/ Reenter(o) \/ Refuse(o) \/ Return(o) \/ Recover(o)
             \/ AbandonReconcile(o)
    <2>1. /\ UNCHANGED <<journal, memory>>
          /\ current' # p \/ at' = "reconcile" \/ UNCHANGED <<current, at>>
      BY <1>3, NobodyAssumption
         DEF Replay, Reenter, Refuse, Return, Recover, AbandonReconcile, Enter
    <2> QED
      BY <2>1, UntouchedReal
  <1> QED
    BY <1>2, <1>3 DEF JournalStep

\* A file operation on the event loop.
LEMMA FileStepReal ==
  ASSUME RealInv, NEW p \in Ops, SeenThrough(p) => SeenThrough(p)',
         NEW o \in Ops, FileStep(o)
  PROVE  RecordKept(p)
  <1>1. RealOp(o) /\ OpInv(o) /\ JournalTypeOK
    BY DEF RealInv, IInv, TypeOK
  <1>2. CASE StartWork(o) \/ CancelShielded(o)
    <2>1. /\ UNCHANGED <<journal, memory>>
          /\ current = o /\ at # "reconcile" /\ current' = o
          /\ at' \notin {"reconcile", "dispatch", "creating", "created"}
      BY <1>2 DEF StartWork, CancelShielded, Goto
    <2> QED
      BY <2>1, UntouchedReal
  <1>3. CASE FinishWork(o) \/ CancelUnshielded(o)
    <2>1. /\ current = o /\ at \in {"file", "await_work", "await_again"}
          /\ Kind[o] \in FileKinds /\ Kind[o] \notin {"container", "native"}
      BY <1>1, <1>3 DEF FinishWork, CancelUnshielded, OpInv, OwnLabel, FileKinds
    <2>2. step[o] = "ok" => SeenThrough(o)
      BY <1>1, <2>1 DEF RealOp, Evidence, SeenThrough
    <2>3. SuccessOf(o) \in Results
      BY DEF SuccessOf, Result, Results
    <2>4. Unknown.status # "succeeded" /\ FailedNone.status # "succeeded"
      BY DEF Unknown, FailedNone, Result
    <2>5. \E r \in Results, faulted \in BOOLEAN :
            Settle(o, r, faulted) /\ (r.status = "succeeded" => SeenThrough(o))
      BY <1>3, <2>2, <2>3, <2>4, ConstantTypes
         DEF FinishWork, CancelUnshielded, Fail, Interrupt
    <2> QED
      BY <2>1, <2>5, SettleReal
  <1>4. CASE ReconcileFile(o)
    <2>1. /\ Result("failed", ObservedEffect(o)) \in Results
          /\ Result("failed", ObservedEffect(o)).status # "succeeded"
      BY DEF Result, Results, ObservedEffect
    <2>2. Kind[o] # "container"
      BY <1>4 DEF ReconcileFile, FileKinds
    <2> QED
      BY <1>4, <2>1, <2>2, ObservedReal DEF ReconcileFile
  <1>5. CASE ReconcileFileFails(o)
    <2>1. journal[o] \in Records
      BY <1>1 DEF JournalTypeOK
    <2>2. journal' = [journal EXCEPT ![o] = [journal[o] EXCEPT !.fault = TRUE]]
      BY <1>1, <1>5 DEF ReconcileFileFails, JournalTypeOK
    <2>3. /\ journal'[p].phase = journal[p].phase
          /\ journal'[p].result = journal[p].result
          /\ journal'[p].native = journal[p].native
      BY <1>1, <2>1, <2>2 DEF JournalTypeOK, Records
    <2>4. current' # p /\ UNCHANGED memory
      BY <1>5, NobodyAssumption DEF ReconcileFileFails
    <2> QED
      BY <2>3, <2>4 DEF RealInv, RealOp, RecordKept, Real, OneRecord, RecordedNone
  <1> QED
    BY <1>2, <1>3, <1>4, <1>5 DEF FileStep

\* Its worker.
LEMMA WorkStepReal ==
  ASSUME RealInv, NEW p \in Ops, SeenThrough(p) => SeenThrough(p)',
         NEW o \in Ops, WorkStep(o)
  PROVE  RecordKept(p)
  <1>1. CASE MarkWrite(o)
    <2>1. TypeOK /\ OpInv(o)
      BY DEF RealInv, IInv
    <2>2. /\ Kind[o] = "file_write" /\ step[o] = "queued"
          /\ UNCHANGED <<current, at>>
      BY <1>1 DEF MarkWrite
    <2>3. PICK r \in Records : Edited(o, r) /\ r.phase \notin {"absent", "finished"}
      BY <1>1, <2>1, <2>2, OtherEdits DEF Launch, InNative, OpInv, OwnLabel
    <2>4. ~(current = o /\ at' \in {"dispatch", "creating", "created"})
      BY <2>1, <2>2 DEF OpInv, OwnLabel, Untouched, Fresh
    <2> QED
      BY <2>2, <2>3, <2>4, EditedReal
  <1>2. CASE ~MarkWrite(o)
    <2>1. UNCHANGED <<journal, memory, current, at>>
      BY <1>2 DEF WorkStep, Work, ReadFile, Register, RejectWork, StageWrite, VerifyWrite,
           ReplaceFile, ReadBack, BreakWrite, journalVars
    <2> QED
      BY <2>1, UntouchedReal
  <1> QED
    BY <1>1, <1>2

\* A container.
LEMMA ContainerStepReal ==
  ASSUME RealInv, NEW p \in Ops, SeenThrough(p) => SeenThrough(p)',
         NEW o \in Ops, ContainerStep(o)
  PROVE  RecordKept(p)
  <1>1. RealOp(o) /\ OpInv(o) /\ TypeOK /\ JournalTypeOK /\ memory[o] \in Records
    BY DEF RealInv, IInv, TypeOK, JournalTypeOK
  <1>2. /\ Unknown.status # "succeeded" /\ FailedNone.status # "succeeded"
        /\ Unknown.effect # "none"
        /\ \A s \in {"succeeded", "failed", "pending"}, e \in {"none", "confirmed", "unknown"} :
             /\ Result(s, e) \in Results
             /\ Result(s, e).status = s /\ Result(s, e).effect = e
        /\ TerminalEffect(o) \in {"none", "confirmed"}
    BY DEF Unknown, FailedNone, Result, Results, TerminalEffect
  <1>3. Terminal(o) /\ TerminalEffect(o) = "none" /\ Kind[o] = "container" => acted[o] = 0
    BY <1>1 DEF Terminal, TerminalEffect, OpInv, NotYet
  <1>4. /\ current = o /\ at # "reconcile" /\ memory[o].started = FALSE
        /\ Kind[o] = "container"
        => acted[o] = 0
    BY <1>1 DEF OpInv, Intent, TypeOK, JournalTypeOK, FileTypeOK, Records
  <1>5. acted' = acted /\ acted[o] \in Nat
    BY <1>1 DEF ContainerStep, RejectContainer, InterruptBeforeCreate, RequestCreate,
         CreateReplied, CreateRefused, CreateLost, RecheckAndStart, RefuseStart,
         InterruptContainer, SpawnAttach, SpawnFails, AttachEnds, StopAttached, Cleanup,
         KillOwned, ObserveTerminal, ObserveNothing, ReconcileTerminal, ReconcileRunning,
         ReconcileUnobserved, historyVars, TypeOK, FileTypeOK
  <1>6. CASE \/ RejectContainer(o) \/ InterruptBeforeCreate(o) \/ RefuseStart(o)
             \/ InterruptContainer(o) \/ SpawnFails(o)
    <2>1. current = o /\ at # "reconcile" /\ (Fail(o) \/ Interrupt(o))
      BY <1>6 DEF RejectContainer, InterruptBeforeCreate, RefuseStart, InterruptContainer,
           SpawnFails, Running
    <2>2. CASE Settle(o, Unknown, TRUE)
      BY <1>2, <2>1, <2>2, ConstantTypes, SettleReal
    <2>3. CASE Settle(o, FailedNone, TRUE) /\ memory[o].started = FALSE
      BY <1>2, <1>4, <1>5, <2>1, <2>3, ConstantTypes, SettleReal
    <2>4. memory[o].started \in BOOLEAN
      BY <1>1 DEF Records
    <2> QED
      BY <2>1, <2>2, <2>3, <2>4 DEF Fail, Interrupt
  <1>7. CASE CreateRefused(o)
    <2>1. /\ current = o /\ at = "creating" /\ Settle(o, FailedNone, TRUE)
      BY <1>7 DEF CreateRefused, Running
    <2>2. memory[o].started = FALSE
      BY <1>1, <2>1 DEF RealOp, OneRecord
    <2> QED
      BY <1>2, <1>4, <1>5, <2>1, <2>2, ConstantTypes, SettleReal
  <1>8. CASE ObserveTerminal(o)
    <2>1. /\ current = o /\ at = "observe" /\ Terminal(o)
          /\ Kind[o] = "container"
      BY <1>1, <1>8 DEF ObserveTerminal, Running, OpInv, OwnLabel
    <2>2. PICK clean \in BOOLEAN :
            /\ clean => box[o] = "exited" /\ exitOk[o]
            /\ Settle(o, Result(IF clean THEN "succeeded" ELSE "failed", TerminalEffect(o)),
                      ~clean)
      BY <1>8 DEF ObserveTerminal
    <2>3. clean => SeenThrough(o)
      BY <1>1, <2>1, <2>2 DEF RealOp, Evidence, SeenThrough, TypeOK, ContainerTypeOK
    <2> QED
      BY <1>2, <1>3, <1>5, <2>1, <2>2, <2>3, SettleReal
  <1>9. CASE ObserveNothing(o)
    <2>1. /\ current = o /\ at = "observe" /\ Settle(o, Unknown, TRUE)
      BY <1>9 DEF ObserveNothing, Running
    <2> QED
      BY <1>2, <2>1, ConstantTypes, SettleReal
  <1>10. CASE ReconcileTerminal(o) \/ ReconcileRunning(o) \/ ReconcileUnobserved(o)
    <2>1. \E r \in Results :
            /\ Observed(o, r) /\ r.status # "succeeded"
            /\ Kind[o] = "container" /\ r.effect = "none" => acted[o] = 0
      BY <1>2, <1>3, <1>10, ConstantTypes
         DEF ReconcileTerminal, ReconcileRunning, ReconcileUnobserved
    <2> QED
      BY <1>5, <2>1, ObservedReal
  <1>11. CASE SpawnAttach(o) \/ Cleanup(o) \/ KillOwned(o)
    <2>1. /\ UNCHANGED <<journal, memory>> /\ current = o /\ current' = o
          /\ at # "reconcile" \/ at' = "reconcile"
          /\ at' \notin {"dispatch", "creating", "created"}
      BY <1>11 DEF SpawnAttach, Cleanup, KillOwned, Running, Goto, journalVars
    <2> QED
      BY <2>1, UntouchedReal
  <1>12. CASE RequestCreate(o) \/ CreateReplied(o) \/ RecheckAndStart(o)
              \/ AttachEnds(o) \/ StopAttached(o)
    <2>1. PICK r \in Records : /\ Edited(o, r)
                               /\ ~RecheckAndStart(o) => r.started = memory[o].started
                               /\ at # "attached" => r.phase \notin {"absent", "finished"}
      BY <1>1, <1>12, ContainerEdits
    <2>2. /\ current = o /\ at # "reconcile" /\ current' = current
          /\ at' \in {"dispatch", "creating", "created"} =>
               ~RecheckAndStart(o) /\ at \in {"dispatch", "creating", "created"}
          /\ at = "attached" \/ at \in {"dispatch", "creating", "created"}
      BY <1>12 DEF RequestCreate, CreateReplied, RecheckAndStart, AttachEnds,
           StopAttached, Running, Goto
    <2>3. at' \in {"dispatch", "creating", "created"} => r.started = FALSE
      BY <1>1, <2>1, <2>2 DEF RealOp, OneRecord
    <2>4. memory[o].phase # "absent" \/ r.phase # memory[o].phase
      BY <1>1, <2>1, <2>2 DEF OpInv, OnRecord
    <2> QED
      BY <2>1, <2>2, <2>3, <2>4, EditedReal
  <1>13. CASE CreateLost(o)
    <2> DEFINE r == [memory[o] EXCEPT !.started = TRUE, !.fault = TRUE, !.result = Unknown,
                                      !.phase = "unresolved"]
    <2>1. /\ r.phase = "unresolved" /\ r.result = Unknown /\ r.native = memory[o].native
      BY <1>1 DEF Records
    <2>2. /\ Save(o, r) /\ current = o /\ current' = o /\ at = "creating" /\ at' = "return"
      BY <1>13 DEF CreateLost, Running, Goto
    <2> HIDE DEF r
    <2>3. /\ journal'[o] = r /\ memory'[o] = r
          /\ p # o => journal'[p] = journal[p] /\ memory'[p] = memory[p]
      BY <1>1, <2>2 DEF Save, JournalTypeOK
    <2>4. RealOp(p)
      BY DEF RealInv
    <2> QED
      BY <1>1, <1>2, <2>1, <2>2, <2>3, <2>4
         DEF RealOp, RecordKept, Real, OneRecord, RecordedNone
  <1> QED
    BY <1>6, <1>7, <1>8, <1>9, <1>10, <1>11, <1>12, <1>13 DEF ContainerStep

\* A native command.
LEMMA NativeStepReal ==
  ASSUME RealInv, NEW p \in Ops, SeenThrough(p) => SeenThrough(p)',
         NEW o \in Ops, NativeStep(o)
  PROVE  RecordKept(p)
  <1>1. RealOp(o) /\ OpInv(o) /\ TypeOK /\ JournalTypeOK /\ memory[o] \in Records
    BY DEF RealInv, IInv, TypeOK, JournalTypeOK
  <1>2. /\ Unknown.status # "succeeded" /\ FailedNone.status # "succeeded"
        /\ \A s \in {"succeeded", "failed"} :
             /\ Result(s, "confirmed") \in Results
             /\ Result(s, "confirmed").status = s
             /\ Result(s, "confirmed").effect # "none"
    BY DEF Unknown, FailedNone, Result, Results
  <1>3. CASE ReconcileNative(o)
    <2>1. Kind[o] = "native"
      BY <1>1, <1>3 DEF ReconcileNative, RealOp, OneRecord, JournalTypeOK, Records
    <2> QED
      BY <1>2, <1>3, <2>1, ConstantTypes, ObservedReal DEF ReconcileNative
  <1>4. CASE ~ReconcileNative(o)
    <2>1. current = o /\ current' = o /\ at # "reconcile" /\ Kind[o] = "native"
      <3>1. current = o /\ at \in {"dispatch", "native"} /\ Kind[o] = "native"
        BY <1>1, <1>4 DEF NativeStep, RejectCommand, PrepareNative, Launch, LaunchFails, Go,
             StopNative, InterruptNative, BreakNative, FinishNative, InNative, OpInv,
             OwnLabel
      <3>2. current' = current
        BY <1>4 DEF NativeStep, RejectCommand, PrepareNative, Launch, LaunchFails, Go,
             StopNative, InterruptNative, BreakNative, FinishNative, Fail, Interrupt,
             Settle, journalVars
      <3> QED
        BY <3>1, <3>2
    <2>2. CASE RejectCommand(o) \/ LaunchFails(o) \/ InterruptNative(o) \/ BreakNative(o)
      <3>1. Settle(o, Unknown, TRUE) \/ Settle(o, FailedNone, TRUE)
        BY <2>2 DEF RejectCommand, LaunchFails, InterruptNative, BreakNative, Fail, Interrupt
      <3> QED
        BY <1>2, <2>1, <3>1, ConstantTypes, SettleReal
    <2>3. CASE FinishNative(o)
      <3>1. PICK clean \in BOOLEAN :
              /\ clean => commandOk[o]
              /\ Settle(o, Result(IF clean THEN "succeeded" ELSE "failed", "confirmed"),
                        ~clean)
        BY <2>3 DEF FinishNative
      <3>2. clean => SeenThrough(o)
        BY <1>1, <2>1, <3>1 DEF RealOp, Evidence, SeenThrough, TypeOK, NativeTypeOK
      <3> QED
        BY <1>2, <2>1, <3>1, <3>2, SettleReal
    <2>4. CASE PrepareNative(o) \/ Launch(o)
      <3>1. PICK r \in Records : Edited(o, r) /\ r.phase \notin {"absent", "finished"}
        BY <1>1, <2>1, <2>4, OtherEdits
      <3>2. at' = "native"
        BY <2>4 DEF PrepareNative, Launch, InNative, Goto
      <3> QED
        BY <2>1, <3>1, <3>2, EditedReal
    <2>5. CASE Go(o)
      BY <2>1, <2>5, UntouchedReal DEF Go, InNative, journalVars
    <2>6. CASE StopNative(o)
      <3>1. memory' = [memory EXCEPT ![o] = [memory[o] EXCEPT !.fault = TRUE]]
        BY <1>1, <2>6 DEF StopNative, JournalTypeOK
      <3>2. /\ memory'[p].result = memory[p].result
            /\ memory'[p].native = memory[p].native
            /\ memory'[p].started = memory[p].started
        BY <1>1, <3>1 DEF JournalTypeOK, Records
      <3>3. UNCHANGED <<journal, current, at>>
        BY <2>6 DEF StopNative
      <3>4. RealOp(p)
        BY DEF RealInv
      <3> QED
        BY <3>2, <3>3, <3>4 DEF RealOp, RecordKept, Real, OneRecord, RecordedNone
    <2> QED
      BY <1>4, <2>2, <2>3, <2>4, <2>5, <2>6 DEF NativeStep
  <1> QED
    BY <1>3, <1>4

\* The engine, the ends of commands, stops, edits and crashes.
LEMMA OtherStepReal ==
  ASSUME RealInv, NEW p \in Ops, SeenThrough(p) => SeenThrough(p)',
         \/ \E o \in Ops : EngineStep(o) \/ CommandStep(o) \/ ReconcileUnspecified(o)
         \/ Stop \/ Edit \/ Crash \/ UNCHANGED vars
  PROVE  RecordKept(p)
  <1>1. CASE Crash
    <2>1. /\ journal' = journal /\ memory'[p] = NoRecord /\ current' = Nobody
      BY <1>1 DEF Crash, LoseProcess
    <2>2. NoRecord.result.status # "succeeded" /\ NoRecord.native = FALSE
      BY DEF NoRecord, Missing, Result
    <2> QED
      BY <2>1, <2>2, NobodyAssumption
         DEF RealInv, RealOp, RecordKept, Real, OneRecord, RecordedNone
  <1>2. CASE \E o \in Ops : ReconcileUnspecified(o)
    <2>1. UNCHANGED <<journal, memory>> /\ current' # p
      BY <1>2, NobodyAssumption DEF ReconcileUnspecified
    <2> QED
      BY <2>1, UntouchedReal
  <1>3. CASE \/ \E o \in Ops : EngineStep(o) \/ CommandStep(o)
             \/ Stop \/ Edit \/ UNCHANGED vars
    <2>1. UNCHANGED <<journal, memory, current, at>>
      BY <1>3 DEF EngineStep, Engine, ServeCreate, ServeStart, DropRequest, ExitContainer,
           CommandStep, ExitNative, CloseOutput, Stop, RequestStop, Edit, EditFile, vars,
           journalVars
    <2> QED
      BY <2>1, UntouchedReal
  <1> QED
    BY <1>1, <1>2, <1>3

\* Every step.
LEMMA RealStep ==
  ASSUME RealInv, [Next]_vars
  PROVE  RealInv' /\ \A p \in Ops : RecordedNone(p)
  <1>1. IInv'
    BY IInvStep DEF RealInv
  <1>2. ASSUME NEW p \in Ops
        PROVE  RealOp(p)' /\ RecordedNone(p)
    <2>1. Evidence(p)' /\ (SeenThrough(p) => SeenThrough(p)')
      BY EvidenceKeeps
    <2>2. RecordKept(p)
      BY <2>1, JournalStepReal, FileStepReal, WorkStepReal, ContainerStepReal,
         NativeStepReal, OtherStepReal DEF Next
    <2> QED
      BY <2>1, <2>2 DEF RealOp, RecordKept
  <1> QED
    BY <1>1, <1>2 DEF RealInv

\* The initial state has no evidence and no result.
LEMMA RealInit ==
  ASSUME Init
  PROVE  RealInv
  <1>1. IInv
    BY IInvInit
  <1>2. ASSUME NEW o \in Ops
        PROVE  RealOp(o)
    <2>1. /\ journal[o] = NoRecord /\ memory[o] = NoRecord /\ current = Nobody
          /\ step[o] = "none" /\ box[o] = "none" /\ process[o] = "none"
          /\ exitOk[o] = FALSE /\ commandOk[o] = FALSE
      BY DEF Init, JournalInit, FileInit, ContainerInit, NativeInit
    <2>2. NoRecord.result = Missing /\ NoRecord.native = FALSE
      BY DEF NoRecord
    <2>3. Missing.status = "missing"
      BY DEF Missing, Result
    <2> QED
      BY <2>1, <2>2, <2>3, NobodyAssumption DEF RealOp, Evidence, Real, OneRecord
  <1> QED
    BY <1>1, <1>2 DEF RealInv

\* RealInv is an invariant.
LEMMA RealInvariant == Spec => []RealInv
  <1>1. RealInv /\ [Next]_vars => RealInv'
    BY RealStep
  <1> QED
    BY <1>1, RealInit, PTL DEF Spec

\* A success on record is one the Executor saw: the file was replaced, the
\* container or the command ran and exited with code 0; whatever calls,
\* cancellations, time limits and crashes came before and after.
THEOREM RecordedSuccess == Spec => []SuccessIsReal
  <1>1. RealInv => SuccessIsReal
    BY DEF RealInv, RealOp, Real, SuccessIsReal
  <1> QED
    BY <1>1, RealInvariant, PTL

\* When a container is put on record as without effect, by execute() or by
\* reconcile(), its program has not started.
THEOREM RecordedNoEffect == Spec => NoneWhenRecorded
  <1>1. RealInv /\ [Next]_vars => [\A o \in Ops : RecordedNone(o)]_vars
    BY RealStep
  <1> QED
    BY <1>1, RealInvariant, PTL DEF Spec, NoneWhenRecorded

-------------------------------------------------------------------------------
(***************************************************************************)
(* One cancellation.                                                       *)
(***************************************************************************)
\* No execute() is cancelled twice.  With two cancellations the thread of a file
\* operation is left behind, and what follows here does not hold.
OneCancellation == MaxStops <= 1

FileLabels == {"file", "await_work", "await_again"}

\* Where the ends of a call leave its coroutine.
LEMMA EndLabels ==
  ASSUME NEW o \in Ops
  PROVE  /\ \A r \in Results, faulted \in BOOLEAN :
              Settle(o, r, faulted) => at' \in {"cleanup", "return"} /\ stops' = stops
         /\ Fail(o) \/ Interrupt(o) =>
              /\ at' \in {"cleanup", "return"} /\ stops' = stops
              /\ cancelled' = TRUE => cancelled = TRUE
         /\ \A r \in Results :
              Observed(o, r) => at' = "idle" /\ stops' = 0 /\ cancelled' = FALSE
  <1>1. ASSUME NEW r, NEW faulted, Settle(o, r, faulted)
        PROVE  at' \in {"cleanup", "return"} /\ stops' = stops
    BY <1>1 DEF Settle, Goto
  <1>2. ASSUME NEW r, Observed(o, r)
        PROVE  at' = "idle" /\ stops' = 0 /\ cancelled' = FALSE
    BY <1>2 DEF Observed, Goto
  <1> QED
    BY <1>1, <1>2 DEF Fail, Interrupt

\* The only cancellation of a call is spent once its work is awaited again.
LEMMA CancelledKeeps ==
  ASSUME OneCancellation, TypeOK, CancelledOnce, [Next]_vars
  PROVE  CancelledOnce'
  <1>1. MaxStops \in {0, 1} /\ stops \in 0..MaxStops
    BY MaxStopsAssumption DEF OneCancellation, TypeOK, JournalTypeOK
  <1>2. CASE Stop
    BY <1>1, <1>2 DEF Stop, RequestStop, CancelledOnce
  <1>3. CASE \E o \in Ops : CancelShielded(o)
    BY <1>1, <1>3 DEF CancelShielded, Goto, CancelledOnce
  <1>4. CASE \/ stops' = 0 /\ cancelled' = FALSE /\ at' # "await_again"
             \/ /\ stops' = stops
                /\ cancelled' = TRUE => cancelled = TRUE
                /\ at' = "await_again" => UNCHANGED <<at, cancelled>>
    BY <1>1, <1>4 DEF CancelledOnce
  <1>5. ASSUME NEW o \in Ops, JournalStep(o) \/ ReconcileUnspecified(o)
        PROVE  CancelledOnce'
    BY <1>4, <1>5 DEF JournalStep, Replay, Reenter, Refuse, Prepare, Return, Recover,
         AbandonReconcile, Enter, ReconcileUnspecified, Goto
  <1>6. ASSUME NEW o \in Ops, FileStep(o), ~CancelShielded(o)
        PROVE  CancelledOnce'
    <2>1. SuccessOf(o) \in Results /\ Result("failed", ObservedEffect(o)) \in Results
      BY DEF SuccessOf, ObservedEffect, Result, Results
    <2>2. CASE FinishWork(o) \/ CancelUnshielded(o) \/ ReconcileFile(o)
      BY <1>4, <2>1, <2>2, EndLabels DEF FinishWork, CancelUnshielded, ReconcileFile
    <2>3. CASE StartWork(o) \/ ReconcileFileFails(o)
      BY <1>4, <2>3 DEF StartWork, ReconcileFileFails, Goto
    <2> QED
      BY <1>6, <2>2, <2>3 DEF FileStep
  <1>7. ASSUME NEW o \in Ops, WorkStep(o) \/ EngineStep(o) \/ CommandStep(o)
        PROVE  CancelledOnce'
    <2>1. UNCHANGED <<at, cancelled, stops>>
      BY <1>7 DEF WorkStep, Work, ReadFile, Register, RejectWork, MarkWrite, StageWrite,
           VerifyWrite, ReplaceFile, ReadBack, BreakWrite, EngineStep, Engine, ServeCreate,
           ServeStart, DropRequest, ExitContainer, CommandStep, ExitNative, CloseOutput,
           journalVars
    <2> QED
      BY <1>4, <2>1
  <1>8. ASSUME NEW o \in Ops, ContainerStep(o)
        PROVE  CancelledOnce'
    <2>1. /\ \A st \in {"succeeded", "failed"} : Result(st, TerminalEffect(o)) \in Results
          /\ Result("pending", "unknown") \in Results
      BY DEF Result, Results, TerminalEffect
    <2>2. CASE RejectContainer(o) \/ InterruptBeforeCreate(o) \/ RefuseStart(o)
               \/ InterruptContainer(o) \/ SpawnFails(o)
      BY <1>4, <2>2, EndLabels DEF RejectContainer, InterruptBeforeCreate, RefuseStart,
           InterruptContainer, SpawnFails
    <2>3. CASE CreateRefused(o) \/ ObserveTerminal(o) \/ ObserveNothing(o)
      BY <1>4, <2>1, <2>3, ConstantTypes, EndLabels
         DEF CreateRefused, ObserveTerminal, ObserveNothing
    <2>4. CASE RequestCreate(o) \/ CreateReplied(o) \/ CreateLost(o) \/ RecheckAndStart(o)
               \/ SpawnAttach(o) \/ AttachEnds(o) \/ StopAttached(o) \/ Cleanup(o)
      <3>1. /\ stops' = stops /\ cancelled' \in {FALSE, cancelled}
            /\ at' # "await_again"
            /\ cancelled' = TRUE => cancelled = TRUE
        BY <2>4 DEF RequestCreate, CreateReplied, CreateLost, RecheckAndStart,
             SpawnAttach, AttachEnds, StopAttached, Cleanup, Goto
      <3> QED
        BY <1>4, <3>1
    <2>5. CASE KillOwned(o)
      BY <1>4, <2>5 DEF KillOwned, journalVars
    <2>6. CASE ReconcileTerminal(o) \/ ReconcileRunning(o) \/ ReconcileUnobserved(o)
      BY <1>4, <2>1, <2>6, ConstantTypes, EndLabels
         DEF ReconcileTerminal, ReconcileRunning, ReconcileUnobserved
    <2> QED
      BY <1>8, <2>2, <2>3, <2>4, <2>5, <2>6 DEF ContainerStep
  <1>9. ASSUME NEW o \in Ops, NativeStep(o)
        PROVE  CancelledOnce'
    <2>1. \A st \in {"succeeded", "failed"} : Result(st, "confirmed") \in Results
      BY DEF Result, Results
    <2>2. CASE RejectCommand(o) \/ LaunchFails(o) \/ InterruptNative(o) \/ BreakNative(o)
      BY <1>4, <2>2, EndLabels DEF RejectCommand, LaunchFails, InterruptNative, BreakNative
    <2>3. CASE FinishNative(o) \/ ReconcileNative(o)
      BY <1>4, <2>1, <2>3, ConstantTypes, EndLabels DEF FinishNative, ReconcileNative
    <2>4. CASE PrepareNative(o) \/ Launch(o) \/ Go(o) \/ StopNative(o)
      <3>1. /\ stops' = stops /\ cancelled' \in {FALSE, cancelled}
            /\ at' # "await_again"
            /\ cancelled' = TRUE => cancelled = TRUE
        BY <2>4 DEF PrepareNative, Launch, Go, StopNative, InNative, Goto, journalVars
      <3> QED
        BY <1>4, <3>1
    <2> QED
      BY <1>9, <2>2, <2>3, <2>4 DEF NativeStep
  <1>10. CASE Edit \/ Crash \/ UNCHANGED vars
    BY <1>4, <1>10 DEF Edit, EditFile, Crash, LoseProcess, Goto, vars, journalVars
  <1> QED
    BY <1>2, <1>3, <1>5, <1>6, <1>7, <1>8, <1>9, <1>10 DEF Next

\* So no work is left behind.
LEMMA AwaitedKeeps ==
  ASSUME IInv, CancelledOnce, \A o \in Ops : Awaited(o), [Next]_vars, NEW p \in Ops
  PROVE  Awaited(p)'
  <1>1. step \in [Ops -> Steps]
    BY DEF IInv, TypeOK, FileTypeOK
  <1>2. CASE step'[p] = step[p] /\ (at \notin FileLabels \/ UNCHANGED <<current, at>>)
    BY <1>2 DEF Awaited, FileLabels
  <1>3. CASE \E o \in Ops : JournalStep(o) \/ ReconcileUnspecified(o)
    <2>1. step' = step
      BY <1>3 DEF JournalStep, ReconcileUnspecified, targetVars, fileVars
    <2>2. current = Nobody \/ at \notin FileLabels
      BY <1>3 DEF JournalStep, Replay, Reenter, Refuse, Prepare, Return, Recover,
           AbandonReconcile, ReconcileUnspecified, Running, FileLabels
    <2> QED
      BY <1>2, <2>1, <2>2, NobodyAssumption DEF Awaited
  <1>4. ASSUME NEW o \in Ops, FileStep(o)
        PROVE  Awaited(p)'
    <2>1. CASE StartWork(o)
      <3>1. /\ current = o /\ at = "dispatch" /\ current' = o /\ at' \in FileLabels
            /\ p # o => step'[p] = step[p]
        BY <1>1, <2>1 DEF StartWork, Advance, Goto, FileLabels
      <3> QED
        BY <3>1 DEF Awaited, FileLabels
    <2>2. CASE FinishWork(o)
      <3>1. current = o /\ step'[o] = "none" /\ (p # o => step'[p] = step[p])
        BY <1>1, <2>2 DEF FinishWork, Advance
      <3> QED
        BY <3>1 DEF Awaited
    <2>3. CASE CancelShielded(o)
      BY <2>3 DEF CancelShielded, Goto, fileVars, Awaited
    <2>4. ~CancelUnshielded(o)
      BY DEF CancelUnshielded, Interrupt, CancelledOnce
    <2>5. CASE ReconcileFile(o) \/ ReconcileFileFails(o)
      BY <1>2, <2>5 DEF ReconcileFile, ReconcileFileFails, fileVars, FileLabels
    <2> QED
      BY <1>4, <2>1, <2>2, <2>3, <2>4, <2>5 DEF FileStep
  <1>5. ASSUME NEW o \in Ops, WorkStep(o)
        PROVE  Awaited(p)'
    <2>1. UNCHANGED <<current, at>> /\ step[o] # "none" /\ (p # o => step'[p] = step[p])
      BY <1>1, <1>5 DEF WorkStep, Work, ReadFile, Register, RejectWork, MarkWrite,
           StageWrite, VerifyWrite, ReplaceFile, ReadBack, BreakWrite, Advance, journalVars
    <2> QED
      BY <2>1 DEF Awaited
  <1>6. ASSUME NEW o \in Ops, ContainerStep(o) \/ NativeStep(o)
        PROVE  Awaited(p)'
    <2>1. step' = step
      BY <1>6 DEF ContainerStep, RejectContainer, InterruptBeforeCreate, RequestCreate,
         CreateReplied, CreateRefused, CreateLost, RecheckAndStart, RefuseStart,
         InterruptContainer, SpawnAttach, SpawnFails, AttachEnds, StopAttached, Cleanup,
         KillOwned, ObserveTerminal, ObserveNothing, ReconcileTerminal, ReconcileRunning,
         ReconcileUnobserved, NativeStep, RejectCommand, PrepareNative, Launch, LaunchFails,
         Go, StopNative, InterruptNative, BreakNative, FinishNative, ReconcileNative,
         fileVars
    <2>2. at \notin FileLabels
      BY <1>6 DEF ContainerStep, RejectContainer, InterruptBeforeCreate, RequestCreate,
         CreateReplied, CreateRefused, CreateLost, RecheckAndStart, RefuseStart,
         InterruptContainer, SpawnAttach, SpawnFails, AttachEnds, StopAttached, Cleanup,
         KillOwned, ObserveTerminal, ObserveNothing, ReconcileTerminal, ReconcileRunning,
         ReconcileUnobserved, NativeStep, RejectCommand, PrepareNative, Launch, LaunchFails,
         Go, StopNative, InterruptNative, BreakNative, FinishNative, ReconcileNative,
         Running, InNative, FileLabels
    <2> QED
      BY <1>2, <2>1, <2>2
  <1>7. CASE \/ \E o \in Ops : EngineStep(o) \/ CommandStep(o)
             \/ Stop \/ Edit \/ UNCHANGED vars
    <2>1. UNCHANGED <<step, current, at>>
      BY <1>7 DEF EngineStep, Engine, ServeCreate, ServeStart, DropRequest, ExitContainer,
           CommandStep, ExitNative, CloseOutput, Stop, RequestStop, Edit, EditFile,
           targetVars, vars, journalVars, fileVars
    <2> QED
      BY <1>2, <2>1
  <1>8. CASE Crash
    BY <1>8 DEF Crash, LoseWorkers, Awaited
  <1> QED
    BY <1>3, <1>4, <1>5, <1>6, <1>7, <1>8 DEF Next

-------------------------------------------------------------------------------
(***************************************************************************)
(* One open operation.                                                     *)
(***************************************************************************)
\* A step of one operation writes its own record only.
OthersKept(o) == \A q \in Ops \ {o} : journal'[q] = journal[q]

\* Every save of it is one.
LEMMA SaveKeepsOthers ==
  ASSUME JournalTypeOK, NEW o \in Ops
  PROVE  /\ \A r \in Records : Save(o, r) => OthersKept(o)
         /\ \A r \in Results, faulted \in BOOLEAN : Settle(o, r, faulted) => OthersKept(o)
         /\ \A r \in Results : Observed(o, r) => OthersKept(o)
         /\ Fail(o) \/ Interrupt(o) => OthersKept(o)
  <1>1. ASSUME NEW r, Save(o, r)
        PROVE  OthersKept(o)
    BY <1>1 DEF Save, JournalTypeOK, OthersKept
  <1>2. ASSUME NEW r \in Results, NEW faulted \in BOOLEAN, Settle(o, r, faulted)
        PROVE  OthersKept(o)
    BY <1>2, SettleRecord DEF OthersKept
  <1>3. ASSUME NEW r \in Results, Observed(o, r)
        PROVE  OthersKept(o)
    BY <1>3, ObservedRecord DEF OthersKept
  <1> QED
    BY <1>1, <1>2, <1>3, ConstantTypes DEF Fail, Interrupt

\* Who holds the lease, or would take it, is alone with its open record.
LEMMA OwnerAlone ==
  ASSUME OneOpen, NEW o \in Ops, Awaited(o), Alone(o),
         \/ current = o \/ step[o] # "none" \/ Open(o) \/ Unresolved(o) = {}
  PROVE  \A q \in Ops \ {o} : ~Open(q)
  <1>1. CASE current = o \/ step[o] # "none"
    BY <1>1 DEF Awaited, Alone
  <1>2. CASE Open(o)
    BY <1>2 DEF OneOpen
  <1>3. CASE Unresolved(o) = {}
    BY <1>3 DEF Unresolved, Open
  <1> QED
    BY <1>1, <1>2, <1>3

\* A step of such an owner, and a step that leaves the records and the lease
\* alone, keeps at most one operation open.
LEMMA LeaseKeeps ==
  ASSUME OneOpen, \A q \in Ops : Alone(q),
         \/ /\ journal' = journal
            /\ current' \in {current, Nobody}
         \/ \E o \in Ops : /\ \A q \in Ops \ {o} : ~Open(q)
                          /\ OthersKept(o)
                          /\ current' \in {o, Nobody}
  PROVE  OneOpen' /\ \A q \in Ops : Alone(q)'
  <1>1. CASE journal' = journal /\ current' \in {current, Nobody}
    BY <1>1, NobodyAssumption DEF OneOpen, Alone, Open
  <1>2. CASE \E o \in Ops : /\ \A q \in Ops \ {o} : ~Open(q)
                          /\ OthersKept(o)
                          /\ current' \in {o, Nobody}
    <2>1. PICK o \in Ops : /\ \A q \in Ops \ {o} : ~Open(q)
                           /\ OthersKept(o)
                           /\ current' \in {o, Nobody}
      BY <1>2
    <2>2. \A q \in Ops \ {o} : ~Open(q)'
      BY <2>1 DEF Open, OthersKept
    <2> QED
      BY <2>1, <2>2, NobodyAssumption DEF OneOpen, Alone
  <1> QED
    BY <1>1, <1>2

\* The steps of a call are steps of the lease holder, those of a worker belong
\* to an operation with work, and each writes its own record only.
LEMMA OwnRecordOnly ==
  ASSUME IInv, NEW o \in Ops
  PROVE  /\ FileStep(o) \/ ContainerStep(o) \/ NativeStep(o) =>
              current = o /\ OthersKept(o) /\ current' \in {o, Nobody}
         /\ WorkStep(o) => step[o] # "none" /\ OthersKept(o) /\ current' = current
  <1>1. TypeOK /\ JournalTypeOK /\ OpInv(o)
    BY DEF IInv, TypeOK
  <1>2. ASSUME FileStep(o)
        PROVE  current = o /\ OthersKept(o) /\ current' \in {o, Nobody}
    <2>1. SuccessOf(o) \in Results /\ Result("failed", ObservedEffect(o)) \in Results
      BY DEF SuccessOf, ObservedEffect, Result, Results
    <2>2. CASE FinishWork(o) \/ CancelUnshielded(o) \/ ReconcileFile(o)
      <3>1. OthersKept(o) /\ current = o
        BY <1>1, <2>1, <2>2, SaveKeepsOthers DEF FinishWork, CancelUnshielded, ReconcileFile
      <3>2. current' \in {o, Nobody}
        BY <2>2, <3>1 DEF FinishWork, CancelUnshielded, ReconcileFile, Fail, Interrupt,
             Settle, Observed
      <3> QED
        BY <3>1, <3>2
    <2>3. CASE StartWork(o) \/ CancelShielded(o)
      BY <2>3 DEF StartWork, CancelShielded, OthersKept
    <2>4. CASE ReconcileFileFails(o)
      <3>1. journal' = [journal EXCEPT ![o] = [journal[o] EXCEPT !.fault = TRUE]]
        BY <1>1, <2>4 DEF ReconcileFileFails, JournalTypeOK
      <3> QED
        BY <1>1, <2>4, <3>1 DEF ReconcileFileFails, OthersKept, JournalTypeOK
    <2> QED
      BY <1>2, <2>2, <2>3, <2>4 DEF FileStep
  <1>3. ASSUME WorkStep(o)
        PROVE  step[o] # "none" /\ OthersKept(o) /\ current' = current
    <2>1. step[o] # "none" /\ current' = current
      BY <1>3 DEF WorkStep, Work, ReadFile, Register, RejectWork, MarkWrite, StageWrite,
           VerifyWrite, ReplaceFile, ReadBack, BreakWrite, journalVars
    <2>2. CASE MarkWrite(o)
      <3>1. Kind[o] # "native" /\ ~Launch(o)
        BY <1>1, <2>2 DEF MarkWrite, Launch, InNative, OpInv, OwnLabel
      <3>2. PICK r \in Records : Edited(o, r)
        BY <1>1, <2>2, <3>1, OtherEdits
      <3> QED
        BY <1>1, <2>1, <3>2, SaveKeepsOthers DEF Edited
    <2>3. CASE ~MarkWrite(o)
      BY <1>3, <2>1, <2>3 DEF WorkStep, Work, ReadFile, Register, RejectWork, StageWrite,
           VerifyWrite, ReplaceFile, ReadBack, BreakWrite, journalVars, OthersKept
    <2> QED
      BY <2>2, <2>3
  <1>4. ASSUME ContainerStep(o)
        PROVE  current = o /\ OthersKept(o) /\ current' \in {o, Nobody}
    <2>1. /\ \A st \in {"succeeded", "failed"} : Result(st, TerminalEffect(o)) \in Results
          /\ Result("pending", "unknown") \in Results
      BY DEF Result, Results, TerminalEffect
    <2>2. CASE RejectContainer(o) \/ InterruptBeforeCreate(o) \/ RefuseStart(o)
               \/ InterruptContainer(o) \/ SpawnFails(o)
      <3>1. (Fail(o) \/ Interrupt(o)) /\ current = o
        BY <2>2 DEF RejectContainer, InterruptBeforeCreate, RefuseStart,
             InterruptContainer, SpawnFails, Running
      <3> QED
        BY <1>1, <3>1, SaveKeepsOthers, FailType
    <2>3. CASE CreateRefused(o) \/ ObserveTerminal(o) \/ ObserveNothing(o)
      <3>1. current = o /\ \E r \in Results, faulted \in BOOLEAN : Settle(o, r, faulted)
        BY <2>1, <2>3, ConstantTypes
           DEF CreateRefused, ObserveTerminal, ObserveNothing, Running
      <3> QED
        BY <1>1, <3>1, SaveKeepsOthers, SettleType
    <2>4. CASE ReconcileTerminal(o) \/ ReconcileRunning(o) \/ ReconcileUnobserved(o)
      <3>1. current = o /\ \E r \in Results : Observed(o, r)
        BY <2>1, <2>4, ConstantTypes
           DEF ReconcileTerminal, ReconcileRunning, ReconcileUnobserved, Running
      <3> QED
        BY <1>1, <3>1, SaveKeepsOthers, ObservedRecord
    <2>5. CASE RequestCreate(o) \/ CreateReplied(o) \/ RecheckAndStart(o)
               \/ AttachEnds(o) \/ StopAttached(o) \/ CreateLost(o)
      <3>1. \E r \in Records : Save(o, r)
        BY <1>1, <2>5, ContainerSaves
      <3>2. current = o /\ current' = o
        BY <2>5 DEF RequestCreate, CreateReplied, RecheckAndStart, AttachEnds,
             StopAttached, CreateLost, Running
      <3> QED
        BY <1>1, <3>1, <3>2, SaveKeepsOthers
    <2>6. CASE SpawnAttach(o) \/ Cleanup(o) \/ KillOwned(o)
      BY <2>6 DEF SpawnAttach, Cleanup, KillOwned, Running, journalVars, OthersKept
    <2> QED
      BY <1>4, <2>2, <2>3, <2>4, <2>5, <2>6 DEF ContainerStep
  <1>5. ASSUME NativeStep(o)
        PROVE  current = o /\ OthersKept(o) /\ current' \in {o, Nobody}
    <2>1. \A st \in {"succeeded", "failed"} : Result(st, "confirmed") \in Results
      BY DEF Result, Results
    <2>2. CASE RejectCommand(o) \/ LaunchFails(o) \/ InterruptNative(o) \/ BreakNative(o)
      <3>1. (Fail(o) \/ Interrupt(o)) /\ current = o
        BY <2>2 DEF RejectCommand, LaunchFails, InterruptNative, BreakNative, InNative
      <3> QED
        BY <1>1, <3>1, SaveKeepsOthers, FailType
    <2>3. CASE FinishNative(o)
      <3>1. current = o /\ \E r \in Results, faulted \in BOOLEAN : Settle(o, r, faulted)
        BY <2>1, <2>3 DEF FinishNative, InNative
      <3> QED
        BY <1>1, <3>1, SaveKeepsOthers, SettleType
    <2>4. CASE ReconcileNative(o)
      <3>1. current = o /\ \E r \in Results : Observed(o, r)
        BY <2>4, ConstantTypes DEF ReconcileNative
      <3> QED
        BY <1>1, <3>1, SaveKeepsOthers, ObservedRecord
    <2>5. CASE PrepareNative(o) \/ Launch(o)
      <3>1. current = o /\ current' = o /\ Kind[o] = "native"
        BY <1>1, <2>5 DEF PrepareNative, Launch, InNative, OpInv, OwnLabel
      <3>2. \E r \in Records : Edited(o, r)
        BY <1>1, <2>5, <3>1, OtherEdits
      <3> QED
        BY <1>1, <3>1, <3>2, SaveKeepsOthers DEF Edited
    <2>6. CASE Go(o) \/ StopNative(o)
      BY <2>6 DEF Go, StopNative, InNative, journalVars, OthersKept
    <2> QED
      BY <1>5, <2>2, <2>3, <2>4, <2>5, <2>6 DEF NativeStep
  <1> QED
    BY <1>2, <1>3, <1>4, <1>5

\* Which of the two every step is.
LEMMA StepOwner ==
  ASSUME OutcomeInv, [Next]_vars
  PROVE  \/ /\ journal' = journal
            /\ current' \in {current, Nobody}
         \/ \E o \in Ops : /\ \A q \in Ops \ {o} : ~Open(q)
                          /\ OthersKept(o)
                          /\ current' \in {o, Nobody}
  <1>1. /\ IInv /\ JournalTypeOK /\ OneOpen
        /\ \A o \in Ops : OpInv(o) /\ CallInv(o)
    BY DEF OutcomeInv, RealInv, IInv, TypeOK
  <1>2. ASSUME NEW o \in Ops,
               current = o \/ step[o] # "none" \/ Open(o) \/ Unresolved(o) = {}
        PROVE  \A q \in Ops \ {o} : ~Open(q)
    BY <1>1, <1>2, OwnerAlone DEF CallInv
  <1>3. ASSUME NEW o \in Ops, JournalStep(o) \/ ReconcileUnspecified(o)
        PROVE  \/ /\ journal' = journal
                  /\ current' \in {current, Nobody}
               \/ /\ \A q \in Ops \ {o} : ~Open(q)
                  /\ OthersKept(o)
                  /\ current' \in {o, Nobody}
    <2>1. CASE Replay(o) \/ Refuse(o) \/ Return(o) \/ AbandonReconcile(o)
               \/ ReconcileUnspecified(o)
      BY <2>1 DEF Replay, Refuse, Return, AbandonReconcile, ReconcileUnspecified
    <2>2. CASE Reenter(o) \/ Recover(o)
      <3>1. /\ journal[o].phase # "absent" /\ ~IsFinished(journal[o])
            /\ journal' = journal /\ current' = o
        BY <2>2 DEF Reenter, Recover, Enter
      <3>2. journal[o].phase = "finished" => journal[o].result # Missing
        BY <1>1 DEF CallInv, Unfinished, Definite, Missing, Result
      <3>3. Open(o)
        BY <3>1, <3>2 DEF IsFinished, Open
      <3> QED
        BY <1>2, <3>1, <3>3 DEF OthersKept
    <2>3. CASE Prepare(o)
      <3>1. Unresolved(o) = {} /\ current' = o
            /\ journal' = [journal EXCEPT ![o] = Prepared]
        BY <2>3 DEF Prepare, Enter
      <3> QED
        BY <1>1, <1>2, <3>1 DEF OthersKept, JournalTypeOK
    <2> QED
      BY <1>3, <2>1, <2>2, <2>3 DEF JournalStep
  <1>4. ASSUME \/ \E o \in Ops : EngineStep(o) \/ CommandStep(o)
               \/ Stop \/ Edit \/ Crash \/ UNCHANGED vars
        PROVE  journal' = journal /\ current' \in {current, Nobody}
    BY <1>4 DEF EngineStep, Engine, ServeCreate, ServeStart, DropRequest, ExitContainer,
         CommandStep, ExitNative, CloseOutput, Stop, RequestStop, Edit, EditFile, Crash,
         LoseProcess, vars, journalVars
  <1>5. ASSUME NEW o \in Ops, FileStep(o) \/ ContainerStep(o) \/ NativeStep(o)
        PROVE  /\ \A q \in Ops \ {o} : ~Open(q)
               /\ OthersKept(o)
               /\ current' \in {o, Nobody}
    BY <1>1, <1>2, <1>5, OwnRecordOnly
  <1>6. ASSUME NEW o \in Ops, WorkStep(o)
        PROVE  /\ \A q \in Ops \ {o} : ~Open(q)
               /\ OthersKept(o)
               /\ current' \in {o, Nobody}
    BY <1>1, <1>2, <1>6, OwnRecordOnly DEF CallInv, Awaited
  <1> QED
    BY <1>3, <1>4, <1>5, <1>6 DEF Next

-------------------------------------------------------------------------------
(***************************************************************************)
(* Outcomes are final.                                                     *)
(***************************************************************************)
\* What a step must do to the outcome of an operation.
OutcomeKept(p) ==
  /\ Unfinished(p)' /\ Told(p)'
  /\ StaysFinished(p) /\ StaysTold(p) /\ ObservesOnly(p)

\* A definite result is one that finishes the record.
Fit(r) == r.status \in {"succeeded", "failed"} <=> PhaseOf(r) = "finished"

\* The results the code stores are.
LEMMA ResultsFit ==
  /\ Unknown \in Results /\ Fit(Unknown) /\ FailedNone \in Results /\ Fit(FailedNone)
  /\ Unknown.status = "unknown" /\ FailedNone.status = "failed"
  /\ \A s \in {"succeeded", "failed"}, e \in {"none", "confirmed"} :
       Result(s, e) \in Results /\ Fit(Result(s, e)) /\ Result(s, e).status = s
  /\ Result("pending", "unknown") \in Results /\ Fit(Result("pending", "unknown"))
  /\ Result("pending", "none").status = "pending"
  /\ Result("pending", "unknown").status = "pending"
  BY DEF Unknown, FailedNone, Result, Results, Fit, PhaseOf

\* While a call runs, before its epilogue, nothing is finished or told.
LEMMA RunningIsOpen ==
  ASSUME OutcomeInv, NEW o \in Ops, current = o, at \notin {"cleanup", "return"}
  PROVE  /\ journal[o].phase # "finished"
         /\ journal[o].result.status \notin {"succeeded", "failed"}
         /\ answer[o].status \notin {"succeeded", "failed"}
         /\ at # "reconcile" => /\ memory[o].phase # "finished"
                               /\ memory[o].result = journal[o].result
  BY DEF OutcomeInv, RealInv, RealOp, OneRecord, CallInv, Unfinished, Definite, Told

\* A step that leaves the records alone.
LEMMA UntouchedOutcome ==
  ASSUME OutcomeInv, NEW p \in Ops,
         journal'[p].result = journal[p].result, journal'[p].phase = journal[p].phase,
         memory'[p].result = memory[p].result, memory'[p].phase = memory[p].phase,
         \/ answer'[p] = answer[p]
         \/ answer'[p].status \notin {"succeeded", "failed"} /\ ~IsFinished(journal[p])
         \/ answer'[p] = journal[p].result,
         \/ current' # p
         \/ current = p /\ (at \in {"cleanup", "return"} => at' \in {"cleanup", "return"})
         \/ journal[p].phase # "finished",
         process'[p] \in {"waiting", "running"} =>
           process[p] \in {"waiting", "running"} \/ journal[p].phase # "finished"
  PROVE  OutcomeKept(p)
  <1>1. CallInv(p) /\ RealOp(p)
    BY DEF OutcomeInv, RealInv
  <1>2. Missing.status = "missing"
    BY DEF Missing, Result
  <1>3. (Definite(journal[p]) /\ Definite(memory[p]))'
    BY <1>1 DEF CallInv, Unfinished, Definite
  <1>4. Unfinished(p)'
    BY <1>1, <1>3 DEF CallInv, Unfinished
  <1>5. answer[p].status \in {"succeeded", "failed"} =>
          IsFinished(journal[p]) /\ journal[p].result = answer[p]
    BY <1>1, <1>2 DEF CallInv, Unfinished, Definite, Told, IsFinished
  <1>6. journal[p].result.status \in {"succeeded", "failed"} => journal[p].phase = "finished"
    BY <1>1 DEF CallInv, Unfinished, Definite
  <1>7. StaysFinished(p)
    BY DEF StaysFinished, IsFinished
  <1>8. StaysTold(p)
    BY <1>5 DEF StaysTold
  <1>9. Told(p)'
    BY <1>5, <1>6 DEF Told, IsFinished
  <1>10. ObservesOnly(p)
    <2>1. CASE current = p /\ at = "reconcile"
      BY <2>1, RunningIsOpen DEF ObservesOnly
    <2> QED
      BY <2>1 DEF ObservesOnly
  <1> QED
    BY <1>4, <1>7, <1>8, <1>9, <1>10 DEF OutcomeKept

\* The record of another operation is one of those.
LEMMA OtherOutcome ==
  ASSUME OutcomeInv, NEW o \in Ops, NEW p \in Ops, p # o, OthersKept(o),
         memory'[p] = memory[p], answer'[p] = answer[p],
         current' = o \/ current' = Nobody, process'[p] = process[p]
  PROVE  OutcomeKept(p)
  BY UntouchedOutcome, NobodyAssumption DEF OthersKept

\* The epilogue of a call whose command is over.
LEMMA SettleOutcome ==
  ASSUME OutcomeInv, NEW o \in Ops, NEW r \in Results, NEW faulted \in BOOLEAN,
         Settle(o, r, faulted), Fit(r),
         current = o, at \notin {"cleanup", "return", "reconcile"},
         process' = process \/ process' = [process EXCEPT ![o] = "ended"],
         process'[o] \notin {"waiting", "running"},
         NEW p \in Ops
  PROVE  OutcomeKept(p)
  <1>1. JournalTypeOK /\ CallInv(o) /\ process \in [Ops -> Processes]
    BY DEF OutcomeInv, RealInv, IInv, TypeOK, NativeTypeOK
  <1>2. /\ journal'[o] = memory'[o]
        /\ memory'[o].result = r /\ memory'[o].phase = PhaseOf(r)
        /\ \A q \in Ops \ {o} : journal'[q] = journal[q] /\ memory'[q] = memory[q]
        /\ at' \in {"cleanup", "return"} /\ current' = o /\ answer' = answer
    BY <1>1, SettleRecord
  <1>3. CASE p = o
    <2>1. Unfinished(o)'
      BY <1>2 DEF Unfinished, Definite, Fit
    <2>2. Told(o)' /\ StaysFinished(o) /\ StaysTold(o) /\ ObservesOnly(o)
      BY <1>2, RunningIsOpen DEF Told, StaysFinished, StaysTold, ObservesOnly, IsFinished
    <2> QED
      BY <1>3, <2>1, <2>2 DEF OutcomeKept
  <1>4. CASE p # o
    <2>1. process'[p] = process[p]
      BY <1>1, <1>4
    <2> QED
      BY <1>2, <1>4, <2>1, OtherOutcome DEF OthersKept
  <1> QED
    BY <1>3, <1>4

\* An observation.
LEMMA ObservedOutcome ==
  ASSUME OutcomeInv, NEW o \in Ops, NEW r \in Results, Observed(o, r), Fit(r),
         r.status # "succeeded", current = o, at = "reconcile",
         process' = process,
         process[o] \in {"waiting", "running"} => PhaseOf(r) # "finished",
         NEW p \in Ops
  PROVE  OutcomeKept(p)
  <1>1. JournalTypeOK /\ CallInv(o)
    BY DEF OutcomeInv, RealInv, IInv, TypeOK
  <1>2. /\ journal'[o].result = r /\ journal'[o].phase = PhaseOf(r)
        /\ \A q \in Ops \ {o} : journal'[q] = journal[q]
        /\ memory' = memory
        /\ answer' = [answer EXCEPT ![o] = r] /\ current' = Nobody
    BY <1>1, ObservedRecord
  <1>3. CASE p = o
    <2>1. Definite(journal[o])' /\ Definite(memory[o])'
      BY <1>1, <1>2 DEF CallInv, Unfinished, Definite, Fit
    <2>2. Unfinished(o)'
      BY <1>2, <2>1, NobodyAssumption DEF Unfinished
    <2>3. answer'[o] = r
      BY <1>1, <1>2 DEF JournalTypeOK
    <2>4. Told(o)' /\ StaysFinished(o) /\ StaysTold(o) /\ ObservesOnly(o)
      BY <1>2, <2>3, RunningIsOpen
         DEF Told, StaysFinished, StaysTold, ObservesOnly, IsFinished, Fit
    <2> QED
      BY <1>3, <2>2, <2>4 DEF OutcomeKept
  <1>4. CASE p # o
    <2>1. answer'[p] = answer[p]
      BY <1>1, <1>2, <1>4 DEF JournalTypeOK
    <2> QED
      BY <1>2, <1>4, <2>1, OtherOutcome DEF OthersKept
  <1> QED
    BY <1>3, <1>4

\* A save before the result is known.
LEMMA EditedOutcome ==
  ASSUME OutcomeInv, NEW o \in Ops, NEW r \in Records, Edited(o, r),
         current = o, at \notin {"cleanup", "return", "reconcile"},
         current' = o, answer' = answer,
         \A q \in Ops \ {o} : process'[q] = process[q],
         NEW p \in Ops
  PROVE  OutcomeKept(p)
  <1>1. JournalTypeOK
    BY DEF OutcomeInv, RealInv, IInv, TypeOK
  <1>2. /\ journal'[o] = r /\ memory'[o] = r
        /\ \A q \in Ops \ {o} : journal'[q] = journal[q] /\ memory'[q] = memory[q]
    BY <1>1 DEF Edited, Save, JournalTypeOK
  <1>3. /\ r.phase # "finished" /\ r.result = journal[o].result
        /\ r.result.status \notin {"succeeded", "failed"}
    BY RunningIsOpen DEF Edited
  <1>4. CASE p = o
    <2>1. Unfinished(o)'
      BY <1>2, <1>3 DEF Unfinished, Definite
    <2>2. Told(o)' /\ StaysFinished(o) /\ StaysTold(o) /\ ObservesOnly(o)
      BY <1>2, <1>3, RunningIsOpen DEF Told, StaysFinished, StaysTold, ObservesOnly, IsFinished
    <2> QED
      BY <1>4, <2>1, <2>2 DEF OutcomeKept
  <1>5. CASE p # o
    BY <1>2, <1>5, OtherOutcome DEF OthersKept
  <1> QED
    BY <1>4, <1>5

\* The prologue, the return and a record nobody can look at.
LEMMA JournalStepOutcome ==
  ASSUME OutcomeInv, NEW o \in Ops, JournalStep(o) \/ ReconcileUnspecified(o), NEW p \in Ops
  PROVE  OutcomeKept(p)
  <1>1. JournalTypeOK /\ CallInv(p) /\ RealOp(p) /\ CallInv(o) /\ RealOp(o)
    BY DEF OutcomeInv, RealInv, IInv, TypeOK
  <1>2. process' = process
    BY DEF JournalStep, ReconcileUnspecified, targetVars, nativeVars
  <1>3. CASE Prepare(o)
    <2>1. /\ journal'[o] = Prepared /\ memory'[o] = Prepared
          /\ \A q \in Ops \ {o} : journal'[q] = journal[q] /\ memory'[q] = memory[q]
          /\ journal[o].phase = "absent" /\ current' = o /\ answer' = answer
          /\ current = Nobody
      BY <1>1, <1>3 DEF Prepare, Enter, JournalTypeOK
    <2>2. Prepared.phase = "prepared" /\ Prepared.result.status = "missing"
      BY DEF Prepared, NoRecord, Missing, Result
    <2>3. CASE p = o
      <3>1. Unfinished(o)'
        BY <2>1, <2>2 DEF Unfinished, Definite
      <3>2. Told(o)' /\ StaysFinished(o) /\ StaysTold(o) /\ ObservesOnly(o)
        BY <1>1, <2>1, NobodyAssumption
           DEF CallInv, Told, StaysFinished, StaysTold, ObservesOnly, IsFinished
      <3> QED
        BY <2>3, <3>1, <3>2 DEF OutcomeKept
    <2>4. CASE p # o
      BY <1>2, <2>1, <2>4, OtherOutcome DEF OthersKept
    <2> QED
      BY <2>3, <2>4
  <1>4. CASE Replay(o) \/ Refuse(o)
    <2>1. /\ UNCHANGED <<journal, memory, current, at>> /\ current = Nobody
          /\ p # o => answer'[p] = answer[p]
          /\ Replay(o) => answer'[o] = journal[o].result
          /\ Refuse(o) => /\ answer'[o] = Result("pending", "none")
                          /\ journal[o].phase = "absent"
      BY <1>1, <1>4 DEF Replay, Refuse, JournalTypeOK
    <2> QED
      BY <1>2, <1>4, <2>1, ResultsFit, NobodyAssumption, UntouchedOutcome DEF IsFinished
  <1>5. CASE Reenter(o) \/ Recover(o)
    <2>1. /\ UNCHANGED <<journal, memory, answer>> /\ current' = o
          /\ journal[o].phase # "absent" /\ ~IsFinished(journal[o])
      BY <1>5 DEF Reenter, Recover, Enter
    <2>2. journal[o].phase # "finished"
      BY <1>1, <2>1 DEF CallInv, Unfinished, Definite, IsFinished, Missing, Result
    <2> QED
      BY <1>2, <2>1, <2>2, UntouchedOutcome
  <1>6. CASE Return(o)
    <2>1. /\ UNCHANGED <<journal, memory>> /\ current = o /\ at = "return"
          /\ current' = Nobody
          /\ answer'[o] = memory[o].result /\ (p # o => answer'[p] = answer[p])
      BY <1>1, <1>6 DEF Return, JournalTypeOK
    <2>2. memory[o].result = journal[o].result
      BY <1>1, <2>1 DEF RealOp, OneRecord
    <2> QED
      BY <1>2, <2>1, <2>2, NobodyAssumption, UntouchedOutcome
  <1>7. CASE AbandonReconcile(o) \/ ReconcileUnspecified(o)
    <2>1. /\ UNCHANGED <<journal, memory>> /\ current = o /\ at = "reconcile"
          /\ current' = Nobody
          /\ p # o => answer'[p] = answer[p]
          /\ answer'[o] \in {answer[o], Unknown}
      BY <1>1, <1>7 DEF AbandonReconcile, ReconcileUnspecified, Running, JournalTypeOK
    <2>2. ~IsFinished(journal[o])
      BY <2>1, RunningIsOpen DEF IsFinished
    <2> QED
      BY <1>2, <2>1, <2>2, ResultsFit, NobodyAssumption, UntouchedOutcome
  <1> QED
    BY <1>3, <1>4, <1>5, <1>6, <1>7 DEF JournalStep

\* A file operation on the event loop.
LEMMA FileStepOutcome ==
  ASSUME OutcomeInv, NEW o \in Ops, FileStep(o), NEW p \in Ops
  PROVE  OutcomeKept(p)
  <1>1. JournalTypeOK /\ CallInv(o) /\ OpInv(o) /\ CancelledOnce
    BY DEF OutcomeInv, RealInv, IInv, TypeOK
  <1>2. process' = process
    BY DEF FileStep, nativeVars
  <1>3. CASE StartWork(o) \/ CancelShielded(o)
    <2>1. /\ UNCHANGED <<journal, memory, answer>> /\ current = o /\ current' = o
          /\ at \notin {"cleanup", "return"}
      BY <1>3 DEF StartWork, CancelShielded
    <2> QED
      BY <1>2, <2>1, UntouchedOutcome
  <1>4. CASE FinishWork(o)
    <2>1. Fit(SuccessOf(o)) /\ SuccessOf(o) \in Results
      BY ResultsFit DEF SuccessOf
    <2>2. current = o /\ at \in FileLabels /\ Kind[o] \in FileKinds
      BY <1>1, <1>4 DEF FinishWork, FileLabels, OpInv, OwnLabel
    <2>3. process[o] = "none"
      BY <1>1, <2>2 DEF OpInv, OwnTarget, FileKinds
    <2>4. \E r \in Results, faulted \in BOOLEAN : Settle(o, r, faulted) /\ Fit(r)
      BY <1>4, <2>1, ResultsFit DEF FinishWork, Fail
    <2> QED
      BY <1>2, <2>2, <2>3, <2>4, SettleOutcome DEF FileLabels
  <1>5. ~CancelUnshielded(o)
    BY <1>1 DEF CancelUnshielded, Interrupt, CancelledOnce
  <1>6. CASE ReconcileFile(o)
    <2>1. \E r \in Results : Observed(o, r) /\ Fit(r) /\ r.status = "failed"
      BY <1>6, ResultsFit DEF ReconcileFile, ObservedEffect
    <2>2. current = o /\ at = "reconcile" /\ process[o] = "none"
      BY <1>1, <1>6 DEF ReconcileFile, OpInv, OwnTarget, FileKinds
    <2> QED
      BY <1>2, <2>1, <2>2, ObservedOutcome
  <1>7. CASE ReconcileFileFails(o)
    <2>1. journal' = [journal EXCEPT ![o] = [journal[o] EXCEPT !.fault = TRUE]]
      BY <1>1, <1>7 DEF ReconcileFileFails, JournalTypeOK
    <2>2. journal[o] \in Records
      BY <1>1 DEF JournalTypeOK
    <2>3. /\ journal'[p].result = journal[p].result /\ journal'[p].phase = journal[p].phase
      BY <1>1, <2>1, <2>2 DEF JournalTypeOK, Records
    <2>4. /\ memory' = memory /\ current = o /\ at = "reconcile" /\ current' = Nobody
          /\ answer'[o] = Unknown /\ (p # o => answer'[p] = answer[p])
      BY <1>1, <1>7 DEF ReconcileFileFails, JournalTypeOK
    <2>5. ~IsFinished(journal[o])
      BY <2>4, RunningIsOpen DEF IsFinished
    <2> QED
      BY <1>2, <2>3, <2>4, <2>5, ResultsFit, NobodyAssumption, UntouchedOutcome
  <1> QED
    BY <1>3, <1>4, <1>5, <1>6, <1>7 DEF FileStep

\* Its worker.
LEMMA WorkStepOutcome ==
  ASSUME OutcomeInv, NEW o \in Ops, WorkStep(o), NEW p \in Ops
  PROVE  OutcomeKept(p)
  <1>1. TypeOK /\ CallInv(o) /\ OpInv(o)
    BY DEF OutcomeInv, RealInv, IInv
  <1>2. process' = process
    BY DEF WorkStep, nativeVars
  <1>3. CASE MarkWrite(o)
    <2>1. /\ Kind[o] = "file_write" /\ step[o] = "queued"
          /\ UNCHANGED <<current, at, answer>>
      BY <1>3 DEF MarkWrite
    <2>2. current = o /\ at \in FileLabels
      BY <1>1, <2>1 DEF CallInv, Awaited, FileLabels
    <2>3. ~Launch(o)
      BY <2>2 DEF Launch, InNative, FileLabels
    <2>4. PICK r \in Records : Edited(o, r)
      BY <1>1, <1>3, <2>3, OtherEdits
    <2> QED
      BY <1>2, <2>1, <2>2, <2>4, EditedOutcome DEF FileLabels
  <1>4. CASE ~MarkWrite(o)
    <2>1. UNCHANGED <<journal, memory, current, at, answer>>
      BY <1>4 DEF WorkStep, Work, ReadFile, Register, RejectWork, StageWrite, VerifyWrite,
           ReplaceFile, ReadBack, BreakWrite, journalVars
    <2> QED
      BY <1>2, <2>1, UntouchedOutcome
  <1> QED
    BY <1>3, <1>4

\* A container.
LEMMA ContainerStepOutcome ==
  ASSUME OutcomeInv, NEW o \in Ops, ContainerStep(o), NEW p \in Ops
  PROVE  OutcomeKept(p)
  <1>1. TypeOK /\ JournalTypeOK /\ CallInv(o) /\ OpInv(o)
    BY DEF OutcomeInv, RealInv, IInv, TypeOK
  <1>2. process' = process
    BY DEF ContainerStep, nativeVars
  <1>3. /\ TerminalEffect(o) \in {"none", "confirmed"}
    BY DEF TerminalEffect
  <1>4. CASE \/ RejectContainer(o) \/ InterruptBeforeCreate(o) \/ RefuseStart(o)
             \/ InterruptContainer(o) \/ SpawnFails(o) \/ CreateRefused(o)
             \/ ObserveTerminal(o) \/ ObserveNothing(o)
    <2>1. /\ current = o
          /\ at \in {"dispatch", "creating", "created", "attaching", "observe"}
          /\ at = "dispatch" => Kind[o] = "container"
      BY <1>4 DEF RejectContainer, InterruptBeforeCreate, RefuseStart, InterruptContainer,
           SpawnFails, CreateRefused, ObserveTerminal, ObserveNothing, Running
    <2>2. process[o] = "none"
      BY <1>1, <2>1 DEF OpInv, OwnTarget, OwnLabel
    <2>3. \E r \in Results, faulted \in BOOLEAN : Settle(o, r, faulted) /\ Fit(r)
      <3>1. CASE \/ RejectContainer(o) \/ InterruptBeforeCreate(o) \/ RefuseStart(o)
                 \/ InterruptContainer(o) \/ SpawnFails(o) \/ CreateRefused(o)
                 \/ ObserveNothing(o)
        BY <3>1, ResultsFit DEF RejectContainer, InterruptBeforeCreate, RefuseStart,
           InterruptContainer, SpawnFails, CreateRefused, ObserveNothing, Fail, Interrupt
      <3>2. CASE ObserveTerminal(o)
        BY <1>3, <3>2, ResultsFit DEF ObserveTerminal
      <3> QED
        BY <1>4, <3>1, <3>2
    <2> QED
      BY <1>2, <2>1, <2>2, <2>3, SettleOutcome
  <1>5. CASE ReconcileTerminal(o) \/ ReconcileRunning(o) \/ ReconcileUnobserved(o)
    <2>1. /\ current = o /\ at = "reconcile"
          /\ \E r \in Results :
               /\ Observed(o, r) /\ Fit(r) /\ r.status # "succeeded"
               /\ PhaseOf(r) = "finished" => Terminal(o)
      BY <1>3, <1>5, ResultsFit DEF ReconcileTerminal, ReconcileRunning, ReconcileUnobserved,
           Running, Fit
    <2>2. Terminal(o) => process[o] = "none"
      BY <1>1 DEF Terminal, OpInv, OwnTarget
    <2> QED
      BY <1>2, <2>1, <2>2, ObservedOutcome
  <1>6. CASE RequestCreate(o) \/ CreateReplied(o) \/ RecheckAndStart(o)
             \/ AttachEnds(o) \/ StopAttached(o)
    <2>1. /\ current = o /\ current' = o /\ answer' = answer
          /\ at \in {"dispatch", "creating", "created", "attached"}
      BY <1>6 DEF RequestCreate, CreateReplied, RecheckAndStart, AttachEnds, StopAttached,
           Running
    <2>2. PICK r \in Records : Edited(o, r)
      BY <1>1, <1>6, ContainerEdits
    <2> QED
      BY <1>2, <2>1, <2>2, EditedOutcome
  <1>7. CASE CreateLost(o)
    <2> DEFINE r == [memory[o] EXCEPT !.started = TRUE, !.fault = TRUE, !.result = Unknown,
                                      !.phase = "unresolved"]
    <2>1. memory[o] \in Records
      BY <1>1 DEF JournalTypeOK
    <2>2. r.phase = "unresolved" /\ r.result = Unknown
      BY <2>1 DEF Records
    <2>3. /\ Save(o, r) /\ current = o /\ current' = o /\ at = "creating"
          /\ answer' = answer
      BY <1>7 DEF CreateLost, Running
    <2> HIDE DEF r
    <2>4. /\ journal'[o] = r /\ memory'[o] = r
          /\ \A q \in Ops \ {o} : journal'[q] = journal[q] /\ memory'[q] = memory[q]
      BY <1>1, <2>3 DEF Save, JournalTypeOK
    <2>5. CASE p = o
      <3>1. Unfinished(o)'
        BY <2>2, <2>4, ResultsFit DEF Unfinished, Definite
      <3>2. Told(o)' /\ StaysFinished(o) /\ StaysTold(o) /\ ObservesOnly(o)
        BY <2>3, RunningIsOpen DEF Told, StaysFinished, StaysTold, ObservesOnly, IsFinished
      <3> QED
        BY <2>5, <3>1, <3>2 DEF OutcomeKept
    <2>6. CASE p # o
      BY <1>2, <2>3, <2>4, <2>6, OtherOutcome DEF OthersKept
    <2> QED
      BY <2>5, <2>6
  <1>8. CASE SpawnAttach(o) \/ Cleanup(o) \/ KillOwned(o)
    <2>1. /\ UNCHANGED <<journal, memory, answer>> /\ current = o /\ current' = o
          /\ at \in {"cleanup", "return"} => at' \in {"cleanup", "return"}
      BY <1>8 DEF SpawnAttach, Cleanup, KillOwned, Running, Goto, journalVars
    <2> QED
      BY <1>2, <2>1, UntouchedOutcome
  <1> QED
    BY <1>4, <1>5, <1>6, <1>7, <1>8 DEF ContainerStep

\* A native command.
LEMMA NativeStepOutcome ==
  ASSUME OutcomeInv, NEW o \in Ops, NativeStep(o), NEW p \in Ops
  PROVE  OutcomeKept(p)
  <1>1. /\ TypeOK /\ JournalTypeOK /\ CallInv(o) /\ OpInv(o) /\ RealOp(o)
        /\ process \in [Ops -> Processes]
    BY DEF OutcomeInv, RealInv, IInv, TypeOK, NativeTypeOK
  <1>2. CASE RejectCommand(o) \/ LaunchFails(o) \/ InterruptNative(o) \/ BreakNative(o)
             \/ FinishNative(o)
    <2>1. current = o /\ at \in {"dispatch", "native"}
      BY <1>2 DEF RejectCommand, LaunchFails, InterruptNative, BreakNative, FinishNative,
           InNative
    <2>2. at = "dispatch" => process[o] = "none"
      BY <1>1, <2>1 DEF OpInv, Untouched, Fresh
    <2>3. /\ process' = process \/ process' = [process EXCEPT ![o] = "ended"]
          /\ process'[o] \notin {"waiting", "running"}
      BY <1>1, <1>2, <2>2 DEF RejectCommand, LaunchFails, InterruptNative, BreakNative,
           FinishNative, SetProcess, InNative, nativeVars
    <2>4. \E r \in Results, faulted \in BOOLEAN : Settle(o, r, faulted) /\ Fit(r)
      <3>1. CASE FinishNative(o)
        BY <3>1, ResultsFit DEF FinishNative
      <3>2. CASE ~FinishNative(o)
        BY <1>2, <3>2, ResultsFit DEF RejectCommand, LaunchFails, InterruptNative,
           BreakNative, Fail, Interrupt
      <3> QED
        BY <3>1, <3>2
    <2> QED
      BY <2>1, <2>3, <2>4, SettleOutcome
  <1>3. CASE ReconcileNative(o)
    <2>1. /\ current = o /\ at = "reconcile" /\ process' = process
          /\ \/ Observed(o, Unknown)
             \/ Observed(o, FailedNone) /\ ~journal[o].started
      BY <1>3 DEF ReconcileNative, nativeVars
    <2>2. process[o] \in {"waiting", "running"} => journal[o].started
      BY <1>1 DEF OpInv, Intent
    <2>3. PhaseOf(Unknown) # "finished"
      BY DEF PhaseOf, Unknown, Result
    <2> QED
      BY <2>1, <2>2, <2>3, ResultsFit, ObservedOutcome
  <1>4. CASE PrepareNative(o) \/ Launch(o)
    <2>1. /\ current = o /\ current' = o /\ answer' = answer
          /\ at \in {"dispatch", "native"} /\ Kind[o] = "native"
      BY <1>1, <1>4 DEF PrepareNative, Launch, InNative, OpInv, OwnLabel
    <2>2. \A q \in Ops \ {o} : process'[q] = process[q]
      BY <1>1, <1>4 DEF PrepareNative, Launch, SetProcess, nativeVars
    <2>3. PICK r \in Records : Edited(o, r)
      BY <1>1, <1>4, <2>1, OtherEdits
    <2> QED
      BY <2>1, <2>2, <2>3, EditedOutcome
  <1>5. CASE Go(o) \/ StopNative(o)
    <2>1. /\ UNCHANGED <<journal, answer, current, at>>
          /\ current = o /\ at = "native" /\ process[o] \in {"waiting", "running"}
          /\ p # o => process'[p] = process[p]
      BY <1>1, <1>5 DEF Go, StopNative, InNative, SetProcess, journalVars
    <2>2. memory'[p].result = memory[p].result /\ memory'[p].phase = memory[p].phase
      <3>1. CASE Go(o)
        BY <3>1 DEF Go, journalVars
      <3>2. CASE StopNative(o)
        <4>1. memory' = [memory EXCEPT ![o] = [memory[o] EXCEPT !.fault = TRUE]]
          BY <1>1, <3>2 DEF StopNative, JournalTypeOK
        <4> QED
          BY <1>1, <4>1 DEF JournalTypeOK, Records
      <3> QED
        BY <1>5, <3>1, <3>2
    <2> QED
      BY <2>1, <2>2, UntouchedOutcome
  <1> QED
    BY <1>2, <1>3, <1>4, <1>5 DEF NativeStep

\* The engine, the ends of commands, stops, edits and crashes.
LEMMA OtherStepOutcome ==
  ASSUME OutcomeInv,
         \/ \E o \in Ops : EngineStep(o) \/ CommandStep(o)
         \/ Stop \/ Edit \/ Crash \/ UNCHANGED vars,
         NEW p \in Ops
  PROVE  OutcomeKept(p)
  <1>1. process \in [Ops -> Processes]
    BY DEF OutcomeInv, RealInv, IInv, TypeOK, NativeTypeOK
  <1>2. CASE Crash
    <2>1. /\ journal' = journal /\ memory'[p] = NoRecord /\ current' = Nobody
          /\ answer' = answer
          /\ process'[p] \in {process[p], "ended"}
      BY <1>2 DEF Crash, LoseProcess, LoseNative
    <2>2. NoRecord.phase = "absent" /\ NoRecord.result.status = "missing"
      BY DEF NoRecord, Missing, Result
    <2>3. CallInv(p)
      BY DEF OutcomeInv
    <2>4. Unfinished(p)'
      BY <2>1, <2>2, <2>3, NobodyAssumption DEF CallInv, Unfinished, Definite
    <2>5. ObservesOnly(p)
      BY <2>1, RunningIsOpen DEF ObservesOnly
    <2> QED
      BY <2>1, <2>3, <2>4, <2>5
         DEF CallInv, OutcomeKept, Told, StaysFinished, StaysTold, IsFinished
  <1>3. CASE ~Crash
    <2>1. UNCHANGED <<journal, memory, current, at, answer>>
      BY <1>3 DEF EngineStep, Engine, ServeCreate, ServeStart, DropRequest, ExitContainer,
           CommandStep, ExitNative, CloseOutput, Stop, RequestStop, Edit, EditFile, vars,
           journalVars
    <2>2. process'[p] \in {process[p], "held", "ended"}
      BY <1>1, <1>3 DEF EngineStep, nativeVars, CommandStep, ExitNative, CloseOutput,
           Closed, SetProcess, Stop, targetVars, Edit, vars
    <2> QED
      BY <2>1, <2>2, UntouchedOutcome
  <1> QED
    BY <1>2, <1>3

\* Every step.
LEMMA OutcomeStep ==
  ASSUME OutcomeInv, [Next]_vars, NEW p \in Ops
  PROVE  OutcomeKept(p)
  BY JournalStepOutcome, FileStepOutcome, WorkStepOutcome, ContainerStepOutcome,
     NativeStepOutcome, OtherStepOutcome DEF Next

-------------------------------------------------------------------------------
(***************************************************************************)
(* "No effect" stays true.                                                 *)
(***************************************************************************)
\* Only a worker, a container, a command or an edit touches the world.
LEMMA WorldSteps ==
  ASSUME TypeOK, [Next]_vars
  PROVE  \/ /\ UNCHANGED <<file, registrar, acted, disturbed>>
            /\ \A p \in Ops : step'[p] \in {step[p], "queued", "none"}
         \/ \E o \in Ops : \/ WorkStep(o) \/ ServeStart(o) \/ ExitContainer(o)
                           \/ Go(o) \/ ExitNative(o)
         \/ EditFile
  <1>1. step \in [Ops -> Steps]
    BY DEF TypeOK, FileTypeOK
  <1>2. CASE UNCHANGED <<file, registrar, acted, disturbed, step>>
    BY <1>2
  <1>3. CASE \/ \E o \in Ops : JournalStep(o) \/ ReconcileUnspecified(o)
             \/ Stop \/ UNCHANGED vars
    BY <1>2, <1>3 DEF JournalStep, ReconcileUnspecified, Stop, targetVars, vars, fileVars,
       historyVars
  <1>4. ASSUME NEW o \in Ops, FileStep(o)
        PROVE  /\ UNCHANGED <<file, registrar, acted, disturbed>>
               /\ \A p \in Ops : step'[p] \in {step[p], "queued", "none"}
    <2>1. CASE StartWork(o) \/ FinishWork(o)
      <3>1. /\ UNCHANGED <<file, registrar, acted, disturbed>>
            /\ \E s \in {"queued", "none"} : step' = [step EXCEPT ![o] = s]
        BY <2>1 DEF StartWork, FinishWork, Advance, historyVars
      <3> QED
        BY <1>1, <3>1
    <2>2. CASE ~(StartWork(o) \/ FinishWork(o))
      BY <1>4, <2>2 DEF FileStep, CancelShielded, CancelUnshielded, ReconcileFile,
         ReconcileFileFails, fileVars, historyVars
    <2> QED
      BY <2>1, <2>2
  <1>5. ASSUME NEW o \in Ops, ContainerStep(o)
        PROVE  UNCHANGED <<file, registrar, acted, disturbed, step>>
    BY <1>5 DEF ContainerStep, RejectContainer, InterruptBeforeCreate, RequestCreate,
       CreateReplied, CreateRefused, CreateLost, RecheckAndStart, RefuseStart,
       InterruptContainer, SpawnAttach, SpawnFails, AttachEnds, StopAttached, Cleanup,
       KillOwned, ObserveTerminal, ObserveNothing, ReconcileTerminal, ReconcileRunning,
       ReconcileUnobserved, fileVars, historyVars
  <1>6. ASSUME NEW o \in Ops, EngineStep(o), ~ServeStart(o), ~ExitContainer(o)
        PROVE  UNCHANGED <<file, registrar, acted, disturbed, step>>
    BY <1>6 DEF EngineStep, Engine, ServeCreate, DropRequest, fileVars, historyVars
  <1>7. ASSUME NEW o \in Ops, NativeStep(o), ~Go(o)
        PROVE  UNCHANGED <<file, registrar, acted, disturbed, step>>
    BY <1>7 DEF NativeStep, RejectCommand, PrepareNative, Launch, LaunchFails, StopNative,
       InterruptNative, BreakNative, FinishNative, ReconcileNative, fileVars, historyVars
  <1>8. CASE Crash
    BY <1>8 DEF Crash, LoseWorkers, historyVars
  <1>9. ASSUME NEW o \in Ops, CloseOutput(o)
        PROVE  UNCHANGED <<file, registrar, acted, disturbed, step>>
    BY <1>9 DEF CloseOutput, fileVars, historyVars
  <1> QED
    BY <1>2, <1>3, <1>4, <1>5, <1>6, <1>7, <1>8, <1>9 DEF Next, CommandStep, Edit

\* A record that acted is not opened again.
LEMMA OpenAgain ==
  ASSUME OutcomeInv, [Next]_vars, NEW p \in Ops, Open(p)', acted[p] # 0
  PROVE  Open(p)
  <1>1. OpInv(p) /\ CallInv(p)
    BY DEF OutcomeInv, RealInv, IInv
  <1>2. journal[p].phase # "absent"
    BY <1>1 DEF OpInv, Untouched, Fresh
  <1>3. CASE journal[p].phase = "finished"
    <2>1. IsFinished(journal[p])
      BY <1>1, <1>3 DEF CallInv, Unfinished, Definite, IsFinished, Missing, Result
    <2>2. journal'[p].phase = "finished"
      BY <2>1, OutcomeStep DEF OutcomeKept, StaysFinished, IsFinished
    <2> QED
      BY <2>2 DEF Open
  <1> QED
    BY <1>2, <1>3 DEF Open

\* While a command runs its operation is the open one.
LEMMA CommandIsOpen ==
  ASSUME OutcomeInv, NEW o \in Ops, process[o] = "running"
  PROVE  Open(o) /\ Kind[o] = "native" /\ \A p \in Ops \ {o} : ~Open(p)
  <1>1. OpInv(o) /\ CallInv(o) /\ OneOpen
    BY DEF OutcomeInv, RealInv, IInv
  <1>2. Open(o)
    BY <1>1 DEF OpInv, Untouched, Fresh, CallInv, Unfinished, Open
  <1> QED
    BY <1>1, <1>2 DEF OpInv, OwnTarget, OneOpen

\* What is left behind by a worker, a container, a command or an edit.
LEMMA HoldsStep ==
  ASSUME OutcomeInv, [Next]_vars, NEW p \in Ops
  PROVE  Holds(p)'
  <1>1. /\ TypeOK /\ IInv /\ OpInv(p) /\ CallInv(p) /\ Holds(p)
        /\ acted \in [Ops -> Nat] /\ step \in [Ops -> Steps] /\ registrar \in Ops \cup {Nobody}
    BY DEF OutcomeInv, RealInv, IInv, CallInv, TypeOK, FileTypeOK
  <1>2. Open(p)' /\ acted[p] # 0 => Open(p)
    BY OpenAgain
  <1>3. CASE /\ UNCHANGED <<file, registrar, acted, disturbed>>
             /\ \A q \in Ops : step'[q] \in {step[q], "queued", "none"}
    <2>1. step'[p] \in {step[p], "queued", "none"}
      BY <1>3
    <2> QED
      BY <1>1, <1>2, <1>3, <2>1 DEF Holds
  <1>4. ASSUME NEW o \in Ops, WorkStep(o)
        PROVE  Holds(p)'
    <2>1. /\ step[o] # "none" /\ OthersKept(o) /\ OpInv(o) /\ CallInv(o) /\ OneOpen
      BY <1>1, <1>4, OwnRecordOnly DEF OutcomeInv, IInv
    <2>2. CASE p # o
      <3>1. /\ ~Open(p)'
        BY <2>1, <2>2, OwnerAlone DEF CallInv, OthersKept, Open
      <3>2. /\ acted'[p] = acted[p] /\ step'[p] = step[p]
            /\ registrar' = registrar \/ registrar = Nobody
        BY <1>1, <1>4, <2>2 DEF WorkStep, Work, ReadFile, Register, RejectWork, MarkWrite,
           StageWrite, VerifyWrite, ReplaceFile, ReadBack, BreakWrite, Advance, Act,
           historyVars
      <3> QED
        BY <1>1, <3>1, <3>2, NobodyAssumption DEF Holds
    <2>3. CASE p = o
      <3>1. CASE ReplaceFile(p)
        <4>1. file' = Data[p] /\ Kind[p] = "file_write"
          BY <1>1, <3>1 DEF ReplaceFile, OpInv, OwnTarget
        <4> QED
          BY <4>1 DEF Holds
      <3>2. CASE Register(p)
        <4>1. /\ Kind[p] = "capability_request" /\ acted[p] = 0 /\ step'[p] = "ok"
              /\ registrar' = p \/ acted' = acted
          BY <1>1, <3>2 DEF Register, Advance, OpInv, NotYet
        <4> QED
          BY <4>1 DEF Holds
      <3>3. CASE RejectWork(p)
        <4>1. step[p] = "queued" /\ acted' = acted
          BY <3>3 DEF RejectWork, historyVars
        <4>2. acted'[p] = 0
          BY <1>1, <4>1 DEF OpInv, NotYet
        <4> QED
          BY <4>2 DEF Holds
      <3>4. CASE ~(ReplaceFile(p) \/ Register(p) \/ RejectWork(p))
        <4>1. UNCHANGED <<file, registrar, acted, disturbed>>
          BY <1>4, <2>3, <3>4 DEF WorkStep, Work, ReadFile, MarkWrite, StageWrite,
             VerifyWrite, ReadBack, BreakWrite, historyVars
        <4>2. Kind[p] # "capability_request"
          BY <1>1, <1>4, <2>3, <3>4 DEF WorkStep, Work, ReadFile, MarkWrite, StageWrite,
             VerifyWrite, ReadBack, BreakWrite, OpInv, OwnTarget
        <4> QED
          BY <1>1, <1>2, <4>1, <4>2 DEF Holds
      <3> QED
        BY <3>1, <3>2, <3>3, <3>4
    <2> QED
      BY <2>2, <2>3
  <1>5. ASSUME NEW o \in Ops, ServeStart(o) \/ Go(o)
        PROVE  Holds(p)'
    <2>1. OpInv(o)
      BY <1>1 DEF IInv
    <2>2. Kind[o] \in {"container", "native"}
      BY <1>5, <2>1 DEF ServeStart, Go, OpInv, OwnTarget, Verbs
    <2>3. /\ UNCHANGED <<file, registrar, disturbed, step>>
          /\ p # o => acted'[p] = acted[p]
      BY <1>1, <1>5 DEF ServeStart, Go, Act, fileVars
    <2> QED
      BY <1>1, <1>2, <2>2, <2>3 DEF Holds
  <1>6. ASSUME NEW o \in Ops, ExitContainer(o)
        PROVE  Holds(p)'
    <2>1. Kind[o] = "container"
      BY <1>1, <1>6 DEF ExitContainer, IInv, OpInv, OwnTarget
    <2>2. /\ UNCHANGED <<registrar, acted, step>>
          /\ \/ UNCHANGED <<file, disturbed>>
             \/ p # o /\ acted[p] > 0 => p \in disturbed'
      BY <1>6 DEF ExitContainer
    <2> QED
      BY <1>1, <1>2, <2>1, <2>2 DEF Holds
  <1>7. ASSUME NEW o \in Ops, ExitNative(o)
        PROVE  Holds(p)'
    <2>1. Kind[o] = "native" /\ (p # o => ~Open(p))
      BY <1>7, CommandIsOpen DEF ExitNative
    <2>2. UNCHANGED <<registrar, acted, step, disturbed, journal>>
      BY <1>7 DEF ExitNative, historyVars, journalVars
    <2> QED
      BY <1>1, <2>1, <2>2 DEF Holds, Open
  <1>8. CASE EditFile
    <2>1. /\ UNCHANGED <<registrar, acted, step>>
          /\ acted[p] > 0 => p \in disturbed'
      BY <1>8 DEF EditFile
    <2> QED
      BY <1>1, <2>1 DEF Holds
  <1> QED
    BY <1>1, <1>3, <1>4, <1>5, <1>6, <1>7, <1>8, WorldSteps

\* What happened to a finished file operation or command is over.
LEMMA NoEffectStays ==
  ASSUME OutcomeInv, [Next]_vars, NEW p \in Ops,
         journal[p].phase = "finished", Kind[p] # "container", NoEffect(p)
  PROVE  NoEffect(p)'
  <1>1. /\ TypeOK /\ OpInv(p) /\ CallInv(p)
        /\ acted \in [Ops -> Nat] /\ before \in [Ops -> Contents \cup {Absent}]
    BY DEF OutcomeInv, RealInv, IInv, TypeOK, FileTypeOK
  <1>2. step[p] = "none"
    BY <1>1 DEF CallInv, Awaited, Unfinished
  <1>3. ~Go(p) /\ ~ServeStart(p)
    BY <1>1 DEF Go, InNative, ServeStart, CallInv, Unfinished, OpInv, OwnTarget, Verbs
  <1>4. acted'[p] = acted[p]
    <2>1. ASSUME NEW o \in Ops, WorkStep(o)
          PROVE  acted'[p] = acted[p]
      BY <1>1, <1>2, <2>1 DEF WorkStep, Work, ReadFile, Register, RejectWork, MarkWrite,
         StageWrite, VerifyWrite, ReplaceFile, ReadBack, BreakWrite, Act, historyVars
    <2>2. ASSUME NEW o \in Ops, ServeStart(o) \/ ExitContainer(o) \/ Go(o) \/ ExitNative(o)
          PROVE  acted'[p] = acted[p]
      BY <1>1, <1>3, <2>2 DEF ServeStart, ExitContainer, Go, ExitNative, Act, historyVars
    <2> QED
      BY <1>1, <2>1, <2>2, WorldSteps DEF EditFile
  <1>5. disturbed \subseteq disturbed'
    <2>1. ASSUME NEW o \in Ops, WorkStep(o)
          PROVE  disturbed' = disturbed
      BY <2>1 DEF WorkStep, Work, ReadFile, Register, RejectWork, MarkWrite, StageWrite,
         VerifyWrite, ReplaceFile, ReadBack, BreakWrite, historyVars
    <2>2. ASSUME NEW o \in Ops, ServeStart(o) \/ ExitContainer(o) \/ Go(o) \/ ExitNative(o)
          PROVE  disturbed \subseteq disturbed'
      BY <2>2 DEF ServeStart, ExitContainer, Go, ExitNative, historyVars
    <2> QED
      BY <1>1, <2>1, <2>2, WorldSteps DEF EditFile
  <1>6. before'[p] = before[p]
    <2>1. ASSUME NEW o \in Ops, MarkWrite(o) \/ RequestCreate(o)
          PROVE  before'[p] = before[p]
      <3>1. p # o
        BY <1>1, <1>2, <2>1 DEF MarkWrite, RequestCreate
      <3> QED
        BY <1>1, <2>1, <3>1 DEF MarkWrite, RequestCreate
    <2>2. CASE ~\E o \in Ops : MarkWrite(o) \/ RequestCreate(o)
      <3>1. ASSUME NEW o \in Ops, \/ JournalStep(o) \/ ReconcileUnspecified(o) \/ FileStep(o)
                                  \/ WorkStep(o) \/ EngineStep(o) \/ CommandStep(o)
            PROVE  before' = before
        BY <2>2, <3>1 DEF JournalStep, ReconcileUnspecified, targetVars, FileStep, StartWork,
           FinishWork, CancelShielded, CancelUnshielded, ReconcileFile, ReconcileFileFails,
           WorkStep, Work, ReadFile, Register, RejectWork, StageWrite, VerifyWrite,
           ReplaceFile, ReadBack, BreakWrite, EngineStep, Engine, ServeCreate, ServeStart,
           DropRequest, ExitContainer, CommandStep, ExitNative, CloseOutput, fileVars
      <3>2. ASSUME NEW o \in Ops, ContainerStep(o) \/ NativeStep(o)
            PROVE  before' = before
        BY <2>2, <3>2 DEF ContainerStep, RejectContainer, InterruptBeforeCreate,
           CreateReplied, CreateRefused, CreateLost, RecheckAndStart, RefuseStart,
           InterruptContainer, SpawnAttach, SpawnFails, AttachEnds, StopAttached, Cleanup,
           KillOwned, ObserveTerminal, ObserveNothing, ReconcileTerminal, ReconcileRunning,
           ReconcileUnobserved, NativeStep, RejectCommand, PrepareNative, Launch,
           LaunchFails, Go, StopNative, InterruptNative, BreakNative, FinishNative,
           ReconcileNative, fileVars
      <3>3. CASE Stop \/ Edit \/ Crash \/ UNCHANGED vars
        BY <3>3 DEF Stop, targetVars, Edit, EditFile, Crash, LoseWorkers, vars, fileVars
      <3> QED
        BY <3>1, <3>2, <3>3 DEF Next
    <2> QED
      BY <2>1, <2>2
  <1> QED
    BY <1>4, <1>5, <1>6 DEF NoEffect

\* Of the failures only those of a record that was not started show "no effect".
LEMMA FailedUnstarted ==
  ASSUME JournalTypeOK, NEW o \in Ops, Fail(o) \/ Interrupt(o),
         journal'[o].result = FailedNone
  PROVE  memory[o].started = FALSE
  <1>1. FailedNone # Unknown /\ FailedNone \in Results /\ Unknown \in Results
    BY ConstantTypes DEF FailedNone, Unknown, Result
  <1>2. memory[o].started \in BOOLEAN
    BY DEF JournalTypeOK, Records
  <1>3. \E r \in {Unknown, FailedNone}, faulted \in BOOLEAN :
          Settle(o, r, faulted) /\ (memory[o].started = TRUE => r = Unknown)
    BY DEF Fail, Interrupt
  <1>4. journal'[o].result = Unknown \/ memory[o].started = FALSE
    BY <1>1, <1>2, <1>3, SettleRecord
  <1> QED
    BY <1>1, <1>4

\* A target whose record does not say that it started has not acted.
LEMMA UnstartedIdle ==
  ASSUME IInv, NEW o \in Ops, Kind[o] # "capability_request",
         \/ journal[o].started = FALSE
         \/ current = o /\ at # "reconcile" /\ memory[o].started = FALSE
  PROVE  acted[o] = 0
  <1>1. acted[o] \in Nat /\ Intent(o)
    BY DEF IInv, OpInv, TypeOK, FileTypeOK
  <1> QED
    BY <1>1 DEF Intent

\* When "no effect" is put on record for a file operation or a command, there
\* was none.
LEMMA NewNothing ==
  ASSUME OutcomeInv, [Next]_vars, NEW p \in Ops, Kind[p] # "container",
         journal'[p].result = FailedNone, journal[p].result # FailedNone
  PROVE  NoEffect(p) /\ UNCHANGED <<acted, before, disturbed>>
  <1>1. /\ TypeOK /\ JournalTypeOK /\ IInv /\ OpInv(p) /\ CallInv(p) /\ RealOp(p)
        /\ CancelledOnce
    BY DEF OutcomeInv, RealInv, IInv, TypeOK
  <1>2. /\ FailedNone.status = "failed" /\ FailedNone.effect = "none"
        /\ FailedNone \in Results /\ Unknown \in Results
        /\ Unknown.status = "unknown"
    BY ConstantTypes DEF FailedNone, Unknown, Result
  <1>3. \A o \in Ops : OthersKept(o) => o = p
    BY DEF OthersKept
  <1>4. ASSUME NEW o \in Ops, JournalStep(o) \/ ReconcileUnspecified(o)
        PROVE  FALSE
    <2>1. CASE Prepare(o)
      <3>1. journal'[p] \in {journal[p], Prepared}
        BY <1>1, <2>1 DEF Prepare, JournalTypeOK
      <3> QED
        BY <1>2, <3>1 DEF Prepared, NoRecord, Missing, Result
    <2>2. CASE ~Prepare(o)
      BY <1>4, <2>2 DEF JournalStep, Replay, Reenter, Refuse, Return, Recover,
         AbandonReconcile, ReconcileUnspecified
    <2> QED
      BY <2>1, <2>2
  <1>5. ASSUME NEW o \in Ops, FileStep(o)
        PROVE  NoEffect(p) /\ UNCHANGED <<acted, before, disturbed>>
    <2>1. current = p /\ o = p
      BY <1>1, <1>3, <1>5, OwnRecordOnly
    <2>2. CASE FinishWork(p)
      <3>1. UNCHANGED <<acted, before, disturbed>> /\ at # "reconcile" /\ Kind[p] \in FileKinds
        BY <1>1, <2>2 DEF FinishWork, historyVars, OpInv, OwnLabel
      <3>2. step[p] = "error" /\ Fail(p)
        <4>1. SuccessOf(p) \in Results /\ SuccessOf(p).status = "succeeded"
          BY ResultsFit DEF SuccessOf
        <4>2. ~Settle(p, SuccessOf(p), FALSE)
          BY <1>1, <1>2, <4>1, SettleRecord
        <4> QED
          BY <2>2, <4>2 DEF FinishWork
      <3>3. memory[p].started = FALSE
        BY <1>1, <3>2, FailedUnstarted
      <3>4. acted[p] = 0
        BY <1>1, <2>1, <3>1, <3>2, <3>3, UnstartedIdle DEF CallInv, Holds, FileKinds
      <3> QED
        BY <3>1, <3>4 DEF NoEffect
    <2>3. CASE ReconcileFile(p)
      <3>1. /\ UNCHANGED <<acted, before, disturbed>> /\ at = "reconcile"
            /\ Kind[p] \in FileKinds
            /\ Observed(p, Result("failed", ObservedEffect(p)))
        BY <2>3 DEF ReconcileFile, fileVars, historyVars
      <3>2. ObservedEffect(p) = "none"
        <4>1. /\ Result("failed", ObservedEffect(p)) \in Results
              /\ Result("failed", ObservedEffect(p)).effect = ObservedEffect(p)
          BY ResultsFit DEF ObservedEffect, Result
        <4> QED
          BY <1>1, <1>2, <3>1, <4>1, ObservedRecord
      <3>3. Open(p) /\ acted[p] \in Nat /\ acted[p] <= 1 /\ journal[p].started \in BOOLEAN
        BY <1>1, <2>1, <3>1, RunningIsOpen
           DEF Open, OpInv, OnRecord, TypeOK, FileTypeOK, JournalTypeOK, Records
      <3>4. CASE Kind[p] = "file_write" /\ journal[p].started = TRUE
        <4>1. file = before[p]
          BY <3>2, <3>4 DEF ObservedEffect
        <4>2. acted[p] = 1 /\ p \notin disturbed => file = Data[p]
          BY <1>1, <3>3, <3>4 DEF CallInv, Holds
        <4> QED
          BY <3>1, <3>3, <3>4, <4>1, <4>2 DEF NoEffect
      <3>5. CASE Kind[p] = "file_write" /\ journal[p].started = FALSE
        BY <1>1, <3>1, <3>5, UnstartedIdle DEF NoEffect
      <3>6. CASE Kind[p] = "capability_request"
        <4>1. registrar # p
          BY <3>2, <3>6 DEF ObservedEffect
        <4> QED
          BY <1>1, <3>1, <3>3, <3>6, <4>1 DEF CallInv, Holds, NoEffect
      <3>7. CASE Kind[p] = "file_read"
        BY <1>1, <3>1, <3>7 DEF CallInv, Holds, NoEffect
      <3> QED
        BY <3>1, <3>3, <3>4, <3>5, <3>6, <3>7 DEF FileKinds
    <2>4. CASE ReconcileFileFails(p)
      <3>1. journal' = [journal EXCEPT ![p] = [journal[p] EXCEPT !.fault = TRUE]]
        BY <1>1, <2>4 DEF ReconcileFileFails, JournalTypeOK
      <3>2. journal'[p].result = journal[p].result
        BY <1>1, <3>1 DEF JournalTypeOK, Records
      <3> QED
        BY <3>2
    <2>5. ~CancelUnshielded(p)
      BY <1>1 DEF CancelUnshielded, Interrupt, CancelledOnce
    <2>6. ~StartWork(p) /\ ~CancelShielded(p)
      BY DEF StartWork, CancelShielded
    <2> QED
      BY <1>5, <2>1, <2>2, <2>3, <2>4, <2>5, <2>6 DEF FileStep
  <1>6. ASSUME NEW o \in Ops, WorkStep(o)
        PROVE  FALSE
    <2>1. step[p] # "none" /\ o = p
      BY <1>1, <1>3, <1>6, OwnRecordOnly
    <2>2. current = p /\ at \in FileLabels
      BY <1>1, <2>1 DEF CallInv, Awaited, FileLabels
    <2>3. CASE MarkWrite(p)
      <3>1. ~Launch(p)
        BY <2>2 DEF Launch, InNative, FileLabels
      <3>2. PICK r \in Records : Edited(p, r)
        BY <1>1, <2>3, <3>1, OtherEdits
      <3>3. journal'[p] = r /\ r.result = journal[p].result
        BY <1>1, <2>2, <3>2 DEF Edited, Save, JournalTypeOK, RealOp, OneRecord, FileLabels
      <3> QED
        BY <3>3
    <2>4. CASE ~MarkWrite(p)
      BY <1>6, <2>1, <2>4 DEF WorkStep, Work, ReadFile, Register, RejectWork, StageWrite,
         VerifyWrite, ReplaceFile, ReadBack, BreakWrite, journalVars
    <2> QED
      BY <2>3, <2>4
  <1>7. ASSUME NEW o \in Ops, ContainerStep(o)
        PROVE  FALSE
    <2>1. current = p /\ o = p
      BY <1>1, <1>3, <1>7, OwnRecordOnly
    <2>2. CASE ReconcileRunning(p) \/ ReconcileUnobserved(p)
      <3>1. \E r \in Results : r.status # "failed" /\ Observed(p, r)
        BY <2>2, ResultsFit DEF ReconcileRunning, ReconcileUnobserved
      <3> QED
        BY <1>1, <1>2, <3>1, ObservedRecord
    <2>3. box[p] = "none"
      BY <1>1 DEF OpInv, OwnTarget
    <2>4. ~ReconcileTerminal(p)
      BY <2>3 DEF ReconcileTerminal, Terminal
    <2>5. ~(Cleanup(p) \/ KillOwned(p))
      BY DEF Cleanup, KillOwned, journalVars
    <2>6. at \notin {"creating", "created", "attaching", "attached", "observe"}
      BY <1>1, <2>1 DEF OpInv, OwnLabel
    <2> QED
      BY <1>7, <2>1, <2>2, <2>4, <2>5, <2>6 DEF ContainerStep, RejectContainer,
         InterruptBeforeCreate, RequestCreate, CreateReplied, CreateRefused, CreateLost,
         RecheckAndStart, RefuseStart, InterruptContainer, SpawnAttach, SpawnFails,
         AttachEnds, StopAttached, ObserveTerminal, ObserveNothing, Running
  <1>8. ASSUME NEW o \in Ops, NativeStep(o)
        PROVE  NoEffect(p) /\ UNCHANGED <<acted, before, disturbed>>
    <2>1. current = p /\ o = p
      BY <1>1, <1>3, <1>8, OwnRecordOnly
    <2>2. CASE RejectCommand(p) \/ LaunchFails(p) \/ InterruptNative(p) \/ BreakNative(p)
      <3>1. /\ UNCHANGED <<acted, before, disturbed>>
            /\ Fail(p) \/ Interrupt(p)
            /\ at \in {"dispatch", "native"} /\ Kind[p] # "capability_request"
        BY <1>1, <2>1, <2>2 DEF RejectCommand, LaunchFails, InterruptNative, BreakNative,
           InNative, fileVars, historyVars, OpInv, OwnLabel
      <3>2. memory[p].started = FALSE
        BY <1>1, <3>1, FailedUnstarted
      <3> QED
        BY <1>1, <2>1, <3>1, <3>2, UnstartedIdle DEF NoEffect
    <2>3. CASE ReconcileNative(p)
      <3>1. /\ UNCHANGED <<acted, before, disturbed>>
            /\ journal[p].native = TRUE /\ journal[p].started \in BOOLEAN
            /\ Observed(p, IF journal[p].started THEN Unknown ELSE FailedNone)
        BY <1>1, <2>3 DEF ReconcileNative, fileVars, historyVars, JournalTypeOK, Records
      <3>2. journal[p].started = FALSE
        BY <1>1, <1>2, <3>1, ObservedRecord
      <3>3. Kind[p] = "native"
        BY <1>1, <3>1 DEF RealOp, OneRecord
      <3> QED
        BY <1>1, <3>1, <3>2, <3>3, UnstartedIdle DEF NoEffect
    <2>4. ~FinishNative(p)
      <3>1. ASSUME FinishNative(p)
            PROVE  \E r \in Results, faulted \in BOOLEAN :
                     Settle(p, r, faulted) /\ r.effect = "confirmed"
        BY <3>1, ResultsFit DEF FinishNative, Result
      <3> QED
        BY <1>1, <1>2, <3>1, SettleRecord
    <2>5. ~(PrepareNative(p) \/ Launch(p))
      <3>1. ASSUME PrepareNative(p) \/ Launch(p)
            PROVE  journal'[p].result = journal[p].result
        <4>1. at \in {"dispatch", "native"} /\ Kind[p] = "native"
          BY <1>1, <3>1 DEF PrepareNative, Launch, InNative, OpInv, OwnLabel
        <4>2. PICK r \in Records : Edited(p, r)
          BY <1>1, <3>1, <4>1, OtherEdits
        <4> QED
          BY <1>1, <2>1, <4>1, <4>2 DEF Edited, Save, JournalTypeOK, RealOp, OneRecord
      <3> QED
        BY <3>1
    <2>6. ~(Go(p) \/ StopNative(p))
      BY DEF Go, StopNative, journalVars
    <2> QED
      BY <1>8, <2>1, <2>2, <2>3, <2>4, <2>5, <2>6 DEF NativeStep
  <1>9. CASE \/ \E o \in Ops : EngineStep(o) \/ CommandStep(o)
             \/ Stop \/ Edit \/ Crash \/ UNCHANGED vars
    BY <1>9 DEF EngineStep, Engine, ServeCreate, ServeStart, DropRequest, ExitContainer,
       CommandStep, ExitNative, CloseOutput, Stop, RequestStop, Edit, EditFile, Crash,
       LoseProcess, vars, journalVars
  <1> QED
    BY <1>4, <1>5, <1>6, <1>7, <1>8, <1>9 DEF Next

\* So a record that shows "no effect" stays true.
LEMMA NothingStep ==
  ASSUME OutcomeInv, [Next]_vars, NEW p \in Ops
  PROVE  Nothing(p)'
  <1>1. CASE journal[p].result = FailedNone
    <2>1. CallInv(p) /\ journal[p].phase = "finished"
      BY <1>1, ResultsFit DEF OutcomeInv, CallInv, Unfinished, Definite
    <2> QED
      BY <1>1, <2>1, NoEffectStays DEF CallInv, Nothing
  <1>2. CASE journal[p].result # FailedNone
    BY <1>2, NewNothing DEF Nothing, NoEffect
  <1> QED
    BY <1>1, <1>2

-------------------------------------------------------------------------------
(***************************************************************************)
(* The invariant and what follows from it.                                 *)
(***************************************************************************)
\* No step breaks it.
LEMMA OutcomeInvStep ==
  ASSUME OneCancellation, OutcomeInv, [Next]_vars
  PROVE  OutcomeInv'
  <1>1. /\ RealInv /\ IInv /\ TypeOK /\ OneOpen /\ CancelledOnce
        /\ \A p \in Ops : Awaited(p) /\ Alone(p)
    BY DEF OutcomeInv, RealInv, IInv, CallInv
  <1>2. RealInv' /\ CancelledOnce'
    BY <1>1, RealStep, CancelledKeeps
  <1>3. OneOpen' /\ \A p \in Ops : Alone(p)'
    BY <1>1, StepOwner, LeaseKeeps
  <1>4. ASSUME NEW p \in Ops
        PROVE  CallInv(p)'
    BY <1>1, <1>3, AwaitedKeeps, OutcomeStep, HoldsStep, NothingStep DEF CallInv, OutcomeKept
  <1> QED
    BY <1>2, <1>3, <1>4 DEF OutcomeInv

\* It holds at first.
LEMMA OutcomeInit ==
  ASSUME Init
  PROVE  OutcomeInv
  <1>1. RealInv
    BY RealInit
  <1>2. /\ current = Nobody /\ cancelled = FALSE /\ at = "idle"
        /\ \A o \in Ops : /\ journal[o] = NoRecord /\ memory[o] = NoRecord
                          /\ step[o] = "none" /\ process[o] = "none" /\ acted[o] = 0
                          /\ answer[o] = Missing
    BY DEF Init, JournalInit, FileInit, ContainerInit, NativeInit
  <1>3. /\ NoRecord.phase = "absent" /\ NoRecord.result = Missing
        /\ Missing.status = "missing" /\ FailedNone.status = "failed"
    BY DEF NoRecord, Missing, FailedNone, Result
  <1>4. OneOpen /\ CancelledOnce
    BY <1>2, <1>3 DEF OneOpen, Open, CancelledOnce
  <1>5. ASSUME NEW o \in Ops
        PROVE  CallInv(o)
    <2>1. Awaited(o) /\ Alone(o) /\ Unfinished(o) /\ Told(o)
      BY <1>2, <1>3, NobodyAssumption DEF Awaited, Alone, Unfinished, Definite, Told
    <2>2. Holds(o) /\ Nothing(o)
      BY <1>2, <1>3 DEF Holds, Nothing
    <2> QED
      BY <2>1, <2>2 DEF CallInv
  <1> QED
    BY <1>1, <1>4, <1>5 DEF OutcomeInv

\* So the lease, the journal, the memory of the running call, the answers given
\* and what the targets did fit together in every state.
THEOREM OutcomeInvariant ==
  ASSUME OneCancellation
  PROVE  Spec => []OutcomeInv
  <1>1. OutcomeInv /\ [Next]_vars => OutcomeInv'
    BY OutcomeInvStep
  <1> QED
    BY <1>1, OutcomeInit, PTL DEF Spec

\* At most one operation of a workspace is open, whatever is retried, recovered
\* or crashes: the lease and the scan of the journal keep every other one out.
THEOREM OneIsOpen ==
  ASSUME OneCancellation
  PROVE  Spec => []OneOpen
  <1>1. OutcomeInv => OneOpen
    BY DEF OutcomeInv
  <1> QED
    BY <1>1, OutcomeInvariant, PTL

\* The thread of a file operation never outlives its call.
THEOREM WorkIsFinishedFirst ==
  ASSUME OneCancellation
  PROVE  Spec => []WorkFinishesFirst
  <1>1. OutcomeInv => WorkFinishesFirst
    BY DEF OutcomeInv, CallInv, Awaited, WorkFinishesFirst
  <1> QED
    BY <1>1, OutcomeInvariant, PTL

\* A finished record never changes, a caller told of success or failure is never
\* told otherwise, and reconcile() never records a success.
THEOREM OutcomesStay ==
  ASSUME OneCancellation
  PROVE  Spec => OutcomesAreFinal
  <1>1. OutcomeInv /\ [Next]_vars =>
          [/\ \A o \in Ops : StaysFinished(o)
           /\ \A o \in Ops : StaysTold(o)
           /\ \A o \in Ops : ObservesOnly(o)]_vars
    BY OutcomeStep DEF OutcomeKept
  <1> QED
    BY <1>1, OutcomeInvariant, PTL
       DEF Spec, OutcomesAreFinal, FinishedIsFinal, OneOutcome, NeverPromoted

\* A file operation or command whose caller was told "failed, no effect" had
\* none, then and ever after.
THEOREM NoneIsTrue ==
  ASSUME OneCancellation
  PROVE  Spec => []NoneStaysTrue
  <1>1. FailedNone.status = "failed"
    BY ResultsFit
  <1>2. OutcomeInv => NoneStaysTrue
    BY <1>1 DEF OutcomeInv, CallInv, Told, Nothing, NoneStaysTrue
  <1> QED
    BY <1>2, OutcomeInvariant, PTL

=============================================================================
