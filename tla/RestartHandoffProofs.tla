-------------------------- MODULE RestartHandoffProofs --------------------------
(***************************************************************************)
(* Proofs about RestartHandoff, for any number of supervisors, workers,    *)
(* versions and edits: a handoff is never lost, and never both resumed and *)
(* parked, nor resumed twice, and nobody else works while it waits.        *)
(***************************************************************************)
EXTENDS RestartHandoff, TLAPS

\* The bounds are natural numbers, so 0 is no supervisor and no generation.
LEMMA BoundTypes ==
  /\ MaxSupervisors \in Nat /\ MaxGenerations \in Nat /\ MaxVersions \in Nat /\ MaxEdits \in Nat
  /\ 0 \notin Supervisors /\ 0 \notin Gens
  /\ Supervisors \subseteq 0..MaxSupervisors /\ Gens \subseteq 0..MaxGenerations
  /\ Gens \subseteq Nat
BY RestartHandoffAssumption DEF Supervisors, Gens

\* The owners of the two locks.
LEMMA OwnerTypes ==
  /\ Free \in Owners /\ Alone \in Owners /\ Operator \in Owners
  /\ \A s \in Supervisors : Supervisor(s) \in Owners
  /\ \A g \in Gens : Worker(g) \in Owners
BY DEF Owners

\* A lock has one owner at a time.
LEMMA OwnersDiffer ==
  /\ Free # Alone /\ Free # Operator /\ Alone # Operator
  /\ \A s : Supervisor(s) \notin {Free, Alone, Operator}
  /\ \A g : Worker(g) \notin {Free, Alone, Operator}
  /\ \A s, t : Supervisor(s) = Supervisor(t) => s = t
  /\ \A g, h : Worker(g) = Worker(h) => g = h
  /\ \A s, g : Supervisor(s) # Worker(g)
BY DEF Free, Alone, Operator, Supervisor, Worker

-------------------------------------------------------------------------------
(***************************************************************************)
(* Type correctness.                                                       *)
(***************************************************************************)
\* The initial state is well typed.
LEMMA TypeInit == Init => TypeOK
<1> SUFFICES ASSUME Init PROVE TypeOK
  OBVIOUS
<1>1. NoContext \in Contexts /\ Idle \in SupervisorStates /\ NoOperator \in OperatorStates
  BY BoundTypes DEF NoContext, Contexts, Idle, SupervisorStates, NoOperator, OperatorStates
<1>2. "none" \in WorkerStates
  BY DEF WorkerStates
<1>3. /\ code \in 0..MaxVersions /\ edits \in 0..MaxEdits
      /\ pending \in 0..MaxGenerations
      /\ accepted \subseteq Gens /\ parked \subseteq Gens /\ closed \subseteq Gens
      /\ orphans \subseteq Gens
  BY BoundTypes DEF Init
<1>4. recorded \in [{"process", "worker"} -> SUBSET Gens]
  BY DEF Init
<1>5. /\ claimed \in [Gens -> 0..MaxGenerations] /\ marker \in [Gens -> 0..MaxVersions]
      /\ loaded \in [Gens -> 0..MaxVersions] /\ resumed \in [Gens -> Nat]
  BY BoundTypes DEF Init
<1>6. /\ supervisor \in [Supervisors -> SupervisorStates] /\ worker \in [Gens -> WorkerStates]
      /\ launch \in [Gens -> Contexts] /\ context \in Contexts /\ operator \in OperatorStates
      /\ service \in Owners /\ lock \in Owners
  BY <1>1, <1>2, OwnerTypes DEF Init
<1>7. edited \in BOOLEAN
  BY DEF Init
<1> QED
  BY <1>3, <1>4, <1>5, <1>6, <1>7 DEF TypeOK

\* Every step of a supervisor keeps the types: it only writes generations it
\* has launched to its records.
LEMMA SupervisorType ==
  ASSUME TypeOK, NEW s \in Supervisors, OwnWorker(s), SupervisorStep(s)
  PROVE  TypeOK'
<1> USE BoundTypes, OwnerTypes DEF TypeOK, Move, Become,
        sourceVars, recordVars, lockVars, workerVars, historyVars
<1>0. supervisor[s] \in SupervisorStates
  OBVIOUS
<1>1. CASE Start(s)
  BY <1>0, <1>1 DEF Start, SupervisorStates
<1>2. ASSUME NEW g \in Gens, WriteContext(s, g)
      PROVE  TypeOK'
  BY <1>0, <1>2 DEF WriteContext, SupervisorStates, Contexts
<1>3. CASE Spawn(s)
  BY <1>0, <1>3 DEF Spawn, SupervisorStates, WorkerStates
<1>4. CASE RecordProcess(s)
  <2>1. recorded["process"] \cup {supervisor[s].gen} \subseteq Gens
    BY <1>4 DEF RecordProcess, OwnWorker
  <2>2. recorded' \in [{"process", "worker"} -> SUBSET Gens]
    BY <1>4, <2>1 DEF RecordProcess
  <2>3. supervisor' \in [Supervisors -> SupervisorStates]
    BY <1>0, <1>4 DEF RecordProcess, SupervisorStates
  <2> QED
    BY <1>4, <2>2, <2>3 DEF RecordProcess
<1>5. CASE SeeRestart(s)
  BY <1>0, <1>5 DEF SeeRestart, SupervisorStates
<1>6. CASE SeeExit(s)
  BY <1>0, <1>6 DEF SeeExit, SupervisorStates
<1>7. CASE Accept(s)
  BY <1>0, <1>7 DEF Accept, SupervisorStates, OwnWorker
<1>8. CASE RemovePending(s)
  BY <1>0, <1>8 DEF RemovePending, SupervisorStates
<1>9. CASE SupervisorDies(s)
  BY <1>0, <1>9 DEF SupervisorDies, SupervisorStates
<1> QED
  BY <1>1, <1>2, <1>3, <1>4, <1>5, <1>6, <1>7, <1>8, <1>9 DEF SupervisorStep

\* Every step of a worker keeps the types.
LEMMA WorkerType ==
  ASSUME TypeOK, LaunchOrder, NEW g \in Gens, WorkerStep(g)
  PROVE  TypeOK'
<1> USE BoundTypes, OwnerTypes DEF TypeOK, Become, Release,
        sourceVars, recordVars, lockVars, workerVars, historyVars
<1>1. CASE Check(g)
  BY <1>1 DEF Check, WorkerStates
<1>2. CASE Enter(g)
  <2>1. lock' \in Owners
    BY <1>2 DEF Enter
  <2>2. worker' \in [Gens -> WorkerStates]
    BY <1>2 DEF Enter, WorkerStates
  <2>3. loaded' \in [Gens -> 0..MaxVersions]
    BY <1>2 DEF Enter
  <2> QED
    BY <1>2, <2>1, <2>2, <2>3 DEF Enter
<1>3. CASE Bind(g)
  <2>1. recorded' \in [{"process", "worker"} -> SUBSET Gens]
    BY <1>3 DEF Bind
  <2> QED
    BY <1>3, <2>1 DEF Bind, WorkerStates
<1>4. CASE Resume(g)
  <2>1. \A h \in Gens : resumed[h] \in Nat /\ resumed[h] + 1 \in Nat
    OBVIOUS
  <2>2. resumed' \in [Gens -> Nat]
    BY <1>4, <2>1 DEF Resume
  <2>3. worker' \in [Gens -> WorkerStates]
    BY <1>4 DEF Resume, WorkerStates
  <2> QED
    BY <1>4, <2>2, <2>3 DEF Resume
<1>5. CASE Install(g)
  BY <1>5 DEF Install
<1>6. CASE Mark(g)
  BY <1>6 DEF Mark, WorkerStates
<1>7. CASE ReadBack(g)
  BY <1>7 DEF ReadBack, WorkerStates
<1>8. CASE ExitToRestart(g)
  BY <1>8 DEF ExitToRestart, WorkerStates
<1>9. CASE Exit(g)
  BY <1>9 DEF Exit, WorkerStates
<1> QED
  BY <1>1, <1>2, <1>3, <1>4, <1>5, <1>6, <1>7, <1>8, <1>9 DEF WorkerStep

\* So do the operator, serve without a supervisor, and the user's programs.
LEMMA OtherType ==
  ASSUME TypeOK, LaunchOrder, Settling, OperatorStep \/ ServeAlone \/ EndAlone \/ Edit
  PROVE  TypeOK'
<1> USE BoundTypes, OwnerTypes DEF TypeOK, sourceVars, recordVars, lockVars, workerVars, historyVars
<1>1. ASSUME NEW h \in Gens, Recover(h)
      PROVE  TypeOK'
  <2>1. {h, context.gen} \subseteq Gens
    BY <1>1 DEF Recover, Recoverable, LaunchOrder, Contexts, NoContext
  <2> QED
    BY <1>1, <2>1 DEF Recover, OperatorStates
<1>2. ASSUME NEW g \in Gens, Close(g)
      PROVE  TypeOK'
  BY <1>2 DEF Close
<1>3. CASE Park
  <2>1. operator.target \in Gens
    BY <1>3 DEF Park, Settling, NoOperator
  <2>2. operator' \in OperatorStates
    BY <1>3 DEF Park, OperatorStates
  <2> QED
    BY <1>3, <2>1, <2>2 DEF Park
<1>4. CASE Finish
  BY <1>4 DEF Finish, OperatorStates, NoOperator
<1>5. CASE OperatorDies
  BY <1>5 DEF OperatorDies, OperatorStates, NoOperator
<1>6. CASE ServeAlone \/ EndAlone
  BY <1>6 DEF ServeAlone, EndAlone
<1>7. CASE Edit
  BY <1>7 DEF Edit
<1> QED
  BY <1>1, <1>2, <1>3, <1>4, <1>5, <1>6, <1>7 DEF OperatorStep

-------------------------------------------------------------------------------
(***************************************************************************)
(* The locks.                                                              *)
(***************************************************************************)
\* At first both locks are free and nobody is at work.
LEMMA LocksInit == Init => LocksHeld
BY OwnersDiffer DEF Init, LocksHeld, Idle, Active, NoOperator, InLock

\* A supervisor at work holds service-owner.lock, so it is the only one.
LEMMA LocksSupervisor ==
  ASSUME TypeOK, LocksHeld, NEW s \in Supervisors, OwnWorker(s), SupervisorStep(s)
  PROVE  LocksHeld'
<1> USE OwnersDiffer DEF TypeOK, LocksHeld, Active, InLock, Move, Become,
        sourceVars, recordVars, lockVars, workerVars, historyVars
<1>0. supervisor[s] \in SupervisorStates
  OBVIOUS
<1>1. CASE Start(s)
  BY <1>0, <1>1 DEF Start, SupervisorStates
<1>2. ASSUME NEW g \in Gens, WriteContext(s, g)
      PROVE  LocksHeld'
  BY <1>0, <1>2 DEF WriteContext, SupervisorStates
<1>3. CASE Spawn(s)
  BY <1>0, <1>3 DEF Spawn, SupervisorStates
<1>4. CASE RecordProcess(s)
  BY <1>0, <1>4 DEF RecordProcess, SupervisorStates
<1>5. CASE SeeRestart(s)
  BY <1>0, <1>5 DEF SeeRestart, SupervisorStates
<1>6. CASE SeeExit(s)
  BY <1>0, <1>6 DEF SeeExit, SupervisorStates
<1>7. CASE Accept(s)
  BY <1>0, <1>7 DEF Accept, SupervisorStates
<1>8. CASE RemovePending(s)
  BY <1>0, <1>8 DEF RemovePending, SupervisorStates
<1>9. CASE SupervisorDies(s)
  BY <1>0, <1>9 DEF SupervisorDies, SupervisorStates
<1> QED
  BY <1>1, <1>2, <1>3, <1>4, <1>5, <1>6, <1>7, <1>8, <1>9 DEF SupervisorStep

\* A worker at work holds worker-owner.lock until it exits.
LEMMA LocksWorker ==
  ASSUME TypeOK, LocksHeld, NEW g \in Gens, WorkerStep(g)
  PROVE  LocksHeld'
<1> USE OwnersDiffer DEF TypeOK, LocksHeld, Active, InLock, Become, Release,
        sourceVars, recordVars, lockVars, workerVars, historyVars
<1>1. CASE Check(g)
  BY <1>1 DEF Check
<1>2. CASE Enter(g)
  BY <1>2 DEF Enter
<1>3. CASE Bind(g)
  BY <1>3 DEF Bind
<1>4. CASE Resume(g)
  BY <1>4 DEF Resume
<1>5. CASE Install(g)
  BY <1>5 DEF Install
<1>6. CASE Mark(g)
  BY <1>6 DEF Mark
<1>7. CASE ReadBack(g)
  BY <1>7 DEF ReadBack
<1>8. CASE ExitToRestart(g)
  BY <1>8 DEF ExitToRestart
<1>9. CASE Exit(g)
  BY <1>9 DEF Exit, Ended
<1> QED
  BY <1>1, <1>2, <1>3, <1>4, <1>5, <1>6, <1>7, <1>8, <1>9 DEF WorkerStep

\* The operator, and a server of its own, take both locks at once.
LEMMA LocksOther ==
  ASSUME TypeOK, LocksHeld, OperatorStep \/ ServeAlone \/ EndAlone \/ Edit
  PROVE  LocksHeld'
<1> USE OwnersDiffer DEF TypeOK, LocksHeld, Active, InLock,
        sourceVars, recordVars, lockVars, workerVars, historyVars
<1>1. ASSUME NEW h \in Gens, Recover(h) \/ Close(h)
      PROVE  LocksHeld'
  BY <1>1 DEF Recover, Close
<1>2. CASE Park \/ Finish \/ OperatorDies
  BY <1>2 DEF Park, Finish, OperatorDies, NoOperator, OperatorStates
<1>3. CASE ServeAlone \/ EndAlone
  BY <1>3 DEF ServeAlone, EndAlone
<1>4. CASE Edit
  BY <1>4 DEF Edit
<1> QED
  BY <1>1, <1>2, <1>3, <1>4 DEF OperatorStep

-------------------------------------------------------------------------------
(***************************************************************************)
(* Launches: their order, and what a supervisor knows of its own.          *)
(***************************************************************************)
\* Before the first launch there is nothing to order, and nobody at work.
LEMMA LaunchInit ==
  Init => LaunchOrder /\ \A s \in Supervisors : OwnWorker(s)
<1> SUFFICES ASSUME Init
             PROVE  LaunchOrder /\ \A s \in Supervisors : OwnWorker(s)
  OBVIOUS
<1>1. /\ context = NoContext
      /\ \A g \in Gens : launch[g] = NoContext /\ worker[g] = "none"
  BY DEF Init
<1>2. \A s \in Supervisors : supervisor[s].at = "none" /\ supervisor[s].resume = 0
  BY DEF Init, Idle
<1>3. LaunchOrder
  BY <1>1 DEF LaunchOrder, Launched
<1>4. \A s \in Supervisors : OwnWorker(s)
  BY <1>2 DEF OwnWorker
<1> QED
  BY <1>3, <1>4

\* A new launch is the next generation, and the last one so far.
LEMMA LaunchSupervisor ==
  ASSUME TypeOK, LaunchOrder, NEW s \in Supervisors, OwnWorker(s), SupervisorStep(s)
  PROVE  LaunchOrder'
<1> USE DEF TypeOK, LaunchOrder, Launched, Move, Become,
        sourceVars, recordVars, lockVars, workerVars, historyVars
<1>1. ASSUME NEW g \in Gens, WriteContext(s, g)
      PROVE  LaunchOrder'
  <2> DEFINE new == [sup |-> s, gen |-> g, resume |-> supervisor[s].resume]
  <2>1. /\ launch' = [launch EXCEPT ![g] = new] /\ context' = new /\ worker' = worker
        /\ supervisor[s].at = "launching"
        /\ ~Launched(g) /\ \A h \in Gens : h < g => Launched(h)
    BY <1>1 DEF WriteContext
  <2>2. new # NoContext /\ new.gen = g /\ new.sup = s /\ new.resume = supervisor[s].resume
    BY BoundTypes DEF NoContext
  <2>3. \A h \in Gens : Launched(h) => h < g
    BY <2>1 DEF Gens
  <2>4. supervisor[s].resume < g
    <3>1. CASE supervisor[s].resume = 0
      BY <3>1 DEF Gens
    <3>2. CASE supervisor[s].resume # 0
      BY <2>1, <2>3, <3>2 DEF OwnWorker
    <3> QED
      BY <3>1, <3>2
  <2> HIDE DEF new
  <2> QED
    BY <2>1, <2>2, <2>3, <2>4 DEF Gens
<1>2. CASE Spawn(s)
  BY <1>2 DEF Spawn, OwnWorker
<1>3. CASE RecordProcess(s) \/ Start(s) \/ SeeRestart(s) \/ SeeExit(s)
  BY <1>3 DEF RecordProcess, Start, SeeRestart, SeeExit
<1>4. CASE Accept(s) \/ RemovePending(s) \/ SupervisorDies(s)
  BY <1>4 DEF Accept, RemovePending, SupervisorDies
<1> QED
  BY <1>1, <1>2, <1>3, <1>4 DEF SupervisorStep

\* Nobody else launches a worker.
LEMMA LaunchWorker ==
  ASSUME TypeOK, LaunchOrder, NEW g \in Gens, WorkerStep(g)
  PROVE  LaunchOrder'
<1> USE DEF TypeOK, LaunchOrder, Launched, Become,
        sourceVars, recordVars, lockVars, workerVars, historyVars
<1>1. context' = context /\ launch' = launch
  BY DEF WorkerStep, Check, Enter, Bind, Resume, Install, Mark, ReadBack, ExitToRestart, Exit
<1>2. worker[g] # "none" /\ \A h \in Gens \ {g} : worker'[h] = worker[h]
  BY DEF WorkerStep, Check, Enter, Bind, Resume, Install, Mark, ReadBack, ExitToRestart, Exit, Ended
<1> QED
  BY <1>1, <1>2

\* The operator and the others launch nobody.
LEMMA LaunchOther ==
  ASSUME LaunchOrder, OperatorStep \/ ServeAlone \/ EndAlone \/ Edit
  PROVE  LaunchOrder'
<1>1. context' = context /\ launch' = launch /\ worker' = worker
  BY DEF OperatorStep, Recover, Close, Park, Finish, OperatorDies, ServeAlone, EndAlone, Edit,
         recordVars, workerVars
<1> QED
  BY <1>1 DEF LaunchOrder, Launched

\* Each step of a supervisor establishes what it knows at its next label.
LEMMA OwnSupervisor ==
  ASSUME TypeOK, LocksHeld, LaunchOrder, NEW s \in Supervisors, OwnWorker(s), SupervisorStep(s)
  PROVE  OwnWorker(s)'
<1> USE DEF TypeOK, OwnWorker, Launched, Move, Become,
        sourceVars, recordVars, lockVars, workerVars, historyVars
<1>0. supervisor[s] \in SupervisorStates
  OBVIOUS
<1>1. CASE Start(s)
  BY <1>0, <1>1 DEF Start, SupervisorStates
<1>2. ASSUME NEW g \in Gens, WriteContext(s, g)
      PROVE  OwnWorker(s)'
  <2> DEFINE new == [sup |-> s, gen |-> g, resume |-> supervisor[s].resume]
  <2>1. /\ launch' = [launch EXCEPT ![g] = new] /\ context' = new /\ worker' = worker
        /\ ~Launched(g)
        /\ supervisor' = [supervisor EXCEPT ![s].at = "written", ![s].gen = g]
    BY <1>2 DEF WriteContext
  <2>2. new # NoContext /\ new.gen = g /\ new.sup = s
    BY BoundTypes DEF NoContext
  <2>3. supervisor'[s].at = "written" /\ supervisor'[s].gen = g
    BY <1>0, <2>1 DEF SupervisorStates
  <2>4. worker[g] = "none"
    BY <2>1 DEF LaunchOrder
  <2> HIDE DEF new
  <2> QED
    BY <2>1, <2>2, <2>3, <2>4
<1>3. CASE Spawn(s)
  BY <1>0, <1>3 DEF Spawn, SupervisorStates
<1>4. CASE RecordProcess(s)
  BY <1>0, <1>4 DEF RecordProcess, SupervisorStates
<1>5. CASE SeeRestart(s)
  BY <1>0, <1>5 DEF SeeRestart, SupervisorStates
<1>6. CASE SeeExit(s)
  BY <1>0, <1>6 DEF SeeExit, SupervisorStates
<1>7. CASE Accept(s)
  BY <1>0, <1>7 DEF Accept, SupervisorStates
<1>8. CASE RemovePending(s)
  BY <1>0, <1>8, BoundTypes DEF RemovePending, SupervisorStates
<1>9. CASE SupervisorDies(s)
  BY <1>0, <1>9 DEF SupervisorDies, SupervisorStates
<1> QED
  BY <1>1, <1>2, <1>3, <1>4, <1>5, <1>6, <1>7, <1>8, <1>9 DEF SupervisorStep

\* The other supervisors are not at work, and know nothing to be disturbed.
LEMMA OwnOthers ==
  ASSUME TypeOK, LocksHeld, NEW s \in Supervisors, SupervisorStep(s),
         NEW t \in Supervisors \ {s}, OwnWorker(t)
  PROVE  OwnWorker(t)'
<1>1. ~Active(t)
  BY OwnersDiffer DEF LocksHeld, Active, SupervisorStep, Start, WriteContext, Spawn,
     RecordProcess, SeeRestart, SeeExit, Accept, RemovePending, SupervisorDies
<1>2. supervisor'[t] = supervisor[t]
  BY DEF TypeOK, Move, SupervisorStep, Start, WriteContext, Spawn,
     RecordProcess, SeeRestart, SeeExit, Accept, RemovePending, SupervisorDies
<1> QED
  BY <1>1, <1>2 DEF OwnWorker, Active

\* A worker acts neither before it was started nor after it has exited.
LEMMA OwnWorkerStep ==
  ASSUME TypeOK, NEW g \in Gens, WorkerStep(g), NEW s \in Supervisors, OwnWorker(s)
  PROVE  OwnWorker(s)'
<1>1. worker[g] \notin {"none", "exited to restart"}
  BY DEF WorkerStep, Check, Enter, Bind, Resume, Install, Mark, ReadBack, ExitToRestart, Exit, Ended
<1>2. \A h \in Gens \ {g} : worker'[h] = worker[h]
  BY DEF TypeOK, Become, workerVars,
     WorkerStep, Check, Enter, Bind, Resume, Install, Mark, ReadBack, ExitToRestart, Exit
<1>3. /\ supervisor' = supervisor /\ launch' = launch /\ context' = context
      /\ accepted' = accepted /\ pending' \in {pending, g}
  BY DEF recordVars, workerVars,
     WorkerStep, Check, Enter, Bind, Resume, Install, Mark, ReadBack, ExitToRestart, Exit
<1> QED
  BY <1>1, <1>2, <1>3 DEF OwnWorker, Launched

\* The operator and the others may remove a marker, no more.
LEMMA OwnOther ==
  ASSUME OperatorStep \/ ServeAlone \/ EndAlone \/ Edit, NEW s \in Supervisors, OwnWorker(s)
  PROVE  OwnWorker(s)'
<1>1. /\ supervisor' = supervisor /\ launch' = launch /\ context' = context /\ worker' = worker
      /\ accepted' = accepted /\ pending' \in {pending, 0}
  BY DEF OperatorStep, Recover, Close, Park, Finish, OperatorDies, ServeAlone, EndAlone, Edit,
         recordVars, workerVars
<1> QED
  BY <1>1, BoundTypes DEF OwnWorker, Launched

-------------------------------------------------------------------------------
(***************************************************************************)
(* The successor of a handoff.                                             *)
(***************************************************************************)
\* At first no handoff has a successor.
LEMMA SuccessorInit == Init => OneSuccessor /\ ClaimFirst
<1> SUFFICES ASSUME Init
             PROVE  OneSuccessor /\ ClaimFirst
  OBVIOUS
<1>1. \A g \in Gens : /\ launch[g].resume = 0 /\ worker[g] = "none"
                      /\ claimed[g] = 0 /\ resumed[g] = 0
  BY DEF Init, NoContext
<1>2. OneSuccessor
  BY <1>1 DEF OneSuccessor, Successor
<1>3. ClaimFirst
  BY <1>1 DEF ClaimFirst
<1> QED
  BY <1>2, <1>3

\* Who resumes a handoff was launched after it, by the same supervisor.
LEMMA SuccessorLaunched ==
  ASSUME LaunchOrder, NEW g \in Gens, NEW h \in Gens, Successor(g, h)
  PROVE  Launched(g) /\ Launched(h) /\ h < g /\ g <= context.gen
<1>1. Launched(g)
  BY DEF Successor, Launched, NoContext
<1> QED
  BY <1>1 DEF LaunchOrder, Successor

\* Steps that launch nobody keep the successors, if they neither revive an
\* exited worker nor put its marker back.
LEMMA SuccessorKept ==
  ASSUME OneSuccessor, launch' = launch, accepted \subseteq accepted',
         \A h \in Gens : worker[h] = "exited to restart" =>
           worker'[h] = "exited to restart" /\ (pending' = h => pending = h)
  PROVE  OneSuccessor'
<1>1. \A g, h : Successor(g, h)' <=> Successor(g, h)
  BY DEF Successor
<1>2. ASSUME NEW g \in Gens, NEW h \in Gens, Successor(g, h)'
      PROVE  /\ h \in accepted' /\ pending' # h /\ worker'[h] = "exited to restart"
             /\ launch'[h].sup = launch'[g].sup
  BY <1>1, <1>2 DEF OneSuccessor
<1>3. ASSUME NEW f \in Gens, NEW g \in Gens, NEW h \in Gens, Successor(f, h)', Successor(g, h)'
      PROVE  f = g
  BY <1>1, <1>3 DEF OneSuccessor
<1> QED
  BY <1>2, <1>3 DEF OneSuccessor

\* A new launch resumes the handoff of the last one, which no other does.
LEMMA SuccessorOfLaunch ==
  ASSUME TypeOK, LaunchOrder, OneSuccessor,
         NEW s \in Supervisors, OwnWorker(s), NEW g \in Gens, WriteContext(s, g)
  PROVE  OneSuccessor'
<1> DEFINE r == supervisor[s].resume
<1>1. /\ launch' = [launch EXCEPT ![g] = [sup |-> s, gen |-> g, resume |-> r]]
      /\ supervisor[s].at = "launching" /\ ~Launched(g)
      /\ accepted' = accepted /\ pending' = pending /\ worker' = worker
  BY DEF WriteContext, Launched
<1>2. launch'[g].resume = r /\ launch'[g].sup = s
  BY <1>1 DEF TypeOK
<1>3. \A f \in Gens \ {g} : launch'[f] = launch[f]
  BY <1>1 DEF TypeOK
<1>4. r # 0 => /\ r \in Gens /\ Launched(r) /\ launch[r].sup = s /\ context.gen = r
               /\ r \in accepted /\ pending # r /\ worker[r] = "exited to restart"
  BY <1>1 DEF OwnWorker
<1>5. ASSUME r # 0, NEW f \in Gens, Successor(f, r)
      PROVE  FALSE
  <2>1. r < f /\ f <= r
    BY <1>4, <1>5, SuccessorLaunched
  <2>2. r \in Nat /\ f \in Nat
    BY <1>4, <1>5, BoundTypes
  <2> HIDE DEF r
  <2> QED
    BY <2>1, <2>2
<1>6. \A f, h \in Gens : f # g => (Successor(f, h)' <=> Successor(f, h))
  BY <1>3 DEF Successor
<1>7. \A h \in Gens : Successor(g, h)' <=> (h = r /\ r # 0)
  BY <1>2, BoundTypes DEF Successor
<1>8. \A f, h \in Gens : Successor(f, h) => h # g
  BY <1>1, SuccessorLaunched
<1> HIDE DEF r
<1>9. ASSUME NEW f \in Gens, NEW h \in Gens, Successor(f, h)'
      PROVE  /\ h \in accepted' /\ pending' # h /\ worker'[h] = "exited to restart"
             /\ launch'[h].sup = launch'[f].sup
  <2>1. CASE f = g
    BY <1>1, <1>2, <1>3, <1>4, <1>7, <1>9, <2>1
  <2>2. CASE f # g
    <3>1. Successor(f, h) /\ h # g
      BY <1>6, <1>8, <1>9, <2>2
    <3>2. launch'[f] = launch[f] /\ launch'[h] = launch[h]
      BY <1>3, <2>2, <3>1
    <3> QED
      BY <1>1, <3>1, <3>2 DEF OneSuccessor
  <2> QED
    BY <2>1, <2>2
<1>10. ASSUME NEW e \in Gens, NEW f \in Gens, NEW h \in Gens, Successor(e, h)', Successor(f, h)'
       PROVE  e = f
  <2>1. CASE e = g \/ f = g
    BY <1>5, <1>6, <1>7, <1>10, <2>1
  <2>2. CASE e # g /\ f # g
    BY <1>6, <1>10, <2>2 DEF OneSuccessor
  <2> QED
    BY <2>1, <2>2
<1> QED
  BY <1>9, <1>10 DEF OneSuccessor

\* The other steps of a supervisor launch nobody.
LEMMA SuccessorSupervisor ==
  ASSUME TypeOK, LaunchOrder, OneSuccessor,
         NEW s \in Supervisors, OwnWorker(s), SupervisorStep(s)
  PROVE  OneSuccessor'
<1>1. ASSUME NEW g \in Gens, WriteContext(s, g)
      PROVE  OneSuccessor'
  BY <1>1, SuccessorOfLaunch
<1>2. CASE ~ \E g \in Gens : WriteContext(s, g)
  <2>1. launch' = launch /\ accepted \subseteq accepted' /\ pending' \in {pending, 0}
    BY <1>2 DEF SupervisorStep, Start, Spawn, RecordProcess, SeeRestart, SeeExit, Accept,
       RemovePending, SupervisorDies, recordVars, workerVars
  <2>2. \A h \in Gens : worker[h] # "none" => worker'[h] = worker[h]
    BY <1>2 DEF TypeOK, Become, OwnWorker, SupervisorStep, Start, Spawn, RecordProcess, SeeRestart,
       SeeExit, Accept, RemovePending, SupervisorDies, recordVars, workerVars
  <2> QED
    BY <2>1, <2>2, SuccessorKept, BoundTypes
<1> QED
  BY <1>1, <1>2

\* A worker that exited to be replaced writes no other marker.
LEMMA SuccessorWorker ==
  ASSUME TypeOK, OneSuccessor, NEW g \in Gens, WorkerStep(g)
  PROVE  OneSuccessor'
<1>1. worker[g] \notin {"none", "exited to restart"}
  BY DEF WorkerStep, Check, Enter, Bind, Resume, Install, Mark, ReadBack, ExitToRestart, Exit, Ended
<1>2. \A h \in Gens \ {g} : worker'[h] = worker[h]
  BY DEF TypeOK, Become, workerVars,
     WorkerStep, Check, Enter, Bind, Resume, Install, Mark, ReadBack, ExitToRestart, Exit
<1>3. launch' = launch /\ accepted' = accepted /\ pending' \in {pending, g}
  BY DEF recordVars, workerVars,
     WorkerStep, Check, Enter, Bind, Resume, Install, Mark, ReadBack, ExitToRestart, Exit
<1> QED
  BY <1>1, <1>2, <1>3, SuccessorKept

\* The operator and the others may remove a marker, no more.
LEMMA SuccessorOther ==
  ASSUME OneSuccessor, OperatorStep \/ ServeAlone \/ EndAlone \/ Edit
  PROVE  OneSuccessor'
<1>1. /\ launch' = launch /\ worker' = worker
      /\ accepted' = accepted /\ pending' \in {pending, 0}
  BY DEF OperatorStep, Recover, Close, Park, Finish, OperatorDies, ServeAlone, EndAlone, Edit,
         recordVars, workerVars
<1> QED
  BY <1>1, BoundTypes, SuccessorKept

\* Launching and starting a worker claims nothing.
LEMMA ClaimSupervisor ==
  ASSUME TypeOK, LaunchOrder, ClaimFirst,
         NEW s \in Supervisors, OwnWorker(s), SupervisorStep(s)
  PROVE  ClaimFirst'
<1> USE DEF TypeOK, Move, Become, sourceVars, recordVars, lockVars, workerVars, historyVars
<1>1. ASSUME NEW g \in Gens, WriteContext(s, g)
      PROVE  ClaimFirst'
  <2>1. /\ \A f \in Gens \ {g} : launch'[f] = launch[f]
        /\ claimed' = claimed /\ resumed' = resumed /\ worker' = worker /\ ~Launched(g)
    BY <1>1 DEF WriteContext, Launched
  <2>2. worker[g] = "none"
    BY <2>1 DEF LaunchOrder
  <2>3. \A h \in Gens : claimed[h] # 0 => claimed[h] \in Gens /\ claimed[h] # g
    BY <2>1, SuccessorLaunched DEF ClaimFirst, Gens
  <2> QED
    BY <2>1, <2>2, <2>3 DEF ClaimFirst, Successor
<1>2. CASE Spawn(s)
  BY <1>2 DEF Spawn, OwnWorker, ClaimFirst, Successor
<1>3. CASE RecordProcess(s) \/ Start(s) \/ SeeRestart(s) \/ SeeExit(s) \/ SupervisorDies(s)
  BY <1>3 DEF RecordProcess, Start, SeeRestart, SeeExit, SupervisorDies, ClaimFirst, Successor
<1>4. CASE Accept(s) \/ RemovePending(s)
  BY <1>4 DEF Accept, RemovePending, ClaimFirst, Successor
<1> QED
  BY <1>1, <1>2, <1>3, <1>4 DEF SupervisorStep

\* A handoff is claimed once, and only its claimant resumes the task.
LEMMA ClaimWorker ==
  ASSUME TypeOK, ClaimFirst, NEW g \in Gens, WorkerStep(g)
  PROVE  ClaimFirst'
<1> USE DEF TypeOK, Become, sourceVars, recordVars, lockVars, workerVars, historyVars
<1> DEFINE h == launch[g].resume
<1>0. \A f \in Gens : launch[f].resume # 0 => launch[f].resume \in Gens
  BY DEF Contexts, Gens
<1>1. CASE Bind(g) /\ h = 0
  BY <1>1, BoundTypes DEF Bind, ClaimFirst, Successor
<1>2. CASE Bind(g) /\ h # 0
  <2>1. /\ claimed[h] = 0 /\ claimed'[h] = g /\ \A f \in Gens \ {h} : claimed'[f] = claimed[f]
        /\ worker'[g] = "claimed" /\ \A f \in Gens \ {g} : worker'[f] = worker[f]
        /\ launch' = launch /\ resumed' = resumed
    BY <1>0, <1>2, BoundTypes DEF Bind
  <2>2. resumed[h] = 0
    BY <1>0, <1>2, <2>1 DEF ClaimFirst
  <2>3. ASSUME NEW f \in Gens, claimed'[f] # 0
        PROVE  f # 0 /\ launch'[claimed'[f]].resume = f
    <3>1. CASE f = h
      BY <1>2, <2>1, <3>1
    <3>2. CASE f # h
      BY <2>1, <2>3, <3>2 DEF ClaimFirst, Successor
    <3> QED
      BY <3>1, <3>2
  <2>4. \A f \in Gens : resumed'[f] <= 1 /\ (resumed'[f] > 0 => claimed'[f] # 0)
    BY <2>1, <2>2, BoundTypes DEF ClaimFirst
  <2>5. ASSUME NEW f \in Gens, worker'[f] = "claimed"
        PROVE  /\ launch'[f].resume # 0 /\ claimed'[launch'[f].resume] = f
               /\ resumed'[launch'[f].resume] = 0
    <3>1. CASE f = g
      BY <1>2, <2>1, <2>2, <3>1
    <3>2. CASE f # g
      <4>1. worker[f] = "claimed" /\ launch[f].resume # 0 /\ claimed[launch[f].resume] = f
        BY <2>1, <2>5, <3>2 DEF ClaimFirst
      <4>2. launch[f].resume \in Gens \ {h}
        BY <1>0, <2>1, <4>1, BoundTypes
      <4> QED
        BY <2>1, <4>1, <4>2 DEF ClaimFirst
    <3> QED
      BY <3>1, <3>2
  <2> QED
    BY <2>3, <2>4, <2>5 DEF ClaimFirst, Successor
<1>6. CASE Resume(g)
  <2>1. h \in Gens /\ claimed[h] = g /\ resumed[h] = 0
    BY <1>0, <1>6 DEF Resume, ClaimFirst
  <2>2. resumed'[h] = 1 /\ \A f \in Gens \ {h} : resumed'[f] = resumed[f]
    BY <1>6, <2>1 DEF Resume
  <2>3. /\ \A f \in Gens \ {g} : worker'[f] = worker[f]
        /\ worker'[g] = "serving" /\ claimed' = claimed /\ launch' = launch
    BY <1>6 DEF Resume
  <2>4. \A f \in Gens : resumed'[f] <= 1 /\ (resumed'[f] > 0 => claimed'[f] # 0)
    BY <2>1, <2>2, <2>3, BoundTypes DEF ClaimFirst
  <2>5. ASSUME NEW f \in Gens, worker'[f] = "claimed"
        PROVE  /\ launch'[f].resume # 0 /\ claimed'[launch'[f].resume] = f
               /\ resumed'[launch'[f].resume] = 0
    <3>1. f # g /\ worker[f] = "claimed"
      BY <2>3, <2>5
    <3>2. launch[f].resume \in Gens \ {h}
      BY <1>0, <2>1, <3>1 DEF ClaimFirst
    <3> QED
      BY <2>2, <2>3, <3>1, <3>2 DEF ClaimFirst
  <2> QED
    BY <2>3, <2>4, <2>5 DEF ClaimFirst, Successor
<1>3. CASE Check(g) \/ Enter(g)
  BY <1>3 DEF Check, Enter, ClaimFirst, Successor
<1>4. CASE Install(g) \/ Mark(g) \/ ReadBack(g)
  BY <1>4 DEF Install, Mark, ReadBack, ClaimFirst, Successor
<1>5. CASE ExitToRestart(g) \/ Exit(g)
  BY <1>5 DEF ExitToRestart, Exit, ClaimFirst, Successor
<1> QED
  BY <1>1, <1>2, <1>3, <1>4, <1>5, <1>6 DEF WorkerStep

\* The operator and the others claim and resume nothing.
LEMMA ClaimOther ==
  ASSUME ClaimFirst, OperatorStep \/ ServeAlone \/ EndAlone \/ Edit
  PROVE  ClaimFirst'
<1>1. launch' = launch /\ worker' = worker /\ claimed' = claimed /\ resumed' = resumed
  BY DEF OperatorStep, Recover, Close, Park, Finish, OperatorDies, ServeAlone, EndAlone, Edit,
         recordVars, workerVars, historyVars
<1> QED
  BY <1>1 DEF ClaimFirst, Successor

-------------------------------------------------------------------------------
(***************************************************************************)
(* Settling a handoff, and what stays of it.                               *)
(***************************************************************************)
\* At first there is no handoff to settle or to keep.
LEMMA SettleInit == Init => Settling /\ ParkedForGood /\ HandoffKept
BY DEF Init, Settling, ParkedForGood, HandoffKept

\* No supervisor is at work while the operator holds the locks.
LEMMA SettleSupervisor ==
  ASSUME TypeOK, LocksHeld, Settling, NEW s \in Supervisors, SupervisorStep(s)
  PROVE  Settling'
<1>1. operator = NoOperator
  BY OwnersDiffer DEF LocksHeld, Active, SupervisorStep, Start, WriteContext, Spawn,
     RecordProcess, SeeRestart, SeeExit, Accept, RemovePending, SupervisorDies
<1>2. operator' = operator
  BY DEF SupervisorStep, Start, WriteContext, Spawn,
     RecordProcess, SeeRestart, SeeExit, Accept, RemovePending, SupervisorDies
<1> QED
  BY <1>1, <1>2 DEF Settling

\* Nor is a worker that could claim the handoff.
LEMMA SettleWorker ==
  ASSUME TypeOK, LocksHeld, Settling, NEW g \in Gens, WorkerStep(g)
  PROVE  Settling'
<1>1. /\ operator' = operator /\ supervisor' = supervisor /\ launch' = launch /\ parked' = parked
  BY DEF recordVars, workerVars,
     WorkerStep, Check, Enter, Bind, Resume, Install, Mark, ReadBack, ExitToRestart, Exit
<1>2. operator # NoOperator => claimed' = claimed
  BY OwnersDiffer DEF LocksHeld, InLock, recordVars,
     WorkerStep, Check, Enter, Bind, Resume, Install, Mark, ReadBack, ExitToRestart, Exit
<1> QED
  BY <1>1, <1>2 DEF Settling, Launched, Successor

\* The operator takes up a handoff that nobody claimed, with every generation
\* that could, and its supervisor is over.
LEMMA SettleRecover ==
  ASSUME TypeOK, LaunchOrder, OneSuccessor, ClaimFirst, NEW h \in Gens, Recover(h)
  PROVE  Settling'
<1>1. /\ h \in Frontier /\ context.sup = launch[h].sup
      /\ supervisor[context.sup].at = "ended"
      /\ context.gen = h \/ (context.resume = h /\ h \in accepted)
      /\ operator' = [at |-> "closing", target |-> h, gens |-> {h, context.gen}]
      /\ claimed' = claimed /\ launch' = launch /\ supervisor' = supervisor
  BY DEF Recover, Recoverable, recordVars, workerVars
<1>2. context # NoContext /\ context.gen \in Gens /\ launch[context.gen] = context
  BY <1>1, BoundTypes DEF LaunchOrder, NoContext
<1>3. claimed[h] = 0
  <2>1. CASE pending = h
    <3>1. \A g \in Gens : ~Successor(g, h)
      BY <2>1 DEF OneSuccessor
    <3>2. claimed[h] # 0 => claimed[h] \in Gens
      BY DEF TypeOK, Gens
    <3> QED
      BY <3>1, <3>2 DEF ClaimFirst
  <2>2. CASE pending # h
    BY <1>1, <2>2 DEF Frontier, Resolved
  <2> QED
    BY <2>1, <2>2
<1>4. Launched(h)
  <2>1. CASE context.gen = h
    BY <1>2, <2>1 DEF Launched
  <2>2. CASE context.resume = h
    <3>1. Successor(context.gen, h)
      BY <1>2, <2>2, BoundTypes DEF Successor
    <3> QED
      BY <1>2, <3>1, SuccessorLaunched
  <2> QED
    BY <1>1, <2>1, <2>2
<1>5. ASSUME NEW g \in Gens, Successor(g, h)
      PROVE  g \in {h, context.gen}
  <2>1. CASE context.gen = h
    <3>1. h < g /\ g <= h
      BY <1>5, <2>1, SuccessorLaunched
    <3> QED
      BY <3>1 DEF Gens
  <2>2. CASE context.resume = h
    <3>1. Successor(context.gen, h)
      BY <1>2, <2>2, BoundTypes DEF Successor
    <3> QED
      BY <1>2, <1>5, <3>1 DEF OneSuccessor
  <2> QED
    BY <1>1, <2>1, <2>2
<1>6. operator'.target = h /\ operator'.gens = {h, context.gen} /\ operator'.at = "closing"
  BY <1>1
<1> QED
  BY <1>1, <1>3, <1>4, <1>5, <1>6 DEF Settling, Launched, Successor

\* The other steps keep to it until the handoff is parked.
LEMMA SettleOther ==
  ASSUME TypeOK, LaunchOrder, OneSuccessor, ClaimFirst, Settling,
         OperatorStep \/ ServeAlone \/ EndAlone \/ Edit
  PROVE  Settling'
<1> USE DEF sourceVars, recordVars, lockVars, workerVars, historyVars
<1>1. ASSUME NEW h \in Gens, Recover(h)
      PROVE  Settling'
  BY <1>1, SettleRecover
<1>2. ASSUME NEW g \in Gens, Close(g)
      PROVE  Settling'
  BY <1>2 DEF Close, Settling, Launched, Successor
<1>3. CASE Park
  <2>1. /\ operator # NoOperator
        /\ operator'.target = operator.target /\ operator'.gens = operator.gens
        /\ operator.target \in parked'
        /\ claimed' = claimed /\ launch' = launch /\ supervisor' = supervisor
    BY <1>3 DEF Park, TypeOK, OperatorStates, NoOperator
  <2> QED
    BY <2>1 DEF Settling, Launched, Successor
<1>4. CASE Finish \/ OperatorDies
  BY <1>4 DEF Finish, OperatorDies, Settling
<1>5. CASE ServeAlone \/ EndAlone \/ Edit
  BY <1>5 DEF ServeAlone, EndAlone, Edit, Settling, Launched, Successor
<1> QED
  BY <1>1, <1>2, <1>3, <1>4, <1>5 DEF OperatorStep

\* A new launch of a supervisor never resumes a parked handoff, because the
\* supervisor of that handoff is over.
LEMMA ParkedSupervisor ==
  ASSUME TypeOK, LocksHeld, LaunchOrder, ParkedForGood,
         NEW s \in Supervisors, OwnWorker(s), SupervisorStep(s)
  PROVE  ParkedForGood'
<1>1. parked' = parked /\ claimed' = claimed /\ closed' = closed
  BY DEF SupervisorStep, Start, WriteContext, Spawn, RecordProcess, SeeRestart, SeeExit, Accept,
     RemovePending, SupervisorDies, recordVars
<1>2. \A t \in Supervisors : supervisor[t].at = "ended" => supervisor'[t] = supervisor[t]
  BY DEF TypeOK, Move, SupervisorStep, Start, WriteContext, Spawn, RecordProcess, SeeRestart,
     SeeExit, Accept, RemovePending, SupervisorDies
<1>3. \A g \in Gens : InLock(g)' => InLock(g)
  BY DEF TypeOK, Become, InLock, SupervisorStep, Start, WriteContext, Spawn, RecordProcess,
     SeeRestart, SeeExit, Accept, RemovePending, SupervisorDies, workerVars
<1>4. ASSUME NEW h \in parked
      PROVE  /\ h \in Gens /\ Launched(h) /\ launch'[h] = launch[h]
             /\ \A g \in Gens : Successor(g, h)' => Successor(g, h)
  <2>1. h \in Gens /\ Launched(h) /\ supervisor[launch[h].sup].at = "ended"
    BY DEF TypeOK, ParkedForGood
  <2>2. CASE launch' = launch
    BY <2>1, <2>2 DEF Successor
  <2>3. ASSUME NEW f \in Gens, WriteContext(s, f)
        PROVE  /\ launch'[h] = launch[h]
               /\ \A g \in Gens : Successor(g, h)' => Successor(g, h)
    <3>1. /\ supervisor[s].at = "launching" /\ ~Launched(f)
          /\ \A g \in Gens \ {f} : launch'[g] = launch[g]
          /\ launch'[f].resume = supervisor[s].resume
      BY <2>3 DEF WriteContext, TypeOK, Launched
    <3>2. supervisor[s].resume # h
      BY <2>1, <3>1, BoundTypes DEF OwnWorker
    <3> QED
      BY <2>1, <3>1, <3>2 DEF Successor
  <2>4. launch' = launch \/ \E f \in Gens : WriteContext(s, f)
    BY DEF SupervisorStep, Start, Spawn, RecordProcess, SeeRestart, SeeExit, Accept,
       RemovePending, SupervisorDies, workerVars
  <2> QED
    BY <2>1, <2>2, <2>3, <2>4
<1>5. ASSUME NEW h \in parked
      PROVE  supervisor'[launch[h].sup].at = "ended"
  <2>1. launch[h].sup \in Supervisors /\ supervisor[launch[h].sup].at = "ended"
    BY <1>4 DEF LaunchOrder, ParkedForGood
  <2> QED
    BY <1>2, <2>1
<1> QED
  BY <1>1, <1>3, <1>4, <1>5 DEF ParkedForGood, Launched

\* A worker whose generation is closed gets no lock, and one without the lock
\* claims nothing.
LEMMA ParkedWorker ==
  ASSUME TypeOK, ParkedForGood, NEW g \in Gens, WorkerStep(g)
  PROVE  ParkedForGood'
<1>1. /\ supervisor' = supervisor /\ launch' = launch /\ parked' = parked /\ closed' = closed
  BY DEF recordVars, workerVars,
     WorkerStep, Check, Enter, Bind, Resume, Install, Mark, ReadBack, ExitToRestart, Exit
<1>2. \A f \in Gens : f \in closed /\ ~InLock(f) => ~InLock(f)'
  BY DEF TypeOK, InLock, Become, workerVars,
     WorkerStep, Check, Enter, Bind, Resume, Install, Mark, ReadBack, ExitToRestart, Exit
<1>3. ASSUME NEW h \in parked
      PROVE  claimed'[h] = claimed[h]
  <2>1. h \in Gens /\ (Successor(g, h) => ~InLock(g))
    BY DEF TypeOK, ParkedForGood
  <2>2. CASE Bind(g)
    <3>1. InLock(g)
      BY <2>2 DEF Bind, InLock
    <3>2. launch[g].resume # h
      BY <2>1, <3>1, BoundTypes DEF Successor
    <3> QED
      BY <2>1, <2>2, <3>2 DEF Bind, TypeOK
  <2>3. CASE ~Bind(g)
    BY <2>3 DEF recordVars,
       WorkerStep, Check, Enter, Resume, Install, Mark, ReadBack, ExitToRestart, Exit
  <2> QED
    BY <2>2, <2>3
<1> QED
  BY <1>1, <1>2, <1>3 DEF ParkedForGood, Launched, Successor

\* The operator parks a handoff whose successors are closed and out.
LEMMA ParkedOther ==
  ASSUME TypeOK, LocksHeld, Settling, ParkedForGood,
         OperatorStep \/ ServeAlone \/ EndAlone \/ Edit
  PROVE  ParkedForGood'
<1>1. /\ supervisor' = supervisor /\ launch' = launch /\ worker' = worker
      /\ claimed' = claimed /\ closed \subseteq closed'
  BY DEF OperatorStep, Recover, Close, Park, Finish, OperatorDies, ServeAlone, EndAlone, Edit,
         recordVars, workerVars
<1>2. ASSUME NEW h \in parked' \ parked
      PROVE  /\ claimed[h] = 0 /\ Launched(h) /\ supervisor[launch[h].sup].at = "ended"
             /\ \A g \in Gens : Successor(g, h) => g \in closed /\ ~InLock(g)
  <2>1. operator # NoOperator /\ h = operator.target /\ operator.gens \subseteq closed
    BY <1>2 DEF OperatorStep, Recover, Close, Park, Finish, OperatorDies, ServeAlone, EndAlone,
       Edit, recordVars, NoOperator
  <2>2. \A g \in Gens : ~InLock(g)
    BY <2>1, OwnersDiffer DEF LocksHeld
  <2> QED
    BY <2>1, <2>2 DEF Settling
<1> QED
  BY <1>1, <1>2 DEF ParkedForGood, Launched, Successor, InLock

-------------------------------------------------------------------------------
(***************************************************************************)
(* No handoff is lost.                                                     *)
(***************************************************************************)
\* A marker is removed only when it was accepted or parked.
LEMMA KeptStep ==
  ASSUME TypeOK, \A s \in Supervisors : OwnWorker(s), Settling, HandoffKept, [Next]_vars
  PROVE  HandoffKept'
<1> USE DEF sourceVars, recordVars, lockVars, workerVars, historyVars
<1>1. accepted \subseteq accepted' /\ parked \subseteq parked'
  BY DEF vars, Next, SupervisorStep, Start, WriteContext, Spawn, RecordProcess, SeeRestart,
     SeeExit, Accept, RemovePending, SupervisorDies, WorkerStep, Check, Enter, Bind, Resume,
     Install, Mark, ReadBack, ExitToRestart, Exit, OperatorStep, Recover, Close, Park, Finish,
     OperatorDies, ServeAlone, EndAlone, Edit
<1>2. ASSUME NEW g \in Gens, Mark(g)
      PROVE  HandoffKept'
  BY <1>2, BoundTypes DEF Mark, HandoffKept, TypeOK
<1>3. ASSUME NEW s \in Supervisors, RemovePending(s)
      PROVE  HandoffKept'
  <2>1. supervisor[s].gen \in accepted
    BY <1>3 DEF RemovePending, OwnWorker
  <2>2. /\ accepted' = accepted /\ parked' = parked /\ marker' = marker
        /\ pending' = pending \/ pending = supervisor[s].gen
    BY <1>3 DEF RemovePending
  <2> QED
    BY <2>1, <2>2 DEF HandoffKept
<1>4. CASE Finish
  BY <1>4 DEF Finish, HandoffKept, Settling, NoOperator
<1>5. CASE pending' = pending /\ marker' = marker
  BY <1>1, <1>5 DEF HandoffKept
<1> QED
  BY <1>2, <1>3, <1>4, <1>5 DEF vars, Next, SupervisorStep, Start, WriteContext, Spawn,
     RecordProcess, SeeRestart, SeeExit, Accept, SupervisorDies, WorkerStep, Check, Enter, Bind,
     Resume, Install, ReadBack, ExitToRestart, Exit, OperatorStep, Recover, Close, Park,
     OperatorDies, ServeAlone, EndAlone, Edit

-------------------------------------------------------------------------------
(***************************************************************************)
(* Nobody works beside a handoff that waits: the parts of FrontierInv.     *)
(***************************************************************************)
\* A supervisor never leaves its worker behind but by dying, and then the
\* worker is an orphan.
LEMMA AttendedSupervisor ==
  ASSUME TypeOK, LaunchOrder, NEW s \in Supervisors, OwnWorker(s), SupervisorStep(s),
         NEW g \in Gens, Attended(g)
  PROVE  Attended(g)'
<1> USE DEF TypeOK, Attended, Ended, Move, Become,
        sourceVars, recordVars, lockVars, workerVars, historyVars
<1>0. supervisor[s] \in SupervisorStates
  OBVIOUS
<1>1. CASE Start(s)
  BY <1>1 DEF Start
<1>2. ASSUME NEW f \in Gens, WriteContext(s, f)
      PROVE  Attended(g)'
  <2>1. CASE g = f
    BY <1>2, <2>1 DEF WriteContext, LaunchOrder, Launched
  <2>2. CASE g # f
    BY <1>2, <2>2 DEF WriteContext
  <2> QED
    BY <2>1, <2>2
<1>3. CASE Spawn(s)
  <2>1. CASE g = supervisor[s].gen
    <3>1. launch[g].sup = s
      BY <1>3, <2>1 DEF Spawn, OwnWorker
    <3>2. supervisor'[s].gen = g /\ supervisor'[s].at = "spawned" /\ launch' = launch
      BY <1>0, <1>3, <2>1 DEF Spawn, SupervisorStates
    <3> QED
      BY <3>1, <3>2
  <2>2. CASE g # supervisor[s].gen
    BY <1>3, <2>2 DEF Spawn
  <2> QED
    BY <2>1, <2>2
<1>4. CASE RecordProcess(s)
  BY <1>0, <1>4 DEF RecordProcess, SupervisorStates
<1>5. CASE SeeRestart(s) \/ SeeExit(s)
  BY <1>5 DEF SeeRestart, SeeExit
<1>6. CASE Accept(s)
  BY <1>6 DEF Accept
<1>7. CASE RemovePending(s)
  BY <1>7 DEF RemovePending
<1>8. CASE SupervisorDies(s)
  BY <1>8 DEF SupervisorDies
<1> QED
  BY <1>1, <1>2, <1>3, <1>4, <1>5, <1>6, <1>7, <1>8 DEF SupervisorStep

\* Nor does a worker its supervisor.
LEMMA AttendedWorker ==
  ASSUME TypeOK, NEW f \in Gens, WorkerStep(f), NEW g \in Gens, Attended(g)
  PROVE  Attended(g)'
<1>1. /\ ~Ended(f) /\ supervisor' = supervisor /\ launch' = launch /\ orphans' = orphans
      /\ \A h \in Gens \ {f} : worker'[h] = worker[h]
  BY DEF TypeOK, Ended, Become, workerVars, historyVars,
     WorkerStep, Check, Enter, Bind, Resume, Install, Mark, ReadBack, ExitToRestart, Exit
<1> QED
  BY <1>1 DEF Attended, Ended

\* A launch gives its handoff to a worker that has not begun.
LEMMA BoundSupervisor ==
  ASSUME TypeOK, LaunchOrder, NEW s \in Supervisors, OwnWorker(s), SupervisorStep(s),
         NEW g \in Gens, BoundFirst(g)
  PROVE  BoundFirst(g)'
<1> USE DEF TypeOK, BoundFirst, Move, Become,
        sourceVars, recordVars, lockVars, workerVars, historyVars
<1>1. ASSUME NEW f \in Gens, WriteContext(s, f)
      PROVE  BoundFirst(g)'
  <2>1. CASE g = f
    BY <1>1, <2>1 DEF WriteContext, LaunchOrder, Launched
  <2>2. CASE g # f
    BY <1>1, <2>2 DEF WriteContext
  <2> QED
    BY <2>1, <2>2
<1>2. CASE Spawn(s)
  BY <1>2 DEF Spawn
<1>3. CASE ~(Spawn(s) \/ \E f \in Gens : WriteContext(s, f))
  <2>1. worker' = worker /\ launch' = launch /\ claimed' = claimed
    BY <1>3 DEF SupervisorStep, Start, RecordProcess, SeeRestart, SeeExit, Accept, RemovePending,
       SupervisorDies
  <2> QED
    BY <2>1
<1> QED
  BY <1>1, <1>2, <1>3

\* What a launch resumes is a generation.
LEMMA ResumeType ==
  ASSUME TypeOK, NEW g \in Gens
  PROVE  launch[g].resume # 0 => launch[g].resume \in Gens
<1>1. launch[g].resume \in 0..MaxGenerations
  BY DEF TypeOK, Contexts
<1> QED
  BY <1>1, RestartHandoffAssumption DEF Gens

\* A worker gets to serve through Bind, which claims the handoff, and a claim
\* is never changed.
LEMMA BoundWorker ==
  ASSUME TypeOK, NEW f \in Gens, WorkerStep(f), NEW g \in Gens, BoundFirst(g)
  PROVE  BoundFirst(g)'
<1> USE BoundTypes DEF TypeOK, BoundFirst, Become,
        sourceVars, recordVars, lockVars, workerVars, historyVars
<1>1. launch' = launch /\ \A h \in Gens \ {f} : worker'[h] = worker[h]
  BY DEF WorkerStep, Check, Enter, Bind, Resume, Install, Mark, ReadBack, ExitToRestart, Exit
<1>2. CASE Bind(f)
  <2>1. \A h \in Gens : claimed[h] # 0 => claimed'[h] = claimed[h]
    BY <1>2 DEF Bind
  <2>2. launch[g].resume # 0 => launch[g].resume \in Gens
    BY ResumeType
  <2>3. CASE g = f
    <3>1. launch[g].resume # 0 => claimed'[launch[g].resume] = g
      BY <1>2, <2>2, <2>3 DEF Bind
    <3> QED
      BY <1>1, <3>1
  <2>4. CASE g # f
    BY <1>1, <2>1, <2>2, <2>4
  <2> QED
    BY <2>3, <2>4
<1>3. CASE ~Bind(f)
  <2>1. claimed' = claimed
    BY <1>3 DEF WorkerStep, Check, Enter, Resume, Install, Mark, ReadBack, ExitToRestart, Exit
  <2>2. worker'[f] \in {"claimed", "serving", "marked", "restarting", "exited to restart"}
          => worker[f] \in {"claimed", "serving", "marked", "restarting"}
    BY <1>3 DEF WorkerStep, Check, Enter, Resume, Install, Mark, ReadBack, ExitToRestart, Exit
  <2> QED
    BY <1>1, <2>1, <2>2
<1> QED
  BY <1>2, <1>3

\* A marker is pending until the supervisor that accepts it removes it.
LEMMA AcceptsSupervisor ==
  ASSUME TypeOK, LocksHeld, NEW s \in Supervisors, SupervisorStep(s),
         NEW t \in Supervisors, AcceptsPending(t)
  PROVE  AcceptsPending(t)'
<1>0. supervisor[s] \in SupervisorStates
  BY DEF TypeOK
<1>1. CASE t = s
  <2>1. CASE SeeRestart(s)
    BY <1>0, <1>1, <2>1 DEF TypeOK, AcceptsPending, SupervisorStates, SeeRestart, Move,
       ValidPending, recordVars
  <2>2. CASE ~SeeRestart(s)
    <3> USE <1>0, <1>1 DEF TypeOK, SupervisorStates, Move, AcceptsPending
    <3>1. ASSUME NEW g \in Gens, WriteContext(s, g)
          PROVE  AcceptsPending(t)'
      BY <3>1 DEF WriteContext
    <3>2. CASE Start(s) \/ Spawn(s) \/ RecordProcess(s)
      BY <3>2 DEF Start, Spawn, RecordProcess
    <3>3. CASE SeeExit(s)
      BY <3>3 DEF SeeExit
    <3>4. CASE Accept(s)
      BY <3>4 DEF Accept
    <3>5. CASE RemovePending(s)
      BY <3>5 DEF RemovePending
    <3>6. CASE SupervisorDies(s)
      BY <3>6 DEF SupervisorDies
    <3> QED
      BY <2>2, <3>1, <3>2, <3>3, <3>4, <3>5, <3>6 DEF SupervisorStep
  <2> QED
    BY <2>1, <2>2
<1>2. CASE t # s
  <2>1. supervisor[t].at \notin {"accepting"} /\ supervisor'[t] = supervisor[t]
    <3>1. Active(s) \/ service = Free
      BY DEF SupervisorStep, Start, WriteContext, Spawn, RecordProcess, SeeRestart, SeeExit,
         Accept, RemovePending, SupervisorDies, Active
    <3>2. ~Active(t)
      BY <1>2, <3>1, OwnersDiffer DEF LocksHeld
    <3>3. supervisor'[t] = supervisor[t]
      BY <1>2 DEF TypeOK, Move, SupervisorStep, Start, WriteContext, Spawn, RecordProcess,
         SeeRestart, SeeExit, Accept, RemovePending, SupervisorDies
    <3> QED
      BY <3>2, <3>3 DEF Active
  <2> QED
    BY <2>1 DEF AcceptsPending
<1> QED
  BY <1>1, <1>2

\* No worker marks while a marker is pending.
LEMMA AcceptsWorker ==
  ASSUME TypeOK, \A s \in Supervisors : OwnWorker(s), NEW g \in Gens, WorkerStep(g),
         NEW s \in Supervisors, AcceptsPending(s)
  PROVE  AcceptsPending(s)'
<1>1. supervisor' = supervisor
  BY DEF WorkerStep, Check, Enter, Bind, Resume, Install, Mark, ReadBack, ExitToRestart, Exit
<1>2. CASE Mark(g)
  <2>1. pending = 0
    BY <1>2 DEF Mark
  <2>2. supervisor[s].at = "accepting" => supervisor[s].gen \in Gens
    BY DEF OwnWorker
  <2> QED
    BY <1>1, <2>1, <2>2, BoundTypes DEF AcceptsPending
<1>3. CASE ~Mark(g)
  <2>1. pending' = pending
    BY <1>3 DEF WorkerStep, Check, Enter, Bind, Resume, Install, ReadBack, ExitToRestart, Exit,
       recordVars
  <2> QED
    BY <1>1, <2>1 DEF AcceptsPending
<1> QED
  BY <1>2, <1>3

\* The operator, who alone may remove the marker besides, has the locks to
\* himself, and launches, claims and ends nothing.
LEMMA OthersKeep ==
  ASSUME LocksHeld, OperatorStep \/ ServeAlone \/ EndAlone \/ Edit
  PROVE  /\ \A g \in Gens : (Attended(g) => Attended(g)') /\ (BoundFirst(g) => BoundFirst(g)')
         /\ \A s \in Supervisors : AcceptsPending(s) => AcceptsPending(s)'
<1>1. /\ supervisor' = supervisor /\ launch' = launch /\ worker' = worker /\ claimed' = claimed
      /\ orphans' = orphans
  BY DEF OperatorStep, Recover, Close, Park, Finish, OperatorDies, ServeAlone, EndAlone, Edit,
     recordVars, workerVars, historyVars
<1>2. ASSUME NEW s \in Supervisors, supervisor[s].at = "accepting"
      PROVE  pending' = pending
  <2>1. operator = NoOperator
    BY <1>2, OwnersDiffer DEF LocksHeld, Active
  <2> QED
    BY <2>1 DEF OperatorStep, Recover, Close, Park, Finish, OperatorDies, ServeAlone, EndAlone,
       Edit, recordVars, NoOperator
<1> QED
  BY <1>1, <1>2 DEF Attended, BoundFirst, AcceptsPending, Ended

\* A worker that has claimed its handoff, or has gone on from there, has taken
\* it off the frontier.
LEMMA ClaimedIsOff ==
  ASSUME OneSuccessor, NEW h \in Gens, h \in Frontier,
         NEW g \in Gens, launch[g].resume = h, BoundFirst(g)
  PROVE  worker[g] \notin {"claimed", "serving", "marked", "restarting", "exited to restart"}
<1>1. Successor(g, h)
  BY BoundTypes DEF Successor
<1>2. pending # h /\ claimed[h] = 0
  BY <1>1 DEF OneSuccessor, Frontier, Resolved
<1> QED
  BY <1>2, BoundTypes DEF BoundFirst

\* The frontier grows by the handoffs that are marked, and in no other way.
LEMMA FrontierGrows ==
  ASSUME IInv, \A s \in Supervisors : AcceptsPending(s), [Next]_vars,
         NEW h \in Frontier', h \notin orphans'
  PROVE  h \in Frontier \ orphans \/ Mark(h)
<1> USE DEF sourceVars, recordVars, lockVars, workerVars, historyVars
<1>1. h \in Gens /\ h \notin orphans
  BY DEF Frontier, vars, Next, SupervisorStep, Start, WriteContext, Spawn, RecordProcess,
     SeeRestart, SeeExit, Accept, RemovePending, SupervisorDies, WorkerStep, Check, Enter, Bind,
     Resume, Install, Mark, ReadBack, ExitToRestart, Exit, OperatorStep, Recover, Close, Park,
     Finish, OperatorDies, ServeAlone, EndAlone, Edit
<1>2. ASSUME NEW s \in Supervisors, Accept(s)
      PROVE  h \in Frontier
  <2>1. pending = supervisor[s].gen
    BY <1>2 DEF Accept, AcceptsPending
  <2> QED
    BY <1>1, <1>2, <2>1 DEF Accept, Frontier, Resolved
<1>3. ASSUME NEW g \in Gens, Mark(g)
      PROVE  h \in Frontier \/ Mark(h)
  BY <1>1, <1>3, BoundTypes DEF Mark, Frontier, Resolved
<1>4. ASSUME NEW g \in Gens, Bind(g)
      PROVE  h \in Frontier
  BY <1>1, <1>4 DEF Bind, Frontier, Resolved, IInv, TypeOK
<1>5. CASE /\ pending' \in {pending, 0} /\ accepted' = accepted
           /\ claimed' = claimed /\ parked \subseteq parked'
  BY <1>1, <1>5, BoundTypes DEF Frontier, Resolved
<1> QED
  BY <1>1, <1>2, <1>3, <1>4, <1>5 DEF vars, Next, SupervisorStep, Start, WriteContext, Spawn,
     RecordProcess, SeeRestart, SeeExit, RemovePending, SupervisorDies, WorkerStep, Check, Enter,
     Resume, Install, ReadBack, ExitToRestart, Exit, OperatorStep, Recover, Close, Park,
     Finish, OperatorDies, ServeAlone, EndAlone, Edit

\* A supervisor at work goes on with the handoff that waits: it accepts that
\* one, for the worker it launched last has not got past it.
LEMMA BesideSupervisor ==
  ASSUME IInv, \A g \in Gens : BoundFirst(g), \A t \in Supervisors : AcceptsPending(t),
         NEW s \in Supervisors, SupervisorStep(s), NEW h \in Frontier, Beside(h)
  PROVE  Beside(h)'
<1> USE DEF Move, Become, sourceVars, recordVars, lockVars, workerVars, historyVars
<1>0. /\ TypeOK /\ LocksHeld /\ LaunchOrder /\ OwnWorker(s) /\ OneSuccessor
      /\ supervisor[s] \in SupervisorStates /\ h \in Gens /\ Frontier # {}
  BY DEF IInv, TypeOK, Frontier
<1>1. /\ service' # Alone
      /\ \A t \in Supervisors \ {s} : supervisor'[t] = supervisor[t]
  BY <1>0, OwnersDiffer DEF Beside, TypeOK, SupervisorStep, Start, WriteContext, Spawn,
     RecordProcess, SeeRestart, SeeExit, Accept, RemovePending, SupervisorDies
<1>2. ASSUME NEW f \in Gens, WriteContext(s, f)
      PROVE  Beside(h)'
  <2>1. /\ supervisor[s].resume = h /\ context' = [sup |-> s, gen |-> f, resume |-> h]
        /\ \A g \in Gens \ {f} : launch'[g] = launch[g]
        /\ worker' = worker /\ worker[f] = "none" /\ supervisor'[s].at = "written"
    BY <1>0, <1>2 DEF WriteContext, Beside, TypeOK, LaunchOrder, Launched, SupervisorStates
  <2> QED
    BY <1>1, <2>1 DEF Beside, InLock
<1>3. ASSUME context' = context, launch' = launch,
             \A g \in Gens : InLock(g)' => InLock(g),
             supervisor'[s].at \in {"accepting", "accepted"} => supervisor'[s].gen = h,
             supervisor'[s].at = "launching" => supervisor'[s].resume = h
      PROVE  Beside(h)'
  BY <1>1, <1>3 DEF Beside
<1>4. CASE Spawn(s) \/ RecordProcess(s) \/ SeeExit(s) \/ SupervisorDies(s)
  <2>1. \E at \in {"spawned", "waiting", "ended"} : Move(s, at)
    BY <1>4 DEF Spawn, RecordProcess, SeeExit, SupervisorDies
  <2>2. supervisor'[s].at \notin {"accepting", "accepted", "launching"}
    BY <1>0, <2>1 DEF TypeOK, SupervisorStates
  <2>3. context' = context /\ launch' = launch /\ \A g \in Gens : InLock(g)' => InLock(g)
    BY <1>0, <1>4 DEF TypeOK, InLock, Spawn, RecordProcess, SeeExit, SupervisorDies
  <2> QED
    BY <1>3, <2>2, <2>3
<1>5. CASE SeeRestart(s)
  <2> DEFINE f == supervisor[s].gen
  <2>1. /\ pending = f /\ worker[f] = "exited to restart" /\ supervisor[s].at = "waiting"
        /\ supervisor'[s].at = "accepting" /\ supervisor'[s].gen = f
        /\ context' = context /\ launch' = launch /\ worker' = worker
    BY <1>0, <1>5 DEF TypeOK, SupervisorStates, SeeRestart, ValidPending
  <2>2. f \in Gens /\ context.gen = f /\ launch[f] = context
    <3>1. f \in Gens /\ context.gen = f
      BY <1>0, <2>1 DEF OwnWorker
    <3>2. context # NoContext
      BY <3>1, BoundTypes DEF NoContext
    <3> QED
      BY <1>0, <3>1, <3>2 DEF LaunchOrder
  <2>3. f = h
    <3>1. CASE context.gen = h
      BY <2>2, <3>1
    <3>2. CASE context.resume = h
      BY <1>0, <2>1, <2>2, <3>2, ClaimedIsOff
    <3> QED
      BY <3>1, <3>2 DEF Beside
  <2> QED
    BY <1>3, <2>1, <2>3 DEF InLock
<1>6. CASE Accept(s)
  BY <1>0, <1>3, <1>6 DEF Accept, Beside, TypeOK, SupervisorStates, InLock
<1>7. CASE RemovePending(s)
  <2>1. supervisor[s].resume = supervisor[s].gen /\ supervisor[s].gen = h
    BY <1>0, <1>7 DEF RemovePending, OwnWorker, Beside
  <2> QED
    BY <1>0, <1>3, <1>7, <2>1 DEF RemovePending, TypeOK, SupervisorStates, InLock
<1> QED
  BY <1>0, <1>2, <1>4, <1>5, <1>6, <1>7 DEF SupervisorStep, Start

\* Only the worker that was launched last gets the lock.
LEMMA BesideWorker ==
  ASSUME IInv, NEW g \in Gens, WorkerStep(g), NEW h \in Frontier, Beside(h)
  PROVE  Beside(h)'
<1>1. /\ service' = service /\ context' = context /\ launch' = launch
      /\ supervisor' = supervisor
  BY DEF recordVars, lockVars, workerVars,
     WorkerStep, Check, Enter, Bind, Resume, Install, Mark, ReadBack, ExitToRestart, Exit
<1>2. ASSUME NEW f \in Gens \ {h}, InLock(f)'
      PROVE  launch[f].resume = h
  <2>1. CASE InLock(f)
    BY <1>2, <2>1 DEF Beside
  <2>2. CASE ~InLock(f)
    <3>1. f = g /\ Enter(g)
      BY <1>2, <2>2 DEF IInv, TypeOK, InLock, Become, workerVars,
         WorkerStep, Check, Enter, Bind, Resume, Install, Mark, ReadBack, ExitToRestart, Exit
    <3>2. context = launch[g] /\ worker[g] # "none"
      BY <1>2, <3>1 DEF IInv, TypeOK, InLock, Become, Enter
    <3>3. launch[g].gen = g
      BY <3>2 DEF IInv, LaunchOrder
    <3> QED
      BY <3>1, <3>2, <3>3 DEF Beside
  <2> QED
    BY <2>1, <2>2
<1> QED
  BY <1>1, <1>2 DEF Beside

\* The operator and the others touch neither launches nor supervisors, and no
\* server starts beside the handoff.
LEMMA BesideOther ==
  ASSUME NEW h \in Frontier, Beside(h), OperatorStep \/ ServeAlone \/ EndAlone \/ Edit
  PROVE  Beside(h)'
<1>1. /\ supervisor' = supervisor /\ launch' = launch /\ context' = context /\ worker' = worker
      /\ service' # Alone
  BY OwnersDiffer DEF Beside, OperatorStep, Recover, Close, Park, Finish, OperatorDies,
     ServeAlone, EndAlone, Edit, recordVars, workerVars, lockVars
<1> QED
  BY <1>1 DEF Beside, InLock

\* A handoff is marked by the worker its supervisor waits for, with the lock.
LEMMA BesideMark ==
  ASSUME IInv, NEW h \in Gens, h \notin orphans, Attended(h), Mark(h)
  PROVE  Beside(h)'
<1>0. worker[h] = "serving" /\ InLock(h) /\ ~Ended(h)
  BY DEF Mark, InLock, Ended
<1>1. lock = Worker(h) /\ service # Alone /\ \A g \in Gens \ {h} : ~InLock(g)
  BY <1>0, OwnersDiffer DEF IInv, LocksHeld
<1>2. PICK t \in Supervisors : /\ supervisor[t].gen = h
                               /\ supervisor[t].at \in {"spawned", "waiting"}
  BY <1>0 DEF Attended
<1>3. context.gen = h
  BY <1>2 DEF IInv, OwnWorker
<1>4. \A s \in Supervisors \ {t} : ~Active(s)
  BY <1>2, OwnersDiffer DEF IInv, LocksHeld, Active
<1>5. /\ supervisor' = supervisor /\ context' = context /\ service' = service
      /\ launch' = launch /\ \A g \in Gens \ {h} : worker'[g] = worker[g]
  BY DEF Mark, Become, IInv, TypeOK, lockVars
<1> QED
  BY <1>1, <1>2, <1>3, <1>4, <1>5 DEF Beside, InLock, Active

-------------------------------------------------------------------------------
(***************************************************************************)
(* The theorems.                                                           *)
(***************************************************************************)
\* All parts hold at first.
LEMMA IInvInit == Init => IInv
BY TypeInit, LocksInit, LaunchInit, SuccessorInit, SettleInit DEF IInv

\* Each part is kept by each actor, with the help of the others.
LEMMA IInvStep == IInv /\ [Next]_vars => IInv'
<1> SUFFICES ASSUME IInv, [Next]_vars
             PROVE  IInv'
  OBVIOUS
<1>0. HandoffKept'
  BY KeptStep DEF IInv
<1>1. ASSUME NEW s \in Supervisors, SupervisorStep(s)
      PROVE  IInv'
  <2>1. TypeOK' /\ LocksHeld' /\ LaunchOrder'
    BY <1>1, SupervisorType, LocksSupervisor, LaunchSupervisor DEF IInv
  <2>2. \A t \in Supervisors : OwnWorker(t)'
    BY <1>1, OwnSupervisor, OwnOthers DEF IInv
  <2>3. OneSuccessor' /\ ClaimFirst' /\ Settling' /\ ParkedForGood'
    BY <1>1, SuccessorSupervisor, ClaimSupervisor, SettleSupervisor, ParkedSupervisor DEF IInv
  <2> QED
    BY <1>0, <2>1, <2>2, <2>3 DEF IInv
<1>2. ASSUME NEW g \in Gens, WorkerStep(g)
      PROVE  IInv'
  <2>1. TypeOK' /\ LocksHeld' /\ LaunchOrder'
    BY <1>2, WorkerType, LocksWorker, LaunchWorker DEF IInv
  <2>2. \A s \in Supervisors : OwnWorker(s)'
    BY <1>2, OwnWorkerStep DEF IInv
  <2>3. OneSuccessor' /\ ClaimFirst' /\ Settling' /\ ParkedForGood'
    BY <1>2, SuccessorWorker, ClaimWorker, SettleWorker, ParkedWorker DEF IInv
  <2> QED
    BY <1>0, <2>1, <2>2, <2>3 DEF IInv
<1>3. CASE OperatorStep \/ ServeAlone \/ EndAlone \/ Edit
  <2>1. TypeOK' /\ LocksHeld' /\ LaunchOrder'
    BY <1>3, OtherType, LocksOther, LaunchOther DEF IInv
  <2>2. \A s \in Supervisors : OwnWorker(s)'
    BY <1>3, OwnOther DEF IInv
  <2>3. OneSuccessor' /\ ClaimFirst' /\ Settling' /\ ParkedForGood'
    BY <1>3, SuccessorOther, ClaimOther, SettleOther, ParkedOther DEF IInv
  <2> QED
    BY <1>0, <2>1, <2>2, <2>3 DEF IInv
<1>4. CASE UNCHANGED vars
  <2> USE <1>4 DEF IInv, vars, sourceVars, recordVars, lockVars, workerVars, historyVars
  <2>1. TypeOK'
    BY DEF TypeOK
  <2>2. LocksHeld' /\ LaunchOrder'
    BY DEF LocksHeld, Active, InLock, LaunchOrder, Launched
  <2>3. \A s \in Supervisors : OwnWorker(s)'
    BY DEF OwnWorker, Launched
  <2>4. OneSuccessor'
    BY DEF OneSuccessor, Successor
  <2>5. ClaimFirst'
    BY DEF ClaimFirst, Successor
  <2>6. Settling' /\ ParkedForGood'
    BY DEF Settling, ParkedForGood, Successor, Launched, InLock
  <2> QED
    BY <1>0, <2>1, <2>2, <2>3, <2>4, <2>5, <2>6
<1> QED
  BY <1>1, <1>2, <1>3, <1>4 DEF Next

\* The parts hold together in every reachable state.
LEMMA InductiveInvariant == Spec => []IInv
BY IInvInit, IInvStep, PTL DEF Spec

\* No crash of a supervisor, worker or operator, wherever it falls, loses a
\* handoff: it is pending, accepted or parked from its marker on.
THEOREM NeverLost == Spec => []HandoffKept
<1>1. IInv => HandoffKept
  BY DEF IInv
<1> QED
  BY <1>1, InductiveInvariant, PTL

\* A task is resumed once for a handoff, or the handoff is parked and its task
\* is never resumed for it, however late a worker of an old launch wakes up.
THEOREM ResumedOrParkedOnce == Spec => []DisposedOnce
<1>1. ASSUME IInv
      PROVE  DisposedOnce
  <2>1. ASSUME NEW h \in Gens
        PROVE  resumed[h] + (IF h \in parked THEN 1 ELSE 0) <= 1
    <3>1. resumed[h] \in Nat /\ resumed[h] <= 1 /\ (resumed[h] > 0 => claimed[h] # 0)
      BY <1>1 DEF IInv, TypeOK, ClaimFirst
    <3>2. h \in parked => claimed[h] = 0
      BY <1>1 DEF IInv, ParkedForGood
    <3> QED
      BY <3>1, <3>2
  <2> QED
    BY <2>1 DEF DisposedOnce
<1> QED
  BY <1>1, InductiveInvariant, PTL

\* The parts of FrontierInv hold together with those of IInv.
LEMMA FrontierStep == FrontierInv /\ [Next]_vars => FrontierInv'
<1> SUFFICES ASSUME FrontierInv, [Next]_vars
             PROVE  FrontierInv'
  OBVIOUS
<1>0. /\ IInv /\ TypeOK /\ LocksHeld /\ LaunchOrder /\ OneSuccessor
      /\ \A s \in Supervisors : OwnWorker(s) /\ AcceptsPending(s)
      /\ \A g \in Gens : Attended(g) /\ BoundFirst(g)
      /\ \A h \in Frontier \ orphans : Beside(h)
  BY DEF FrontierInv, IInv
<1>1. IInv'
  BY <1>0, IInvStep
<1>2. (\A g \in Gens : Attended(g) /\ BoundFirst(g))'
      /\ (\A s \in Supervisors : AcceptsPending(s))'
  <2>1. ASSUME NEW s \in Supervisors, SupervisorStep(s)
        PROVE  /\ \A g \in Gens : Attended(g)' /\ BoundFirst(g)'
               /\ \A t \in Supervisors : AcceptsPending(t)'
    BY <1>0, <2>1, AttendedSupervisor, BoundSupervisor, AcceptsSupervisor
  <2>2. ASSUME NEW f \in Gens, WorkerStep(f)
        PROVE  /\ \A g \in Gens : Attended(g)' /\ BoundFirst(g)'
               /\ \A t \in Supervisors : AcceptsPending(t)'
    BY <1>0, <2>2, AttendedWorker, BoundWorker, AcceptsWorker
  <2>3. CASE OperatorStep \/ ServeAlone \/ EndAlone \/ Edit
    BY <1>0, <2>3, OthersKeep
  <2>4. CASE UNCHANGED vars
    BY <1>0, <2>4 DEF Attended, BoundFirst, AcceptsPending, Ended,
       vars, recordVars, workerVars, historyVars
  <2> QED
    BY <2>1, <2>2, <2>3, <2>4 DEF Next
<1>3. ASSUME NEW h \in Frontier', h \notin orphans'
      PROVE  Beside(h)'
  <2>1. CASE Mark(h)
    BY <1>0, <1>3, <2>1, BesideMark DEF Frontier, Mark, historyVars
  <2>2. CASE h \in Frontier \ orphans
    <3>1. Beside(h)
      BY <1>0, <2>2
    <3>2. ASSUME NEW s \in Supervisors, SupervisorStep(s)
          PROVE  Beside(h)'
      BY <1>0, <2>2, <3>1, <3>2, BesideSupervisor
    <3>3. ASSUME NEW g \in Gens, WorkerStep(g)
          PROVE  Beside(h)'
      BY <1>0, <2>2, <3>1, <3>3, BesideWorker
    <3>4. CASE OperatorStep \/ ServeAlone \/ EndAlone \/ Edit
      BY <2>2, <3>1, <3>4, BesideOther
    <3>5. CASE UNCHANGED vars
      BY <3>1, <3>5 DEF Beside, InLock, vars, recordVars, lockVars, workerVars
    <3> QED
      BY <3>2, <3>3, <3>4, <3>5 DEF Next
  <2> QED
    BY <1>0, <1>3, <2>1, <2>2, FrontierGrows
<1> QED
  BY <1>1, <1>2, <1>3 DEF FrontierInv

\* What holds besides while a handoff waits.
THEOREM FrontierInvariant == Spec => []FrontierInv
<1>1. Init => FrontierInv
  <2> SUFFICES ASSUME Init
               PROVE  FrontierInv
    OBVIOUS
  <2>1. IInv
    BY IInvInit
  <2>2. /\ \A g \in Gens : worker[g] = "none"
        /\ \A s \in Supervisors : supervisor[s].at = "none"
        /\ Frontier = {}
    BY BoundTypes DEF Init, Idle, Frontier
  <2> QED
    BY <2>1, <2>2 DEF FrontierInv, Attended, BoundFirst, AcceptsPending, Ended
<1> QED
  BY <1>1, FrontierStep, PTL DEF Spec

\* While a handoff waits for its disposition nobody else serves tasks, but for
\* handoffs of workers that outlived their supervisor (cli.py, server.py).
THEOREM NobodyWorksBeside == Spec => []NoWorkBesideHandoff
<1>1. ASSUME FrontierInv
      PROVE  NoWorkBesideHandoff
  <2> SUFFICES ASSUME NEW h \in Frontier \ orphans
               PROVE  /\ service # Alone
                      /\ \A g \in Gens \ {h} :
                           worker[g] \notin {"serving", "marked", "restarting"}
    BY DEF NoWorkBesideHandoff
  <2>1. h \in Gens /\ Beside(h) /\ OneSuccessor /\ \A g \in Gens : BoundFirst(g)
    BY <1>1 DEF FrontierInv, IInv, Frontier
  <2>2. ASSUME NEW g \in Gens \ {h}, worker[g] \in {"serving", "marked", "restarting"}
        PROVE  FALSE
    <3>1. launch[g].resume = h
      BY <2>1, <2>2 DEF Beside, InLock
    <3> QED
      BY <2>1, <2>2, <3>1, ClaimedIsOff
  <2> QED
    BY <2>1, <2>2 DEF Beside
<1> QED
  BY <1>1, FrontierInvariant, PTL

===============================================================================
