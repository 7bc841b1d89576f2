------------------------------- MODULE Liveness -------------------------------
(***************************************************************************)
(* What eventually happens, in the Executor and in a task that calls it.   *)
(* The two share no state, so a behaviour is one of the Executor or one of *)
(* a task, as the variable scene says; the other stays as it began.        *)
(***************************************************************************)
EXTENDS MCExecutor, Sequences, FiniteSets

CONSTANTS MaxCalls, MaxTools, Messages, MaxWaiting      \* of the task
CONSTANT MaxPrepared      \* operations of the workspace that are ever prepared

VARIABLES scene, status, source, pending, final, calls, rows, delivered, place, seen, call,
          tool, cancelling, stopRequested, waiting, woken, starts, command

Task == INSTANCE PracticalTask WITH at <- place, cancelled <- cancelling

taskVars == <<status, source, pending, final, calls, rows, delivered, place, seen, call,
              tool, cancelling, stopRequested, waiting, woken, starts, command>>
livenessVars == <<scene, workspace, vars, taskVars>>

LivenessInit == scene \in {"calls", "task"} /\ WorkspaceInit /\ Task!Init

LivenessNext ==
  /\ UNCHANGED <<scene, workspace>>
  /\ \/ /\ scene = "calls" /\ WorkspaceNext /\ UNCHANGED taskVars
        /\ Cardinality({o \in Ops : journal'[o].phase # "absent"}) <= MaxPrepared
     \/ scene = "task" /\ Task!Next /\ UNCHANGED vars

\* The fairness of the Executor and of the task, as their modules state it.
LivenessFairness ==
  /\ \A o \in Ops :
       WF_livenessVars(/\ scene = "calls" /\ current = o
                       /\ \/ Return(o) /\ UNCHANGED targetVars
                          \/ FileStep(o)
                          \/ ContainerStep(o) /\ ~Waiting
                          \/ TimeLimit(o)
                          \/ NativeProgress(o)
                          \/ ReconcileUnspecified(o)
                       /\ UNCHANGED <<scene, workspace, taskVars>>)
  /\ \A o \in Ops :
       WF_livenessVars(scene = "calls" /\ WorkStep(o) /\ UNCHANGED <<scene, workspace, taskVars>>)
  /\ WF_livenessVars(/\ scene = "task"
                     /\ Task!RunStep /\ ~Task!HeldByExecutor
                     /\ UNCHANGED <<scene, workspace, vars>>)
  /\ SF_livenessVars(/\ scene = "task"
                     /\ Task!WakeStop \/ Task!WakeMessage
                     /\ UNCHANGED <<scene, workspace, vars>>)

LivenessSpec == LivenessInit /\ [][LivenessNext]_livenessVars /\ LivenessFairness

-------------------------------------------------------------------------------
\* A read, a container and a command are recorded as succeeded only if they
\* did, and without effect only if they had none, however their calls ended.
ResultsAreReal == SuccessIsReal /\ NoneStaysTrue

\* A stopped run ends, whatever it was awaiting, and a message that arrives
\* during a run is answered, unless the process dies.
RequestsEnd == Task!StopEndsRun /\ Task!MessageReturns

===============================================================================
