---------------------------- MODULE LivenessProofs ----------------------------
(***************************************************************************)
(* The Executor and the task that Liveness runs side by side: the side of  *)
(* the Executor is a behaviour of the Executor, so that what ExecutorProofs *)
(* proves of it holds there.  What eventually happens is left to TLC.      *)
(***************************************************************************)
EXTENDS Liveness, ExecutorProofs

\* Whatever the task does, the Executor starts as its module says.
LEMMA LivenessStarts == LivenessInit => Init
  BY DEF LivenessInit, WorkspaceInit

\* A step is one of the Executor, or leaves it as it was.
LEMMA LivenessSteps == [LivenessNext]_livenessVars => [Next]_vars
  BY DEF LivenessNext, WorkspaceNext, livenessVars

\* So every behaviour of the two is, as to the Executor, one of its own.
THEOREM LivenessRunsExecutor == LivenessSpec => Spec
  BY LivenessStarts, LivenessSteps, PTL DEF LivenessSpec, Spec

\* What a read, a container and a command put on record is so, also while a time
\* limit, the user or a crash ends their calls: a success is one that was seen, and
\* a call answered "failed, no effect" had none and has none later.
THEOREM ResultsRemainReal ==
  ASSUME OneCancellation
  PROVE  LivenessSpec => []ResultsAreReal
  <1>1. SuccessIsReal /\ NoneStaysTrue => ResultsAreReal
    BY DEF ResultsAreReal
  <1> QED
    BY <1>1, LivenessRunsExecutor, RecordedSuccess, NoneIsTrue, PTL

===============================================================================
