----------------------------- MODULE LocalOperation -----------------------------
(***************************************************************************)
(* One local process under evidence (operation_io.py): its specification   *)
(* is preserved in a new directory, the process is started once, and what  *)
(* was observed of it is written once.  What reads the result afterwards   *)
(* takes it for no more than the evidence bears.                           *)
(***************************************************************************)
EXTENDS Naturals

CONSTANTS
  Roots           \* evidence directories a caller may name

VARIABLES
  bound,          \* the bytes of the specification, its source and its methods
  directory,      \* directory[r]: what is in it
  process,        \* process[r]: the process started for it
  run,            \* run[r]: the runner
  result          \* result[r]: result.json

vars == <<bound, directory, process, run, result>>

NoResult == [status |-> "none", effect |-> "none", started |-> FALSE, exit |-> "none",
             changed |-> FALSE]
NoProcess == [started |-> 0, effects |-> FALSE, exit |-> "none"]
Idle == [at |-> "idle", scope |-> "read-only", bound |-> 0, exit |-> "none", status |-> "unknown",
         started |-> FALSE]

Init ==
  /\ bound = 1
  /\ directory = [r \in Roots |-> "absent"]
  /\ process = [r \in Roots |-> NoProcess]
  /\ run = [r \in Roots |-> Idle]
  /\ result = [r \in Roots |-> NoResult]

\* execute, up to request.json: a directory that exists is never used again.
Begin(r) ==
  /\ run[r].at = "idle"
  /\ directory[r] = "absent"
  /\ directory' = [directory EXCEPT ![r] = "request"]
  /\ \E scope \in {"read-only", "owned-local"} :
       run' = [run EXCEPT ![r] = [Idle EXCEPT !.at = "begun", !.scope = scope, !.bound = bound]]
  /\ UNCHANGED <<bound, process, result>>

\* The bindings are read again, and the process is started or cannot be.
Start(r) ==
  /\ run[r].at = "begun"
  /\ \/ /\ bound = run[r].bound
        /\ process' = [process EXCEPT ![r].started = @ + 1]
        /\ run' = [run EXCEPT ![r].at = "waiting", ![r].started = TRUE]
     \/ /\ run' = [run EXCEPT ![r].at = "ended", ![r].status = "failed"]
        /\ UNCHANGED process
  /\ UNCHANGED <<bound, directory, result>>

\* The process acts, if it is one that changes anything, and exits.
Act(r) ==
  /\ process[r].started = 1 /\ process[r].exit = "none"
  /\ \/ /\ run[r].scope = "owned-local" /\ ~process[r].effects
        /\ process' = [process EXCEPT ![r].effects = TRUE]
     \/ \E code \in {"accepted", "other"} : process' = [process EXCEPT ![r].exit = code]
  /\ UNCHANGED <<bound, directory, run, result>>

\* The exit is observed; or the time is up and the process is killed, or cannot
\* be, and nothing is concluded from it; or reading the streams fails.
Wait(r) ==
  /\ run[r].at = "waiting"
  /\ \/ /\ process[r].exit # "none"
        /\ run' = [run EXCEPT ![r].at = "ended", ![r].exit = process[r].exit,
             ![r].status = IF process[r].exit = "accepted" THEN "succeeded" ELSE "failed"]
     \/ run' = [run EXCEPT ![r].at = "ended", ![r].status = "unknown"]
  /\ UNCHANGED <<bound, directory, process, result>>

\* Fault: a process that failed has done nothing.
EffectUnlessFailed(r) ==
  IF run[r].status = "unknown" THEN "unknown"
  ELSE IF run[r].status = "failed" \/ run[r].scope = "read-only" THEN "none" ELSE "partial"
\* execute: effect_state
Effect(r) ==
  IF run[r].status = "unknown" THEN "unknown"
  ELSE IF ~run[r].started \/ run[r].scope = "read-only" THEN "none" ELSE "partial"

\* The finally clause of execute writes the result, exclusively.
WriteResult(r) ==
  /\ run[r].at = "ended"
  /\ result' = [result EXCEPT ![r] =
       [status |-> run[r].status, effect |-> Effect(r), started |-> run[r].started,
        exit |-> run[r].exit, changed |-> bound # run[r].bound]]
  /\ directory' = [directory EXCEPT ![r] = "result"]
  /\ run' = [run EXCEPT ![r].at = "idle"]
  /\ UNCHANGED <<bound, process>>

\* The runner dies; a caller may try the same directory again.
Die(r) ==
  /\ run[r].at # "idle"
  /\ run' = [run EXCEPT ![r] = [Idle EXCEPT !.scope = run[r].scope]]
  /\ UNCHANGED <<bound, directory, process, result>>

Rebind == bound = 1 /\ bound' = 2 /\ UNCHANGED <<directory, process, run, result>>

Next ==
  \/ Rebind
  \/ \E r \in Roots : Begin(r) \/ Start(r) \/ Act(r) \/ Wait(r) \/ WriteResult(r) \/ Die(r)

Spec == Init /\ [][Next]_vars

\* consume: what may be relied on; without a valid result nothing is known.
Reconcile(r) == result[r] = NoResult \/ result[r].effect \in {"partial", "unknown"}

\* build_next_operation prepares the next work on a result that is there and
\* whose bindings still hold; unknown effects are handed on with it.
NextWork(r) == directory[r] = "result" /\ ~result[r].changed

-------------------------------------------------------------------------------
\* Every variable has its type.
TypeOK ==
  /\ bound \in 1..2
  /\ \A r \in Roots : /\ directory[r] \in {"absent", "request", "result"}
                      /\ run[r].at \in {"idle", "begun", "waiting", "ended"}
                      /\ result[r].effect \in {"none", "partial", "unknown"}

\* A process is started at most once for its directory, whatever dies; effects
\* it has had are handed on for reconciliation; and success is an accepted exit.
OperationSound ==
  /\ TypeOK
  /\ \A r \in Roots : /\ process[r].started <= 1
                      /\ process[r].effects => Reconcile(r)
                      /\ result[r].status = "succeeded" => process[r].exit = "accepted"
                      /\ NextWork(r) => result[r] # NoResult

\* Why: a runner has its directory to itself and to the end, knows whether its
\* process was started, and concludes nothing but from the exit; a process
\* that did not end acts only if it may.
Runs == [at : {"idle", "begun", "waiting", "ended"}, scope : {"read-only", "owned-local"},
         bound : 0..2, exit : {"none", "accepted", "other"},
         status : {"unknown", "succeeded", "failed"}, started : BOOLEAN]
Results == [status : {"none", "unknown", "succeeded", "failed"},
            effect : {"none", "partial", "unknown"}, started : BOOLEAN,
            exit : {"none", "accepted", "other"}, changed : BOOLEAN]
Processes == [started : {0, 1}, effects : BOOLEAN, exit : {"none", "accepted", "other"}]
RunInv(r) ==
  /\ directory[r] = "absent" => run[r].at = "idle"
  /\ run[r].at # "idle" => directory[r] = "request"
  /\ directory[r] = "absent" \/ run[r].at = "begun" => process[r].started = 0
  /\ run[r].at = "begun" => ~run[r].started /\ run[r].status = "unknown"
  /\ run[r].at = "waiting" => run[r].started
  /\ run[r].at \in {"waiting", "ended"} => (run[r].started <=> process[r].started = 1)
  /\ run[r].at = "ended" /\ run[r].started /\ run[r].status # "unknown"
       => process[r].exit # "none"
  /\ run[r].at = "ended" /\ run[r].status = "succeeded" => process[r].exit = "accepted"
  /\ process[r].started = 0 => ~process[r].effects /\ process[r].exit = "none"
  /\ process[r].effects => run[r].scope = "owned-local"
  /\ directory[r] = "result" <=> result[r] # NoResult
  /\ result[r] # NoResult /\ result[r].effect = "none" =>
       /\ ~process[r].effects
       /\ process[r].started = 0 \/ process[r].exit # "none" \/ run[r].scope = "read-only"
OperationInv ==
  /\ OperationSound
  /\ directory \in [Roots -> {"absent", "request", "result"}]
  /\ process \in [Roots -> Processes]
  /\ run \in [Roots -> Runs]
  /\ result \in [Roots -> Results]
  /\ \A r \in Roots : RunInv(r)
===============================================================================
