------------------------------- MODULE Allocation -------------------------------
(***************************************************************************)
(* Which configuration a job is given.  stage_allocation.py decides from   *)
(* an input file; allocation_io.py runs it once for each evidence file,    *)
(* keeps the raw output first, and accepts the answer only if it computes  *)
(* the same from the input it has read.  The input may change at any time. *)
(***************************************************************************)
EXTENDS Naturals, FiniteSets

CONSTANTS
  Configurations, \* numbers: configuration identities, in their order
  Evidence,       \* evidence files a caller may name
  MaxEdits        \* replacements of the input file

VARIABLES
  input,          \* the input file
  evidence,       \* evidence[f]: the records in file f
  run,            \* run[f]: the adapter that writes f
  edits

vars == <<input, evidence, run, edits>>

None == 0
Costs == 0..1
\* A candidate: incapable, or capable with a cost of one of the statuses.
Candidates == {[status |-> "incapable", cost |-> 0]}
              \cup [status : {"observed"}, cost : Costs]
              \cup [status : {"unavailable", "source_selected"}, cost : {0}]
Inputs == [candidates : [Configurations -> Candidates], current : Configurations \cup {None},
           reuse : BOOLEAN, wanted : Configurations \cup {None}]

Answer(decision, chosen) == [decision |-> decision, chosen |-> chosen]
Successes == {"SELECTED", "RETAIN_CURRENT", "SOURCE_SELECTED"}

With(in, statuses) == {c \in Configurations : in.candidates[c].status \in statuses}
Capable(in) == With(in, {"observed", "unavailable", "source_selected"})
Measured(in) == With(in, {"observed"})
Unavailable(in) == With(in, {"unavailable"})
Cheapest(in) == {c \in Measured(in) : \A d \in Measured(in) :
                   in.candidates[c].cost <= in.candidates[d].cost}

\* RETAIN_CURRENT for a current configuration among those that may be kept.
RetainOr(in, these, otherwise) ==
  IF in.current \in these /\ in.reuse THEN Answer("RETAIN_CURRENT", in.current) ELSE otherwise

\* stage_allocation.main: wanted is the configuration an exact selection of the
\* source names; without one the costs are compared.
Allocate(in) ==
  IF in.wanted # None
  THEN IF in.candidates[in.wanted].status = "source_selected"
       THEN Answer("SOURCE_SELECTED", in.wanted) ELSE Answer("HELD", None)
  ELSE IF With(in, {"source_selected"}) # {} THEN Answer("HELD", None)
  ELSE IF Measured(in) = {}
       THEN RetainOr(in, Capable(in),
              Answer(IF Unavailable(in) # {} THEN "USER-DECISION" ELSE "NO_CAPABLE_CONFIGURATION",
                     None))
  ELSE IF Unavailable(in) # {} THEN RetainOr(in, Capable(in), Answer("USER-DECISION", None))
  ELSE IF Cardinality(Cheapest(in)) = 1
       THEN Answer("SELECTED", CHOOSE c \in Cheapest(in) : TRUE)
  ELSE RetainOr(in, Cheapest(in), Answer("USER-DECISION", None))

\* Fault: what has no cost is left out of the comparison.
ProjectMeasured(in) ==
  IF in.wanted # None THEN Answer("SOURCE_SELECTED", in.wanted)
  ELSE IF Measured(in) = {}
       THEN RetainOr(in, Capable(in), Answer("USER-DECISION", None))
  ELSE IF Cardinality(Cheapest(in)) = 1
       THEN Answer("SELECTED", CHOOSE c \in Cheapest(in) : TRUE)
  ELSE RetainOr(in, Cheapest(in), Answer("USER-DECISION", None))

\* _selection_projection: the same, computed by the adapter.  It does not ask
\* whether a source selection without that authority is among the candidates.
Project(in) ==
  IF in.wanted # None
  THEN IF in.wanted \in With(in, {"source_selected"})
       THEN Answer("SOURCE_SELECTED", in.wanted) ELSE Answer("error", None)
  ELSE IF Measured(in) = {}
       THEN RetainOr(in, Capable(in),
              Answer(IF Unavailable(in) # {} THEN "USER-DECISION" ELSE "NO_CAPABLE_CONFIGURATION",
                     None))
  ELSE IF Unavailable(in) # {} THEN RetainOr(in, Capable(in), Answer("USER-DECISION", None))
  ELSE IF Cardinality(Cheapest(in)) = 1
       THEN Answer("SELECTED", CHOOSE c \in Cheapest(in) : TRUE)
  ELSE RetainOr(in, Cheapest(in), Answer("USER-DECISION", None))

-------------------------------------------------------------------------------
NoOutput == [answer |-> Answer("none", None), stamp |-> None]
Idle == [at |-> "idle", bytes |-> <<>>, output |-> NoOutput]

Init ==
  /\ input \in {<<in, 0>> : in \in Inputs}
  /\ evidence = [f \in Evidence |-> {}]
  /\ run = [f \in Evidence |-> Idle]
  /\ edits = 0

\* run_allocation reads the input and creates the evidence file, exclusively.
Begin(f) ==
  /\ run[f].at = "idle"
  /\ evidence[f] = {}
  /\ evidence' = [evidence EXCEPT ![f] = {"created"}]
  /\ run' = [run EXCEPT ![f] = [Idle EXCEPT !.at = "begun", !.bytes = input]]
  /\ UNCHANGED <<input, edits>>

\* The allocator is started if the input still is what was read, and answers
\* from the file as it is then.
Launch(f) ==
  /\ run[f].at = "begun"
  /\ IF input = run[f].bytes
     THEN run' = [run EXCEPT ![f].at = "running"]
     ELSE run' = [run EXCEPT ![f].at = "exited"]
  /\ UNCHANGED <<input, evidence, edits>>

Exit(f) ==
  /\ run[f].at = "running"
  /\ run' = [run EXCEPT ![f].at = "exited", 
                                 ![f].output = [answer |-> Allocate(input[1]), stamp |-> input[2]]]
  /\ UNCHANGED <<input, evidence, edits>>

\* The raw output is on record before it is looked at.
KeepRaw(f) ==
  /\ run[f].at = "exited"
  /\ evidence' = [evidence EXCEPT ![f] = @ \cup {"raw"}]
  /\ run' = [run EXCEPT ![f].at = "kept"]
  /\ UNCHANGED <<input, edits>>

\* _consume_result: the answer is bound to the input that was read, and is
\* what the projection says; the input has not changed since.
Consume(f) ==
  /\ run[f].at = "kept"
  /\ LET out == run[f].output
         ready == /\ input = run[f].bytes
                  /\ out # NoOutput /\ out.stamp = run[f].bytes[2]
                  /\ out.answer = Project(run[f].bytes[1])
                  /\ out.answer.decision \in Successes
     IN run' = [run EXCEPT ![f].at = IF ready THEN "ready" ELSE "refused"]
  /\ evidence' = [evidence EXCEPT ![f] = @ \cup {"consumption"}]
  /\ UNCHANGED <<input, edits>>

\* The adapter dies, and leaves its evidence.
Die(f) ==
  /\ run[f].at \in {"begun", "running", "exited", "kept"}
  /\ run' = [run EXCEPT ![f].at = "idle"]
  /\ UNCHANGED <<input, evidence, edits>>

\* The stamp of the file changes with it, also where its bytes do not.
Edit ==
  /\ edits < MaxEdits
  /\ edits' = edits + 1
  /\ \E reuse \in BOOLEAN : input' = <<[input[1] EXCEPT !.reuse = reuse], edits'>>
  /\ UNCHANGED <<evidence, run>>

Next ==
    \/ Edit
    \/ \E f \in Evidence :
          Begin(f) \/ Launch(f) \/ Exit(f) \/ KeepRaw(f) \/ Consume(f) \/ Die(f)

Spec == Init /\ [][Next]_vars

-------------------------------------------------------------------------------
\* Every variable has its type.
TypeOK ==
  /\ input[1] \in Inputs
  /\ \A f \in Evidence : evidence[f] \subseteq {"created", "raw", "consumption"}

\* The allocator and the adapter decide alike on every input the allocator
\* answers; an allocation that is ready names a capable configuration of the
\* input that was read, and no measured one of that input is cheaper, unless
\* the source named it or it is the current one and something is unmeasured.
AllocationSound ==
  /\ TypeOK
  /\ LET answer == Allocate(input[1]) IN answer.decision # "HELD" => answer = Project(input[1])
  /\ \A f \in Evidence : run[f].at = "ready" =>
       LET in == run[f].bytes[1]
           chosen == run[f].output.answer.chosen IN
       /\ "raw" \in evidence[f]
       /\ chosen \in Capable(in)
       /\ \/ chosen = in.wanted
          \/ chosen = in.current /\ in.reuse /\ (Unavailable(in) # {} \/ chosen \in Cheapest(in))
          \/ Unavailable(in) = {} /\ Cheapest(in) = {chosen}

-------------------------------------------------------------------------------
(* Why AllocationSound holds                                               *)

\* A run has read an input, whose stamp names it; it keeps its output before that
\* is consumed; and it is ready only with what the allocator answers to the
\* input that was read, and the adapter as well.
RunKnown(f) ==
  /\ run[f].at \in {"idle", "begun", "running", "exited", "kept", "ready", "refused"}
  /\ run[f].at # "idle" => /\ run[f].bytes \in Inputs \X (0..edits)
                           /\ run[f].bytes[2] = edits => run[f].bytes = input
  /\ run[f].output # NoOutput /\ run[f].at # "idle" /\ run[f].output.stamp = run[f].bytes[2] =>
       run[f].output.answer = Allocate(run[f].bytes[1])
  /\ run[f].at \in {"begun", "running"} => run[f].output = NoOutput
  /\ run[f].at \in {"kept", "ready"} => "raw" \in evidence[f]
  /\ run[f].at = "ready" => /\ run[f].output.answer = Allocate(run[f].bytes[1])
                            /\ run[f].output.answer = Project(run[f].bytes[1])
                            /\ run[f].output.answer.decision \in Successes

AllocationInv ==
  /\ input \in Inputs \X {edits} /\ edits \in Nat
  /\ evidence \in [Evidence -> SUBSET {"created", "raw", "consumption"}]
  /\ DOMAIN run = Evidence
  /\ \A f \in Evidence : RunKnown(f)
===============================================================================
