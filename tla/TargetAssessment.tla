----------------------------- MODULE TargetAssessment -----------------------------
(***************************************************************************)
(* An assessment of many targets (bounded_judgments.py): the targets go to *)
(* the model in groups.  A group whose response is cut off is asked again  *)
(* in halves; of a response with some rows in order, these are kept and    *)
(* the others corrected.  A stage that is interrupted starts over, and     *)
(* what is on record of each request stands for the request.               *)
(*                                                                         *)
(* One request, with its feedback, is the subject of ModelJudgment.  A     *)
(* request is known by its targets and the number of corrections before it.*)
(***************************************************************************)
EXTENDS Naturals, Sequences, FiniteSets

CONSTANTS
  Targets,        \* numbers
  GroupLimit,     \* _assessment_group_limit
  Capacity,       \* what fits into one request, in the measure of size
  MaxCorrections, MaxCrashes

VARIABLES
  size,           \* size[t]: fixed, but any
  asked,          \* bounded_model_call: the requests, and what came of each
  run,            \* the stage: requests to be made, in order, and complete leaves
  result,         \* bounded_assessment_result: the request that judged each target, once complete
  crashes

vars == <<size, asked, run, result, crashes>>

NoResult == [t \in Targets |-> [part |-> {}, depth |-> 0]]
Idle == [at |-> "idle", todo |-> <<>>, leaves |-> {}]

Init ==
  /\ size \in [Targets -> 1..Capacity]
  /\ asked = {} /\ run = Idle /\ result = NoResult /\ crashes = 0

First(part) == CHOOSE t \in part : \A other \in part : t <= other
Weight(part) ==
  LET sum[rest \in SUBSET part] ==
        IF rest = {} THEN 0 ELSE size[First(rest)] + sum[rest \ {First(rest)}]
  IN sum[part]
\* _fits
Fits(part) == Weight(part) <= Capacity

\* The first targets of part, as many as make a group.
Group(part) ==
  LET Front(n) == {t \in part : Cardinality({other \in part : other <= t}) <= n}
      Good(n) == n = 1 \/ (n <= GroupLimit /\ \A m \in 2..n : Fits(Front(m)))
  IN Front(CHOOSE n \in 1..Cardinality(part) :
             Good(n) /\ (n = Cardinality(part) \/ ~Good(n + 1)))

\* _assessment_target_groups
Groups ==
  LET groups[rest \in SUBSET Targets] ==
        IF rest = {} THEN <<>> ELSE <<Group(rest)>> \o groups[rest \ Group(rest)]
  IN groups[Targets]
Singles ==
  LET singles[rest \in SUBSET Targets] ==
        IF rest = {} THEN <<>> ELSE <<{First(rest)}>> \o singles[rest \ {First(rest)}]
  IN singles[Targets]

\* _has_saved_assessment_target_leaves: single targets were asked for, and
\* nothing else.
\* Fault: single targets were asked for.
SavedSinglesAny == \E a \in asked : Cardinality(a.part) = 1
SavedSingles == asked # {} /\ \A a \in asked : Cardinality(a.part) = 1

Request(part, depth) == [part |-> part, depth |-> depth]
Requests(parts) == [i \in DOMAIN parts |-> Request(parts[i], 0)]

\* assess_targets
Begin ==
  /\ run.at = "idle" /\ result = NoResult
  /\ run' = [at |-> "paging", todo |-> Requests(IF SavedSingles THEN Singles ELSE Groups),
             leaves |-> {}]
  /\ UNCHANGED <<size, asked, result, crashes>>

Head1 == Head(run.todo)
Saved == {a \in asked : Request(a.part, a.depth) = Head1}
Return == CHOOSE a \in Saved : TRUE

\* A request that is not on record is made; it is on record before it is sent.
Ask ==
  /\ run.at = "paging" /\ run.todo # <<>> /\ Saved = {}
  /\ asked' = asked \cup {[part |-> Head1.part, depth |-> Head1.depth, outcome |-> "started",
                           good |-> {}]}
  /\ run' = [run EXCEPT !.at = "waiting"]
  /\ UNCHANGED <<size, result, crashes>>

\* partial_assessments: some rows are in order, or it is a single one that is
\* not; with too many corrections the stage gives up, as with any other fault.
Separable(part, good) == good # part /\ (good # {} \/ Cardinality(part) = 1)

\* The response: whole; cut off, or of the wrong length; of separable rows; or
\* with a defect that was repeated, which ends the stage.
Respond ==
  /\ run.at = "waiting"
  /\ \E outcome \in {"whole", "short", "partial", "held"}, good \in SUBSET Head1.part :
       /\ CASE outcome = "whole" -> good = Head1.part
            [] outcome = "short" -> good = {}
            [] outcome = "partial" -> good # {} /\ Separable(Head1.part, good)
            [] outcome = "held" -> good # Head1.part
       /\ asked' = (asked \ Saved) \cup {[Return EXCEPT !.outcome = outcome, !.good = good]}
       /\ run' = IF outcome = "held" THEN Idle ELSE [run EXCEPT !.at = "paging"]
  /\ UNCHANGED <<size, result, crashes>>

\* A page that was answered as a whole is a leaf.
Leaf ==
  /\ run.at = "paging" /\ run.todo # <<>> /\ Saved # {}
  /\ Return.outcome = "whole"
  /\ run' = [run EXCEPT !.todo = Tail(@), !.leaves = @ \cup {Head1}]
  /\ UNCHANGED <<size, asked, result, crashes>>

\* _smaller_parts: the halves of a page, in order; one target has none.
Halves(part) ==
  LET front == {t \in part : 2 * Cardinality({other \in part : other <= t}) <= Cardinality(part)}
  IN <<front, part \ front>>

Split ==
  /\ run.at = "paging" /\ run.todo # <<>> /\ Saved # {}
  /\ Return.outcome = "short"
  /\ IF Cardinality(Head1.part) = 1 THEN run' = Idle
     ELSE run' = [run EXCEPT !.todo =
            [i \in 1..2 |-> Request(Halves(Head1.part)[i], Head1.depth)] \o Tail(@)]
  /\ UNCHANGED <<size, asked, result, crashes>>

\* Fault: the correction asks for all the targets again.
UnresolvedAll(return) == return.part
\* _assessment_correction_payload: what is in order is not asked for again.
Unresolved(return) == return.part \ return.good

\* The rows in order are a leaf, and the others make a new request.
Correct ==
  /\ run.at = "paging" /\ run.todo # <<>> /\ Saved # {}
  /\ Return.outcome \in {"partial", "held"} /\ Separable(Return.part, Return.good)
  /\ Head1.depth < MaxCorrections
  /\ run' = [run EXCEPT !.leaves = IF Return.good = {} THEN @ ELSE @ \cup {Head1},
                        !.todo = <<Request(Unresolved(Return), Head1.depth + 1)>> \o Tail(@)]
  /\ UNCHANGED <<size, asked, result, crashes>>

\* What was sent and never answered is not sent again; nor is a repeated
\* defect, or one that was corrected too often here.
Hold ==
  /\ run.at = "paging" /\ run.todo # <<>> /\ Saved # {}
  /\ \/ Return.outcome = "started"
     \/ Return.outcome = "held" /\ ~Separable(Return.part, Return.good)
     \/ Return.outcome \in {"partial", "held"} /\ Head1.depth = MaxCorrections
  /\ run' = Idle
  /\ UNCHANGED <<size, asked, result, crashes>>

\* _ordered_assessments: every target once, or not at all.
Judged(t) == {leaf \in run.leaves :
                \E a \in asked : Request(a.part, a.depth) = leaf /\ t \in a.good}
Covered == \A t \in Targets : Cardinality(Judged(t)) = 1

\* _retain_assessments, by references to the requests.
Finish ==
  /\ run.at = "paging" /\ run.todo = <<>>
  /\ Covered
  /\ result' = [t \in Targets |-> CHOOSE leaf \in Judged(t) : TRUE]
  /\ run' = Idle
  /\ UNCHANGED <<size, asked, crashes>>

Crash ==
  /\ run.at # "idle" /\ crashes < MaxCrashes
  /\ crashes' = crashes + 1
  /\ run' = Idle
  /\ UNCHANGED <<size, asked, result>>

Next ==
  Begin \/ Ask \/ Respond \/ Leaf \/ Split \/ Correct \/ Hold \/ Finish \/ Crash

Spec == Init /\ [][Next]_vars

-------------------------------------------------------------------------------
\* Every variable has its type.
TypeOK ==
  /\ size \in [Targets -> 1..Capacity]
  /\ \A a \in asked : a.part \subseteq Targets /\ a.good \subseteq a.part
  /\ run.at \in {"idle", "paging", "waiting"}

\* However often the stage is interrupted, and whatever the responses are, no
\* target is asked for again once a response has a row for it that is in order;
\* a stage that has asked for everything has every target judged exactly once;
\* and the result refers to rows that are on record.
AssessmentSound ==
  /\ TypeOK
  /\ \A a, b \in asked : a # b => a.good \cap b.good = {}
  /\ run.at = "waiting" => \A a \in asked : a.good \cap Head1.part = {}
  /\ run.at = "paging" /\ run.todo = <<>> => Covered
  /\ result # NoResult =>
       \A t \in Targets : \E a \in asked : Request(a.part, a.depth) = result[t] /\ t \in a.good
===============================================================================
