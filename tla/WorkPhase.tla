------------------------------- MODULE WorkPhase -------------------------------
(***************************************************************************)
(* Source-wide work (work_phase.py): an owner keeps one document of the    *)
(* whole scope, its items, checks and findings, and asks about it before   *)
(* each action: evaluate says which holds there are and what comes next.   *)
(* It writes nothing: the owner of the model does what is admitted, and    *)
(* writes the document, as far as its reader accepts it.                   *)
(***************************************************************************)
EXTENDS Naturals, FiniteSets

CONSTANTS
  Items,          \* implementation items
  Checks,         \* numbers; odd and even ones are of different stages
  Causes          \* root causes of findings

VARIABLES
  phase, stage,   \* the owner's document
  item,           \* item[i]: pending or complete
  check,          \* check[c]: pending, pass, fail or blocked
  finding,        \* finding[c]: what was found by check c
  closed,         \* findings_closed
  reviews,        \* the coverage reviews there are
  accepted        \* the work was accepted

vars == <<phase, stage, item, check, finding, closed, reviews, accepted>>

NoFinding == [open |-> FALSE, mandatory |-> FALSE, cause |-> "none", consumer |-> "none"]
Findings == [open : BOOLEAN, mandatory : BOOLEAN, cause : Causes, consumer : Items]

Init ==
  /\ phase = "BUILD" /\ stage = 1
  /\ item = [i \in Items |-> "pending"]
  /\ check = [c \in Checks |-> "pending"]
  /\ finding = [c \in Checks |-> NoFinding]
  /\ closed = FALSE /\ reviews = {} /\ accepted = FALSE

\* _scope: which checks are of a stage.
Stage(c) == c % 2

\* _state: the documents that are read at all.
Readable(aPhase, someChecks, someFindings, isClosed, someReviews) ==
  /\ isClosed => \A c \in Checks : someChecks[c] = "fail" => someFindings[c] # NoFinding
  /\ aPhase # "BUILD" => someReviews = {"owner", "independent"}

-------------------------------------------------------------------------------
(* evaluate *)

PendingItems == {i \in Items : item[i] = "pending"}
Current == {c \in Checks : Stage(c) = stage}
PendingChecks == {c \in Current : check[c] = "pending"}
Mandatory == {c \in Checks : finding[c].open /\ finding[c].mandatory}
Collected == PendingChecks = {} /\ closed
AllPass == \A c \in Checks : check[c] = "pass"
Reviewed == reviews = {"owner", "independent"}

\* The items that a repair of these findings is for.
Consumers(findings) == {finding[c].consumer : c \in findings}

\* The findings that a repair of these must include.
WholeCauses(selected) ==
  {c \in Mandatory : \E d \in selected : finding[d].cause = finding[c].cause}

AllowedIn ==
  [BUILD |-> {"IMPLEMENT", "SCOPE_REVIEW", "CONSTRUCTION_FEEDBACK"},
   SWEEP |-> {"FORMAL_CHECK", "COLLECT_FINDINGS"},
   REPAIR |-> {"REPAIR_FINDINGS", "CONSTRUCTION_FEEDBACK"},
   ACCEPT |-> {"ACCEPT"}]

\* No hold stands against the action, asked for in that phase with the items,
\* checks and findings selected.
Admitted(aPhase, action, items, checks, findings) ==
  /\ action \in AllowedIn[aPhase]
  /\ aPhase # "BUILD" => PendingItems = {}
  /\ aPhase = "REPAIR" => Collected
  /\ action = "IMPLEMENT" => items # {} /\ items \subseteq PendingItems
  /\ action = "FORMAL_CHECK" => /\ PendingItems = {} /\ Reviewed
                                /\ checks # {} /\ checks \subseteq PendingChecks
  /\ action = "REPAIR_FINDINGS" =>
       /\ Collected
       /\ findings # {} /\ findings = WholeCauses(findings)
       /\ items = Consumers(findings)
  /\ action = "ACCEPT" => /\ PendingItems = {} /\ Reviewed /\ Mandatory = {}
                          /\ AllPass /\ closed

Advise(actions, aPhase, owner) == [actions |-> actions, phase |-> aPhase, owner |-> owner]

Failed == {c \in Current : check[c] = "fail"}
Later == {c \in Checks \ Current : check[c] # "pass"}

\* Fault: repairs are advised while findings are being collected.
AdviceEager ==
  IF PendingItems # {} THEN Advise({"IMPLEMENT"}, "BUILD", FALSE)
  ELSE IF ~Reviewed THEN Advise({"SCOPE_REVIEW"}, "BUILD", FALSE)
  ELSE IF Mandatory # {} THEN Advise({"REPAIR_FINDINGS"}, "REPAIR", FALSE)
  ELSE IF PendingChecks # {} THEN Advise({"FORMAL_CHECK"}, "SWEEP", FALSE)
  ELSE IF ~closed THEN Advise({"COLLECT_FINDINGS"}, "SWEEP", FALSE)
  ELSE IF AllPass THEN Advise({"ACCEPT"}, "ACCEPT", FALSE)
  ELSE Advise({}, phase, TRUE)

\* next_actions and next_phase; owner: the document must be changed first.
Advice ==
  IF PendingItems # {} THEN Advise({"IMPLEMENT"}, "BUILD", FALSE)
  ELSE IF ~Reviewed THEN Advise({"SCOPE_REVIEW"}, "BUILD", FALSE)
  ELSE IF PendingChecks # {} THEN Advise({"FORMAL_CHECK"}, "SWEEP", FALSE)
  ELSE IF ~closed THEN Advise({"COLLECT_FINDINGS"}, "SWEEP", FALSE)
  ELSE IF Mandatory # {} THEN Advise({"REPAIR_FINDINGS"}, "REPAIR", FALSE)
  ELSE IF AllPass THEN Advise({"ACCEPT"}, "ACCEPT", FALSE)
  ELSE IF Failed # {} THEN Advise({"FORMAL_CHECK"}, "SWEEP", TRUE)
  ELSE IF Later # {} /\ (\A c \in Current : check[c] = "pass")
       THEN Advise(IF \E c \in Later : check[c] # "blocked" THEN {"FORMAL_CHECK"} ELSE {},
                   "SWEEP", TRUE)
  ELSE Advise({}, phase, TRUE)

-------------------------------------------------------------------------------
(* The owner *)

\* He moves the document to the phase that is advised.
Move ==
  /\ Advice.phase # phase
  /\ Readable(Advice.phase, check, finding, closed, reviews)
  /\ phase' = Advice.phase
  /\ UNCHANGED <<stage, item, check, finding, closed, reviews, accepted>>

Implement(i) ==
  /\ Admitted(phase, "IMPLEMENT", {i}, {}, {})
  /\ item' = [item EXCEPT ![i] = "complete"]
  /\ UNCHANGED <<phase, stage, check, finding, closed, reviews, accepted>>

Review ==
  /\ Admitted(phase, "SCOPE_REVIEW", {}, {}, {})
  /\ \E r \in {"owner", "independent"} \ reviews : reviews' = reviews \cup {r}
  /\ UNCHANGED <<phase, stage, item, check, finding, closed, accepted>>

\* A failure that is not among the findings opens the collection again.
RunCheck(c) ==
  /\ Admitted(phase, "FORMAL_CHECK", {}, {c}, {})
  /\ \E result \in {"pass", "fail", "blocked"} : check' = [check EXCEPT ![c] = result]
  /\ \E isClosed \in {FALSE, closed} :
       closed' = isClosed /\ Readable(phase, check', finding, isClosed, reviews)
  /\ UNCHANGED <<phase, stage, item, finding, reviews, accepted>>

\* He records what failed, and closes the collection or not yet.
Collect ==
  /\ Admitted(phase, "COLLECT_FINDINGS", {}, {}, {})
  /\ \/ \E c \in {d \in Checks : check[d] = "fail"}, f \in {g \in Findings : g.open} :
          finding' = [finding EXCEPT ![c] = f] /\ UNCHANGED closed
     \/ closed' = TRUE /\ UNCHANGED finding
  /\ Readable(phase, check, finding', closed', reviews)
  /\ UNCHANGED <<phase, stage, item, check, reviews, accepted>>

Resolved(f) == [f EXCEPT !.open = FALSE]

\* A repair resolves the findings; their items may need to be built again.
Repair(findings) ==
  /\ Admitted(phase, "REPAIR_FINDINGS", Consumers(findings), {}, findings)
  /\ finding' = [c \in Checks |-> IF c \in findings THEN Resolved(finding[c]) ELSE finding[c]]
  /\ UNCHANGED <<phase, stage, item, check, closed, reviews, accepted>>

\* owner_state_transition_required: failed checks are to be run again, or
\* blocked ones whose dependency is there, or the other stage is next.
OwnerTransition ==
  /\ Advice.owner
  /\ \/ \E c \in Checks : /\ check[c] \in {"fail", "blocked"}
                          /\ check' = [check EXCEPT ![c] = "pending"] /\ stage' = Stage(c)
     \/ \E c \in Later : stage' = Stage(c) /\ UNCHANGED check
  /\ UNCHANGED <<phase, item, finding, closed, reviews, accepted>>

Accept ==
  /\ Admitted(phase, "ACCEPT", {}, {}, {})
  /\ ~accepted
  /\ accepted' = TRUE
  /\ UNCHANGED <<phase, stage, item, check, finding, closed, reviews>>

Next ==
  \/ Move \/ Review \/ Collect \/ OwnerTransition \/ Accept
  \/ \E i \in Items : Implement(i)
  \/ \E c \in Checks : RunCheck(c)
  \/ \E findings \in SUBSET Mandatory : Repair(findings)

Spec == Init /\ [][Next]_vars

-------------------------------------------------------------------------------
\* The parts of the document have their types.
TypeOK ==
  /\ phase \in {"BUILD", "SWEEP", "REPAIR", "ACCEPT"} /\ stage \in {0, 1}
  /\ item \in [Items -> {"pending", "complete"}]
  /\ check \in [Checks -> {"pending", "pass", "fail", "blocked"}]
  /\ finding \in [Checks -> Findings \cup {NoFinding}]
  /\ closed \in BOOLEAN /\ reviews \subseteq {"owner", "independent"} /\ accepted \in BOOLEAN

\* What is advised is admitted in the phase that is advised with it, for some
\* selection, unless the owner must change the document first.
AdviceAdmitted ==
  ~Advice.owner =>
    /\ Readable(Advice.phase, check, finding, closed, reviews)
    /\ \E action \in Advice.actions, items \in SUBSET Items, checks \in SUBSET Checks,
          findings \in SUBSET Checks : Admitted(Advice.phase, action, items, checks, findings)

\* An owner who follows the advice is never refused and never at a loss: what
\* is advised is admitted, only a blocked check leaves nothing to do, and what
\* he accepts has every item, every check of every stage and no open finding.
StaysReadable == Readable(phase, check, finding, closed, reviews)
NeverAtALoss == Advice.actions = {} => \E c \in Checks : check[c] = "blocked"
AcceptedWhole == accepted => AllPass /\ Mandatory = {} /\ PendingItems = {}
PhaseSound ==
  TypeOK /\ StaysReadable /\ AdviceAdmitted /\ NeverAtALoss /\ AcceptedWhole

\* Why: work that is accepted stays where nothing more is advised.
AcceptedLast == accepted => phase = "ACCEPT" /\ Reviewed /\ closed
PhaseInv == PhaseSound /\ AcceptedLast
===============================================================================
