---------------------------- MODULE WebJudgment ----------------------------
(***************************************************************************)
(* WebJudgments.evaluate (web_judgments.py): the two judgments of one Web  *)
(* exchange in the reviewed engine, before its request leaves and after it *)
(* ended.  Every model call is awaited, and meanwhile the policy, the      *)
(* sources of the task or a selected skill may change; every answer is     *)
(* compared with the binding the judgment began under before it is saved.  *)
(* After the exchange a learning is proposed, reviewed and, once accepted, *)
(* committed to the knowledge, once, whatever dies in between.             *)
(***************************************************************************)
EXTENDS Naturals, FiniteSets, Sequences

CONSTANTS MaxBindings, MaxSkills, MaxAttempts, MaxCrashes

VARIABLES
    binding,    \* the policy and the sources of the task, as a version
    skill,      \* the version of the skill the judgments select
    exchange,   \* the request: prepared, sent or ended
    work,       \* the saved judgment of each stage
    attempts,   \* the learnings proposed after the exchange
    knowledge,  \* the application that is committed, if one is
    parked,     \* the governed correction of each attempt
    reviews,    \* the review of the applied knowledge under each binding
    run,        \* the evaluation at work
    crashes

vars == <<binding, skill, exchange, work, attempts, knowledge, parked, reviews, run, crashes>>

Stages == {"before", "after"}
Bindings == 1 .. MaxBindings
Verdicts == {"proceed", "revise", "hold"}

NoWork == [open |-> FALSE, binding |-> 0, selection |-> 0, assessed |-> FALSE,
           reviewed |-> FALSE, verdict |-> "none", complete |-> FALSE,
           intent |-> 0, applied |-> 0]
NoKnowledge == [attempt |-> 0, binding |-> 0, commits |-> 0]
Idle == [pc |-> "idle", stage |-> "none", binding |-> 0]

Init ==
    /\ binding = 1
    /\ skill = 1
    /\ exchange = [stage |-> "prepared", binding |-> 0, skill |-> 0]
    /\ work = [s \in Stages |-> NoWork]
    /\ attempts = <<>>
    /\ knowledge = NoKnowledge
    /\ parked = [i \in 1 .. MaxAttempts |-> "none"]
    /\ reviews = [b \in Bindings |-> "none"]
    /\ run = Idle
    /\ crashes = 0

-----------------------------------------------------------------------------
(* The surroundings move while a model call is awaited, and never between  *)
(* two steps that do not wait.                                             *)

Straight == {"start", "learn", "decide", "park", "point", "apply", "note"}
Waiting == run.pc \notin Straight

ChangeBinding ==
    /\ Waiting
    /\ binding < MaxBindings
    /\ binding' = binding + 1
    /\ UNCHANGED <<skill, exchange, work, attempts, knowledge, parked, reviews, run, crashes>>

ChangeSkill ==
    /\ Waiting
    /\ skill < MaxSkills
    /\ skill' = skill + 1
    /\ UNCHANGED <<binding, exchange, work, attempts, knowledge, parked, reviews, run, crashes>>

ExchangeEnds ==
    /\ exchange.stage = "sent"
    /\ exchange' = [exchange EXCEPT !.stage = "ended"]
    /\ UNCHANGED <<binding, skill, work, attempts, knowledge, parked, reviews, run, crashes>>

\* The governed work a correction asked for comes back reviewed.
CorrectionReturns ==
    /\ run = Idle
    /\ \/ \E i \in DOMAIN parked :
             /\ parked[i] = "open"
             /\ parked' = [parked EXCEPT ![i] = "returned"]
             /\ UNCHANGED reviews
       \/ \E b \in Bindings :
             /\ reviews[b] = "open"
             /\ reviews' = [reviews EXCEPT ![b] = "returned"]
             /\ UNCHANGED parked
    /\ UNCHANGED <<binding, skill, exchange, work, attempts, knowledge, run, crashes>>

Quiet == UNCHANGED <<binding, skill, crashes>>

-----------------------------------------------------------------------------
(* Opening a judgment                                                      *)

\* Fault: the open corrections are not looked at.
AnyParentReturn == TRUE

\* No judgment of this collection goes on while a correction of it is open.
ParentReturned ==
    /\ \A i \in DOMAIN parked : parked[i] # "open"
    /\ \A b \in Bindings : reviews[b] # "open"

\* What a committed application says wins over whatever the work recorded.
RestoreApplied(w) == [w EXCEPT !.applied = knowledge.attempt]

\* A selection that changed is made again, its request not having left.
RefreshSelection(w) ==
    IF w.selection \notin {0, skill}
      THEN [NoWork EXCEPT !.open = TRUE, !.binding = w.binding]
      ELSE w

\* A judgment of another binding is history; only its commit remains.
Rebind(w, stage) ==
    IF w.binding = binding THEN w
    ELSE [NoWork EXCEPT !.open = TRUE, !.binding = binding,
                        !.selection = IF stage = "after" THEN w.selection ELSE 0,
                        !.intent = IF w.applied # 0 THEN w.intent ELSE 0,
                        !.applied = w.applied]

\* The judgment after the exchange keeps the selection made before it.
Current(stage) ==
    LET w == work[stage] IN
    IF ~w.open THEN [NoWork EXCEPT !.open = TRUE, !.binding = binding,
                         !.selection = IF stage = "after" THEN work["before"].selection ELSE 0]
    ELSE IF stage = "before" THEN Rebind(RefreshSelection(w), stage)
    ELSE Rebind(RestoreApplied(w), stage)

\* Where an evaluation goes on: at the first thing its work does not hold.
NextStep(w, stage) ==
    CASE w.selection = 0 -> "select"
      [] w.complete -> IF stage = "after" THEN "idle"
                       ELSE IF w.verdict = "proceed" THEN "start" ELSE "idle"
      [] ~w.assessed -> "assess"
      [] ~w.reviewed -> "review"
      [] w.verdict = "none" -> "dispose"
      [] stage = "before" -> "finish"
      [] w.applied = 0 -> "learn"
      [] OTHER -> "judge"

Enter(stage, w) ==
    /\ work' = [work EXCEPT ![stage] = w]
    /\ LET pc == NextStep(w, stage) IN
       run' = IF pc = "idle" THEN Idle ELSE [pc |-> pc, stage |-> stage, binding |-> binding]

Evaluate(stage) ==
    /\ run = Idle
    /\ ParentReturned
    /\ exchange.stage = (IF stage = "before" THEN "prepared" ELSE "ended")
    /\ Enter(stage, Current(stage))
    /\ UNCHANGED <<exchange, attempts, knowledge, parked, reviews>> /\ Quiet

-----------------------------------------------------------------------------
(* The judgment of the exchange                                            *)

AssertBinding == binding = run.binding

Raise == run' = Idle /\ UNCHANGED work

Mine == work[run.stage]

\* One awaited answer: saved under the binding it was asked under, or dropped.
Answered(pc, w) ==
    /\ run.pc = pc
    /\ IF AssertBinding THEN Enter(run.stage, w) ELSE Raise
    /\ UNCHANGED <<exchange, attempts, knowledge, parked, reviews>> /\ Quiet

\* Skills are selected before the request, and must still be current when the
\* selection is saved.
Select ==
    /\ run.pc = "select"
    /\ \E v \in 1 .. skill :
          LET w == [Mine EXCEPT !.selection = v] IN
          IF ~AssertBinding THEN Raise
          ELSE IF v = skill THEN Enter("before", w)
          ELSE run' = Idle /\ work' = [work EXCEPT !["before"] = w]
    /\ UNCHANGED <<exchange, attempts, knowledge, parked, reviews>> /\ Quiet

Assess == Answered("assess", [Mine EXCEPT !.assessed = TRUE])
Review == Answered("review", [Mine EXCEPT !.reviewed = TRUE])
Dispose == \E v \in Verdicts : Answered("dispose", [Mine EXCEPT !.verdict = v])

\* Fault: the request leaves with whatever was selected.
SelectionUnchecked(w) == TRUE

\* The request leaves only while the selected skill is what was judged.
AssertSelection(w) == w.selection = skill

\* No call is awaited between the comparisons, the completion and the start.
FinishBefore ==
    /\ run.pc = "finish"
    /\ IF AssertBinding /\ AssertSelection(Mine)
         THEN Enter("before", [Mine EXCEPT !.complete = TRUE])
         ELSE Raise
    /\ UNCHANGED <<exchange, attempts, knowledge, parked, reviews>> /\ Quiet

Start ==
    /\ run.pc = "start"
    /\ exchange' = [stage |-> "sent", binding |-> binding, skill |-> skill]
    /\ run' = Idle
    /\ UNCHANGED <<work, attempts, knowledge, parked, reviews>> /\ Quiet

-----------------------------------------------------------------------------
(* The learning from what the exchange brought                             *)

Last == Len(attempts)
Previous == attempts[Last]
Go(pc) == run' = [run EXCEPT !.pc = pc]
Learning == UNCHANGED <<exchange, work, knowledge, parked, reviews>> /\ Quiet

Attempt(b) == [binding |-> b, assessed |-> FALSE, reviewed |-> FALSE, verdict |-> "none",
               pointed |-> FALSE, consumed |-> FALSE, failed |-> "none"]

\* Fault: an attempt of another binding is taken up again.
ResumableAnyBinding ==
    /\ Last > 0
    /\ ~Previous.consumed
    /\ Previous.failed # "proposal"

\* A saved attempt is still to be consumed, its failed application included.
Resumable == ResumableAnyBinding /\ Previous.binding = run.binding

NextOf(a) == CASE ~a.assessed -> "choices"
               [] ~a.reviewed -> "opinion"
               [] a.verdict = "none" -> "verdict"
               [] OTHER -> "decide"

\* The proposal is compared with the knowledge as it is now.
Validated(list, a) ==
    \/ attempts' = Append(list, a) /\ Go(NextOf(a))
    \/ attempts' = Append(list, [a EXCEPT !.failed = "proposal"]) /\ Go("learn")

Resume ==
    /\ run.pc = "learn"
    /\ IF Last > 0 /\ Previous.pointed /\ parked[Last] = "open"
         THEN run' = Idle /\ UNCHANGED attempts
       ELSE IF Resumable THEN Validated(SubSeq(attempts, 1, Last - 1), Previous)
       ELSE Go("propose") /\ UNCHANGED attempts
    /\ Learning

Propose ==
    /\ run.pc = "propose"
    /\ Last < MaxAttempts
    /\ IF AssertBinding THEN Validated(attempts, Attempt(run.binding))
       ELSE run' = Idle /\ UNCHANGED attempts
    /\ Learning

AnsweredOf(pc, a) ==
    /\ run.pc = pc
    /\ IF AssertBinding
         THEN attempts' = [attempts EXCEPT ![Last] = a] /\ Go(NextOf(a))
         ELSE run' = Idle /\ UNCHANGED attempts
    /\ Learning

AssessChoices == AnsweredOf("choices", [Previous EXCEPT !.assessed = TRUE])
ReviewLearning == AnsweredOf("opinion", [Previous EXCEPT !.reviewed = TRUE])
DisposeLearning ==
    \E v \in Verdicts \cup {"governed"} :
        AnsweredOf("verdict", [Previous EXCEPT !.verdict = v])

\* The verdict is consumed without a wait.
Decide ==
    /\ run.pc = "decide"
    /\ CASE Previous.verdict = "proceed" ->
              /\ work' = [work EXCEPT !["after"].intent = Last]
              /\ Go("apply") /\ UNCHANGED attempts
         [] Previous.verdict = "hold" -> Raise /\ UNCHANGED attempts
         [] Previous.verdict = "governed" -> Go("park") /\ UNCHANGED <<work, attempts>>
         [] Previous.verdict = "revise" ->
              /\ attempts' = [attempts EXCEPT ![Last].consumed = TRUE]
              /\ Go("learn") /\ UNCHANGED work
    /\ UNCHANGED <<exchange, knowledge, parked, reviews>> /\ Quiet

\* A governed verdict opens a correction, once.
ParkLearning ==
    /\ run.pc = "park"
    /\ parked' = [parked EXCEPT ![Last] = IF @ = "none" THEN "open" ELSE @]
    /\ Go("point")
    /\ UNCHANGED <<exchange, work, attempts, knowledge, reviews>> /\ Quiet

\* Only its reviewed return lets another learning be proposed.
LearningReturn ==
    /\ run.pc = "point"
    /\ IF parked[Last] = "open"
         THEN /\ attempts' = [attempts EXCEPT ![Last].pointed = TRUE]
              /\ run' = Idle
         ELSE /\ attempts' = [attempts EXCEPT ![Last].pointed = TRUE, ![Last].consumed = TRUE]
              /\ Go("learn")
    /\ Learning

\* The commit of the knowledge: one for each exchange, of one input.
Committed(k) == IF knowledge.attempt # 0 THEN knowledge
                ELSE [attempt |-> k, binding |-> binding, commits |-> knowledge.commits + 1]

Apply ==
    /\ run.pc = "apply"
    /\ knowledge' = Committed(Last)
    /\ Go("note")
    /\ UNCHANGED <<exchange, work, attempts, parked, reviews>> /\ Quiet

\* A failure is recorded with the attempt, whether or not the commit was made.
ApplyFails ==
    /\ run.pc = "apply"
    /\ knowledge' \in {knowledge, Committed(Last)}
    /\ attempts' = [attempts EXCEPT ![Last].failed = "application"]
    /\ run' = Idle
    /\ UNCHANGED <<exchange, work, parked, reviews>> /\ Quiet

NoteApplied ==
    /\ run.pc = "note"
    /\ work' = [work EXCEPT !["after"].applied = knowledge.attempt]
    /\ Go("judge")
    /\ UNCHANGED <<exchange, attempts, knowledge, parked, reviews>> /\ Quiet

\* The outcome is reviewed once under each binding; the review is kept, and its
\* correction opened, before the binding is compared.
JudgeApplied ==
    /\ run.pc = "judge"
    /\ \E r \in {"done", "open"} :
          reviews' = [reviews EXCEPT ![run.binding] = IF @ = "none" THEN r ELSE @]
    /\ run' = Idle
    /\ work' = IF AssertBinding THEN [work EXCEPT !["after"].complete = TRUE] ELSE work
    /\ UNCHANGED <<exchange, attempts, knowledge, parked>> /\ Quiet

\* The process dies at any point.
Crash ==
    /\ run # Idle
    /\ crashes < MaxCrashes
    /\ crashes' = crashes + 1
    /\ run' = Idle
    /\ UNCHANGED <<binding, skill, exchange, work, attempts, knowledge, parked, reviews>>

Next ==
    \/ ChangeBinding \/ ChangeSkill \/ ExchangeEnds \/ CorrectionReturns
    \/ \E s \in Stages : Evaluate(s)
    \/ Select \/ Assess \/ Review \/ Dispose \/ FinishBefore \/ Start
    \/ Resume \/ Propose \/ AssessChoices \/ ReviewLearning \/ DisposeLearning \/ Decide
    \/ ParkLearning \/ LearningReturn \/ Apply \/ ApplyFails \/ NoteApplied \/ JudgeApplied
    \/ Crash

Spec == Init /\ [][Next]_vars

-----------------------------------------------------------------------------
(* What must hold                                                          *)

\* A request leaves under the policy and the sources its judgment was made
\* under, with the skills it selected as they are, and that judgment stands.
SentAsJudged ==
    exchange.stage # "prepared" =>
        LET w == work["before"] IN
        /\ w.complete /\ w.assessed /\ w.reviewed /\ w.verdict = "proceed"
        /\ w.binding = exchange.binding
        /\ w.selection = exchange.skill

\* One learning of an exchange is committed at most once, and only one that was
\* reviewed and accepted under the binding it was committed under.
AppliedAsAccepted ==
    /\ knowledge.commits <= 1
    /\ knowledge.attempt # 0 =>
          LET a == attempts[knowledge.attempt] IN
          /\ a.assessed /\ a.reviewed /\ a.verdict = "proceed"
          /\ a.binding = knowledge.binding
          /\ work["after"].intent = knowledge.attempt

\* Nothing is proposed again while a governed correction is open; under the same
\* binding the correction a verdict asked for was opened and has returned.
CorrectedFirst ==
    \A i \in 1 .. Len(attempts) - 1 :
        /\ parked[i] # "open"
        /\ (/\ attempts[i].verdict = "governed"
            /\ attempts[i].failed = "none"
            /\ attempts[i + 1].binding = attempts[i].binding) => parked[i] = "returned"

\* A judgment after the exchange is complete only with the committed learning it
\* names, reviewed under the binding of that judgment.
CompleteIsReviewed ==
    work["after"].complete =>
        /\ work["after"].applied = knowledge.attempt
        /\ knowledge.attempt # 0
        /\ reviews[work["after"].binding] # "none"

EvaluationSound ==
    SentAsJudged /\ AppliedAsAccepted /\ CorrectedFirst /\ CompleteIsReviewed
=============================================================================
