------------------------- MODULE SourcePreparation --------------------------
(***************************************************************************)
(* An attachment a model cannot read (source_preparation.py with the       *)
(* source methods of store.py): governed operations stage its bytes, run   *)
(* an extractor, accept the text, or withdraw the attachment on the user's *)
(* later words; only confirm, after the whole reviewed cycle, lets a plan  *)
(* use the outcome.  The user may add an instruction between any two       *)
(* steps, and a crash leaves a result to be reconciled.  A reviewer is     *)
(* taken to read the instructions there are: what is checked is what       *)
(* happens when there are more of them by the time a decision takes        *)
(* effect.                                                                 *)
(***************************************************************************)
EXTENDS Naturals, Sequences

CONSTANTS MaxOps, MaxSources, MaxEdits, MaxCrashes   \* bounds of an instance

VARIABLES
    says,        \* the user's instructions after the attachment, what each says of it
    status,      \* the attachment: pending, applied or withdrawn
    decided,     \* how many instructions there were when it was withdrawn
    file,        \* its copy in the workspace
    output,      \* the extractor's file: 0, the operation that wrote it, or Edited
    op,          \* the governed operations
    record,      \* source_preparation: the protected record of each
    confirmed,   \* source_preparation_confirmation and its pending form
    extraction,  \* source_extraction: the operation whose text was confirmed
    current,     \* the operation of the task's cycle, 0 for none
    edits, crashes

vars == <<says, status, decided, file, output, op, record, confirmed, extraction,
          current, edits, crashes>>

Ops == 1 .. MaxOps
Preparations == {"stage", "accept", "withdraw", "retain"}
Modes == Preparations \cup {"exec", "plan", "reconcile"}
Edited == MaxOps + 1
Words == {"other", "withdraw", "keep"}

NoOp == [mode |-> "none", status |-> "none", result |-> "none", src |-> 0, cites |-> 0,
         target |-> 0, stage |-> 0, exec |-> 0, text |-> 0, prior |-> {},
         before |-> "absent", after |-> "absent", found |-> "unknown"]

Init ==
    /\ says = <<>> /\ status = "pending" /\ decided = 0
    /\ file = "absent" /\ output = 0
    /\ op = [o \in Ops |-> NoOp]
    /\ record = [o \in Ops |-> "none"]
    /\ confirmed = [o \in Ops |-> "none"]
    /\ extraction = 0 /\ current = 0
    /\ edits = 0 /\ crashes = 0

\* The source hash names the whole append-only history, so its length stands for it.
SourceHash == Len(says)

\* The last instruction, of the first n, that decides about the attachment.
Decisive(n) ==
    LET those == {i \in 1 .. n : says[i] # "other"} IN
    IF those = {} THEN 0 ELSE CHOOSE i \in those : \A j \in those : j <= i
Verdict(n) == IF Decisive(n) = 0 THEN "keep" ELSE says[Decisive(n)]

\* A row whose pre and post bundles were accepted unchanged and learned from.
Reviewed(o) == op[o].status \in {"learned", "complete"} /\ op[o].result = "ok"

\* Its protected record holds the same confirmed result.
Protected(o) == Reviewed(o) /\ record[o] = "ok"

Attempts == {o \in Ops : confirmed[o] = "pending"}
Prepared == status # "withdrawn" /\ extraction # 0 /\ Reviewed(extraction)
Pending == Attempts # {} \/ (status = "pending" /\ ~Prepared)
Unknown == {o \in Ops : \/ op[o].result = "unknown"
                        \/ op[o].status = "executing" /\ op[o].result = "none"}

-----------------------------------------------------------------------------
(* Candidates: what an operation is reviewed for                           *)

\* The extractor's own record: the exact original went in and was left alone.
Preserved(e) == op[e].before = "original" /\ op[e].after = "original"

\* Fault: the output is taken as it is found.
ExtractionOfAnyBytes(d) ==
    /\ Protected(d.stage) /\ op[d.stage].mode = "stage"
    /\ Reviewed(d.exec) /\ op[d.exec].mode = "exec" /\ Preserved(d.exec)

\* The output is the file the extractor's record says it changed.
Extraction(d) ==
    /\ Protected(d.stage) /\ op[d.stage].mode = "stage"
    /\ Reviewed(d.exec) /\ op[d.exec].mode = "exec" /\ Preserved(d.exec)
    /\ output = d.exec

\* A reviewer accepts the quote of an instruction that says what is decided.
Quoted(d, word) == d.cites # 0 /\ d.cites = Decisive(d.src) /\ says[d.cites] = word

Later(d, p) ==
    /\ d.cites >= op[p].cites
    /\ op[p].mode = "withdraw" => d.cites # op[p].cites

Describable(d) ==
    CASE d.mode = "stage" -> status = "pending" /\ file = "absent"
      [] d.mode = "accept" -> status = "pending" /\ Extraction(d) /\ d.text = output
      [] d.mode = "withdraw" ->
            status = "pending" /\ Quoted(d, "withdraw") /\ d.prior = Attempts
      [] d.mode = "retain" ->
            /\ Attempts # {} /\ status \in {"pending", "applied"}
            /\ Quoted(d, "keep") /\ d.prior = Attempts
            /\ \A p \in Attempts : Later(d, p)
      [] d.mode = "plan" -> ~Pending
      [] d.mode = "reconcile" -> op[d.target].result = "unknown" /\ op[d.target].status = "complete"
      [] OTHER -> d.before = file      \* the reviewed manifest of an execution

AllowedWithUnknown(mode) == Unknown = {} \/ mode \in {"plan", "reconcile"}

\* The proposals with the arguments their mode takes.
Proposals ==
    {[NoOp EXCEPT !.mode = m, !.status = "reviewed", !.src = SourceHash] : m \in {"stage", "plan"}}
    \cup {[NoOp EXCEPT !.mode = "exec", !.status = "reviewed", !.src = SourceHash,
                       !.before = file]}
    \cup {[NoOp EXCEPT !.mode = "reconcile", !.status = "reviewed", !.src = SourceHash,
                       !.target = t] : t \in Unknown}
    \cup {[NoOp EXCEPT !.mode = "accept", !.status = "reviewed", !.src = SourceHash,
                       !.stage = used[1], !.exec = used[2], !.text = output] :
             used \in Ops \X Ops}
    \cup {[NoOp EXCEPT !.mode = m, !.status = "reviewed", !.src = SourceHash,
                       !.cites = Decisive(SourceHash), !.prior = Attempts] :
             m \in {"withdraw", "retain"}}

\* Proposed and reviewed before its execution; preparation only while something is pending.
Propose(o) ==
    /\ current = 0
    /\ op[o].mode = "none" /\ \A p \in 1 .. o - 1 : op[p].mode # "none"
    /\ \E d \in Proposals :
          /\ Describable(d)
          /\ AllowedWithUnknown(d.mode)
          /\ op' = [op EXCEPT ![o] = d]
    /\ current' = o
    /\ UNCHANGED <<says, status, decided, file, output, record, confirmed, extraction,
                   edits, crashes>>

\* The boundary puts an operation aside that belongs to earlier instructions.
Superseded ==
    /\ current # 0 /\ op[current].status = "reviewed" /\ op[current].src # SourceHash
    /\ op' = [op EXCEPT ![current].status = "superseded"]
    /\ current' = 0
    /\ UNCHANGED <<says, status, decided, file, output, record, confirmed, extraction,
                   edits, crashes>>

-----------------------------------------------------------------------------
(* Execution                                                               *)

Recorded(o, result) == [op EXCEPT ![o].status = "recorded", ![o].result = result]

\* The permit is consumed; the candidate must be the one that was reviewed.
Begins(mode) ==
    /\ current # 0
    /\ op[current].mode = mode /\ op[current].status = "reviewed"
    /\ op[current].src = SourceHash
    /\ Describable(op[current])

\* The permit is consumed in a transaction of its own.
Start(mode) ==
    /\ mode \in Preparations \cup {"exec"}
    /\ Begins(mode)
    /\ op' = [op EXCEPT ![current].status = "executing"]
    /\ UNCHANGED <<says, status, decided, file, output, record, confirmed, extraction,
                   current, edits, crashes>>

Executing(mode) == current # 0 /\ op[current].mode = mode /\ op[current].status = "executing"

\* Then the protected record, before anything is done.
Prepare ==
    /\ \E mode \in Preparations : Executing(mode)
    /\ record[current] = "none"
    /\ record' = [record EXCEPT ![current] = "prepared"]
    /\ UNCHANGED <<says, status, decided, file, output, op, confirmed, extraction, current,
                   edits, crashes>>

\* The executor publishes the exact bytes where nothing was.
StageWrites ==
    /\ Executing("stage") /\ record[current] = "prepared" /\ file = "absent"
    /\ file' = "original"
    /\ op' = [op EXCEPT ![current].after = "original"]
    /\ UNCHANGED <<says, status, decided, output, record, confirmed, extraction, current,
                   edits, crashes>>

\* _save_stage_result with what the executor observed.
StageSaved(o) ==
    IF op[o].after # "original" THEN "failed"
    ELSE IF file = "original" THEN "ok" ELSE "unknown"

StageReturns ==
    /\ Executing("stage") /\ record[current] = "prepared"
    /\ op[current].after = "original" \/ file # "absent"
    /\ record' = [record EXCEPT ![current] = IF op[current].after = "original"
                                               THEN "ok" ELSE "failed"]
    /\ op' = Recorded(current, record'[current])
    /\ UNCHANGED <<says, status, decided, file, output, confirmed, extraction, current,
                   edits, crashes>>

\* The extractor writes its output; a program may also spoil its input.
ExecReturns ==
    /\ Executing("exec")
    /\ \E f \in {file, IF file = "absent" THEN "absent" ELSE "changed"} :
          /\ file' = f
          /\ op' = [Recorded(current, "ok") EXCEPT ![current].after = f]
    /\ output' = current
    /\ UNCHANGED <<says, status, decided, record, confirmed, extraction, current,
                   edits, crashes>>

\* Capture and its terminal record are one transaction; the result follows it.
Capturing == /\ current # 0 /\ op[current].status = "executing"
             /\ op[current].mode \in {"accept", "withdraw", "retain"}

Capture ==
    /\ Capturing /\ record[current] = "prepared"
    /\ op[current].mode = "accept" => Extraction(op[current]) /\ op[current].text = output
    /\ op' = [op EXCEPT ![current].text = IF op[current].mode = "accept" THEN output ELSE @]
    /\ record' = [record EXCEPT ![current] = "ok"]
    /\ UNCHANGED <<says, status, decided, file, output, confirmed, extraction, current,
                   edits, crashes>>

CaptureReturns ==
    /\ Capturing /\ record[current] = "ok"
    /\ op' = Recorded(current, "ok")
    /\ UNCHANGED <<says, status, decided, file, output, record, confirmed, extraction,
                   current, edits, crashes>>

\* A plan classifies every pending source, in one transaction with its result.
ApplyPlan ==
    /\ Begins("plan")
    /\ Attempts = {}
    /\ status' = IF status = "pending" THEN "applied" ELSE status
    /\ op' = Recorded(current, "ok")
    /\ UNCHANGED <<says, decided, file, output, record, confirmed, extraction, current,
                   edits, crashes>>

\* What the record, or the executor, can still say of a result that was lost.
Observed(o) ==
    CASE op[o].mode = "exec" -> "failed"
      [] record[o] = "none" -> "unknown"      \* it died between permit and record
      [] record[o] \in {"ok", "failed"} -> record[o]
      [] op[o].mode = "stage" -> StageSaved(o)
      [] OTHER -> "failed"      \* the capture was not committed

Reconcile ==
    /\ Begins("reconcile")
    /\ LET t == op[current].target IN
       /\ op' = [Recorded(current, "ok") EXCEPT ![current].found = Observed(t)]
       /\ record' = [record EXCEPT ![t] = IF @ = "prepared" /\ Observed(t) # "unknown"
                                            THEN Observed(t) ELSE @]
    /\ UNCHANGED <<says, status, decided, file, output, confirmed, extraction, current,
                   edits, crashes>>

\* The reviewed outcome and its learning; a reconciliation replaces the lost result.
Learn ==
    /\ current # 0 /\ op[current].status = "recorded"
    /\ LET d == op[current] IN
       op' = [o \in Ops |->
                IF o = current THEN [op[o] EXCEPT !.status = "learned"]
                ELSE IF d.mode = "reconcile" /\ o = d.target THEN [op[o] EXCEPT !.result = d.found]
                ELSE op[o]]
    /\ UNCHANGED <<says, status, decided, file, output, record, confirmed, extraction,
                   current, edits, crashes>>

-----------------------------------------------------------------------------
(* Confirmation, when the cycle closes                                     *)

\* Fault: a recovered result is not handed to the operation it belongs to.
ConsumerOfOwn(o) == IF op[o].result = "ok" /\ op[o].mode \in Preparations THEN {o} ELSE {}

\* The preparation whose result this cycle makes available: its own, or the one it recovered.
Consumer(o) ==
    LET c == IF op[o].mode = "reconcile" THEN op[o].target ELSE o IN
    IF op[o].result = "ok" /\ op[c].result = "ok" /\ op[c].mode \in Preparations
      THEN {c} ELSE {}

Disposition(c) == op[c].mode \in {"withdraw", "retain"}

\* Fault: a withdrawal takes effect although the instructions have moved on.
OutdatedNever(c) == FALSE

\* The instructions changed since the disposition was reviewed.
Outdated(c) == Disposition(c) /\ op[c].src # SourceHash

Complete == op' = [op EXCEPT ![current].status = "complete"] /\ current' = 0

MayClose == current # 0 /\ op[current].status = "learned"

\* Nothing to confirm, or confirmed (or answered by a later disposition) before.
CloseOnly ==
    /\ MayClose
    /\ \A c \in Consumer(current) : confirmed[c] \in {"confirmed", "superseded"}
    /\ Complete
    /\ UNCHANGED <<says, status, decided, file, output, record, confirmed, extraction,
                   edits, crashes>>

Revalidate ==
    /\ MayClose
    /\ \E c \in Consumer(current) :
          /\ confirmed[c] \in {"none", "pending"} /\ Outdated(c)
          /\ confirmed' = [confirmed EXCEPT ![c] = "pending"]
    /\ Complete
    /\ UNCHANGED <<says, status, decided, file, output, record, extraction, edits, crashes>>

\* One transaction; the store refuses the withdrawal of an attachment a plan has applied.
Confirm ==
    /\ MayClose
    /\ \E c \in Consumer(current) :
          /\ confirmed[c] \in {"none", "pending"} /\ ~Outdated(c)
          /\ op[c].mode = "withdraw" => status = "pending"
          /\ Disposition(c) => \A p \in op[c].prior : confirmed[p] = "pending"
          /\ confirmed' = [o \in Ops |->
                 IF o = c THEN "confirmed"
                 ELSE IF Disposition(c) /\ o \in op[c].prior THEN "superseded"
                 ELSE confirmed[o]]
          /\ extraction' = IF op[c].mode = "accept" THEN c ELSE extraction
          /\ status' = IF op[c].mode = "withdraw" THEN "withdrawn" ELSE status
          /\ decided' = IF op[c].mode = "withdraw" THEN SourceHash ELSE decided
    /\ Complete
    /\ UNCHANGED <<says, file, output, record, edits, crashes>>

-----------------------------------------------------------------------------
(* The user, other programs, and a crash                                   *)

\* Only an execution in the executor awaits; nothing is served before that.
Unawaited ==
    \/ Capturing
    \/ Executing("stage") /\ record[current] = "none"

Instruct ==
    /\ Len(says) < MaxSources
    /\ ~Unawaited
    /\ \E m \in Words : says' = Append(says, m)
    /\ UNCHANGED <<status, decided, file, output, op, record, confirmed, extraction,
                   current, edits, crashes>>

Edit ==
    /\ edits < MaxEdits /\ edits' = edits + 1
    /\ \/ file = "original" /\ file' = "changed" /\ UNCHANGED output
       \/ output \in Ops /\ output' = Edited /\ UNCHANGED file
    /\ UNCHANGED <<says, status, decided, op, record, confirmed, extraction, current, crashes>>

\* The next run records the started operation's missing result as unknown.
Crash ==
    /\ crashes < MaxCrashes /\ crashes' = crashes + 1
    /\ current # 0 /\ op[current].status = "executing"
    /\ op' = Recorded(current, "unknown")
    /\ UNCHANGED <<says, status, decided, file, output, record, confirmed, extraction,
                   current, edits>>

Next ==
    \/ \E o \in Ops : Propose(o)
    \/ Superseded
    \/ \E m \in Preparations \cup {"exec"} : Start(m)
    \/ Prepare \/ StageWrites \/ StageReturns \/ ExecReturns \/ Capture \/ CaptureReturns
    \/ ApplyPlan \/ Reconcile \/ Learn \/ CloseOnly \/ Revalidate \/ Confirm
    \/ Instruct \/ Edit \/ Crash

Spec == Init /\ [][Next]_vars

-----------------------------------------------------------------------------
(* An attachment is withdrawn only while the last of the user's            *)
(* instructions that speaks of it asks for that: one that arrived during   *)
(* the review, the learning or a recovery is never overruled               *)
(* (confirm, withdraw_source).                                             *)
WithdrawnAsLastSaid == status = "withdrawn" => Verdict(decided) = "withdraw"

(* A withdrawal that was captured and then overtaken stays open until a    *)
(* later reviewed disposition, confirmed itself, answers it; no plan       *)
(* adopts the attachment meanwhile (prior_confirmation_attempts).          *)
OvertakenIsAnswered ==
    \A o \in Ops :
        /\ confirmed[o] = "superseded" =>
               \E c \in Ops : o \in op[c].prior /\ confirmed[c] = "confirmed"
        /\ confirmed[o] = "pending" => op[o].src < SourceHash

(* A confirmed text is the output of a reviewed program that was given the *)
(* exact original and left it alone, whatever was edited, run or lost      *)
(* between staging and confirmation; a plan applies the attachment only    *)
(* with such a text (_extraction, apply_source_plan).                      *)
ReadFaithfully ==
    /\ extraction # 0 =>
          LET e == op[extraction].exec IN
          op[extraction].text = e /\ op[e].mode = "exec" /\ Preserved(e)
    /\ status = "applied" => extraction # 0

(* Every result of a preparation that is known to have succeeded reaches   *)
(* its confirmation, also when it was lost in a crash and recovered by     *)
(* another operation (_confirm_reviewed_outcomes).                         *)
ResultsAreConsumed ==
    \A o \in Ops :
        op[o].status = "complete" /\ op[o].result = "ok" /\ op[o].mode \in Preparations =>
            \/ confirmed[o] # "none"
            \/ current # 0 /\ op[current].target = o

PreparationSound ==
    /\ WithdrawnAsLastSaid
    /\ OvertakenIsAnswered
    /\ ReadFaithfully
    /\ ResultsAreConsumed

-----------------------------------------------------------------------------
(* What the operations keep, from which the promises follow.               *)

Files == {"absent", "original", "changed"}
Outcomes == {"ok", "failed", "unknown"}
Operations ==
    [mode : Modes \cup {"none"}, result : Outcomes \cup {"none"},
     status : {"none", "reviewed", "superseded", "executing", "recorded", "learned", "complete"},
     src : 0 .. MaxSources, cites : 0 .. MaxSources, target : Ops \cup {0},
     stage : Ops \cup {0}, exec : Ops \cup {0}, text : 0 .. Edited, prior : SUBSET Ops,
     before : Files, after : Files, found : Outcomes]

TypeOK ==
    /\ says \in Seq(Words) /\ Len(says) <= MaxSources
    /\ status \in {"pending", "applied", "withdrawn"} /\ decided \in 0 .. Len(says)
    /\ file \in Files /\ output \in 0 .. Edited
    /\ op \in [Ops -> Operations]
    /\ record \in [Ops -> {"none", "prepared", "ok", "failed"}]
    /\ confirmed \in [Ops -> {"none", "pending", "confirmed", "superseded"}]
    /\ extraction \in Ops \cup {0} /\ current \in Ops \cup {0}

\* Only the operation of the cycle is under way, and only what was proposed
\* is confirmed.
CycleSound(o) ==
    /\ op[o].mode = "none" => op[o] = NoOp /\ confirmed[o] = "none"
    /\ o = current <=> op[o].status \in {"reviewed", "executing", "recorded", "learned"}

\* What an operation was reviewed for is so, whatever was said or done since.
CandidateSound(o) ==
    /\ op[o].src <= Len(says)
    /\ op[o].mode = "withdraw" => Verdict(op[o].src) = "withdraw"
    /\ op[o].mode = "accept" =>
          LET e == op[o].exec IN
          /\ e \in Ops /\ op[o].text = e /\ op[e].mode = "exec" /\ Preserved(e)
          /\ op[e].status = "complete"
    /\ op[o].mode = "reconcile" =>
          /\ op[o].target \notin {0, o} /\ op[o].status # "executing"
          /\ op[o].status \in {"reviewed", "recorded"} => op[op[o].target].result = "unknown"
          /\ op[o].status \in {"recorded", "learned"} => op[o].result = "ok"
    /\ op[o].target # 0 => op[o].mode = "reconcile"

PreparationInv ==
    /\ TypeOK
    /\ PreparationSound
    /\ extraction # 0 => op[extraction].mode = "accept"
    /\ \A o \in Ops : CycleSound(o) /\ CandidateSound(o)
=============================================================================
