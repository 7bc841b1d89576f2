----------------------------- MODULE SkillProjection -----------------------------
(***************************************************************************)
(* The file of a skill (knowledge.py): SKILL.md is rendered from the row,  *)
(* after the transaction that wrote it, or within one that is rolled back  *)
(* later.  The renderer holds a process lock; a user may write or remove   *)
(* the file at any time.  An index says which bytes the renderer owns, and *)
(* is written before they are; a file is moved aside, never overwritten.   *)
(* What the renderer leaves in conflict, a reviewed repair may replace.    *)
(***************************************************************************)
EXTENDS Naturals, FiniteSets

CONSTANTS
  MaxTexts,       \* texts the row ever has
  Edits,          \* what users may write into the file: numbers above MaxTexts
  MaxRemovals, MaxDeaths

VARIABLES
  db, tx,         \* the text of the row; and in an open transaction, or Nothing
  texts,          \* the last text written
  file,           \* the file: its text, and the write that made it
  backups,        \* texts moved aside
  written,        \* the texts users have written and not removed themselves
  allowed,        \* the index: texts the renderer may replace
  render,         \* the renderer
  learned,        \* what is on record of the last application
  failure,        \* projection_failure: none, pending or resolved
  repair,         \* one knowledge_projection_repair
  removals, deaths

vars == <<db, tx, texts, file, backups, written, allowed, render, learned, failure, repair,
          removals, deaths>>
data == <<db, tx, texts>>
users == <<written, removals, deaths>>
records == <<learned, failure, repair>>

Nothing == 0
Absent == [text |-> Nothing, by |-> "nobody"]
Idle == [at |-> "idle", job |-> "none", actual |-> Nothing, held |-> Nothing]
NoRepair == [at |-> "none", before |-> Nothing, entry |-> {}, after |-> Nothing,
             held |-> Nothing, published |-> FALSE, result |-> "none"]

Init ==
  /\ db = Nothing /\ tx = Nothing /\ texts = 0
  /\ file = Absent /\ backups = {} /\ written = {} /\ allowed = {}
  /\ render = Idle /\ learned = "none" /\ failure = "none" /\ repair = NoRepair
  /\ removals = 0 /\ deaths = 0

Desired == IF tx # Nothing THEN tx ELSE db
Free == render.at = "idle" /\ repair.at \notin {"prepared", "captured", "published", "failed"}

-------------------------------------------------------------------------------
(* Users *)

Write ==
  /\ \E text \in Edits :
       /\ text \notin written \cup backups
       /\ file' = [text |-> text, by |-> "user"]
       /\ written' = (written \cup {text}) \ {file.text}
  /\ UNCHANGED <<data, backups, allowed, render, records, removals, deaths>>

Remove ==
  /\ file # Absent
  /\ removals < MaxRemovals
  /\ removals' = removals + 1
  /\ file' = Absent
  /\ written' = written \ {file.text}
  /\ UNCHANGED <<data, backups, allowed, render, records, deaths>>

-------------------------------------------------------------------------------
(* What makes the renderer run *)

Start(job) == render' = [Idle EXCEPT !.at = "start", !.job = job]

\* apply: the row is committed, then rendered.  What came of it is on record
\* later, so it is rendered again when that is missing.
Learn ==
  /\ Free /\ tx = Nothing
  /\ \/ /\ learned # "committed" /\ texts < MaxTexts
        /\ texts' = texts + 1 /\ db' = texts' /\ learned' = "committed"
     \/ learned = "committed" /\ UNCHANGED <<texts, db, learned>>
  /\ Start("learn")
  /\ UNCHANGED <<tx, file, backups, allowed, failure, repair, users>>

\* _controller_commit of an integration, and the cleanup of finish: rendered
\* before the transaction ends.
Begin ==
  /\ Free /\ tx = Nothing /\ texts < MaxTexts
  /\ texts' = texts + 1 /\ tx' = texts'
  /\ Start("nested")
  /\ UNCHANGED <<db, file, backups, allowed, records, users>>

\* Knowledge.__init__, and rebuild_projections after a rollback.
Recover ==
  /\ Free /\ tx = Nothing
  /\ Start("recover")
  /\ UNCHANGED <<data, file, backups, allowed, records, users>>

\* The renderer ends, repaired or not, and its caller goes on.
Done(repaired) ==
  LET job == render.job IN
  /\ render' = Idle
  /\ \/ /\ job = "nested" /\ repaired
        /\ db' = tx /\ tx' = Nothing
        /\ UNCHANGED <<texts, records>>
     \/ /\ job = "nested"
        /\ tx' = Nothing /\ UNCHANGED <<db, texts, records>>
     \/ /\ job = "learn"
        /\ learned' = IF repaired THEN "projected" ELSE "pending"
        /\ failure' = IF repaired THEN failure ELSE "pending"
        /\ UNCHANGED <<data, repair>>
     \/ job = "recover" /\ UNCHANGED <<data, records>>

-------------------------------------------------------------------------------
(* rebuild_projections, _replace_projection *)

Goes(at) == render' = [render EXCEPT !.at = at]

\* Fault: the index has the desired bytes only.
EnteredDesired(actual) == {Desired} \ {Nothing}
\* The bytes are looked at, and both they and the desired ones are entered in
\* the index before anything is replaced.
Entered(actual) == {Desired, actual} \ {Nothing}

Inspect ==
  /\ render.at = "start"
  /\ IF file.text \notin allowed \cup {Nothing, Desired}
     THEN Done(FALSE) /\ UNCHANGED allowed
     ELSE /\ render' = [render EXCEPT !.at = IF file.text = Desired THEN "readback" ELSE "indexed",
                                      !.actual = file.text]
          /\ allowed' = IF Desired = Nothing THEN allowed ELSE Entered(file.text)
          /\ UNCHANGED <<data, records>>
  /\ UNCHANGED <<file, backups, users>>

\* The file is renamed to its backup, whatever it has become by now.
Capture ==
  /\ render.at = "indexed"
  /\ IF render.actual = Nothing THEN Goes("publish") /\ UNCHANGED <<file, backups>>
     ELSE IF file = Absent THEN Goes("failed") /\ UNCHANGED <<file, backups>>
     ELSE /\ render' = [render EXCEPT !.held = file.text,
                          !.at = IF file.text = render.actual THEN "publish" ELSE "failed"]
          /\ backups' = backups \cup {file.text}
          /\ file' = Absent
  /\ UNCHANGED <<data, allowed, records, users>>

\* Fault: the file is replaced, whatever is there.
PublishOver(text, by) == file' = [text |-> text, by |-> by]
\* _publish_projection: a link, which no file may be in the way of.
Publish(text, by) == file = Absent /\ file' = [text |-> text, by |-> by]

Replace ==
  /\ render.at = "publish"
  /\ \/ Desired # Nothing /\ Publish(Desired, "renderer") /\ Goes("readback")
     \/ Desired = Nothing /\ file = Absent /\ Goes("readback") /\ UNCHANGED file
     \/ file # Absent /\ Goes("failed") /\ UNCHANGED file
  /\ UNCHANGED <<data, backups, allowed, records, users>>

\* Any of it may fail, and what was moved aside is put back if nothing is there.
Restore ==
  /\ render.at \in {"indexed", "publish", "failed"}
  /\ \/ render.held # Nothing /\ Publish(render.held, "renderer")
     \/ UNCHANGED file
  /\ Done(FALSE)
  /\ UNCHANGED <<backups, allowed, users>>

\* The file is read back, and the index has these bytes only.
Readback ==
  /\ render.at = "readback"
  /\ IF file.text = Desired
     THEN allowed' = {Desired} \ {Nothing} /\ Done(TRUE)
     ELSE Done(FALSE) /\ UNCHANGED allowed
  /\ UNCHANGED <<file, backups, users>>

-------------------------------------------------------------------------------
(* A reviewed repair *)

To(at) == repair' = [repair EXCEPT !.at = at]

\* describe_projection_repair: the bytes are registered, or there is no file.
Describe ==
  /\ repair.at \in {"none", "described"} /\ failure = "pending" /\ db # Nothing
  /\ allowed # {} \/ file = Absent
  /\ repair' = [NoRepair EXCEPT !.at = "described", !.before = file.text,
                                !.entry = allowed, !.after = db]
  /\ UNCHANGED <<data, file, backups, allowed, render, learned, failure, users>>

\* repair_projection: what was reviewed is what there is, and on record first.
Prepare ==
  /\ Free /\ tx = Nothing
  /\ repair.at = "described"
  /\ <<db, file.text, allowed>> = <<repair.after, repair.before, repair.entry>>
  /\ To("prepared")
  /\ UNCHANGED <<data, file, backups, allowed, render, learned, failure, users>>

CaptureOriginal ==
  /\ repair.at = "prepared"
  /\ IF repair.before \in {Nothing, repair.after} THEN To("captured") /\ UNCHANGED <<file, backups>>
     ELSE IF file = Absent THEN To("failed") /\ UNCHANGED <<file, backups>>
     ELSE /\ repair' = [repair EXCEPT !.held = file.text,
                          !.at = IF file.text = repair.before THEN "captured" ELSE "failed"]
          /\ backups' = backups \cup {file.text}
          /\ file' = Absent
  /\ UNCHANGED <<data, allowed, render, learned, failure, users>>

\* The identity of the prepared file is on record before it is linked.
PublishRepair ==
  /\ repair.at = "captured"
  /\ \/ repair.before = repair.after /\ To("published") /\ UNCHANGED file
     \/ /\ repair.before # repair.after
        /\ Publish(repair.after, "repair")
        /\ repair' = [repair EXCEPT !.at = "published", !.published = TRUE]
     \/ repair.before # repair.after /\ file # Absent /\ To("failed") /\ UNCHANGED file
  /\ UNCHANGED <<data, backups, allowed, render, learned, failure, users>>

FinishRepair ==
  /\ repair.at = "published"
  /\ IF file.text = repair.after
     THEN /\ allowed' = {repair.after}
          /\ repair' = [repair EXCEPT !.at = "complete", !.result = "succeeded"]
     ELSE To("failed") /\ UNCHANGED allowed
  /\ UNCHANGED <<data, file, backups, render, learned, failure, users>>

FailRepair ==
  /\ repair.at = "failed"
  /\ \/ repair.held # Nothing /\ Publish(repair.held, "original")
     \/ UNCHANGED file
  /\ repair' = [repair EXCEPT !.at = "complete", !.result = "unknown"]
  /\ UNCHANGED <<data, backups, allowed, render, learned, failure, users>>

\* Fault: the bytes are enough, whoever published them.
ObservedBytes == file.text = repair.after
\* reconcile_projection_repair: the publication was that of the repair.
Observed == file.text = repair.after /\ (repair.before = repair.after \/ file.by = "repair")

\* After an interruption, what happened is read, and nothing is done again.
ReconcileRepair ==
  /\ repair.at = "interrupted"
  /\ repair' = [repair EXCEPT !.at = "complete",
                  !.result = IF Observed /\ db = repair.after THEN "succeeded" ELSE "unknown"]
  /\ UNCHANGED <<data, file, backups, allowed, render, learned, failure, users>>

\* confirm_projection_repair, after the result was reviewed.
Confirm ==
  /\ repair.at = "complete" /\ repair.result = "succeeded"
  /\ Free /\ file.text = db /\ failure = "pending"
  /\ failure' = "resolved"
  /\ UNCHANGED <<data, file, backups, allowed, render, learned, repair, users>>

\* A process that dies leaves files as they are; its transaction is gone.
Die ==
  /\ deaths < MaxDeaths
  /\ deaths' = deaths + 1
  /\ tx' = Nothing /\ render' = Idle
  /\ repair' = IF Free THEN repair
               ELSE IF render.at = "idle" THEN [repair EXCEPT !.at = "interrupted"] ELSE repair
  /\ UNCHANGED <<db, texts, file, backups, written, allowed, learned, failure, removals>>

Next ==
  \/ Write \/ Remove \/ Learn \/ Begin \/ Recover
  \/ Inspect \/ Capture \/ Replace \/ Restore \/ Readback
  \/ Describe \/ Prepare \/ CaptureOriginal \/ PublishRepair \/ FinishRepair \/ FailRepair
  \/ ReconcileRepair \/ Confirm \/ Die

Spec == Init /\ [][Next]_vars

-------------------------------------------------------------------------------
\* Every variable has its type.
TypeOK ==
  /\ {db, tx} \subseteq 0..MaxTexts
  /\ file.text \in 0..MaxTexts \cup Edits
  /\ allowed \subseteq 1..MaxTexts \cup Edits
  /\ learned \in {"none", "committed", "projected", "pending"}
  /\ failure \in {"none", "pending", "resolved"}

\* What a user wrote is in the file or kept aside, whatever the renderer and
\* the repair do at that time; bytes that no user wrote are known to the index
\* or are the row's, unless an interrupted repair left them, so an interrupted
\* renderer can go on; and a repair that succeeded is the one that published.
ProjectionSound ==
  /\ TypeOK
  /\ written \subseteq backups \cup {file.text}
  /\ file.by = "renderer" => file.text \in allowed \cup Edits \cup {Desired}
  /\ repair.result = "succeeded" /\ repair.before # repair.after => repair.published
===============================================================================
