---------------------------- MODULE PracticalLesson ----------------------------
(***************************************************************************)
(* Lessons of practical tasks (practical_learning.py, skill_search.py).  An *)
(* answer of the model proposes, beside its tool, to create, improve, merge *)
(* or retire a lesson, to use one in the tool, and to assess a use whose    *)
(* result is known.  The answer is bound to the catalog of its request,     *)
(* other tasks change lessons meanwhile, and a crash makes it arrive again. *)
(*                                                                         *)
(* An operation is the number of its answer; a lesson is its number.  An    *)
(* answer has at most one note, use and assessment; what it says is chosen  *)
(* where it first matters, in Apply, from the catalog of its request.  What *)
(* the controller checks of the wording is the field private of a note:     *)
(* that it repeats facts of the task.  Every note has evidence.             *)
(***************************************************************************)
EXTENDS Naturals, Sequences, FiniteSets

CONSTANTS
  Tasks,         \* 1 to their number; each is also the scope of its local lessons
  Folder,        \* another number: the scope of the tasks in the folder
  General,       \* another: the scope of all tasks
  Shares,        \* the scopes a note may ask for
  MaxOps, MaxLessons,
  MaxUpsets      \* of new instructions, moves and crashes, together

VARIABLES
  lessons,    \* practical_skill, in the order of creation
  uses,       \* practical_skill_use of every operation
  results,    \* the saved result of every operation
  open,       \* the answer a task works on, and what is on record of it
  source,     \* the revision of the instructions of a task
  inFolder,   \* the tasks in the folder
  upsets

vars == <<lessons, uses, results, open, source, inFolder, upsets>>

Judgments == {"helpful", "harmful"}
NoCounts == [v \in Judgments |-> 0]
NoUse == [lesson |-> 0, rev |-> 0, st |-> "none", result |-> "none", judged |-> "none"]
NoNote == [act |-> "none", skill |-> 0, other |-> 0, share |-> "local", private |-> FALSE]
NoCall == [op |-> 0, source |-> 0, seen |-> <<>>, st |-> "none"]

\* A lesson that the tasks of the folder share
Earlier(t) == [owner |-> t, scope |-> Folder, rev |-> 1, saw |-> 0, st |-> "provisional",
               into |-> 0, private |-> FALSE, counts |-> NoCounts]

\* No lesson at first, or one that each of the tasks has created
Init ==
  /\ lessons \in {<<>>, [t \in Tasks |-> Earlier(t)]}
  /\ uses = <<>> /\ results = <<>> 
  /\ open = [t \in Tasks |-> NoCall] /\ source = [t \in Tasks |-> 1]
  /\ inFolder = Tasks /\ upsets = 0

-------------------------------------------------------------------------------
Scope(t) == IF t \in inFolder THEN Folder ELSE t

\* available and _selected: its owner, everybody, or the folder it is in
Visible(t, s) == s.owner = t \/ s.scope = General \/ s.scope = Scope(t)
Available(t) == {i \in DOMAIN lessons : lessons[i].st # "retired" /\ Visible(t, lessons[i])}

\* _selected: the lesson as the catalog of the request showed it
Selectable(t, i) ==
  /\ i \in DOMAIN open[t].seen /\ i \in Available(t)
  /\ open[t].seen[i] = lessons[i].rev

Target(t, note) ==
  CASE note.share = "general" -> General [] note.share = "folder" -> Scope(t)
    [] note.share = "local" -> t

\* A note with facts of its task in it is not shared but kept local.
KeptLocal(t, note) == note.private /\ Target(t, note) # t

\* The lesson a note replaces, if any: a local adaptation rewrites no shared one.
Replaces(t, note) ==
  note.act \in {"improve", "merge"} /\ ~KeptLocal(t, note)
    /\ lessons[note.skill].scope = Target(t, note)

Result(t, note) == IF note.act = "retire" \/ Replaces(t, note) THEN note.skill
                   ELSE Len(lessons) + 1

Improved(t, note) ==
  [owner |-> IF Replaces(t, note) THEN lessons[note.skill].owner ELSE t,
   scope |-> IF KeptLocal(t, note) THEN t ELSE Target(t, note),
   rev |-> IF Replaces(t, note) THEN lessons[note.skill].rev + 1 ELSE 1,
   saw |-> IF Replaces(t, note) THEN open[t].seen[note.skill] ELSE 0,
   st |-> "provisional", into |-> 0, private |-> note.private, counts |-> NoCounts]

Retired(s, into) == [s EXCEPT !.st = "retired", !.rev = @ + 1, !.saw = @ + 1, !.into = into]

\* apply: the lessons after a note
Noted(t, note) ==
  LET id == Result(t, note)
      new == Improved(t, note)
      put == IF id > Len(lessons) THEN Append(lessons, new) ELSE [lessons EXCEPT ![id] = new]
  IN CASE note.act = "none" -> lessons
       [] note.act = "retire" -> [lessons EXCEPT ![id] = Retired(@, 0)]
       [] note.act \in {"create", "improve"} -> put
       [] note.act = "merge" ->
            IF KeptLocal(t, note) \/ lessons[note.other].scope # new.scope THEN put
            ELSE [put EXCEPT ![note.other] = Retired(@, id)]

\* Whether apply raises no LearningValidationError
ValidNote(t, note) ==
  /\ note.act \in {"improve", "merge", "retire"} => Selectable(t, note.skill)
  /\ note.act = "merge" => /\ Selectable(t, note.other)
                           /\ KeptLocal(t, note) \/ note.other # Result(t, note)

\* A use of the noted lesson has the number 99, before that lesson has one.
Noticed == 99
Used(t, note, use) == IF use = Noticed THEN Result(t, note) ELSE use

ValidUse(t, note, use) ==
  use # 0 => /\ IF use = Noticed THEN note.act # "none" ELSE Selectable(t, use)
             /\ Noted(t, note)[Used(t, note, use)].st # "retired"

ValidAssessment(o, judgment) ==
  o # 0 => /\ uses[o].st = "result_observed"
           /\ judgment = "helpful" => results[o] = "done"

\* refresh_outcomes: the assessments of the current revision
Counts(i, rev, us) ==
  [v \in Judgments |-> Cardinality({o \in DOMAIN us : /\ us[o].lesson = i /\ us[o].rev = rev
                                      /\ us[o].st = "result_observed" /\ us[o].judged = v})]
Refreshed(ls, us, i) ==
  IF i = 0 THEN ls ELSE [ls EXCEPT ![i].counts = Counts(i, ls[i].rev, us)]

-------------------------------------------------------------------------------
\* The request, with its catalog.
Decide(t) ==
  /\ open[t] = NoCall /\ Len(uses) < MaxOps
  /\ open' = [open EXCEPT ![t] = [op |-> Len(uses) + 1, source |-> source[t], st |-> "answered",
                                  seen |-> [i \in Available(t) |-> lessons[i].rev]]]
  /\ uses' = Append(uses, NoUse) /\ results' = Append(results, "none")
  /\ UNCHANGED <<lessons, source, inFolder, upsets>>

\* apply, when its checks have passed, as one transaction
Commit(t, note, use, assess, judgment) ==
  LET after == Noted(t, note)
      i == Used(t, note, use)
      planned == IF use = 0 THEN uses ELSE
        [uses EXCEPT ![open[t].op] = [NoUse EXCEPT !.lesson = i, !.rev = after[i].rev,
                                                   !.st = "planned"]]
  IN IF assess = 0 THEN lessons' = after /\ uses' = planned
     ELSE /\ uses' = [planned EXCEPT ![assess].judged = judgment]
          /\ lessons' = Refreshed(after, uses', uses[assess].lesson)

\* apply_optional, with no record of this answer: a proposal with a defect is retained as a
\* whole and changes nothing.
Apply(t, note, use, assess, judgment) ==
  /\ open[t].st = "answered" /\ source[t] = open[t].source
  /\ IF ValidNote(t, note) /\ ValidUse(t, note, use) /\ ValidAssessment(assess, judgment)
     THEN Commit(t, note, use, assess, judgment)
     ELSE UNCHANGED <<lessons, uses>>
  /\ open' = [open EXCEPT ![t].st = "tool", ![t].seen = <<>>]
  /\ UNCHANGED <<results, source, inFolder, upsets>>

\* An answer with a commit or a rejection on record is not applied again, and
\* one to older instructions is dropped.
Replay(t) ==
  /\ open[t].st = "again" \/ (open[t].st = "answered" /\ source[t] # open[t].source)
  /\ open' = [open EXCEPT ![t] = IF source[t] # open[t].source THEN NoCall
                                 ELSE [@ EXCEPT !.st = "tool", !.seen = <<>>]]
  /\ UNCHANGED <<lessons, uses, results, source, inFolder, upsets>>

\* Nothing starts for older instructions; a tool without a use matters to no lesson.
Skip(t) ==
  /\ open[t].st = "tool" /\ (source[t] # open[t].source \/ uses[open[t].op] = NoUse)
  /\ open' = [open EXCEPT ![t] = NoCall]
  /\ UNCHANGED <<lessons, uses, results, source, inFolder, upsets>>

\* The tool has run, or what is unknown of it is recovered: done, failed on the
\* target, refused before it, or unknown (again).
Started(t) ==
  \/ open[t].st = "tool" /\ source[t] = open[t].source /\ uses[open[t].op] # NoUse
  \/ open[t].st = "recover"

\* observe, for operation o with the result r
Observed(o, r) ==
  IF uses[o].result = r THEN UNCHANGED <<uses, lessons>>
  ELSE /\ uses' = [uses EXCEPT ![o] = [@ EXCEPT
              !.st = CASE r = "unknown" -> "result_unknown" [] r = "refused" -> "not_executed"
                       [] r \in {"done", "failed"} -> "result_observed",
              !.result = r, !.judged = IF uses[o].result = "none" THEN @ ELSE "none"]]
       /\ lessons' = Refreshed(lessons, uses', uses[o].lesson)

\* _record_result: the result is saved and then observed, in one go of the process.
Record(t, r) ==
  /\ Started(t) /\ results' = [results EXCEPT ![open[t].op] = r] /\ Observed(open[t].op, r)
  /\ open' = [open EXCEPT ![t] = IF r = "unknown" THEN [@ EXCEPT !.st = "recover"] ELSE NoCall]
  /\ UNCHANGED <<source, inFolder, upsets>>

Upset == upsets < MaxUpsets /\ upsets' = upsets + 1

AddSource(t) ==
  /\ Upset /\ source' = [source EXCEPT ![t] = @ + 1]
  /\ UNCHANGED <<lessons, uses, results, open, inFolder>>

\* A task is put into the folder or taken out of it.
Move(t) ==
  /\ Upset
  /\ inFolder' = IF t \in inFolder THEN inFolder \ {t} ELSE inFolder \cup {t}
  /\ UNCHANGED <<lessons, uses, results, open, source>>

\* A crash: answers arrive again.
Back(calls) ==
  [t \in Tasks |-> IF calls[t].st = "tool" THEN [calls[t] EXCEPT !.st = "again"] ELSE calls[t]]

Crash ==
  /\ Upset /\ open' = Back(open)
  /\ UNCHANGED <<lessons, uses, results, source, inFolder>>

\* A crash after a result is saved: a final one is never observed any more.
CrashBeforeObserved(t, r) ==
  /\ Upset /\ Started(t) /\ results' = [results EXCEPT ![open[t].op] = r]
  /\ open' = Back([open EXCEPT ![t] = IF r = "unknown" THEN [@ EXCEPT !.st = "recover"]
                                      ELSE NoCall])
  /\ UNCHANGED <<lessons, uses, source, inFolder>>

\* What an answer may say of the catalog it was given
Notes(t) ==
  LET old == DOMAIN open[t].seen
      kinds == {k \in [share : Shares, private : BOOLEAN] : k.private => k.share # "local"}
      N(act, i, j) == {[act |-> act, skill |-> i, other |-> j, share |-> k.share,
                        private |-> k.private] : k \in kinds}
  IN {NoNote} \cup {[NoNote EXCEPT !.act = "retire", !.skill = i] : i \in old}
     \cup {n \in N("create", 0, 0) \cup UNION {N("improve", i, 0) : i \in old}
                   \cup UNION {N("merge", i, j) : i \in old, j \in old} :
              Result(t, n) <= MaxLessons}

Next ==
  \/ \E t \in Tasks :
       \/ Decide(t) \/ Replay(t) \/ Skip(t) \/ AddSource(t) \/ Move(t)
       \/ \E note \in Notes(t) :
            \E use \in {0} \cup IF note = NoNote THEN DOMAIN open[t].seen ELSE {Noticed},
               assess \in {0} \cup {o \in DOMAIN uses : uses[o] # NoUse}, v \in Judgments :
            Apply(t, note, use, assess, v)
       \/ \E r \in {"done", "failed", "refused", "unknown"} :
            Record(t, r) \/ CrashBeforeObserved(t, r)
  \/ Crash

Spec == Init /\ [][Next]_vars

-------------------------------------------------------------------------------
TypeOK ==
  /\ \A i \in DOMAIN lessons : /\ lessons[i].owner \in Tasks /\ lessons[i].rev \in Nat \ {0}
                               /\ lessons[i].scope \in Tasks \cup {Folder, General}
  /\ \A o \in DOMAIN uses : uses[o].lesson \in 0 .. Len(lessons)
  /\ Len(results) = Len(uses)

\* However tasks, moves and replays interleave: no other task ever finds a lesson
\* with facts of a task in it; an improvement replaces the revision its author
\* saw; who finds a merged lesson, other than as its owner, finds what replaced
\* it; an assessment is about the saved result, which is final, and a helpful one
\* about a success; and the outcomes of a lesson are those of its revision.
LessonSound ==
  /\ TypeOK
  /\ \A i \in DOMAIN lessons : LET s == lessons[i] IN
       /\ s.saw = s.rev - 1
       /\ s.st # "retired" =>
            /\ s.counts = Counts(i, s.rev, uses)
            /\ s.private => \A t \in Tasks \ {s.owner} : ~Visible(t, s)
       /\ s.into # 0 =>
            \A t \in Tasks \ {s.owner} : Visible(t, s) => Visible(t, lessons[s.into])
  /\ \A o \in DOMAIN uses : LET u == uses[o] IN
       /\ u.lesson # 0 => u.rev <= lessons[u.lesson].rev
       /\ u.judged # "none" => /\ u.result = results[o] /\ u.result \in {"done", "failed"}
                               /\ u.judged = "helpful" => u.result = "done"

\* As LessonSound says it, but of the owner too, which the comment in apply on
\* merges of another scope suggests.  It does not hold: the owner of a lesson of the folder
\* still finds it after leaving the folder, and not what another task merges it into.
ReplacementFound ==
  \A i \in DOMAIN lessons :
    lessons[i].into # 0 =>
      \A t \in Tasks : Visible(t, lessons[i]) => Visible(t, lessons[lessons[i].into])
===============================================================================
