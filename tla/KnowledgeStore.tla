----------------------------- MODULE KnowledgeStore -----------------------------
(***************************************************************************)
(* Shared skills (knowledge.py): what tasks learn from their operations.   *)
(* A primary task writes the shared skills; a child writes its own, and    *)
(* what it would change of the shared ones becomes a candidate, which the  *)
(* primary reviews and integrates, puts off, rejects or rebases.  Each     *)
(* change is one SQLite transaction, keeps the version it replaces, and    *)
(* is refused when that is not the version it was decided on.              *)
(*                                                                         *)
(* The files rendered from the skills are the subject of SkillProjection.  *)
(***************************************************************************)
EXTENDS Naturals, Sequences, FiniteSets

CONSTANTS
  Shared,         \* skills there are already, owned by the primary: numbers
  Own,            \* a skill a task may create
  Imported,       \* the identity Own gets where it is imported
  PrimaryOps, ChildOps,   \* operations with a result to learn from
  Integrations,   \* operations of the primary on candidates
  MaxVersion,     \* versions of a skill
  MaxCandidates

VARIABLES
  skill,          \* skill[s]: the current row
  history,        \* history[s]: the rows it replaced
  learning,       \* learning[o]: what was learned from o, and whether it is applied
  candidate,      \* knowledge_candidate, in the order of their creation
  work            \* work[g]: what g has reviewed, and whether it is done

vars == <<skill, history, learning, candidate, work>>

Skills == Shared \cup {Own, Imported}
Ops == PrimaryOps \cup ChildOps
Tasks == {"primary", "child"}
TaskOf(o) == IF o \in ChildOps THEN "child" ELSE "primary"

\* content: the operations whose lessons are in the text.
NoSkill == [version |-> 0, owner |-> "none", status |-> "none", content |-> {}, uses |-> {},
            touched |-> {}, dirty |-> FALSE, into |-> 0]
\* based: the versions a change was decided on; seen: the text it starts from.
NoUpdate == [action |-> "none", id |-> 0, other |-> 0, based |-> <<>>, seen |-> {}]
NoExport == [based |-> 0, source |-> NoSkill]
\* use: the skill that was applied; after: the version of it that records this.
NoLearning == [at |-> "none", use |-> 0, update |-> NoUpdate, after |-> 0]
NoWork == [at |-> "none", id |-> 0, seen |-> <<>>]

Init ==
  /\ skill = [s \in Skills |->
       IF s \in Shared THEN [NoSkill EXCEPT !.version = 1, !.owner = "primary",
                                            !.status = "provisional"]
       ELSE NoSkill]
  /\ history = [s \in Skills |-> {}]
  /\ learning = [o \in Ops |-> NoLearning]
  /\ candidate = <<>>
  /\ work = [g \in Integrations |-> NoWork]

\* _visible and _writable; what the primary owns is shared.
Visible(t, row) == row.version > 0 /\ row.owner \in {"primary", t}
Writable(t, row) == row.version > 0 /\ (row.owner = t \/ (t = "primary" /\ Visible(t, row)))

Targets(update) == {update.id, update.other} \ {0}

\* _check_update_cas: the target and the sources of a merge are what they were
\* when the change was decided on.
\* Fault: the sources of a merge are not compared.
CasOfTarget(update) ==
  update.id # 0 /\ update.action # "create" => update.based[update.id] = skill[update.id].version
Cas(update) ==
  update.action # "create" => \A s \in Targets(update) : update.based[s] = skill[s].version

Versions(update) == [s \in Targets(update) |-> skill[s].version]
Seen(update) == UNION {skill[s].content : s \in Targets(update)}
Based(update) == [update EXCEPT !.based = Versions(update), !.seen = Seen(update)]

-------------------------------------------------------------------------------
(* Rows *)

Touched(row, t) == [row EXCEPT !.version = @ + 1, !.touched = @ \cup {t}, !.dirty = TRUE]

\* _use_value: the use is added to the row, and counted once.
Used(row, t, o) == [Touched(row, t) EXCEPT !.uses = @ \cup {o}]

\* _mutate_skill, for s, by task t and the lesson of operation o.
Changed(row, s, update, t, o) ==
  IF s = update.id
  THEN IF update.action = "retire" THEN [Touched(row, t) EXCEPT !.status = "retired"]
       ELSE [Touched(row, t) EXCEPT !.content = update.seen \cup {o}]
  ELSE [row EXCEPT !.version = @ + 1, !.status = "retired", !.dirty = FALSE, !.into = update.id]

\* The row s becomes through the use and the update of o, applied by task t.
Result(s, t, o, use, update) ==
  LET used == IF use = s THEN Used(skill[s], t, o) ELSE skill[s] IN
  IF s \in Targets(update) THEN Changed(used, s, update, t, o) ELSE used

\* _new
New(t, o) == [NoSkill EXCEPT !.version = 1, !.owner = t, !.status = "provisional",
                             !.content = {o}, !.touched = {t}, !.dirty = TRUE]

\* _save_skill: every row that is replaced is kept.  Two changes of one row in
\* one transaction leave the one between them in the history too.
Save(rows) ==
  /\ \A s \in DOMAIN rows : rows[s].version <= MaxVersion
  /\ skill' = [s \in Skills |-> IF s \in DOMAIN rows THEN rows[s] ELSE skill[s]]
  /\ history' = [s \in Skills |->
       IF s \in DOMAIN rows
       THEN history[s] \cup {[skill[s] EXCEPT !.version = v] :
                               v \in {n \in 1..MaxVersion : n >= skill[s].version
                                                            /\ n < rows[s].version}}
       ELSE history[s]]

-------------------------------------------------------------------------------
(* Learning from an operation *)

\* The selection is frozen before the operation is executed: whatever the task
\* could see, at some time, that was not retired then.
Selections(t) ==
  {s \in Skills : \E row \in history[s] \cup {skill[s]} : Visible(t, row) /\ row.status # "retired"}

Proposals(t) ==
  LET live == {s \in Skills : Visible(t, skill[s])} IN
  {NoUpdate}
  \cup {[NoUpdate EXCEPT !.action = "create", !.id = s] : s \in {r \in {Own} : skill[r] = NoSkill}}
  \cup {Based([NoUpdate EXCEPT !.action = a, !.id = s]) : a \in {"improve", "retire"}, s \in live}
  \cup {Based([NoUpdate EXCEPT !.action = "merge", !.id = s, !.other = r]) :
          s \in live, r \in live}

\* What was learned is proposed and reviewed, on the skills as they are, and
\* again when it could not be applied.
Review(o) ==
  /\ learning[o].at \in {"none", "reviewed"}
  /\ \E use \in Selections(TaskOf(o)) \cup {0}, update \in Proposals(TaskOf(o)) :
       /\ update.action = "merge" => update.id # update.other
       /\ learning[o].at = "reviewed" => update # learning[o].update /\ ~Cas(learning[o].update)
       /\ learning' = [learning EXCEPT ![o].at = "reviewed", ![o].use = use, ![o].update = update]
  /\ UNCHANGED <<skill, history, candidate, work>>

\* _validate_update_targets
Valid(o) ==
  LET update == learning[o].update IN
  /\ Cas(update)
  /\ \A s \in Targets(update) : update.action = "create" \/ Visible(TaskOf(o), skill[s])
  /\ update.action = "create" => skill[update.id] = NoSkill

\* _candidate: what a child may not write itself, and what it has of its own.
Candidate(o, use, update, own) ==
  [op |-> o, use |-> use,
   based |-> IF use = 0 THEN 0 ELSE skill[use].version,
   update |-> update,
   export |-> IF own = NoSkill THEN NoExport
              ELSE [based |-> skill[Imported].version, source |-> own],
   status |-> "pending", next |-> 0]

\* apply, up to its commit; called again, it answers what is on record.
Apply(o) ==
  LET t == TaskOf(o)
      update == learning[o].update
      mine == \A s \in Targets(update) : update.action = "create" \/ Writable(t, skill[s])
      use == IF learning[o].use # 0 /\ Writable(t, skill[learning[o].use])
               THEN learning[o].use ELSE 0
      done == IF mine /\ update.action # "create" THEN update ELSE NoUpdate
      rows == [s \in ({use} \ {0}) \cup Targets(done) |-> Result(s, t, o, use, done)]
      made == IF update.action = "create" THEN [s \in {update.id} |-> New(t, o)] ELSE <<>>
      all == [s \in DOMAIN rows \cup DOMAIN made |->
                IF s \in DOMAIN made THEN made[s] ELSE rows[s]]
      own == IF Own \in DOMAIN all /\ all[Own].owner = "child" THEN all[Own] ELSE NoSkill
      leftUse == IF use = 0 THEN learning[o].use ELSE 0
      left == IF mine THEN NoUpdate ELSE update
  IN
  /\ learning[o].at = "reviewed"
  /\ Valid(o)
  /\ Save(all)
  /\ learning' = [learning EXCEPT ![o].at = "applied",
                    ![o].after = IF use = 0 THEN 0 ELSE all[use].version]
  /\ IF t = "child" /\ (leftUse # 0 \/ left # NoUpdate \/ own # NoSkill)
     THEN /\ Len(candidate) < MaxCandidates
          /\ candidate' = Append(candidate, Candidate(o, leftUse, left, own))
     ELSE UNCHANGED candidate
  /\ UNCHANGED work

\* finish: the skills a task has touched are retained or retired, all at once.
Finish(t) ==
  LET touched == {s \in Skills : t \in skill[s].touched /\ skill[s].dirty /\ Writable(t, skill[s])}
  IN
  /\ touched # {}
  /\ \E retired \in SUBSET touched :
       Save([s \in touched |-> [skill[s] EXCEPT !.version = @ + 1, !.dirty = FALSE,
               !.status = IF s \in retired THEN "retired" ELSE @]])
  /\ UNCHANGED <<learning, candidate, work>>

-------------------------------------------------------------------------------
(* Candidates *)

\* describe_candidate: the candidate and the versions of what it would change.
Description(k) ==
  LET c == candidate[k] IN
  <<c, [s \in (({c.use} \cup Targets(c.update)) \ {0})
          \cup (IF c.export = NoExport THEN {} ELSE {Imported}) |-> skill[s].version]>>

\* The review of an operation on a candidate freezes its description.
ReviewCandidate(g) ==
  /\ work[g].at # "done"
  /\ \E k \in DOMAIN candidate :
       /\ candidate[k].status \in {"pending", "deferred", "rejected"}
       /\ work' = [work EXCEPT ![g] = [at |-> "reviewed", id |-> k, seen |-> Description(k)]]
  /\ UNCHANGED <<skill, history, learning, candidate>>

Reviewed(g) == work[g].at = "reviewed" /\ work[g].seen = Description(work[g].id)

\* integrate_candidate.  Every version is compared before anything is written.
Integrate(g) ==
  LET k == work[g].id
      c == candidate[k]
      targets == ({c.use} \ {0}) \cup Targets(c.update)
      rows == [s \in targets |-> Result(s, "primary", c.op, c.use, c.update)]
      prior == skill[Imported]
      import == [c.export.source EXCEPT !.version = prior.version + 1, !.owner = "primary",
                   !.touched = {"primary"}, !.dirty = TRUE, !.uses = @ \cup prior.uses]
      all == IF c.export = NoExport THEN rows
             ELSE [s \in targets \cup {Imported} |-> IF s = Imported THEN import ELSE rows[s]]
  IN
  /\ Reviewed(g)
  /\ c.status = "pending"
  /\ c.use # 0 => c.based = skill[c.use].version
  /\ Cas(c.update)
  /\ c.export # NoExport => c.export.based = skill[Imported].version
  /\ Save(all)
  /\ candidate' = [candidate EXCEPT ![k].status = "integrated"]
  /\ work' = [work EXCEPT ![g].at = "done"]
  /\ UNCHANGED learning

\* dispose_candidate: reject or defer.
Dispose(g) ==
  /\ Reviewed(g)
  /\ \E status \in {"rejected", "deferred"} :
       candidate' = [candidate EXCEPT ![work[g].id].status = status]
  /\ work' = [work EXCEPT ![g].at = "done"]
  /\ UNCHANGED <<skill, history, learning>>

\* dispose_candidate: the same changes on the current versions, as a candidate
\* of its own.
Rebase(g) ==
  LET c == candidate[work[g].id]
      fresh == [c EXCEPT !.based = IF c.use = 0 THEN 0 ELSE skill[c.use].version,
                         !.update = IF @ = NoUpdate THEN @ ELSE Based(@),
                         !.export = IF @ = NoExport THEN @
                                    ELSE [@ EXCEPT !.based = skill[Imported].version],
                         !.status = "pending"]
  IN
  /\ Reviewed(g)
  /\ Len(candidate) < MaxCandidates
  /\ candidate' = Append([candidate EXCEPT ![work[g].id].status = "rebased",
                                           ![work[g].id].next = Len(candidate) + 1], fresh)
  /\ work' = [work EXCEPT ![g].at = "done"]
  /\ UNCHANGED <<skill, history, learning>>

Next ==
  \/ \E o \in Ops : Review(o) \/ Apply(o)
  \/ \E t \in Tasks : Finish(t)
  \/ \E g \in Integrations : ReviewCandidate(g) \/ Integrate(g) \/ Dispose(g) \/ Rebase(g)

Spec == Init /\ [][Next]_vars

-------------------------------------------------------------------------------
\* confirm_record_only_application: the versions before and after the use are
\* still to be found, however often the skill has changed since.
Confirmable(o) ==
  \A v \in {learning[o].after - 1, learning[o].after} :
    \E row \in history[learning[o].use] \cup {skill[learning[o].use]} : row.version = v

\* Every variable has its type.
TypeOK ==
  /\ \A s \in Skills : /\ skill[s].version \in 0..MaxVersion
                       /\ skill[s].status \in {"none", "provisional", "retired"}
                       /\ {skill[s].uses, skill[s].content} \subseteq SUBSET Ops
  /\ \A o \in Ops : learning[o].at \in {"none", "reviewed", "applied"}
  /\ \A k \in DOMAIN candidate :
       candidate[k].status \in {"pending", "deferred", "rejected", "rebased", "integrated"}

FromOp(o) == {k \in DOMAIN candidate : candidate[k].op = o /\ candidate[k].status # "rebased"}

\* What is learned is neither lost nor taken twice, whoever writes in between:
\* every version of a skill is kept; no lesson in a text is overwritten by one
\* that had not seen it, and a merge takes the lessons its sources had; the
\* lesson of a child is in a shared skill only through a candidate that was
\* integrated; and a use is in the row it was made of, or in one candidate.
KnowledgeSound ==
  /\ TypeOK
  /\ \A s \in Skills :
       /\ {row.version : row \in history[s]} = 1..(skill[s].version - 1)
       /\ s # Imported => \A row \in history[s] : row.content \subseteq skill[s].content
       /\ skill[s].into # 0 /\ Imported \notin {s, skill[s].into} =>
            \A row \in history[s] : row.into = 0 =>
              \E r \in Skills \ {s} : row.content \subseteq skill[r].content
       /\ skill[s].owner = "primary" =>
            \A o \in (skill[s].content \cup skill[s].uses) \cap ChildOps :
              \E k \in FromOp(o) : candidate[k].status = "integrated"
  /\ \A o \in Ops : learning[o].at = "applied" =>
       /\ Cardinality(FromOp(o)) <= 1
       /\ learning[o].after # 0 => o \in skill[learning[o].use].uses /\ Confirmable(o)
       /\ learning[o].use # 0 /\ learning[o].after = 0 =>
            \E k \in FromOp(o) : candidate[k].status = "integrated" =>
                                   o \in skill[learning[o].use].uses
===============================================================================
