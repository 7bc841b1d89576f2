----------------------------- MODULE SkillCandidate -----------------------------
(***************************************************************************)
(* How a Skill package becomes an inactive candidate                       *)
(* (materialize_skill_candidate.py), and a candidate a staged registry     *)
(* (isolated_registry_adoption.py), on the file operations of              *)
(* skill_package.py.  Both are one transaction: capture the source bytes,  *)
(* compare the destination with what the caller expects, copy into a stage *)
(* beside it, check again, rename without replacing, read back.  Runs race *)
(* each other, fail at any point, and die at any point.                    *)
(***************************************************************************)
EXTENDS Naturals, FiniteSets

CONSTANTS
  Makers,         \* runs that make the candidate
  Adopters,       \* runs that adopt it
  MaxEdits,       \* edits of the source package and of the registry
  MaxDeaths

VARIABLES
  source,         \* version of the source package
  registry,       \* version of the active registry
  candidate,      \* the directory of the candidate
  adopted,        \* the isolated directory of the adoption
  stage,          \* stage[r]: the staging directory of run r
  run,            \* run[r]: where run r is
  edits, deaths

vars == <<source, registry, candidate, adopted, stage, run, edits, deaths>>

Runs == Makers \cup Adopters
Nothing == [package |-> 0, registry |-> 0]
Contents == [package : 0..(MaxEdits + 1), registry : 0..(MaxEdits + 1)]
Absent == [by |-> "nobody", holds |-> Nothing]
NoStage == [files |-> "none", holds |-> Nothing]

Init ==
  /\ source = 1 /\ registry = 1
  /\ candidate = Absent /\ adopted = Absent
  /\ stage = [r \in Runs |-> NoStage]
  /\ run = [r \in Runs |-> [at |-> "idle", holds |-> Nothing, seen |-> {}, report |-> "none"]]
  /\ edits = 0 /\ deaths = 0

\* What a run copies: the source package; or the candidate and the registry.
Source(r) ==
  IF r \in Makers THEN [package |-> source, registry |-> 0]
  ELSE [package |-> candidate.holds.package, registry |-> registry]

Destination(r) == IF r \in Makers THEN candidate ELSE adopted

\* root_manifest without the run's own stage: every file under the candidate
\* root, the stages of others among them.  An adoption compares no such root.
Manifest(r) ==
  IF r \in Makers
  THEN {<<"stage", s>> : s \in {q \in Makers \ {r} : stage[q].files \in {"some", "all"}}}
       \cup (IF candidate = Absent THEN {} ELSE {<<"candidate", candidate.by>>})
  ELSE {}

To(r, at) == run' = [run EXCEPT ![r].at = at]
Report(r, effect) == run' = [run EXCEPT ![r].at = "ended", ![r].report = effect]

-------------------------------------------------------------------------------
\* capture_package, and the comparisons before it: the destination is absent;
\* an adoption holds the receipt of the candidate it reads.
Capture(r) ==
  /\ run[r].at = "idle"
  /\ Destination(r) = Absent
  /\ r \in Adopters => /\ candidate # Absent
                       /\ \E m \in Makers : /\ run[m].report = "receipt"
                                            /\ run[m].holds.package = candidate.holds.package
  /\ run' = [run EXCEPT ![r].at = "captured", ![r].holds = Source(r), ![r].seen = Manifest(r)]
  /\ UNCHANGED <<source, registry, candidate, adopted, stage, edits, deaths>>

\* assert_package_unchanged, assert_file_unchanged, and the manifest again.
Unchanged(r) == Source(r) = run[r].holds /\ Manifest(r) = run[r].seen

\* The last look before the first write.
Recheck(r) ==
  /\ run[r].at = "captured"
  /\ IF Unchanged(r) THEN To(r, "prepared") ELSE Report(r, "nothing")
  /\ UNCHANGED <<source, registry, candidate, adopted, stage, edits, deaths>>

MakeStage(r) ==
  /\ run[r].at = "prepared"
  /\ stage' = [stage EXCEPT ![r] = [files |-> "empty", holds |-> run[r].holds]]
  /\ To(r, "staging")
  /\ UNCHANGED <<source, registry, candidate, adopted, edits, deaths>>

\* copy_package writes file after file, each one exclusively, and verifies.
CopyPackage(r) ==
  /\ run[r].at = "staging"
  /\ \/ stage[r].files = "empty" /\ stage' = [stage EXCEPT ![r].files = "some"] /\ UNCHANGED run
     \/ stage[r].files = "some" /\ stage' = [stage EXCEPT ![r].files = "all"] /\ To(r, "staged")
  /\ UNCHANGED <<source, registry, candidate, adopted, edits, deaths>>

\* The checks between copy and rename.
BeforeRename(r) ==
  /\ run[r].at = "staged"
  /\ To(r, IF Unchanged(r) THEN "committing" ELSE "failing-staged")
  /\ UNCHANGED <<source, registry, candidate, adopted, stage, edits, deaths>>

\* publish_directory: renamed if nothing is there, answered or not.
Publish(r) ==
  /\ run[r].at = "committing"
  /\ IF Destination(r) = Absent
     THEN /\ LET made == [by |-> r, holds |-> stage[r].holds] IN
               /\ candidate' = IF r \in Makers THEN made ELSE candidate
               /\ adopted' = IF r \in Makers THEN adopted ELSE made
          /\ stage' = [stage EXCEPT ![r] = NoStage]
          /\ \E at \in {"committed", "failing-committing"} : To(r, at)
     ELSE /\ To(r, "failing-committing")
          /\ UNCHANGED <<candidate, adopted, stage>>
  /\ UNCHANGED <<source, registry, edits, deaths>>

\* The readback: the destination, and nothing else that is new beside it.
Readback(r) ==
  /\ run[r].at = "committed"
  /\ IF /\ Destination(r).holds = run[r].holds
        /\ r \in Makers => Manifest(r) = run[r].seen \cup {<<"candidate", r>>}
     THEN Report(r, "receipt") ELSE To(r, "failing-committed")
  /\ UNCHANGED <<source, registry, candidate, adopted, stage, edits, deaths>>

\* Any step may raise.
Raise(r) ==
  /\ \/ run[r].at \in {"staging", "staged"} /\ To(r, "failing-staged")
     \/ run[r].at = "committing" /\ To(r, "failing-committing")
     \/ run[r].at = "committed" /\ To(r, "failing-committed")
  /\ UNCHANGED <<source, registry, candidate, adopted, stage, edits, deaths>>

\* Fault: whose directory the destination is, is not looked at.
CommittedByState(r) == run[r].at = "failing-committed"
\* same_object: a rename that raised may have happened.
Committed(r) ==
  \/ run[r].at = "failing-committed"
  \/ run[r].at = "failing-committing" /\ (Destination(r).by = r \/ stage[r] = NoStage)

\* failure_record: what is committed stays; a stage is removed, if it can be.
FailureRecord(r) ==
  /\ run[r].at \in {"failing-staged", "failing-committing", "failing-committed"}
  /\ \/ Committed(r) /\ Report(r, "unknown") /\ UNCHANGED stage
     \/ ~Committed(r) /\ Report(r, "partial") /\ stage' = [stage EXCEPT ![r] = NoStage]
     \/ ~Committed(r) /\ stage[r] # NoStage /\ Report(r, "unknown") /\ UNCHANGED stage
  /\ UNCHANGED <<source, registry, candidate, adopted, edits, deaths>>

Die(r) ==
  /\ run[r].at \notin {"idle", "ended", "dead"}
  /\ deaths < MaxDeaths
  /\ deaths' = deaths + 1
  /\ To(r, "dead")
  /\ UNCHANGED <<source, registry, candidate, adopted, stage, edits>>

Edit ==
  /\ edits < MaxEdits
  /\ edits' = edits + 1
  /\ \/ source' = source + 1 /\ UNCHANGED registry
     \/ registry' = registry + 1 /\ UNCHANGED source
  /\ UNCHANGED <<candidate, adopted, stage, run, deaths>>

Next ==
  \/ Edit
  \/ \E r \in Runs : \/ Capture(r) \/ Recheck(r) \/ MakeStage(r) \/ CopyPackage(r)
                     \/ BeforeRename(r) \/ Publish(r) \/ Readback(r) \/ Raise(r)
                     \/ FailureRecord(r) \/ Die(r)

Spec == Init /\ [][Next]_vars

-------------------------------------------------------------------------------
\* Every variable has its type.
TypeOK ==
  /\ {candidate.holds, adopted.holds} \subseteq Contents
  /\ \A r \in Runs : /\ run[r].report \in {"none", "nothing", "partial", "unknown", "receipt"}
                     /\ stage[r].files \in {"none", "empty", "some", "all"}

\* A directory appears complete or not at all, with the bytes its run captured;
\* a receipt is given for it to the run that made it; and a run that reports no
\* effect, or one that it has undone, has made neither directory nor left a stage.
CandidateSound ==
  /\ TypeOK
  /\ \A place \in {candidate, adopted} :
       place # Absent => place.holds = run[place.by].holds
  /\ \A r \in Runs : run[r].report = "receipt" => Destination(r).by = r
  /\ \A r \in Runs : run[r].report \in {"nothing", "partial"} =>
       Destination(r).by # r /\ stage[r] = NoStage
  /\ adopted # Absent => adopted.holds.package = candidate.holds.package

-------------------------------------------------------------------------------
(* Why CandidateSound holds                                                *)

Places == {"idle", "captured", "prepared", "staging", "staged", "committing", "committed",
           "failing-staged", "failing-committing", "failing-committed", "ended", "dead"}
Reports == {"none", "nothing", "partial", "unknown", "receipt"}

CandidateTypes ==
  /\ source \in Nat /\ registry \in Nat /\ edits \in 0..MaxEdits
  /\ source >= 1 /\ registry >= 1 /\ source + registry = edits + 2
  /\ candidate \in [by : Makers \cup {"nobody"}, holds : Contents]
  /\ adopted \in [by : (Adopters \ Makers) \cup {"nobody"}, holds : Contents]
  /\ stage \in [Runs -> [files : {"none", "empty", "some", "all"}, holds : Contents]]
  /\ DOMAIN run = Runs
  /\ \A r \in Runs : /\ run[r].at \in Places /\ run[r].report \in Reports
                      /\ run[r].holds \in Contents

Made(r) == Destination(r).by = r

\* What is true of a run at each of its places: it has made its directory after
\* the rename and not before, from a stage that holds what it captured; and an
\* adoption captured the candidate there is.
RunKnown(r) ==
  /\ run[r].report # "none" => run[r].at = "ended"
  /\ run[r].at \in {"idle", "captured", "prepared"} => ~Made(r) /\ stage[r] = NoStage
  /\ run[r].at \in {"staging", "staged", "committing", "failing-staged"} =>
       ~Made(r) /\ stage[r] # NoStage
  /\ run[r].at \in {"staging", "staged", "committing"} => stage[r].holds = run[r].holds
  /\ run[r].at \in {"committed", "failing-committed"} => Made(r)
  /\ run[r].at = "failing-committing" => (Made(r) <=> stage[r] = NoStage)
  /\ run[r].report = "receipt" => Made(r)
  /\ run[r].report \in {"nothing", "partial"} => ~Made(r) /\ stage[r] = NoStage
  /\ r \notin Makers /\ run[r].at # "idle" =>
       candidate # Absent /\ run[r].holds.package = candidate.holds.package

\* A directory is its run's.
PlaceKnown(place) == place # Absent => place.by # "nobody" /\ place.holds = run[place.by].holds

CandidateInv ==
  /\ CandidateTypes
  /\ \A r \in Runs : RunKnown(r)
  /\ PlaceKnown(candidate) /\ PlaceKnown(adopted)
  /\ adopted # Absent => candidate # Absent /\ adopted.holds.package = candidate.holds.package
===============================================================================
