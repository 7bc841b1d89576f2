-------------------------------- MODULE WorkUnit --------------------------------
(***************************************************************************)
(* Work that is handed to an internal agent (work_io.py,                   *)
(* in_work_learning.py).  The parent prepares a request that binds what it *)
(* reads and writes, verifies it again just before it sends it, consumes   *)
(* the report of the child, reads back where it put the output, and        *)
(* prepares the next unit on that report and on a decision about it.  The  *)
(* helper keeps nothing: every command reads the files again.              *)
(***************************************************************************)
EXTENDS Naturals

CONSTANTS
  Units,          \* numbers; each unit is prepared on the report of the one before
  MaxChanges      \* changes of the files bound, and alterations of outputs

VARIABLES
  version,        \* of the source, inputs, methods and masters
  admits,         \* work_phase admits the action of the units
  unit,           \* unit[u]: the request
  output,         \* output[u]: the bytes at the declared output
  report,         \* report[u]: the result file
  place,          \* place[u]: the bytes at the consumer's destination
  integrated,     \* integrated[u]: the report and bytes of a complete integration
  changes

vars == <<version, admits, unit, output, report, place, integrated, changes>>

NoReport == [status |-> "none", effect |-> "none", claimed |-> "base"]
\* Partial stands for unknown too, as a status and as an effect.
Reports == [status : {"succeeded"}, effect : {"confirmed", "none"},
            claimed : {"base", "made", "other"}]
  \cup [status : {"failed"}, effect : {"none"}, claimed : {"base", "made", "other"}]
  \cup [status : {"partial"}, effect : {"partial"}, claimed : {"base", "made", "other"}]
NoUnit == [at |-> "none", bound |-> 0, decided |-> NoReport, reconciled |-> FALSE]

Init ==
  /\ version = 1 /\ admits = TRUE
  /\ unit = [u \in Units |-> NoUnit]
  /\ output = [u \in Units |-> "base"]
  /\ report = [u \in Units |-> NoReport]
  /\ place = [u \in Units |-> "base"]
  /\ integrated = [u \in Units |-> [report |-> NoReport, bytes |-> "base"]]
  /\ changes = 0

-------------------------------------------------------------------------------
(* What happens to the files meanwhile *)

Change ==
  /\ changes < MaxChanges
  /\ changes' = changes + 1
  /\ \/ version' = version + 1 /\ UNCHANGED <<admits, output>>
     \/ admits' = ~admits /\ UNCHANGED <<version, output>>
     \/ \E u \in Units : /\ unit[u].at \in {"prepared", "verified", "sent"}
                         /\ output' = [output EXCEPT ![u] = "other"]
                         /\ UNCHANGED <<version, admits>>
  /\ UNCHANGED <<unit, report, place, integrated>>

\* The child writes its output and its report, once or again, and stops
\* wherever it stops.
Work(u) ==
  /\ unit[u].at = "sent"
  /\ \/ /\ output' = [output EXCEPT ![u] = "made"]
        /\ UNCHANGED report
     \/ /\ \E r \in Reports : /\ r.claimed = output[u]
                              /\ r # report[u]
                              /\ report' = [report EXCEPT ![u] = r]
        /\ UNCHANGED output
  /\ UNCHANGED <<version, admits, unit, place, integrated, changes>>

-------------------------------------------------------------------------------
(* The parent *)

\* _fresh: the bound files are as bound, the report of the unit before among
\* them, and the phase admits the work.
Fresh(u) ==
  /\ unit[u].bound = version
  /\ u - 1 \in Units => unit[u].decided = report[u - 1]
  /\ admits

\* _fresh with output_baseline
Baseline(u) == output[u] = "base" /\ report[u] = NoReport

\* prepare, for the first unit: its spec binds the files as they are.
Prepare(u) ==
  /\ unit[u].at = "none" /\ u - 1 \notin Units
  /\ admits
  /\ unit' = [unit EXCEPT ![u] = [NoUnit EXCEPT !.at = "prepared", !.bound = version]]
  /\ UNCHANGED <<version, admits, output, report, place, integrated, changes>>

\* Fault: what is bound was looked at when the request was prepared.
VerifyOnceFresh(u) ==
  /\ unit[u].at = "prepared"
  /\ Baseline(u)
  /\ unit' = [unit EXCEPT ![u].at = "verified"]
  /\ UNCHANGED <<version, admits, output, report, place, integrated, changes>>

\* verify
Verify(u) ==
  /\ unit[u].at = "prepared"
  /\ Fresh(u) /\ Baseline(u)
  /\ unit' = [unit EXCEPT ![u].at = "verified"]
  /\ UNCHANGED <<version, admits, output, report, place, integrated, changes>>

\* The parent sends the dispatch unchanged.
Send(u) ==
  /\ unit[u].at = "verified"
  /\ unit' = [unit EXCEPT ![u].at = "sent"]
  /\ UNCHANGED <<version, admits, output, report, place, integrated, changes>>

\* consume: the report as it is, what was verified of it and what is at issue,
\* however stale the request has become.
Handoff(u) ==
  LET r == report[u]
      artifact == r # NoReport /\ output[u] = r.claimed /\ r.claimed # "base"
      issues == \/ r = NoReport
                \/ output[u] # r.claimed
                \/ r.status = "succeeded" /\ (r.effect # "confirmed" \/ ~artifact)
      unknown == r.status = "partial" \/ r.effect = "partial"
  IN [report |-> r, artifact |-> artifact, issues |-> issues, unknown |-> unknown]

\* integrate: the parent has put the output in its place, and reads it back.
Integrate(u) ==
  /\ unit[u].at = "sent"
  /\ \/ /\ place[u] # output[u]
        /\ place' = [place EXCEPT ![u] = output[u]]
        /\ UNCHANGED integrated
     \/ /\ Handoff(u).artifact /\ ~Handoff(u).issues
        /\ place[u] = output[u]
        /\ integrated' = [integrated EXCEPT ![u] = [report |-> report[u], bytes |-> place[u]]]
        /\ UNCHANGED place
  /\ UNCHANGED <<version, admits, unit, output, report, changes>>

\* build_next writes a decision about the report and a spec that carries both;
\* its directory exists from then on, whatever comes of it.
BuildNext(u) ==
  /\ unit[u].at = "none" /\ u - 1 \in Units
  /\ LET prior == Handoff(u - 1) IN
     /\ prior.report # NoReport
     /\ \E reconciled \in BOOLEAN :
          /\ unit' = [unit EXCEPT ![u] = [at |-> "built", bound |-> version,
                        decided |-> prior.report, reconciled |-> reconciled]]
  /\ UNCHANGED <<version, admits, output, report, place, integrated, changes>>

\* continue_work, at the end of build_next or by hand later: the report is
\* consumed again, the decision must be about it, and must say what becomes of
\* effects it leaves unknown.
ContinueWork(u) ==
  /\ unit[u].at = "built"
  /\ unit[u].decided = report[u - 1]
  /\ Handoff(u - 1).unknown => unit[u].reconciled
  /\ Fresh(u) /\ Baseline(u)
  /\ unit' = [unit EXCEPT ![u].at = "prepared"]
  /\ UNCHANGED <<version, admits, output, report, place, integrated, changes>>

Next ==
  \/ Change
  \/ \E u \in Units : \/ Work(u) \/ Prepare(u) \/ Verify(u) \/ Send(u) \/ Integrate(u)
                      \/ BuildNext(u) \/ ContinueWork(u)

Spec == Init /\ [][Next]_vars

-------------------------------------------------------------------------------
\* Every variable has its type.
TypeOK ==
  /\ version \in 1..(MaxChanges + 1) /\ admits \in BOOLEAN
  /\ \A u \in Units : /\ unit[u].at \in {"none", "built", "prepared", "verified", "sent"}
                      /\ report[u] \in Reports \cup {NoReport}
                      /\ {output[u], place[u]} \subseteq {"base", "made", "other"}

\* Requests and reports stay together.  What was integrated is what a report
\* of that unit claimed, success only with its effect confirmed; a unit that is
\* prepared answers for the effects its predecessor left unknown; and a request
\* that is verified reads what it was prepared for: the files it binds, and
\* the report that was decided on.
UnitSound ==
  /\ TypeOK
  /\ \A u \in Units : integrated[u].report # NoReport =>
         /\ integrated[u].bytes = integrated[u].report.claimed
         /\ integrated[u].report.status = "succeeded" => integrated[u].report.effect = "confirmed"
  /\ \A u \in Units : unit[u].at \in {"prepared", "verified", "sent"} /\ u - 1 \in Units =>
         /\ unit[u].decided # NoReport
         /\ unit[u].decided.effect = "partial" => unit[u].reconciled
StepSound ==
  \A u \in Units : unit[u].at = "prepared" /\ unit'[u].at = "verified" =>
         /\ version = unit[u].bound
         /\ u - 1 \in Units => report[u - 1] = unit[u].decided

\* Why: changes are counted, and what a unit was built on is some report.
UnitStates == [at : {"none", "built", "prepared", "verified", "sent"}, bound : Nat,
               decided : Reports \cup {NoReport}, reconciled : BOOLEAN]
Integrations == [report : Reports \cup {NoReport}, bytes : {"base", "made", "other"}]
UnitInv ==
  /\ UnitSound
  /\ changes \in 0..MaxChanges /\ version <= changes + 1
  /\ unit \in [Units -> UnitStates]
  /\ output \in [Units -> {"base", "made", "other"}]
  /\ place \in [Units -> {"base", "made", "other"}]
  /\ report \in [Units -> Reports \cup {NoReport}]
  /\ integrated \in [Units -> Integrations]
  /\ \A u \in Units : unit[u].at # "none" /\ u - 1 \in Units => unit[u].decided # NoReport
===============================================================================
