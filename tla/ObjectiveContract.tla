-------------------------- MODULE ObjectiveContract --------------------------
(***************************************************************************)
(* What an objective ledger means (runtime/objective_ledger.py): the state *)
(* that replaying its journal gives, and which events are accepted onto    *)
(* it.  Every event is checked and appended under the ledger's lock        *)
(* (module ObjectiveJournal), which keeps the other events out but not the *)
(* files: a gap record and a message's bytes may change between the check  *)
(* and the line.  For the start of an action by the helper the two are     *)
(* steps of their own; any other event is one step, where it is checked.   *)
(*                                                                         *)
(* Beside the ledger stand the files it depends on but does not hold: the  *)
(* messages' bytes, the records of messages that could not be captured,    *)
(* and the owner's helper (ledger_input.py), which reads without the lock, *)
(* prepares an input and applies it later.                                 *)
(*                                                                         *)
(* A clause is named by the message it quotes, an outcome by its           *)
(* description, a contract by its number.                                  *)
(***************************************************************************)
EXTENDS Naturals, FiniteSets

CONSTANTS
  Sources,        \* messages of the user
  Gaps,           \* those of them whose capture may fail at first
  Outcomes,       \* what is promised to him
  Actions,        \* names for actions with outside effects
  MaxContracts,   \* how many contracts a behaviour writes
  MaxLosses       \* how often a message's file goes missing

VARIABLES
  source,         \* source[s]: unseen, pending, classified or disposed
  intact,         \* messages whose stored bytes are as they were captured
  contract,       \* the current contract, or None
  written,        \* contracts so far
  outcome,        \* outcome[o]: its status in the current contract, or absent
  catalog,        \* outcomes that ever belonged to a contract
  advice,         \* the contract the latest progress is about; 0: no progress
  action,         \* action[a]: what the ledger holds of a
  gap,            \* gap[s]: none, open, recovered or owner
  prepared,       \* what the helper has prepared, and for which head
  ran,            \* actions whose effect may have happened
  losses

vars == <<source, intact, contract, written, outcome, catalog, advice, action, gap,
          prepared, ran, losses>>

None == [id |-> 0, clauses |-> {}, source |-> "none", how |-> "none", objective |-> "none"]
Unused == [status |-> "unused", resolved |-> "none", outs |-> {}]
Nothing == [command |-> "none", fresh |-> FALSE, action |-> "none", outs |-> {}]

\* empty_state
Init ==
  /\ source = [s \in Sources |-> "unseen"]
  /\ intact = {}
  /\ contract = None
  /\ written = 0
  /\ outcome = [o \in Outcomes |-> "absent"]
  /\ catalog = {}
  /\ advice = 0
  /\ action = [a \in Actions |-> Unused]
  /\ gap = [s \in Sources |-> "none"]
  /\ prepared = Nothing
  /\ ran = {}
  /\ losses = 0

Pending == {s \in Sources : source[s] = "pending"}
Known == {s \in Sources : source[s] # "unseen"}
Current == {o \in Outcomes : outcome[o] # "absent"}

\* require_sources_available
Available(ids) == ids \subseteq intact

\* validate_exact_gap_recovery: the message that could not be captured is in
\* the ledger after all, byte for byte.
ExactRecovery(s) == s \in Known \cap intact

\* attach_capture_gap_frontier: a recovery counts only while it still checks.
Unresolved ==
  {s \in Sources : gap[s] = "open" \/ (gap[s] = "recovered" /\ ~ExactRecovery(s))}

\* unproven_current_source_ids and source_reconciliation_pending
Unproven == (contract.clauses \cup Pending) \ intact
ReconciliationPending == Pending # {} \/ Unresolved # {} \/ Unproven # {}

\* Fault: a cancelled action is taken to have had no effect.
UnknownUnlessCancelled(a) ==
  /\ action[a].status \in {"PENDING", "UNKNOWN_EFFECT"}
  /\ action[a].resolved \in {"none", "REMAINS_UNKNOWN"}

UnknownEffect(a) ==
  /\ action[a].status \in {"PENDING", "UNKNOWN_EFFECT", "CANCELLED_UNKNOWN"}
  /\ action[a].resolved \in {"none", "REMAINS_UNKNOWN"}

\* preflight: the hook denies a changing tool call while a message is unread
\* or missing, or an action it depends on may have had an effect.
Held(dependencies) ==
  \/ Pending # {} \/ Unresolved # {}
  \/ ~Available(contract.clauses)
  \/ \E a \in dependencies : UnknownEffect(a)

\* Every append moves the head the helper may have prepared for, and is made
\* under the lock: not while the helper appends.
Unlocked == prepared.command # "appending"
MovedUnlocked == prepared' = [prepared EXCEPT !.fresh = FALSE]   \* Fault: no lock is taken.
Moved == Unlocked /\ prepared' = [prepared EXCEPT !.fresh = FALSE]

-------------------------------------------------------------------------------
\* The user speaks, and the hook stores the bytes and appends the capture;
\* a message that is not captured leaves a gap record instead.
Ingest(s) ==
  /\ source[s] = "unseen"
  /\ source' = [source EXCEPT ![s] = "pending"]
  /\ intact' = intact \cup {s}
  /\ Moved
  /\ UNCHANGED <<contract, written, outcome, catalog, advice, action, gap, ran, losses>>

RecordGap(s) ==
  /\ s \in Gaps
  /\ source[s] = "unseen"
  /\ gap[s] = "none"
  /\ gap' = [gap EXCEPT ![s] = "open"]
  /\ UNCHANGED <<source, intact, contract, written, outcome, catalog, advice, action,
                 prepared, ran, losses>>

\* The bytes of a message change or vanish outside the ledger, or return.
SourceChanges(s) ==
  /\ s \in Known
  /\ \/ s \in intact /\ losses < MaxLosses /\ losses' = losses + 1 /\ intact' = intact \ {s}
     \/ s \notin intact /\ intact' = intact \cup {s} /\ losses' = losses
  /\ UNCHANGED <<source, contract, written, outcome, catalog, advice, action, gap,
                 prepared, ran>>

Incremental == {"ADD", "CLARIFY", "CORRECT"}

\* validate_contract_event, lineage: there is a predecessor unless the
\* contract is the first since the last withdrawal.
Lineage(how) == (how = "INITIAL") = (contract.id = 0)

\* An incremental contract keeps every clause; only a correction names
\* clauses it supersedes, and it quotes the message it follows from.
KeepsClauses(s, how, clauses) ==
  LET superseded == contract.clauses \ clauses IN
  superseded # {} => how = "CORRECT" /\ s \in clauses

\* The objective changes only in a correction bound to the present message.
KeepsObjective(s, how, clauses, objective) ==
  objective # contract.objective => how = "CORRECT" /\ s \in clauses

\* A new outcome begins OPEN; a known one keeps the status it progressed to,
\* whatever the caller's template says.
MergedTemplate(added) ==     \* Fault: the caller's template is believed.
  [o \in Outcomes |-> IF o \in added THEN "OPEN" ELSE outcome[o]]

Merged(added) ==
  [o \in Outcomes |-> IF outcome[o] = "absent" /\ o \in added THEN "OPEN" ELSE outcome[o]]

Statuses == {"OPEN", "SATISFIED", "USER_WITHDRAWN", "USER_DEFERRED", "SUPERSEDED"}

Target == [WITHDRAW |-> "USER_WITHDRAWN", DEFER |-> "USER_DEFERRED",
           SUPERSEDE |-> "SUPERSEDED", REOPEN |-> "OPEN"]

\* An outcome is retired or reopened by a clause of the present message.
TransitionsBound(s, clauses, moves) == moves # {} => s \in clauses

Transitioned(statuses, moves) ==
  [o \in Outcomes |-> IF \E m \in moves : m.outcome = o
                      THEN Target[(CHOOSE m \in moves : m.outcome = o).operation]
                      ELSE statuses[o]]

Moves == {{}} \cup {{[outcome |-> o, operation |-> op]} : o \in Current, op \in DOMAIN Target}

\* replay of source_classified: the new contract takes over, and the advice
\* given under the old one does not.
Contract(s, how, clauses, objective) ==
  IF how = "WITHDRAW" THEN None
  ELSE [id |-> written + 1, clauses |-> clauses, source |-> s, how |-> how,
        objective |-> objective]

TakeOverAdvised(s, how, clauses, objective, statuses) ==     \* Fault: advice is kept.
  /\ source' = [source EXCEPT ![s] = "classified"]
  /\ contract' = Contract(s, how, clauses, objective)
  /\ written' = written + 1
  /\ outcome' = statuses
  /\ catalog' = catalog \cup {o \in Outcomes : statuses[o] # "absent"}
  /\ Moved
  /\ UNCHANGED <<advice, intact, action, gap, ran, losses>>

TakeOver(s, how, clauses, objective, statuses) ==
  /\ source' = [source EXCEPT ![s] = "classified"]
  /\ contract' = Contract(s, how, clauses, objective)
  /\ written' = written + 1
  /\ outcome' = statuses
  /\ catalog' = catalog \cup {o \in Outcomes : statuses[o] # "absent"}
  /\ advice' = 0
  /\ Moved
  /\ UNCHANGED <<intact, action, gap, ran, losses>>

\* classify-source
Classifiable(s, how, clauses) ==
  /\ s \in Pending
  /\ Lineage(how)
  /\ clauses # {}
  /\ Available({s} \cup (IF how = "WITHDRAW" THEN contract.clauses
                         ELSE contract.clauses \cup clauses))

ClassifyIncrement(s) ==
  /\ s \in Pending /\ written < MaxContracts
  /\ \E how \in Incremental, clauses \in SUBSET Known, added \in SUBSET Outcomes,
        moves \in Moves, objective \in {contract.objective, s} :
      /\ Classifiable(s, how, clauses)
      /\ KeepsClauses(s, how, clauses)
      /\ KeepsObjective(s, how, clauses, objective)
      /\ TransitionsBound(s, clauses, moves)
      /\ TakeOver(s, how, clauses, objective, Transitioned(Merged(added), moves))

\* A first or replacing contract states its outcomes afresh, finished and
\* retired ones included; a withdrawal leaves none.
ClassifyAfresh(s) ==
  /\ s \in Pending /\ written < MaxContracts
  /\ \E how \in {"INITIAL", "REPLACE", "WITHDRAW"}, clauses \in SUBSET Known :
    \E statuses \in [Outcomes -> IF how = "WITHDRAW" THEN {"absent"}
                                 ELSE Statuses \cup {"absent"}] :
      /\ Classifiable(s, how, clauses)
      /\ TakeOver(s, how, clauses, s, statuses)

\* dispose-source: a capture that carries no authority, or repeats what the
\* current contract already quotes.
Dispose(s) ==
  /\ s \in Pending
  /\ Available({s})
  /\ source' = [source EXCEPT ![s] = "disposed"]
  /\ Moved
  /\ UNCHANGED <<intact, contract, written, outcome, catalog, advice, action, gap, ran, losses>>

\* progress may mark an open outcome satisfied and leaves advice; it neither
\* reopens nor retires.
ProgressTo(status) ==
  {s2 \in {"OPEN", "SATISFIED"} : status = "OPEN" \/ s2 = status}

Progress ==
  /\ contract.id # 0
  /\ Available(contract.clauses)
  /\ \/ outcome' = outcome
     \/ \E o \in Current : \E status \in ProgressTo(outcome[o]) :
          outcome' = [outcome EXCEPT ![o] = status]
  /\ advice' = contract.id
  /\ Moved
  /\ UNCHANGED <<source, intact, contract, written, catalog, action, gap, ran, losses>>

\* action-start: only when every message is read and every source there.
Startable(a, outs) ==
  /\ action[a].status = "unused"
  /\ contract.id # 0
  /\ ~ReconciliationPending
  /\ Available(contract.clauses)
  /\ outs # {} /\ outs \subseteq Current

Becomes(a, status, resolved, outs) ==
  action' = [action EXCEPT ![a] = [status |-> status, resolved |-> resolved, outs |-> outs]]
Started(a, outs) == Becomes(a, "PENDING", "none", outs)

\* The owner works outside the helper: he records the start, then acts.
ActionStart(a) ==
  /\ \E outs \in SUBSET Current : Startable(a, outs) /\ Started(a, outs)
  /\ Moved
  /\ ran' = ran \cup {a}
  /\ UNCHANGED <<source, intact, contract, written, outcome, catalog, advice, gap, losses>>

\* action-outcome: once, with the effect that belongs to the status.
ActionOutcome(a) ==
  /\ action[a].status = "PENDING"
  /\ \E status \in {"SUCCEEDED", "FAILED", "CANCELLED", "CANCELLED_UNKNOWN", "UNKNOWN_EFFECT"} :
       Becomes(a, status, action[a].resolved, action[a].outs)
  /\ Moved
  /\ UNCHANGED <<source, intact, contract, written, outcome, catalog, advice, gap, ran, losses>>

\* action-reconcile: a chain of attempts ended by the first that settles it.
ActionReconcile(a) ==
  /\ action[a].status \in {"UNKNOWN_EFFECT", "CANCELLED_UNKNOWN"}
  /\ action[a].resolved \in {"none", "REMAINS_UNKNOWN"}
  /\ \E r \in {"REMAINS_UNKNOWN", "SETTLED"} :
       Becomes(a, action[a].status, r, action[a].outs)
  /\ Moved
  /\ UNCHANGED <<source, intact, contract, written, outcome, catalog, advice, gap, ran, losses>>

\* resolve-capture-gap: once for each gap, as its bytes or as the owner's word.
ResolveGap(s) ==
  /\ gap[s] = "open"
  /\ \/ ExactRecovery(s) /\ gap' = [gap EXCEPT ![s] = "recovered"]
     \/ gap' = [gap EXCEPT ![s] = "owner"]
  /\ Moved
  /\ UNCHANGED <<source, intact, contract, written, outcome, catalog, advice, action, ran, losses>>

-------------------------------------------------------------------------------
(* The owner's helper *)

\* run_operation, build: the start is normalised and replayed against an
\* unlocked reading of the head the owner named.
Prepare(a) ==
  /\ prepared.command = "none"
  /\ \E outs \in SUBSET Current :
       /\ Startable(a, outs)
       /\ prepared' = [command |-> "start", fresh |-> TRUE, action |-> a, outs |-> outs]
  /\ UNCHANGED <<source, intact, contract, written, outcome, catalog, advice, action, gap,
                 ran, losses>>

\* apply_prepared: the same input is built again, and append_event compares
\* the head and reads the gaps and sources once more, under the lock.  A stale
\* start is refused and nothing is retried.
HeadUncompared == TRUE        \* Fault: the head is not compared.
HeadMatches == prepared.fresh

Apply ==
  /\ prepared.command = "start"
  /\ prepared' = IF HeadMatches /\ Startable(prepared.action, prepared.outs)
                 THEN [prepared EXCEPT !.command = "appending"]
                 ELSE Nothing
  /\ UNCHANGED <<source, intact, contract, written, outcome, catalog, advice, action, gap,
                 ran, losses>>

\* The line is written, whatever became of the gaps and the bytes meanwhile.
\* Killed before, or refused by the second reading of the sources, the helper
\* ends and nothing is started.
AppendStart ==
  /\ prepared.command = "appending"
  /\ Started(prepared.action, prepared.outs)
  /\ prepared' = [prepared EXCEPT !.command = "started", !.fresh = FALSE]
  /\ UNCHANGED <<source, intact, contract, written, outcome, catalog, advice, gap, ran, losses>>

\* The native runner is called after the commit and its readback; the caller
\* owes the outcome.  Killed before, the start stays PENDING.
Run ==
  /\ prepared.command = "started"
  /\ ran' = ran \cup {prepared.action}
  /\ prepared' = Nothing
  /\ UNCHANGED <<source, intact, contract, written, outcome, catalog, advice, action, gap, losses>>

HelperEnds ==
  /\ prepared.command # "none"
  /\ prepared' = Nothing
  /\ UNCHANGED <<source, intact, contract, written, outcome, catalog, advice, action, gap,
                 ran, losses>>

Next ==
  \/ \E s \in Sources : Ingest(s) \/ RecordGap(s) \/ SourceChanges(s)
                        \/ ClassifyIncrement(s) \/ ClassifyAfresh(s) \/ Dispose(s) \/ ResolveGap(s)
  \/ Progress
  \/ \E a \in Actions : ActionStart(a) \/ ActionOutcome(a) \/ ActionReconcile(a) \/ Prepare(a)
  \/ Apply \/ AppendStart
  \/ Run
  \/ HelperEnds

Spec == Init /\ [][Next]_vars

-------------------------------------------------------------------------------
Contracts == [id : Nat, clauses : SUBSET Sources, source : Sources \cup {"none"},
              how : Incremental \cup {"INITIAL", "REPLACE", "none"},
              objective : Sources \cup {"none"}]
Records == [status : {"unused", "PENDING", "SUCCEEDED", "FAILED", "CANCELLED",
                      "CANCELLED_UNKNOWN", "UNKNOWN_EFFECT"},
            resolved : {"none", "REMAINS_UNKNOWN", "SETTLED"}, outs : SUBSET Outcomes]
Preparations == [command : {"none", "start", "appending", "started"}, fresh : BOOLEAN,
                 action : Actions \cup {"none"}, outs : SUBSET Outcomes]

\* Every variable has its type, and next-work advice is about the contract in
\* force.
TypeOK ==
  /\ source \in [Sources -> {"unseen", "pending", "classified", "disposed"}]
  /\ intact \subseteq Known
  /\ contract \in Contracts /\ contract.clauses \subseteq Known
  /\ written \in Nat
  /\ outcome \in [Outcomes -> Statuses \cup {"absent"}]
  /\ catalog \subseteq Outcomes
  /\ advice \in {0, contract.id}
  /\ action \in [Actions -> Records]
  /\ prepared \in Preparations
  /\ gap \in [Sources -> {"none", "open", "recovered", "owner"}]
  /\ ran \subseteq Actions
  /\ losses \in 0..MaxLosses

\* An outside effect that may have happened is never lost from view: the
\* hook denies changes that depend on the action until its own outcome or
\* reconciliation says what became of it, whatever contracts come and go.
EffectNeverForgotten ==
  \A a \in ran : \/ Held({a})
                 \/ action[a].status \in {"SUCCEEDED", "FAILED", "CANCELLED"}
                 \/ action[a].resolved = "SETTLED"

\* Only the user retires what is owed to him: an outcome under the current
\* contract that leaves it, or is withdrawn, deferred, superseded or opened
\* again, does so in a step that consumes one of his messages, and unless
\* he replaced or withdrew the contract the new one quotes that message.
RetiredOnlyByUser == [][
  \A o \in Current :
    \/ outcome'[o] = outcome[o]
    \/ outcome[o] = "OPEN" /\ outcome'[o] = "SATISFIED"
    \/ \E s \in Pending :
         /\ source'[s] = "classified"
         /\ \/ contract'.how \in {"REPLACE", "none"}
            \/ contract'.how \in Incremental /\ s \in contract'.clauses /\ outcome'[o] # "absent"
  ]_vars

\* The helper starts an action only on what its owner has read.  When it has
\* the lock, no event has come in since his reading, every message is read, no
\* gap is open and every message quoted is there; and when the start is written
\* then, after any delay, the action is still unused, no message has come in yet
\* and the contract still owes those outcomes, so all it can have missed is a
\* gap recorded, or bytes lost, in between.
StartsOnReadSources == [][
  /\ prepared.command = "start" /\ prepared'.command = "appending"
       => /\ prepared.fresh /\ Pending = {} /\ Unresolved = {}
          /\ contract.id # 0 /\ contract.clauses \subseteq intact
  /\ prepared.command # "started" /\ prepared'.command = "started"
       => /\ prepared.command = "appending" /\ prepared.fresh
          /\ Pending = {} /\ contract.id # 0 /\ contract' = contract
          /\ action[prepared.action].status = "unused"
          /\ action'[prepared.action].status = "PENDING"
          /\ action'[prepared.action].outs \subseteq Current
  ]_vars
===============================================================================
