-------------------------------- MODULE Ledger --------------------------------
(***************************************************************************)
(* The records an agent keeps of its work outside the harness, side by     *)
(* side: a chat's objective ledger as a file (ObjectiveJournal) and as     *)
(* what it means (ObjectiveContract), the status for a Supervisor          *)
(* (SupervisorStatus), and the work itself: its phases, its units and the  *)
(* processes it runs (WorkPhase, WorkUnit, LocalOperation).  They share no *)
(* state: a behaviour is a behaviour of one of them, and the variable      *)
(* scene says of which; the others stay as they began.                     *)
(***************************************************************************)
EXTENDS ObjectiveJournal

CONSTANTS
  ChatMessages, Gaps, Outcomes, Actions, MaxContracts, MaxLosses,          \* of the contract
  Writers, Turns, Transitions, Candidates, MaxRecords, MaxDeaths,      \* of the status
  Items, Checks, Causes, Units, MaxChanges, Roots                      \* of the work

ASSUME LedgerAssumption ==
  /\ Gaps \subseteq ChatMessages
  /\ Turns \subseteq Nat /\ Checks \subseteq Nat /\ Units \subseteq Nat
  /\ {MaxContracts, MaxLosses, MaxRecords, MaxDeaths, MaxChanges} \subseteq Nat
  /\ "nobody" \notin Writers

VARIABLES
  scene,
  source, intact, contract, written, outcome, catalog, advice, action, gap, prepared, ran, losses,
  records, current, statusLock, messages, write, deaths,
  phase, stage, item, check, finding, closed, reviews, accepted,
  version, admits, unit, output, report, place, integrated, changes,
  bound, directory, process, run, result

C == INSTANCE ObjectiveContract WITH Sources <- ChatMessages
S == INSTANCE SupervisorStatus WITH journal <- records, lock <- statusLock
Phase == INSTANCE WorkPhase
Unit == INSTANCE WorkUnit
Operation == INSTANCE LocalOperation

contractVars == <<source, intact, contract, written, outcome, catalog, advice, action, gap,
                  prepared, ran, losses>>
statusVars == <<records, current, statusLock, messages, write, deaths>>
phaseVars == <<phase, stage, item, check, finding, closed, reviews, accepted>>
unitVars == <<version, admits, unit, output, report, place, integrated, changes>>
operationVars == <<bound, directory, process, run, result>>
workVars == <<phaseVars, unitVars, operationVars>>
ledgerVars == <<scene, vars, contractVars, statusVars, workVars>>

LedgerInit ==
  /\ scene \in {"journal", "contract", "status", "phase", "unit", "operation"}
  /\ Init /\ C!Init /\ S!Init /\ Phase!Init /\ Unit!Init /\ Operation!Init

LedgerNext ==
  /\ scene' = scene
  /\ \/ scene = "journal" /\ Next /\ UNCHANGED <<contractVars, statusVars, workVars>>
     \/ scene = "contract" /\ C!Next /\ UNCHANGED <<vars, statusVars, workVars>>
     \/ scene = "status" /\ S!Next /\ UNCHANGED <<vars, contractVars, workVars>>
     \/ /\ scene = "phase" /\ Phase!Next
        /\ UNCHANGED <<vars, contractVars, statusVars, unitVars, operationVars>>
     \/ /\ scene = "unit" /\ Unit!Next
        /\ UNCHANGED <<vars, contractVars, statusVars, phaseVars, operationVars>>
     \/ /\ scene = "operation" /\ Operation!Next
        /\ UNCHANGED <<vars, contractVars, statusVars, phaseVars, unitVars>>

LedgerSpec == LedgerInit /\ [][LedgerNext]_ledgerVars

\* The variables of each component have their types.
LedgerTypeOK ==
  /\ scene = "journal" => TypeOK
  /\ scene = "contract" => C!TypeOK
  /\ scene = "status" => S!TypeOK

\* Effects of actions are not lost from view (ObjectiveContract).
EffectNeverForgotten == C!EffectNeverForgotten

\* Only the user retires what is owed to him, and the helper starts actions on
\* messages its owner has read (ObjectiveContract).
ContractSteps == C!RetiredOnlyByUser /\ C!StartsOnReadSources

\* A held transition waits for the Supervisor (SupervisorStatus).
HeldUntilAnswered == S!HeldUntilAnswered

\* A journal of the ledger, and the status the Supervisor pulls, are append-only
\* logs (ObjectiveJournal, SupervisorStatus, AppendOnlyLog).
LogsHold == JournalIsLog /\ S!StatusIsLog

\* Work is collected, handed over and recorded as what was really done: closed
\* findings, verified requests, observed processes (WorkPhase, WorkUnit,
\* LocalOperation).
WorkSound ==
  /\ [](scene = "phase" => Phase!PhaseInv)
  /\ [](scene = "unit" => Unit!UnitInv)
  /\ [](scene = "operation" => Operation!OperationInv)
  /\ [][Unit!StepSound]_unitVars
=============================================================================
