---------------------------- MODULE RestartHandoff ----------------------------
(***************************************************************************)
(* The restart that follows an update: the worker that installed it writes *)
(* a marker and exits, its supervisor accepts the marker and starts        *)
(* another worker, which claims the handoff and resumes the task (cli.py,  *)
(* server.py).  Any process may die at any point; a worker may outlive its *)
(* supervisor; an operator may settle an interrupted handoff.              *)
(*                                                                         *)
(* A worker is known by the generation of its launch, and so is the one    *)
(* marker it can leave, with its restart_id.  0 is no generation.          *)
(***************************************************************************)
EXTENDS Naturals, FiniteSets

CONSTANTS
  MaxSupervisors,   \* supervise commands, started at any time
  MaxGenerations,   \* workers launched
  MaxVersions,      \* updates installed
  MaxEdits          \* times another program edits the source, or undoes it

ASSUME RestartHandoffAssumption ==
  {MaxSupervisors, MaxGenerations, MaxVersions, MaxEdits} \subseteq Nat \ {0}

Supervisors == 1..MaxSupervisors
Gens == 1..MaxGenerations

VARIABLES
  code,       \* the installed version of the source
  edited,     \* whether another program has it changed
  edits,
  context,    \* supervisor.json
  pending,    \* pending.json: the generation whose marker it is
  accepted,   \* accepted-*.json
  claimed,    \* consumed-*.json
  parked,     \* resolved-*.json
  closed,     \* closed-*.json: generations that may no longer start
  recorded,   \* process-*.json, worker-*.json
  marker,     \* marker[g]: the version attested in the marker of g
  service,    \* owner of service-owner.lock
  lock,       \* owner of worker-owner.lock
  supervisor, \* where each supervisor is, and what it launched last
  worker,     \* where each worker is
  launch,     \* launch[g]: the context given to worker g
  loaded,     \* loaded[g]: the version worker g runs
  operator,   \* recover-restart
  resumed,    \* times the task of a handoff was resumed by its successor
  orphans     \* workers that outlived their supervisor

sourceVars == <<code, edited, edits>>
recordVars == <<context, pending, accepted, claimed, parked, closed, recorded, marker>>
lockVars == <<service, lock>>
workerVars == <<worker, launch, loaded>>
historyVars == <<resumed, orphans>>
vars == <<sourceVars, recordVars, lockVars, supervisor, workerVars, operator, historyVars>>

-------------------------------------------------------------------------------
Free == [kind |-> "free"]
Alone == [kind |-> "alone"]              \* serve without a supervisor
Operator == [kind |-> "operator"]
Supervisor(s) == [kind |-> "supervisor", id |-> s]
Worker(g) == [kind |-> "worker", id |-> g]

NoContext == [sup |-> 0, gen |-> 0, resume |-> 0]
Contexts == [sup : 0..MaxSupervisors, gen : 0..MaxGenerations, resume : 0..MaxGenerations]

Idle == [at |-> "none", gen |-> 0, resume |-> 0]
NoOperator == [at |-> "none", target |-> 0, gens |-> {}]

Owners == {Free, Alone, Operator} \cup {Supervisor(s) : s \in Supervisors}
                                  \cup {Worker(g) : g \in Gens}

SupervisorStates ==
  [at : {"none", "launching", "written", "spawned", "waiting", "accepting", "accepted", "ended"},
   gen : 0..MaxGenerations, resume : 0..MaxGenerations]

WorkerStates == {"none", "launched", "checked", "starting", "claimed", "serving", "marked",
                 "restarting", "exited", "exited to restart"}

OperatorStates ==
  [at : {"none", "closing", "resolved"}, target : 0..MaxGenerations, gens : SUBSET Gens]

TypeOK ==
  /\ code \in 0..MaxVersions /\ edited \in BOOLEAN /\ edits \in 0..MaxEdits
  /\ context \in Contexts
  /\ pending \in 0..MaxGenerations
  /\ accepted \subseteq Gens /\ parked \subseteq Gens /\ closed \subseteq Gens
  /\ claimed \in [Gens -> 0..MaxGenerations]
  /\ recorded \in [{"process", "worker"} -> SUBSET Gens]
  /\ marker \in [Gens -> 0..MaxVersions]
  /\ service \in Owners /\ lock \in Owners
  /\ supervisor \in [Supervisors -> SupervisorStates]
  /\ worker \in [Gens -> WorkerStates]
  /\ launch \in [Gens -> Contexts]
  /\ loaded \in [Gens -> 0..MaxVersions]
  /\ operator \in OperatorStates
  /\ resumed \in [Gens -> Nat]
  /\ orphans \subseteq Gens

Init ==
  /\ code = 0 /\ edited = FALSE /\ edits = 0
  /\ context = NoContext /\ pending = 0
  /\ accepted = {} /\ parked = {} /\ closed = {}
  /\ claimed = [g \in Gens |-> 0]
  /\ recorded = [kind \in {"process", "worker"} |-> {}]
  /\ marker = [g \in Gens |-> 0]
  /\ service = Free /\ lock = Free
  /\ supervisor = [s \in Supervisors |-> Idle]
  /\ worker = [g \in Gens |-> "none"]
  /\ launch = [g \in Gens |-> NoContext]
  /\ loaded = [g \in Gens |-> 0]
  /\ operator = NoOperator
  /\ resumed = [g \in Gens |-> 0]
  /\ orphans = {}

-------------------------------------------------------------------------------
(***************************************************************************)
(* What the records say.                                                   *)
(***************************************************************************)
Resolved(h) == claimed[h] # 0 \/ h \in parked

\* _restart_frontier(): markers that need a disposition.
Frontier == {h \in Gens : pending = h \/ (h \in accepted /\ ~Resolved(h))}

\* The source on disk is the one the marker of h attests.
Attested(h) == marker[h] # 0 /\ code = marker[h] /\ ~edited

Ended(g) == worker[g] \in {"none", "exited", "exited to restart"}
InLock(g) == worker[g] \in {"starting", "claimed", "serving", "marked", "restarting"}
Move(s, label) == supervisor' = [supervisor EXCEPT ![s].at = label]
Become(g, label) == worker' = [worker EXCEPT ![g] = label]
Release(g) == lock' = IF lock = Worker(g) THEN Free ELSE lock

-------------------------------------------------------------------------------
(***************************************************************************)
(* The supervisor: _supervise().                                           *)
(***************************************************************************)
\* Fault: unsettled handoffs do not keep a supervisor from starting.
StartUnchecked(s) ==
  /\ supervisor[s].at = "none"
  /\ service = Free
  /\ service' = Supervisor(s)
  /\ Move(s, "launching")
  /\ UNCHANGED <<sourceVars, recordVars, lock, workerVars, operator, historyVars>>

Start(s) ==
  /\ supervisor[s].at = "none"
  /\ service = Free
  /\ Frontier = {}
  /\ service' = Supervisor(s)
  /\ Move(s, "launching")
  /\ UNCHANGED <<sourceVars, recordVars, lock, workerVars, operator, historyVars>>

\* The context of a new generation is on disk before its process exists.
WriteContext(s, g) ==
  LET new == [sup |-> s, gen |-> g, resume |-> supervisor[s].resume]
  IN /\ supervisor[s].at = "launching"
     /\ launch[g] = NoContext
     /\ \A h \in Gens : h < g => launch[h] # NoContext
     /\ context' = new
     /\ launch' = [launch EXCEPT ![g] = new]
     /\ supervisor' = [supervisor EXCEPT ![s].at = "written", ![s].gen = g]
     /\ UNCHANGED <<sourceVars, pending, accepted, claimed, parked, closed, recorded, marker,
                    lockVars, worker, loaded, operator, historyVars>>

Spawn(s) ==
  /\ supervisor[s].at = "written"
  /\ Become(supervisor[s].gen, "launched")
  /\ Move(s, "spawned")
  /\ UNCHANGED <<sourceVars, recordVars, lockVars, launch, loaded, operator, historyVars>>

RecordProcess(s) ==
  /\ supervisor[s].at = "spawned"
  /\ recorded' = [recorded EXCEPT !["process"] = @ \cup {supervisor[s].gen}]
  /\ Move(s, "waiting")
  /\ UNCHANGED <<sourceVars, context, pending, accepted, claimed, parked, closed, marker,
                 lockVars, workerVars, operator, historyVars>>

\* validate_restart_marker() of the worker's own marker.
ValidPending(g) == /\ pending = g /\ g \in recorded["worker"]
                   /\ Attested(g) /\ claimed[g] = 0

\* Fault: the marker is removed before the accepted record is written.
SeeRestartClearing(s) ==
  /\ supervisor[s].at = "waiting"
  /\ worker[supervisor[s].gen] = "exited to restart"
  /\ ValidPending(supervisor[s].gen)
  /\ pending' = 0
  /\ Move(s, "accepting")
  /\ UNCHANGED <<sourceVars, context, accepted, claimed, parked, closed, recorded, marker,
                 lockVars, workerVars, operator, historyVars>>

\* The worker has exited to be replaced, and its marker is valid.
SeeRestart(s) ==
  /\ supervisor[s].at = "waiting"
  /\ worker[supervisor[s].gen] = "exited to restart"
  /\ ValidPending(supervisor[s].gen)
  /\ Move(s, "accepting")
  /\ UNCHANGED <<sourceVars, recordVars, lockVars, workerVars, operator, historyVars>>

\* It has exited otherwise, or its marker is refused: so does the supervisor.
SeeExit(s) ==
  /\ supervisor[s].at = "waiting"
  /\ \/ worker[supervisor[s].gen] = "exited"
     \/ worker[supervisor[s].gen] = "exited to restart" /\ ~ValidPending(supervisor[s].gen)
  /\ Move(s, "ended")
  /\ service' = Free
  /\ UNCHANGED <<sourceVars, recordVars, lock, workerVars, operator, historyVars>>

Accept(s) ==
  LET g == supervisor[s].gen
  IN /\ supervisor[s].at = "accepting"
     /\ accepted' = accepted \cup {g}
     /\ supervisor' = [supervisor EXCEPT ![s].at = "accepted", ![s].resume = g]
     /\ UNCHANGED <<sourceVars, context, pending, claimed, parked, closed, recorded, marker,
                    lockVars, workerVars, operator, historyVars>>

RemovePending(s) ==
  /\ supervisor[s].at = "accepted"
  /\ pending' = IF pending = supervisor[s].gen THEN 0 ELSE pending
  /\ Move(s, "launching")
  /\ UNCHANGED <<sourceVars, context, accepted, claimed, parked, closed, recorded, marker,
                 lockVars, workerVars, operator, historyVars>>

\* The supervisor dies, or is interrupted: its lock goes, its worker stays.
SupervisorDies(s) ==
  /\ supervisor[s].at \notin {"none", "ended"}
  /\ Move(s, "ended")
  /\ service' = Free
  /\ orphans' = orphans \cup {g \in Gens : g = supervisor[s].gen /\ ~Ended(g)}
  /\ UNCHANGED <<sourceVars, recordVars, lock, workerVars, operator, resumed>>

-------------------------------------------------------------------------------
(***************************************************************************)
(* The worker: _serve() and bind_restart_consumer().                       *)
(***************************************************************************)
\* The context is compared once before the locks are taken ...
Check(g) ==
  /\ worker[g] = "launched"
  /\ Become(g, IF context = launch[g] THEN "checked" ELSE "exited")
  /\ UNCHANGED <<sourceVars, recordVars, lockVars, launch, loaded, supervisor, operator,
                 historyVars>>

\* Fault: ... and not again.
EnterUnfenced(g) ==
  /\ worker[g] = "checked"
  /\ IF lock = Free
     THEN lock' = Worker(g) /\ Become(g, "starting") /\ loaded' = [loaded EXCEPT ![g] = code]
     ELSE Become(g, "exited") /\ UNCHANGED <<lock, loaded>>
  /\ UNCHANGED <<sourceVars, recordVars, service, launch, supervisor, operator, historyVars>>

\* ... and again with the lock held, with the closure of its generation.
Enter(g) ==
  /\ worker[g] = "checked"
  /\ IF lock = Free /\ context = launch[g] /\ g \notin closed
     THEN lock' = Worker(g) /\ Become(g, "starting") /\ loaded' = [loaded EXCEPT ![g] = code]
     ELSE Become(g, "exited") /\ UNCHANGED <<lock, loaded>>
  /\ UNCHANGED <<sourceVars, recordVars, service, launch, supervisor, operator, historyVars>>

\* A worker that replaces another claims the handoff before it resumes the
\* task, and serves nothing if it cannot.
Bind(g) ==
  LET h == launch[g].resume
  IN /\ worker[g] = "starting"
     /\ recorded' = [recorded EXCEPT !["worker"] = @ \cup {g}]
     /\ \/ h = 0 /\ Become(g, "serving") /\ UNCHANGED claimed
        \/ /\ h # 0 /\ h \in accepted /\ Attested(h) /\ claimed[h] = 0
           /\ claimed' = [claimed EXCEPT ![h] = g]
           /\ Become(g, "claimed")
     /\ UNCHANGED <<sourceVars, context, pending, accepted, parked, closed, marker, lockVars,
                    launch, loaded, supervisor, operator, historyVars>>

Resume(g) ==
  /\ worker[g] = "claimed"
  /\ resumed' = [resumed EXCEPT ![launch[g].resume] = @ + 1]
  /\ Become(g, "serving")
  /\ UNCHANGED <<sourceVars, recordVars, lockVars, launch, loaded, supervisor, operator, orphans>>

\* A task installs an update: SelfUpdate.
Install(g) ==
  /\ worker[g] = "serving"
  /\ code < MaxVersions /\ ~edited
  /\ code' = code + 1
  /\ UNCHANGED <<edited, edits, recordVars, lockVars, workerVars, supervisor, operator,
                 historyVars>>

\* on_restart(): the marker is created unless there is one ...
Mark(g) ==
  /\ worker[g] = "serving"
  /\ loaded[g] # code /\ ~edited
  /\ pending = 0
  /\ pending' = g
  /\ marker' = [marker EXCEPT ![g] = code]
  /\ Become(g, "marked")
  /\ UNCHANGED <<sourceVars, context, accepted, claimed, parked, closed, recorded, lockVars,
                 launch, loaded, supervisor, operator, historyVars>>

\* ... and read back.  If the source changed the task is held, and the worker
\* goes on with its marker in place.
ReadBack(g) ==
  /\ worker[g] = "marked"
  /\ Become(g, IF ValidPending(g) THEN "restarting" ELSE "serving")
  /\ UNCHANGED <<sourceVars, recordVars, lockVars, launch, loaded, supervisor, operator,
                 historyVars>>

ExitToRestart(g) ==
  /\ worker[g] = "restarting"
  /\ Become(g, "exited to restart")
  /\ Release(g)
  /\ UNCHANGED <<sourceVars, recordVars, service, launch, loaded, supervisor, operator,
                 historyVars>>

\* The worker dies, fails to start, or is stopped; a stop wins over a restart
\* already scheduled.
Exit(g) ==
  /\ ~Ended(g)
  /\ Become(g, "exited")
  /\ Release(g)
  /\ UNCHANGED <<sourceVars, recordVars, service, launch, loaded, supervisor, operator,
                 historyVars>>

-------------------------------------------------------------------------------
(***************************************************************************)
(* serve without a supervisor, and recover-restart --apply.                *)
(***************************************************************************)
ServeAlone ==
  /\ service = Free /\ lock = Free /\ Frontier = {}
  /\ service' = Alone /\ lock' = Alone
  /\ UNCHANGED <<sourceVars, recordVars, supervisor, workerVars, operator, historyVars>>

EndAlone ==
  /\ service = Alone
  /\ service' = Free /\ lock' = Free
  /\ UNCHANGED <<sourceVars, recordVars, supervisor, workerVars, operator, historyVars>>

\* The marker belongs to the last launch or to the one before, of the same
\* supervisor; its processes are on record and none of them is running.
Recoverable(h) ==
  /\ h \in Frontier
  /\ \/ context.gen = h
     \/ context.resume = h /\ h \in accepted
  /\ context.sup = launch[h].sup
  /\ Attested(h)
  /\ h \in recorded["process"] /\ h \in recorded["worker"]
  /\ supervisor[context.sup].at = "ended"
  /\ \A g \in {h, context.gen} :
       g \in recorded["process"] \cup recorded["worker"] => Ended(g)

Recover(h) ==
  /\ operator = NoOperator
  /\ service = Free /\ lock = Free
  /\ Recoverable(h)
  /\ service' = Operator /\ lock' = Operator
  /\ operator' = [at |-> "closing", target |-> h, gens |-> {h, context.gen}]
  /\ UNCHANGED <<sourceVars, recordVars, supervisor, workerVars, historyVars>>

Close(g) ==
  /\ operator.at = "closing"
  /\ g \in operator.gens \ closed
  /\ closed' = closed \cup {g}
  /\ UNCHANGED <<sourceVars, context, pending, accepted, claimed, parked, recorded, marker,
                 lockVars, supervisor, workerVars, operator, historyVars>>

\* Fault: the disposition is written before the generations are closed.
ParkUnclosed ==
  /\ operator.at = "closing"
  /\ parked' = parked \cup {operator.target}
  /\ operator' = [operator EXCEPT !.at = "resolved"]
  /\ UNCHANGED <<sourceVars, context, pending, accepted, claimed, closed, recorded, marker,
                 lockVars, supervisor, workerVars, historyVars>>

Park ==
  /\ operator.at = "closing"
  /\ operator.gens \subseteq closed
  /\ parked' = parked \cup {operator.target}
  /\ operator' = [operator EXCEPT !.at = "resolved"]
  /\ UNCHANGED <<sourceVars, context, pending, accepted, claimed, closed, recorded, marker,
                 lockVars, supervisor, workerVars, historyVars>>

Finish ==
  /\ operator.at = "resolved"
  /\ pending' = IF pending = operator.target THEN 0 ELSE pending
  /\ operator' = NoOperator
  /\ service' = Free /\ lock' = Free
  /\ UNCHANGED <<sourceVars, context, accepted, claimed, parked, closed, recorded, marker,
                 supervisor, workerVars, historyVars>>

OperatorDies ==
  /\ operator # NoOperator
  /\ operator' = NoOperator
  /\ service' = Free /\ lock' = Free
  /\ UNCHANGED <<sourceVars, recordVars, supervisor, workerVars, historyVars>>

\* Another program edits the source, or puts back what it had changed.
Edit ==
  /\ edits < MaxEdits
  /\ edits' = edits + 1
  /\ edited' = ~edited
  /\ UNCHANGED <<code, recordVars, lockVars, supervisor, workerVars, operator, historyVars>>

-------------------------------------------------------------------------------
SupervisorStep(s) ==
  \/ Start(s) \/ \E g \in Gens : WriteContext(s, g)
  \/ Spawn(s) \/ RecordProcess(s) \/ SeeRestart(s) \/ SeeExit(s)
  \/ Accept(s) \/ RemovePending(s) \/ SupervisorDies(s)

WorkerStep(g) ==
  \/ Check(g) \/ Enter(g) \/ Bind(g) \/ Resume(g) \/ Install(g)
  \/ Mark(g) \/ ReadBack(g) \/ ExitToRestart(g) \/ Exit(g)

OperatorStep ==
  \/ \E h \in Gens : Recover(h) \/ Close(h)
  \/ Park \/ Finish \/ OperatorDies

Next ==
  \/ \E s \in Supervisors : SupervisorStep(s)
  \/ \E g \in Gens : WorkerStep(g)
  \/ OperatorStep
  \/ ServeAlone \/ EndAlone
  \/ Edit

Spec == Init /\ [][Next]_vars

-------------------------------------------------------------------------------
(***************************************************************************)
(* Properties.                                                             *)
(***************************************************************************)
\* A handoff is disposed of once: its task is resumed by one successor, once,
\* or the handoff is parked and never resumed, however late a worker of an old
\* launch wakes up.
DisposedOnce ==
  \A h \in Gens : resumed[h] + (IF h \in parked THEN 1 ELSE 0) <= 1

\* No crash loses a handoff: from its marker on it is pending, accepted or
\* parked, so that a later start cannot overlook it.
HandoffKept ==
  \A h \in Gens : marker[h] # 0 => pending = h \/ h \in accepted \/ h \in parked

\* While a handoff waits for its disposition nobody else serves tasks, but for
\* handoffs of workers that outlived their supervisor.
NoWorkBesideHandoff ==
  \A h \in Frontier \ orphans :
    /\ service # Alone
    /\ \A g \in Gens \ {h} : worker[g] \notin {"serving", "marked", "restarting"}

\* "RESTART_PENDING_REQUIRES_RECONCILIATION: recover-restart ...": with every
\* process over and the attested source in place, the operator can settle what
\* keeps the service from starting.
OperatorCanSettle ==
  /\ service = Free /\ lock = Free /\ \A g \in Gens : Ended(g)
  => \A h \in Frontier : Attested(h) /\ h \in recorded["process"] => Recoverable(h)

-------------------------------------------------------------------------------
(***************************************************************************)
(* Why DisposedOnce and HandoffKept hold: the inductive invariant of their *)
(* proofs, in named parts.                                                 *)
(***************************************************************************)
Active(s) == supervisor[s].at \notin {"none", "ended"}
Launched(g) == launch[g] # NoContext

\* The two locks are what the processes believe they are.
LocksHeld ==
  /\ \A s \in Supervisors : Active(s) => service = Supervisor(s)
  /\ operator # NoOperator => service = Operator /\ lock = Operator
  /\ service = Alone => lock = Alone
  /\ \A g \in Gens : InLock(g) => lock = Worker(g)

\* Generations are launched in order, and supervisor.json is the last launch.
LaunchOrder ==
  /\ \A g \in Gens : Launched(g) =>
       /\ launch[g].gen = g
       /\ launch[g].sup \in Supervisors
       /\ launch[g].resume < g
       /\ g <= context.gen
       /\ \A h \in Gens : h < g => Launched(h)
  /\ context # NoContext => context.gen \in Gens /\ launch[context.gen] = context
  /\ \A g \in Gens : worker[g] # "none" => Launched(g)

\* A supervisor at work knows its worker, which is the last one launched; once
\* it has accepted the worker's handoff, the next launch is to resume that.
OwnWorker(s) ==
  LET g == supervisor[s].gen
  IN /\ supervisor[s].at \in {"written", "spawned", "waiting", "accepting", "accepted"}
          => g \in Gens /\ Launched(g) /\ launch[g].sup = s /\ context.gen = g
     /\ supervisor[s].at = "written" => worker[g] = "none"
     /\ supervisor[s].at \in {"accepting", "accepted"} => worker[g] = "exited to restart"
     /\ supervisor[s].at = "accepted" => g \in accepted /\ supervisor[s].resume = g
     /\ supervisor[s].at = "launching" /\ supervisor[s].resume # 0
          => /\ g \in Gens /\ Launched(g) /\ launch[g].sup = s /\ context.gen = g
             /\ g \in accepted /\ pending # g /\ worker[g] = "exited to restart"
             /\ supervisor[s].resume = g
     /\ supervisor[s].at = "none" => supervisor[s].resume = 0

\* One launch at most resumes a handoff, whose marker is gone by then.
Successor(g, h) == h # 0 /\ launch[g].resume = h

OneSuccessor ==
  /\ \A g, h \in Gens : Successor(g, h) =>
       /\ h \in accepted /\ pending # h /\ worker[h] = "exited to restart"
       /\ launch[h].sup = launch[g].sup
  /\ \A f, g, h \in Gens : Successor(f, h) /\ Successor(g, h) => f = g

\* A task is resumed by the successor that claimed its handoff, once.
ClaimFirst ==
  /\ \A h \in Gens : claimed[h] # 0 => Successor(claimed[h], h)
  /\ \A h \in Gens : resumed[h] <= 1 /\ (resumed[h] > 0 => claimed[h] # 0)
  /\ \A g \in Gens : worker[g] = "claimed" =>
       LET h == launch[g].resume
       IN h # 0 /\ claimed[h] = g /\ resumed[h] = 0

\* The supervisor of a handoff that is being settled is over, and nobody but
\* the generations to close can claim it.
Settling ==
  operator # NoOperator =>
    LET h == operator.target
    IN /\ h \in Gens /\ claimed[h] = 0 /\ Launched(h)
       /\ supervisor[launch[h].sup].at = "ended"
       /\ \A g \in Gens : Successor(g, h) => g \in operator.gens
       /\ operator.at = "resolved" => h \in parked

\* A parked handoff stays unclaimed: whoever could claim it is closed.
ParkedForGood ==
  \A h \in parked :
    /\ claimed[h] = 0 /\ Launched(h)
    /\ supervisor[launch[h].sup].at = "ended"
    /\ \A g \in Gens : Successor(g, h) => g \in closed /\ ~InLock(g)

IInv ==
  /\ TypeOK
  /\ LocksHeld
  /\ LaunchOrder
  /\ \A s \in Supervisors : OwnWorker(s)
  /\ OneSuccessor
  /\ ClaimFirst
  /\ Settling
  /\ ParkedForGood
  /\ HandoffKept

-------------------------------------------------------------------------------
(***************************************************************************)
(* Why NoWorkBesideHandoff holds: a stronger inductive invariant.          *)
(***************************************************************************)
\* A worker that is neither over nor outlived its supervisor is the one its
\* supervisor waits for.
Attended(g) ==
  ~Ended(g) /\ g \notin orphans =>
    /\ launch[g].sup \in Supervisors
    /\ supervisor[launch[g].sup].gen = g
    /\ supervisor[launch[g].sup].at \in {"spawned", "waiting"}

\* A worker that was launched to resume a handoff serves only once it has
\* claimed it.
BoundFirst(g) ==
  /\ worker[g] \in {"claimed", "serving", "marked", "restarting", "exited to restart"}
  /\ launch[g].resume # 0
  => claimed[launch[g].resume] = g

\* What a supervisor accepts is the pending marker.
AcceptsPending(s) == supervisor[s].at = "accepting" => pending = supervisor[s].gen

\* A handoff of an attended worker is the affair of the last launch: who holds
\* the worker's lock, or is to be launched, is there to resume it.
Beside(h) ==
  /\ service # Alone
  /\ context.gen = h \/ context.resume = h
  /\ \A g \in Gens \ {h} : InLock(g) => launch[g].resume = h
  /\ \A s \in Supervisors :
       /\ supervisor[s].at \in {"accepting", "accepted"} => supervisor[s].gen = h
       /\ supervisor[s].at = "launching" => supervisor[s].resume = h

FrontierInv ==
  /\ IInv
  /\ \A g \in Gens : Attended(g) /\ BoundFirst(g)
  /\ \A s \in Supervisors : AcceptsPending(s)
  /\ \A h \in Frontier \ orphans : Beside(h)

===============================================================================
