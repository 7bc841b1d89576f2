------------------------------ MODULE SelfUpdate ------------------------------
(***************************************************************************)
(* How the harness updates its own source: UpdateManager (updates.py),     *)
(* Maintenance (maintenance.py) and the parts of PracticalEngine that keep *)
(* tasks away from a half-written tree.  A candidate is staged from the    *)
(* tree on disk, tested in a container, reviewed, written file by file and *)
(* used by the next process; it can be rolled back from its preimage.      *)
(* The process may end between any two writes, and other programs may edit *)
(* the tree.                                                               *)
(***************************************************************************)
EXTENDS Naturals, Sequences, SequencesExt

CONSTANTS
  Paths,        \* source files of the controller
  Candidates,   \* proposed updates
  Changes,      \* Changes[c]: the files a candidate replaces, in order
  Tasks,        \* tasks of the user
  Uses,         \* ordinary operations
  Original,     \* content of every file before any update
  Foreign,      \* content written by another program
  Temp,         \* the name of _write()'s temporary, beside the file it becomes
  Absent,       \* no file of a name
  Partial,      \* content of a temporary that was never renamed
  MaxBoots,     \* processes started, one after another
  MaxOutside,   \* edits by other programs and enrolled test baselines, together
  MaxRows       \* rows of maintenance operations kept at a time

ASSUME SelfUpdateAssumption ==
  /\ \A c \in Candidates : Changes[c] \in Seq(Paths) /\ Changes[c] # <<>>
  /\ Temp \notin Paths
  /\ \A x \in {Original, Foreign, Absent, Partial} : x \notin Candidates
  /\ Original # Foreign /\ Absent # Partial
  /\ MaxBoots \in Nat \ {0} /\ {MaxOutside, MaxRows} \subseteq Nat

VARIABLES
  code,         \* the files on disk
  edits,        \* edits made by other programs
  epoch,        \* the enrolled baseline of tests
  cand,         \* candidate directories: images before and after, baseline
  owner,        \* the task a candidate was proposed by
  verification, \* status of the latest verification of a candidate
  torn,         \* candidates whose verification was saved in one of two places
  box,          \* the test container of a candidate
  activation,   \* activation.json of a candidate
  active,       \* active.json
  ops,          \* rows of maintenance operations that still matter
  use,          \* runtime records of the ordinary operations
  up, pid,      \* whether a process runs, and which one
  loaded,       \* the source that process loaded
  pending,      \* maintenance_restart_pending of that process
  running,      \* what each task is doing in that process
  job           \* the holder of update.lock

diskVars == <<code, edits, epoch>>
updateVars == <<cand, owner, verification, torn, box, activation, active>>
processVars == <<up, pid, loaded, pending, running, job>>
vars == <<diskVars, updateVars, ops, use, processVars>>

-------------------------------------------------------------------------------
Files == Paths \cup {Temp}
Contents == {Original, Foreign, Absent, Partial} \cup Candidates
Manifests == [Files -> Contents]
Base == [p \in Files |-> IF p = Temp THEN Absent ELSE Original]

None == [kind |-> "none"]

Patched(tree, c) ==
  [p \in Files |-> IF p \in Range(Changes[c]) THEN c ELSE tree[p]]

Activations ==
  {None} \cup [kind : {"activation"},
               status : {"activating", "activated", "interrupted", "rolling_back",
                         "rolled_back", "rollback_interrupted"},
               by : 1..MaxBoots,          \* activator_runtime
               undoneBy : 0..MaxBoots]    \* rollback_runtime

Pointers == {None} \cup [kind : {"pointer"}, cand : Candidates, row : Activations]

Rows == [kind : {"verify", "apply", "rollback"}, task : Tasks, cand : Candidates,
         result : {"none", "unknown", "succeeded"}]

Records ==
  [status : {"none", "started", "recorded"}, task : Tasks \cup {None},
   pid : 0..MaxBoots, ran : Manifests, under : Pointers, observed : BOOLEAN]

NoUse == [status |-> "none", task |-> None, pid |-> 0, ran |-> Base, under |-> None,
          observed |-> FALSE]

Jobs == {None} \cup [kind : {"verify"}, task : Tasks, cand : Candidates]
               \cup [kind : {"activate", "rollback"}, task : Tasks, cand : Candidates,
                     next : Nat, seen : {None} \cup Contents]

TypeOK ==
  /\ code \in Manifests
  /\ edits \in 0..MaxOutside
  /\ epoch \in 0..MaxOutside
  /\ cand \in [Candidates -> {None} \cup [kind : {"candidate"}, before : Manifests,
                                          after : Manifests, epoch : 0..MaxOutside]]
  /\ owner \in [Candidates -> Tasks \cup {None}]
  /\ verification \in [Candidates -> {"none", "started", "succeeded", "failed", "unknown"}]
  /\ torn \subseteq Candidates
  /\ box \in [Candidates -> {"none", "running", "passed", "failed"}]
  /\ activation \in [Candidates -> Activations]
  /\ active \in Pointers
  /\ ops \in Seq(Rows) /\ Len(ops) <= MaxRows
  /\ use \in [Uses -> Records]
  /\ up \in BOOLEAN /\ pid \in 1..MaxBoots /\ loaded \in Manifests /\ pending \in BOOLEAN
  /\ running \in [Tasks -> {"off", "resuming", "restarting", "working", "reviewing",
                            "verifying", "applying", "using"}]
  /\ job \in Jobs

Init ==
  /\ code = Base /\ edits = 0 /\ epoch = 0
  /\ cand = [c \in Candidates |-> None]
  /\ owner = [c \in Candidates |-> None]
  /\ verification = [c \in Candidates |-> "none"]
  /\ torn = {}
  /\ box = [c \in Candidates |-> "none"]
  /\ activation = [c \in Candidates |-> None]
  /\ active = None
  /\ ops = <<>>
  /\ use = [u \in Uses |-> NoUse]
  /\ up = TRUE /\ pid = 1 /\ loaded = Base /\ pending = FALSE
  /\ running = [t \in Tasks |-> "off"]
  /\ job = None

-------------------------------------------------------------------------------
(***************************************************************************)
(* What the records say.                                                   *)
(***************************************************************************)
Staged(c) == cand[c] # None
Confirmed(row) == row # None /\ row.status \in {"activated", "rolled_back"}
Unknown(c) == activation[c] # None /\ ~Confirmed(activation[c])

\* _active_binding(): the pointer counts while its activation is confirmed, and
\* is refused when it differs from it.
Mismatch == active # None /\ Confirmed(activation[active.cand])
                          /\ activation[active.cand] # active.row
Binding == IF active # None /\ Confirmed(activation[active.cand]) THEN active ELSE None

Expected(pointer) ==
  IF pointer.row.status = "rolled_back" THEN cand[pointer.cand].before
                                        ELSE cand[pointer.cand].after
Actor(pointer) ==
  IF pointer.row.status = "rolled_back" THEN pointer.row.undoneBy ELSE pointer.row.by

Unresolved(i) == ops[i].result # "succeeded"
Open(t) == {i \in DOMAIN ops : ops[i].task = t /\ Unresolved(i)}

\* Interrupted applications and rollbacks, of all tasks or of one.
IsTarget(i) == ops[i].kind # "verify" /\ Unresolved(i) /\ Unknown(ops[i].cand)
RecoveryTargets == {i \in DOMAIN ops : IsTarget(i)}
TargetsOf(t) == {i \in RecoveryTargets : ops[i].task = t}

\* What reconcile() makes of a verification whose end was not recorded: the
\* container is stopped and seen ended, or not seen.
Reconciled(c) ==
  IF verification[c] \in {"started", "unknown"} THEN {"failed", "unknown"}
                                                 ELSE {verification[c]}

\* Maintenance.recover(): the result of an operation, from the records and the
\* tree; "failed" rows need nothing more and are dropped.
Done(kind, c, verified) ==
  \/ kind = "verify" /\ verified = "succeeded"
  \/ /\ kind = "apply" /\ activation[c] # None
     /\ activation[c].status = "activated" /\ code = cand[c].after
  \/ /\ kind = "rollback" /\ activation[c] # None
     /\ activation[c].status = "rolled_back" /\ code = cand[c].before
Outcome(kind, c, verified) ==
  IF verified = "unknown" \/ Unknown(c) THEN "unknown"
  ELSE IF Done(kind, c, verified) THEN "succeeded" ELSE "failed"

\* A row matters while it is unresolved, or while its restart is to come.
Matters(row) == row.result # "failed" /\ (row.kind = "verify" => row.result # "succeeded")
Set(rows, i, result) == [rows EXCEPT ![i].result = result]
\* Fault: rows whose operation failed stay.
KeptAll(rows) == rows
Kept(rows) ==
  LET kept[n \in 0..Len(rows)] ==
        IF n = 0 THEN <<>>
        ELSE IF Matters(rows[n]) THEN Append(kept[n - 1], rows[n]) ELSE kept[n - 1]
  IN kept[Len(rows)]

InProcess == up /\ (job = None \/ job.kind = "verify")
Idle(t) == \A other \in Tasks \ {t} : running[other] = "off"
Run(t, phase) == running' = [running EXCEPT ![t] = phase]
KillBox(c) ==
  box' = IF box[c] = "running" THEN [box EXCEPT ![c] = "failed"] ELSE box

-------------------------------------------------------------------------------
(***************************************************************************)
(* Candidates: describe() and stage().  The directory is renamed into      *)
(* place whole, so a crash leaves no candidate or all of it.               *)
(***************************************************************************)
Propose(t, c) ==
  /\ InProcess /\ job = None
  /\ running[t] = "working" /\ Open(t) = {}
  /\ ~Mismatch
  /\ ~Staged(c)
  /\ cand' = [cand EXCEPT ![c] = [kind |-> "candidate", before |-> code,
                                  after |-> Patched(code, c), epoch |-> epoch]]
  /\ owner' = [owner EXCEPT ![c] = t]
  /\ UNCHANGED <<diskVars, verification, torn, box, activation, active, ops, use,
                 processVars>>

(***************************************************************************)
(* Verification.                                                           *)
(***************************************************************************)
\* A new run is on record before its container is created.  A successful run
\* is reused and an unresolved one is not replayed: neither changes anything.
BeginVerify(t, c) ==
  /\ InProcess /\ job = None
  /\ running[t] = "working" /\ Open(t) = {}
  /\ ~Mismatch
  /\ Staged(c) /\ owner[c] = t /\ c \notin torn
  /\ cand[c].epoch = epoch
  /\ verification[c] \in {"none", "failed"}
  /\ Len(ops) < MaxRows
  /\ ops' = Append(ops, [kind |-> "verify", task |-> t, cand |-> c, result |-> "none"])
  /\ verification' = [verification EXCEPT ![c] = "started"]
  /\ box' \in {[box EXCEPT ![c] = state] : state \in {"running", "failed"}}
  /\ job' = [kind |-> "verify", task |-> t, cand |-> c]
  /\ Run(t, "verifying")
  /\ UNCHANGED <<diskVars, cand, owner, torn, activation, active, use, up, pid,
                 loaded, pending>>

\* The tests in the container end, whoever is still watching (external).
BoxEnds(c) ==
  /\ box[c] = "running"
  /\ box' \in {[box EXCEPT ![c] = state] : state \in {"passed", "failed"}}
  /\ UNCHANGED <<diskVars, cand, owner, verification, torn, activation, active, ops,
                 use, processVars>>

\* The rest of a verify operation: its record and its row are saved.
Conclude(t, c, status) ==
  /\ verification' = [verification EXCEPT ![c] = status]
  /\ \E i \in DOMAIN ops :
       /\ ops[i].task = t /\ ops[i].kind = "verify" /\ ops[i].cand = c
       /\ ops' = Kept(Set(ops, i, status))
  /\ job' = None
  /\ Run(t, IF status = "unknown" THEN "off" ELSE "working")
  /\ UNCHANGED <<diskVars, cand, owner, torn, activation, active, use, up, pid,
                 loaded, pending>>

Verifying(t, c) == up /\ job # None /\ job.kind = "verify" /\ job.task = t /\ job.cand = c

\* Fault: an ended container is a pass, whatever its exit code and reports.
VerifyPassesUnchecked(t, c) ==
  /\ Verifying(t, c)
  /\ box[c] \in {"passed", "failed"}
  /\ Conclude(t, c, "succeeded")
  /\ UNCHANGED box

\* Complete reports of a clean exit, and a candidate that is unchanged.  A baseline
\* enrolled meanwhile makes the result useless, which activate() finds out.
VerifyPasses(t, c) ==
  /\ Verifying(t, c)
  /\ box[c] = "passed"
  /\ Conclude(t, c, "succeeded")
  /\ UNCHANGED box

\* A failed test, a time limit, a cancellation, damaged reports: the container
\* is stopped; if it is not seen ended the result is unknown.
VerifyFails(t, c) ==
  /\ Verifying(t, c)
  /\ \/ KillBox(c) /\ Conclude(t, c, "failed")
     \/ UNCHANGED box /\ Conclude(t, c, "unknown")

-------------------------------------------------------------------------------
(***************************************************************************)
(* harness_apply and harness_rollback.                                     *)
(***************************************************************************)
\* Only the update that is active, or one this task left interrupted, can be
\* rolled back; only the task's own candidate applied.  A row is saved, and
\* the review awaited.
Request(t, kind, c) ==
  /\ InProcess
  /\ running[t] = "working"
  /\ ~Mismatch
  /\ Staged(c) /\ c \notin torn
  /\ \/ kind = "apply" /\ owner[c] = t /\ Open(t) = {}
     \/ /\ kind = "rollback" /\ activation[c] # None
        /\ \A i \in Open(t) : i \in TargetsOf(t) /\ ops[i].cand = c
        /\ \/ Binding # None /\ Binding.cand = c
           \/ \E i \in TargetsOf(t) : ops[i].cand = c
  /\ Len(ops) < MaxRows
  /\ ops' = Append(ops, [kind |-> kind, task |-> t, cand |-> c, result |-> "none"])
  /\ Run(t, "reviewing")
  /\ UNCHANGED <<diskVars, updateVars, use, up, pid, loaded, pending, job>>

\* The row under review, or being carried out, is the newest of its task.
IsLatest(t, i) ==
  /\ i \in DOMAIN ops /\ ops[i].task = t
  /\ \A j \in DOMAIN ops : ops[j].task = t => j <= i

\* An error on the way: reconcile() observes, and the row gets what it saw.
\* The task goes on, except after an unknown result that is not an apply.
Observe(t, i) ==
  LET c == ops[i].cand
  IN \E verified \in Reconciled(c) :
       LET result == Outcome(ops[i].kind, c, verified)
       IN /\ ops' = Kept(Set(ops, i, result))
          /\ verification' = [verification EXCEPT ![c] = verified]
          /\ IF verified # verification[c] THEN KillBox(c) ELSE UNCHANGED box
          /\ \/ Run(t, IF result = "unknown" /\ (ops[i].kind # "apply" \/ ~Unknown(c))
                       THEN "off" ELSE "working")
             \/ Run(t, "off")

\* The review refuses, the source or the access changed, another task is
\* active, or the user stops the task.  While a test holds the lock reconcile()
\* is refused too: the task is held with its row unresolved.
Withdraw(t) ==
  /\ InProcess
  /\ running[t] = "reviewing"
  /\ IF job = None
     THEN \E i \in DOMAIN ops : IsLatest(t, i) /\ Observe(t, i)
     ELSE Run(t, "off") /\ UNCHANGED <<ops, verification, box>>
  /\ UNCHANGED <<diskVars, cand, owner, torn, activation, active, use, up, pid,
                 loaded, pending, job>>

MayActivate(c) ==
  /\ verification[c] = "succeeded" /\ cand[c].epoch = epoch
  /\ activation[c] = None
  /\ code = cand[c].before

\* The same candidate again, still in place: its activation is returned.
Reused(c) ==
  /\ verification[c] = "succeeded" /\ cand[c].epoch = epoch
  /\ activation[c] # None /\ activation[c].status = "activated"
  /\ code = cand[c].after

MayRollBack(c) ==
  /\ activation[c] # None
  /\ \A p \in Files : code[p] \in {cand[c].before[p], cand[c].after[p]}

Approved(t, kind, i) ==
  /\ InProcess /\ job = None
  /\ running[t] = "reviewing" /\ IsLatest(t, i) /\ ops[i].kind = kind
  /\ Idle(t)

\* activate(): the intent is saved before the first file is written.
Activate(t) ==
  /\ \E i \in DOMAIN ops :
       LET c == ops[i].cand
       IN /\ Approved(t, "apply", i)
          /\ MayActivate(c)
          /\ activation' = [activation EXCEPT ![c] =
               [kind |-> "activation", status |-> "activating", by |-> pid, undoneBy |-> 0]]
          /\ job' = [kind |-> "activate", task |-> t, cand |-> c, next |-> 1,
                     seen |-> None]
  /\ pending' = TRUE
  /\ Run(t, "applying")
  /\ UNCHANGED <<diskVars, cand, owner, verification, torn, box, active, ops, use, up,
                 pid, loaded>>

ReuseActivation(t) ==
  /\ \E i \in DOMAIN ops :
       /\ Approved(t, "apply", i)
       /\ Reused(ops[i].cand)
       /\ ops' = Set(ops, i, "succeeded")
  /\ pending' = TRUE
  /\ Run(t, "restarting")
  /\ UNCHANGED <<diskVars, updateVars, use, up, pid, loaded, job>>

\* rollback(): every file must be one of the two images.
RollBack(t) ==
  /\ \E i \in DOMAIN ops :
       LET c == ops[i].cand
       IN /\ Approved(t, "rollback", i)
          /\ MayRollBack(c)
          /\ activation' = [activation EXCEPT ![c].status = "rolling_back",
                                              ![c].undoneBy = pid]
          /\ job' = [kind |-> "rollback", task |-> t, cand |-> c, next |-> 1,
                     seen |-> None]
  /\ pending' = TRUE
  /\ Run(t, "applying")
  /\ UNCHANGED <<diskVars, cand, owner, verification, torn, box, active, ops, use, up,
                 pid, loaded>>

\* activate() or rollback() refuses before its first write.  New work is let in
\* again only if the tree is seen as it was before the candidate.
Refuse(t) ==
  /\ \E i \in DOMAIN ops :
       LET c == ops[i].cand
       IN /\ IF ops[i].kind = "apply"
             THEN Approved(t, "apply", i) /\ ~MayActivate(c) /\ ~Reused(c)
             ELSE Approved(t, "rollback", i) /\ ~MayRollBack(c)
          /\ Observe(t, i)
          /\ pending' = ~( /\ ~Unknown(c) /\ verification'[c] # "unknown"
                           /\ code = cand[c].before )
  /\ UNCHANGED <<diskVars, cand, owner, torn, activation, active, use, up, pid,
                 loaded, job>>

-------------------------------------------------------------------------------
(***************************************************************************)
(* Writing the tree.  No other handler of the process runs in between.     *)
(* Each file is hashed, then its new content is written beside it, forced  *)
(* to disk and renamed over it: another program may edit it in between.    *)
(***************************************************************************)
Writing(t, kind) == up /\ job # None /\ job.kind = kind /\ job.task = t
Todo == job.next <= Len(Changes[job.cand])
Target == Changes[job.cand][job.next]
Advance == job' = [job EXCEPT !.next = @ + 1, !.seen = None]
See == job' = [job EXCEPT !.seen = code[Target]]

\* _apply_files(): a file is replaced only if it was seen to be the preimage.
LookNew(t) ==
  /\ Writing(t, "activate") /\ Todo /\ job.seen = None
  /\ code[Target] = cand[job.cand].before[Target]
  /\ See
  /\ UNCHANGED <<diskVars, updateVars, ops, use, up, pid, loaded, pending, running>>

WriteNew(t) ==
  /\ Writing(t, "activate") /\ Todo /\ job.seen # None
  /\ code' = [code EXCEPT ![Target] = job.cand]
  /\ Advance
  /\ UNCHANGED <<edits, epoch, updateVars, ops, use, up, pid, loaded, pending, running>>

\* A file already restored, or never replaced, is passed over.
PassOver(t) ==
  /\ Writing(t, "rollback") /\ Todo /\ job.seen = None
  /\ code[Target] = cand[job.cand].before[Target]
  /\ Advance
  /\ UNCHANGED <<diskVars, updateVars, ops, use, up, pid, loaded, pending, running>>

\* Fault: a file is restored whatever it holds.
LookOldUnchecked(t) ==
  /\ Writing(t, "rollback") /\ Todo /\ job.seen = None
  /\ code[Target] # cand[job.cand].before[Target]
  /\ See
  /\ UNCHANGED <<diskVars, updateVars, ops, use, up, pid, loaded, pending, running>>

LookOld(t) ==
  /\ Writing(t, "rollback") /\ Todo /\ job.seen = None
  /\ code[Target] # cand[job.cand].before[Target]
  /\ code[Target] = job.cand
  /\ See
  /\ UNCHANGED <<diskVars, updateVars, ops, use, up, pid, loaded, pending, running>>

WriteOld(t) ==
  /\ Writing(t, "rollback") /\ Todo /\ job.seen # None
  /\ code' = [code EXCEPT ![Target] = cand[job.cand].before[Target]]
  /\ Advance
  /\ UNCHANGED <<edits, epoch, updateVars, ops, use, up, pid, loaded, pending, running>>

\* Fault: confirmed as soon as the files were gone through.
ConfirmUnread(t) ==
  /\ \E kind \in {"activate", "rollback"} : Writing(t, kind)
  /\ job.next = 2
  /\ LET c == job.cand
     IN \/ /\ Writing(t, "activate")
           /\ activation' = [activation EXCEPT ![c].status = "activated"]
        \/ /\ Writing(t, "rollback")
           /\ activation' = [activation EXCEPT ![c].status = "rolled_back"]
  /\ Advance
  /\ UNCHANGED <<diskVars, cand, owner, verification, torn, box, active, ops, use, up,
                 pid, loaded, pending, running>>

\* The whole tree is read back and the activation confirmed.
Confirm(t) ==
  /\ \E kind \in {"activate", "rollback"} : Writing(t, kind)
  /\ job.next = Len(Changes[job.cand]) + 1
  /\ LET c == job.cand
     IN \/ /\ Writing(t, "activate") /\ code = cand[c].after
           /\ activation' = [activation EXCEPT ![c].status = "activated"]
        \/ /\ Writing(t, "rollback") /\ code = cand[c].before
           /\ activation' = [activation EXCEPT ![c].status = "rolled_back"]
  /\ Advance
  /\ UNCHANGED <<diskVars, cand, owner, verification, torn, box, active, ops, use, up,
                 pid, loaded, pending, running>>

\* active.json is a file of its own, written second.
Publish(t) ==
  /\ \E kind \in {"activate", "rollback"} : Writing(t, kind)
  /\ job.next = Len(Changes[job.cand]) + 2
  /\ active' = [kind |-> "pointer", cand |-> job.cand, row |-> activation[job.cand]]
  /\ Advance
  /\ UNCHANGED <<diskVars, cand, owner, verification, torn, box, activation, ops, use, up,
                 pid, loaded, pending, running>>

\* Then the row gets its result, and after a rollback the interrupted rows it
\* settles get theirs.
SaveResult(t) ==
  /\ \E kind \in {"activate", "rollback"} : Writing(t, kind)
  /\ job.next = Len(Changes[job.cand]) + 3
  /\ LET c == job.cand
         Settled(i) ==
           IF IsLatest(t, i) THEN "succeeded"
           ELSE IF /\ job.kind = "rollback" /\ i \in Open(t)
                   /\ ops[i].kind # "verify" /\ ops[i].cand = c
                THEN Outcome(ops[i].kind, c, verification[c])
                ELSE ops[i].result
     IN ops' = Kept([i \in DOMAIN ops |-> [ops[i] EXCEPT !.result = Settled(i)]])
  /\ job' = None
  /\ Run(t, "restarting")
  /\ UNCHANGED <<diskVars, updateVars, use, up, pid, loaded, pending>>

\* A file that is neither image, a tree that does not read back, or a failing
\* write, the pointer's too: the interruption is saved and nothing is undone.
BreakOff(t) ==
  /\ \E kind \in {"activate", "rollback"} : Writing(t, kind)
  /\ job.next <= Len(Changes[job.cand]) + 2
  /\ LET c == job.cand
     IN activation' = [activation EXCEPT ![c].status =
          IF job.kind = "activate" THEN "interrupted" ELSE "rollback_interrupted"]
  /\ \E i \in DOMAIN ops : IsLatest(t, i) /\ ops' = Set(ops, i, "unknown")
  /\ Run(t, IF job.kind = "activate" THEN "working" ELSE "off")
  /\ job' = None
  /\ UNCHANGED <<diskVars, cand, owner, verification, torn, box, active, use, up, pid,
                 loaded, pending>>

-------------------------------------------------------------------------------
(***************************************************************************)
(* Tasks: start_task(), run_task(), _restart_if_needed().                  *)
(***************************************************************************)
StartTask(t) ==
  /\ InProcess
  /\ running[t] = "off"
  /\ pending => TargetsOf(t) # {}
  /\ Run(t, "resuming")
  /\ UNCHANGED <<diskVars, updateVars, ops, use, up, pid, loaded, pending, job>>

\* The unresolved rows of the task are observed again.  One that stays unknown
\* holds the task, unless it can be rolled back.
RecoverRows(t) ==
  /\ InProcess /\ job = None
  /\ running[t] = "resuming"
  /\ \A i \in Open(t) : ops[i].cand \notin torn
  /\ verification' \in [Candidates -> {"none", "started", "succeeded", "failed", "unknown"}]
  /\ \A c \in Candidates :
       verification'[c] \in IF \E i \in Open(t) : ops[i].cand = c THEN Reconciled(c)
                                                                 ELSE {verification[c]}
  /\ box' = [c \in Candidates |->
       IF box[c] = "running" /\ verification'[c] # verification[c] /\ verification'[c] = "failed"
       THEN "failed" ELSE box[c]]
  /\ LET Result(i) == IF i \in Open(t)
                      THEN Outcome(ops[i].kind, ops[i].cand, verification'[ops[i].cand])
                      ELSE ops[i].result
         Held == \E i \in Open(t) : Result(i) = "unknown" /\ i \notin TargetsOf(t)
     IN /\ ops' = Kept([i \in DOMAIN ops |-> [ops[i] EXCEPT !.result = Result(i)]])
        /\ Run(t, IF Held THEN "off" ELSE "restarting")
  /\ pending' = (pending \/ TargetsOf(t) # {})
  /\ UNCHANGED <<diskVars, cand, owner, torn, activation, active, use, up, pid, loaded, job>>

\* A lock held elsewhere, or a record saved in one of two places: held.
RecoverRefused(t) ==
  /\ InProcess
  /\ running[t] = "resuming"
  /\ Open(t) # {}
  /\ job # None \/ \E i \in Open(t) : ops[i].cand \in torn
  /\ Run(t, "off")
  /\ UNCHANGED <<diskVars, updateVars, ops, use, up, pid, loaded, pending, job>>

\* restart_attestation(): a terminal activation, and the tree it names.
Attested(c) ==
  /\ Confirmed(activation[c])
  /\ code = IF activation[c].status = "rolled_back" THEN cand[c].before ELSE cand[c].after

\* The newest finished application or rollback whose restart is to come.
IsRestartRow(t, i) ==
  /\ i \in DOMAIN ops /\ ops[i].task = t /\ ops[i].kind # "verify" /\ ~Unresolved(i)
  /\ \A j \in DOMAIN ops : j > i => ~(ops[j].task = t /\ ops[j].kind # "verify" /\ ~Unresolved(j))

NothingToRestart(t) ==
  /\ InProcess /\ running[t] = "restarting"
  /\ TargetsOf(t) # {} \/ ~\E i \in DOMAIN ops : IsRestartRow(t, i)
  /\ Run(t, "working")
  /\ UNCHANGED <<diskVars, updateVars, ops, use, up, pid, loaded, pending, job>>

\* This process loaded the attested source: the restart is consumed.
RestartDone(t) ==
  /\ InProcess /\ running[t] = "restarting" /\ TargetsOf(t) = {}
  /\ \E i \in DOMAIN ops :
       /\ IsRestartRow(t, i) /\ Attested(ops[i].cand) /\ loaded = code
       /\ ops' = RemoveAt(ops, i)
  /\ pending' = FALSE
  /\ Run(t, "working")
  /\ UNCHANGED <<diskVars, updateVars, use, up, pid, loaded, job>>

EndProcess ==
  /\ up' = FALSE
  /\ running' = [t \in Tasks |-> "off"]
  /\ job' = None

\* It did not: the supervisor is asked for a new process.
HandOver(t) ==
  /\ InProcess /\ running[t] = "restarting" /\ TargetsOf(t) = {}
  /\ \E i \in DOMAIN ops : IsRestartRow(t, i) /\ Attested(ops[i].cand) /\ loaded # code
  /\ pending' = TRUE
  /\ EndProcess
  /\ UNCHANGED <<diskVars, updateVars, ops, use, pid, loaded>>

RestartRefused(t) ==
  /\ InProcess /\ running[t] = "restarting" /\ TargetsOf(t) = {}
  /\ \E i \in DOMAIN ops : IsRestartRow(t, i) /\ ~Attested(ops[i].cand)
  /\ Run(t, "off")
  /\ UNCHANGED <<diskVars, updateVars, ops, use, up, pid, loaded, pending, job>>

\* The task completes, is held, or is stopped between two operations.
LeaveTask(t) ==
  /\ InProcess
  /\ running[t] = "working"
  /\ Run(t, "off")
  /\ UNCHANGED <<diskVars, updateVars, ops, use, up, pid, loaded, pending, job>>

-------------------------------------------------------------------------------
(***************************************************************************)
(* Ordinary operations: before_execution() and after_actual_result().      *)
(***************************************************************************)
\* A source that differs from the one loaded refuses it, and holds the task
\* (which LeaveTask covers); so do an unresolved operation of the task and a
\* pointer that differs from its activation.
BeginUse(t, u) ==
  /\ InProcess
  /\ running[t] = "working" /\ Open(t) = {}
  /\ ~Mismatch
  /\ loaded = code
  /\ use[u].status = "none"
  /\ use' = [use EXCEPT ![u] = [status |-> "started", task |-> t, pid |-> pid,
                                ran |-> loaded, under |-> Binding, observed |-> FALSE]]
  /\ Run(t, "using")
  /\ UNCHANGED <<diskVars, updateVars, ops, up, pid, loaded, pending, job>>

\* Fault: a use of the source restored by a rollback counts as one of the update.
EndUseOfAnyBinding(t) ==
  /\ InProcess
  /\ running[t] = "using"
  /\ \E u \in Uses, known \in BOOLEAN :
       /\ use[u].status = "started" /\ use[u].task = t /\ use[u].pid = pid
       /\ IF Mismatch THEN UNCHANGED use
          ELSE use' = [use EXCEPT ![u].status = "recorded",
                 ![u].observed = /\ known /\ loaded = code
                                 /\ Binding # None /\ Binding = use[u].under
                                 /\ Actor(Binding) # pid
                                 /\ loaded = Expected(Binding)]
  /\ Run(t, "working")
  /\ UNCHANGED <<diskVars, updateVars, ops, up, pid, loaded, pending, job>>

\* The use of an update is observed only for a known result, on an unchanged
\* tree, under one activation, in another process than the one that wrote it.
EndUse(t) ==
  /\ InProcess
  /\ running[t] = "using"
  /\ \E u \in Uses, known \in BOOLEAN :
       /\ use[u].status = "started" /\ use[u].task = t /\ use[u].pid = pid
       /\ IF Mismatch THEN UNCHANGED use
          ELSE use' = [use EXCEPT ![u].status = "recorded",
                 ![u].observed = /\ known /\ loaded = code
                                 /\ Binding # None /\ Binding = use[u].under
                                 /\ Actor(Binding) # pid
                                 /\ Binding.row.status = "activated"
                                 /\ loaded = Expected(Binding)]
  /\ Run(t, "working")
  /\ UNCHANGED <<diskVars, updateVars, ops, up, pid, loaded, pending, job>>

-------------------------------------------------------------------------------
(***************************************************************************)
(* The process, other programs, and the owner of the test baseline.        *)
(***************************************************************************)
\* The process ends.  The second write of a verification record may be lost;
\* a file of the tree may be under way, its temporary written and not renamed.
Crash ==
  /\ up
  /\ EndProcess
  /\ \/ UNCHANGED <<code, torn>>
     \/ /\ job # None /\ job.kind = "verify"
        /\ torn' = torn \cup {job.cand}
        /\ UNCHANGED code
     \/ /\ job # None /\ job.kind # "verify" /\ job.seen # None
        /\ code' = [code EXCEPT ![Temp] = Partial]
        /\ UNCHANGED torn
  /\ UNCHANGED <<edits, epoch, cand, owner, verification, box, activation, active, ops,
                 use, pid, loaded, pending>>

\* Fault: the new process does not look for interrupted updates.
BootUnaware ==
  /\ ~up /\ pid < MaxBoots
  /\ up' = TRUE /\ pid' = pid + 1
  /\ loaded' = code
  /\ pending' = FALSE
  /\ UNCHANGED <<diskVars, updateVars, ops, use, running, job>>

\* A new process loads what is on disk, half-written or not.
Boot ==
  /\ ~up /\ pid < MaxBoots
  /\ up' = TRUE /\ pid' = pid + 1
  /\ loaded' = code
  /\ pending' = (RecoveryTargets # {})
  /\ UNCHANGED <<diskVars, updateVars, ops, use, running, job>>

\* Another program writes a file of the tree.
Edit(p) ==
  /\ edits + epoch < MaxOutside
  /\ edits' = edits + 1
  /\ code' = [code EXCEPT ![p] = Foreign]
  /\ UNCHANGED <<epoch, updateVars, ops, use, processVars>>

\* enroll_baseline_epoch(): earlier candidates become stale.
Enroll ==
  /\ edits + epoch < MaxOutside
  /\ epoch' = epoch + 1
  /\ UNCHANGED <<code, edits, updateVars, ops, use, processVars>>

TaskStep(t) ==
  \/ StartTask(t) \/ RecoverRows(t) \/ RecoverRefused(t)
  \/ NothingToRestart(t) \/ RestartDone(t) \/ HandOver(t) \/ RestartRefused(t)
  \/ LeaveTask(t) \/ EndUse(t) \/ Withdraw(t)

UpdateStep(t) ==
  \/ Activate(t) \/ ReuseActivation(t) \/ RollBack(t) \/ Refuse(t)
  \/ LookNew(t) \/ WriteNew(t) \/ LookOld(t) \/ PassOver(t) \/ WriteOld(t)
  \/ Confirm(t) \/ Publish(t) \/ SaveResult(t) \/ BreakOff(t)

CandidateStep(t, c) ==
  \/ Propose(t, c)
  \/ BeginVerify(t, c) \/ VerifyPasses(t, c) \/ VerifyFails(t, c)
  \/ \E kind \in {"apply", "rollback"} : Request(t, kind, c)

Next ==
  \/ \E t \in Tasks : \/ TaskStep(t)
                      \/ UpdateStep(t)
                      \/ \E c \in Candidates : CandidateStep(t, c)
                      \/ \E u \in Uses : BeginUse(t, u)
  \/ \E c \in Candidates : BoxEnds(c)
  \/ \E p \in Paths : Edit(p)
  \/ Crash
  \/ Boot
  \/ Enroll

Spec == Init /\ [][Next]_vars

-------------------------------------------------------------------------------
(***************************************************************************)
(* Properties.                                                             *)
(***************************************************************************)
Whole(tree) == tree = Base \/ \E c \in Candidates : Staged(c) /\ tree = cand[c].after

\* A tree that is neither the original nor the result of a candidate, through
\* no other program's doing, is on record as an unfinished activation or
\* rollback, whichever writes the end of a process cut off.
MixIsOnRecord ==
  ~Whole(code) /\ (\A p \in Paths : code[p] # Foreign) => \E c \in Candidates : Unknown(c)

\* No task, of this or a later process, ever runs an ordinary operation on a
\* source that is part old and part new.
MixNeverServes ==
  \A u \in Uses : use[u].status # "none" =>
    Whole(use[u].ran) \/ \E p \in Paths : use[u].ran[p] = Foreign

\* A mix of sources, which any crash of an update may leave, is known and idle.
MixSound == MixIsOnRecord /\ MixNeverServes

\* The bytes of a candidate reach the controller's tree only after its own
\* container exited cleanly, whatever was retried, cancelled or recovered.
PassedBeforeInstalled ==
  \A p \in Paths : code[p] \in Candidates => box[code[p]] = "passed"

\* An observed use of an update ran the updated source, which had passed its
\* tests, in a process started after the one that installed it.
ObservedIsReal ==
  \A u \in Uses : use[u].observed =>
    LET c == use[u].under.cand
    IN /\ use[u].ran = cand[c].after
       /\ box[c] = "passed"
       /\ use[u].pid > use[u].under.row.by

\* A file that another program wrote is replaced only if it is the very preimage
\* the candidate was made and reviewed from, or if the edit came after the harness
\* had looked at that file and seen an image of its own.
ForeignKept ==
  [][\A p \in Paths : code[p] = Foreign /\ code'[p] # Foreign
       => /\ job # None
          /\ \/ cand[job.cand].before[p] = Foreign
             \/ p = Target /\ job.seen \in {cand[job.cand].before[p], job.cand}]_vars

\* "Any third-party bytes hold rollback rather than being overwritten."
ThirdPartyHolds ==
  [][\A p \in Paths : code[p] = Foreign /\ code'[p] # Foreign
       => ~(job # None /\ job.kind = "rollback") \/ cand[job.cand].before[p] = Foreign]_vars

\* "A crash may leave a mix of this candidate's exact old/new images": an
\* interrupted update whose files no other program touched can be rolled back.
RollbackPossible ==
  \A c \in Candidates : Unknown(c) /\ job = None /\ edits = 0 => MayRollBack(c)

-------------------------------------------------------------------------------
(***************************************************************************)
(* Why PassedBeforeInstalled, ObservedIsReal and ForeignKept hold.         *)
(***************************************************************************)
\* A candidate is verified after it is staged, activated after its container
\* has passed, and made from a tree of such candidates.
Proven(c) ==
  /\ verification[c] # "none" => Staged(c)
  /\ verification[c] = "succeeded" => box[c] = "passed"
  /\ activation[c] # None => verification[c] = "succeeded" /\ activation[c].by <= pid
  /\ Staged(c) => \A p \in Paths :
       cand[c].before[p] \in Candidates => activation[cand[c].before[p]] # None

\* The tree holds what was activated.
TreeActivated == \A p \in Paths : code[p] \in Candidates => activation[code[p]] # None

\* The lock is held for a test that has begun, or for an activation on record.
LockedFor ==
  job # None => IF job.kind = "verify" THEN verification[job.cand] = "started"
                ELSE activation[job.cand] # None /\ job.next >= 1

\* What was seen at the file to be replaced is one of the two images.
LookedAt ==
  job # None /\ job.kind # "verify" /\ job.seen # None =>
    Todo /\ job.seen \in {cand[job.cand].before[Target], job.cand}

\* The pointer is an activation of this process or an earlier one.
PointsBack ==
  active # None => /\ activation[active.cand] # None
                   /\ active.row # None /\ active.row.by <= pid

\* A use runs what its process loaded; what was observed of it stays true.
UseKnown(u) ==
  /\ use[u].pid <= pid
  /\ use[u].status = "started" /\ use[u].pid = pid => use[u].ran = loaded
  /\ use[u].observed =>
       /\ use[u].status = "recorded"
       /\ use[u].under # None /\ use[u].under.row # None
       /\ activation[use[u].under.cand] # None
       /\ use[u].ran = cand[use[u].under.cand].after
       /\ use[u].pid > use[u].under.row.by

UpdateInv ==
  /\ TypeOK
  /\ \A c \in Candidates : Proven(c)
  /\ TreeActivated /\ LockedFor /\ LookedAt /\ PointsBack
  /\ \A u \in Uses : UseKnown(u)

-------------------------------------------------------------------------------
(***************************************************************************)
(* Why MixSound holds.                                                     *)
(***************************************************************************)
HasForeign(tree) == \E p \in Paths : tree[p] = Foreign
Sane(tree) == Whole(tree) \/ HasForeign(tree)
AllKnown == \A c \in Candidates : ~Unknown(c)

\* While no update is unfinished the tree is sane; so is what a candidate was made
\* from and what an operation ran.
MixKnown ==
  /\ AllKnown => Sane(code)
  /\ \A c \in Candidates : Staged(c) => Sane(cand[c].before)
  /\ \A u \in Uses : use[u].status # "none" => Sane(use[u].ran)

\* At most one update is unfinished.  Its row stays, so that the next process
\* finds it; and only tasks that are to settle such a row run meanwhile.
Claimed(c) == \E i \in RecoveryTargets : ops[i].cand = c
MixHeld ==
  \A c \in Candidates : Unknown(c) =>
    /\ Claimed(c)
    /\ \A d \in Candidates : Unknown(d) => d = c
    /\ up => pending /\ \A t \in Tasks : running[t] # "off" => TargetsOf(t) # {}

\* The row under review is unresolved, and its rollback is the way out of an
\* update that is unfinished.
UnderReview(t) ==
  running[t] = "reviewing" =>
    \A i \in DOMAIN ops : IsLatest(t, i) =>
      /\ ops[i].kind # "verify" /\ Unresolved(i)
      /\ \A c \in Candidates : Unknown(c) => ops[i].kind = "rollback" /\ ops[i].cand = c

\* Whoever writes the tree works alone, on the only update that is unfinished
\* until its end is confirmed.
WritesAlone ==
  job # None /\ job.kind # "verify" =>
    /\ Staged(job.cand) /\ pending
    /\ \A t \in Tasks : running[t] = IF t = job.task THEN "applying" ELSE "off"
    /\ \A c \in Candidates : Unknown(c) => c = job.cand
    /\ job.next <= Len(Changes[job.cand]) + 1 <=> Unknown(job.cand)
    /\ \A i \in DOMAIN ops : IsLatest(job.task, i) =>
         ops[i].kind # "verify" /\ Unresolved(i) /\ ops[i].cand = job.cand

\* Rows that no longer matter are gone.
RowsMatter == \A i \in DOMAIN ops : Matters(ops[i])

\* A process that died runs no task, and a test has its task waiting for it.
LockAttended ==
  /\ ~up => job = None /\ \A t \in Tasks : running[t] = "off"
  /\ job # None /\ job.kind = "verify" => running[job.task] = "verifying"

SourceInv ==
  /\ UpdateInv
  /\ MixKnown /\ MixHeld
  /\ \A t \in Tasks : UnderReview(t)
  /\ WritesAlone /\ RowsMatter /\ LockAttended

===============================================================================
