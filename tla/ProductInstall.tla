--------------------------- MODULE ProductInstall ---------------------------
(***************************************************************************)
(* The in-app update of the Windows package: product_updates.py in the     *)
(* running service selects a release, stages it and hands the work to a    *)
(* helper process; product_install.py waits for the service and the window *)
(* to be gone, backs every managed file up, replaces the files one by one  *)
(* and rolls back on any failure; the launcher and the start script hand   *)
(* an update that is still pending to a recovering helper before anything  *)
(* is started.  Users edit program files, disks fail and every process may *)
(* die at each step.                                                       *)
(***************************************************************************)
EXTENDS Naturals, FiniteSets

CONSTANTS
    Added, Replaced, Retired, \* the members that differ between the packages
    Helpers,                  \* helper processes that may exist at once
    MaxEdits, MaxCrashes, MaxFaults, MaxAttempts

VARIABLES
    files,     \* content of each managed file, the manifest last
    edits,     \* what became of the user's edit of a file
    plan,      \* install.json of the latest work directory, its backups, and
               \* whether its update was on record as pending when it began to write
    offer,     \* does the cached release check name a newer release
    service,   \* the running service: what it staged, its installation step
    window,    \* is the desktop window open, with its files in use
    helper,    \* the helper processes
    pending,   \* product-update-pending.json
    receipt,   \* product-update-result.json
    owner,     \* holder of the service-owner and worker-owner locks
    crashes, faults, attempts

vars == <<files, edits, plan, offer, service, window, helper, pending, receipt, owner,
          crashes, faults, attempts>>

Members == Added \cup Replaced \cup Retired
Manifest == 1 + Cardinality(Members)
Paths == 1 .. Manifest

Absent == "absent"
Old == "old"
New == "new"
User == "user"

\* The digest of an entry before and after the installation.
Before(f) == IF f \in Added THEN Absent ELSE Old
After(f) == IF f \in Retired THEN Absent ELSE New

NoHelper == [pc |-> "none"]
NoPlan == [state |-> "none", backup |-> {}, held |-> TRUE]
Stopped == [state |-> "down", prepared |-> FALSE]

Init ==
    /\ files = [f \in Paths |-> Before(f)]
    /\ edits = [f \in Paths |-> "none"]
    /\ plan = NoPlan
    /\ offer = FALSE
    /\ service = Stopped
    /\ window = FALSE
    /\ helper = [h \in Helpers |-> NoHelper]
    /\ pending = FALSE
    /\ receipt = "none"
    /\ owner = "none"
    /\ crashes = 0
    /\ faults = 0
    /\ attempts = 0

-----------------------------------------------------------------------------
(* Reading the package                                                     *)

\* manifest(): the inventory of the installed version matches the files.
Verified ==
    IF files[Manifest] = Old THEN \A f \in Replaced \cup Retired : files[f] = Old
    ELSE \A f \in Added \cup Replaced : files[f] = New

\* An unmanaged file stands where the new package has a member.
Collision == \E f \in Added : files[f] # Absent

\* Opening OIF or its start script hands a pending update to a helper.
Spawn(mode, reopen) ==
    \E h \in Helpers :
        /\ helper[h] = NoHelper
        /\ helper' = [helper EXCEPT ![h] =
              [pc |-> "lock", mode |-> mode, reopen |-> reopen, at |-> 0, failed |-> FALSE]]

HelperLocked == \E h \in Helpers : helper[h].pc \notin {"none", "lock"}

-----------------------------------------------------------------------------
(* The service: ProductUpdates                                             *)

Check ==
    /\ service.state = "up"
    /\ offer' \in BOOLEAN
    /\ UNCHANGED <<files, edits, plan, service, window, helper, pending, receipt, owner,
                   crashes, faults, attempts>>

\* A cached offer that is not newer than the running version is not shown.
Offered == offer /\ service.version = 1

Prepare ==
    /\ service.state = "up" /\ ~service.prepared /\ Offered
    /\ attempts < MaxAttempts
    /\ Verified /\ ~Collision
    /\ plan' = [NoPlan EXCEPT !.state = "prepared"]
    /\ service' = [service EXCEPT !.prepared = TRUE]
    /\ attempts' = attempts + 1
    /\ UNCHANGED <<files, edits, offer, window, helper, pending, receipt, owner, crashes, faults>>

\* The pending record is written before the helper is started ...
InstallSelected ==
    /\ service.state = "up" /\ service.prepared
    /\ Verified /\ ~pending
    /\ pending' = TRUE
    /\ service' = [service EXCEPT !.state = "dispatching"]
    /\ UNCHANGED <<files, edits, plan, offer, window, helper, receipt, owner,
                   crashes, faults, attempts>>

\* ... and the service exits and the window closes once it is.
Dispatch ==
    /\ service.state = "dispatching"
    /\ Spawn("install", TRUE)
    /\ service' = [service EXCEPT !.state = "exiting"]
    /\ UNCHANGED <<files, edits, plan, offer, window, pending, receipt, owner,
                   crashes, faults, attempts>>

DispatchFails ==
    /\ service.state = "dispatching"
    /\ faults < MaxFaults
    /\ faults' = faults + 1
    /\ pending' = FALSE
    /\ service' = [service EXCEPT !.state = "up"]
    /\ UNCHANGED <<files, edits, plan, offer, window, helper, receipt, owner, crashes, attempts>>

ServiceExits ==
    /\ service.state = "exiting"
    /\ service' = Stopped
    /\ owner' = "none"
    /\ UNCHANGED <<files, edits, plan, offer, window, helper, pending, receipt,
                   crashes, faults, attempts>>

-----------------------------------------------------------------------------
(* The launcher and the start script                                       *)

\* OIF.exe: a pending update whose helper is not at work is recovered.
HandlePendingUpdate ==
    /\ pending /\ ~HelperLocked
    /\ Spawn("recover", TRUE)
    /\ UNCHANGED <<files, edits, plan, offer, service, window, pending, receipt, owner,
                   crashes, faults, attempts>>

OpenWindow ==
    /\ ~window /\ ~pending
    /\ window' = TRUE
    /\ UNCHANGED <<files, edits, plan, offer, service, helper, pending, receipt, owner,
                   crashes, faults, attempts>>

CloseWindow ==
    /\ window
    /\ window' = FALSE
    /\ UNCHANGED <<files, edits, plan, offer, service, helper, pending, receipt, owner,
                   crashes, faults, attempts>>

\* Start-Harness.ps1: recovery first, without reopening the window.
RecoverBeforeStart ==
    /\ service.state = "down" /\ pending /\ ~HelperLocked
    /\ Spawn("recover", FALSE)
    /\ UNCHANGED <<files, edits, plan, offer, service, window, pending, receipt, owner,
                   crashes, faults, attempts>>

StartService ==
    /\ service.state = "down" /\ window /\ ~pending /\ owner = "none"
    /\ owner' = "service"
    /\ service' = [state |-> "up", prepared |-> FALSE,
                   version |-> IF files[Manifest] = New THEN 2 ELSE 1]
    /\ UNCHANGED <<files, edits, plan, offer, window, helper, pending, receipt,
                   crashes, faults, attempts>>

-----------------------------------------------------------------------------
(* The helper: run_helper, _run_helper, apply_plan and rollback            *)

Goto(h, pc, at) == helper' = [helper EXCEPT ![h].pc = pc, ![h].at = at]
Raise(h) == helper' = [helper EXCEPT ![h].pc = "failed", ![h].failed = TRUE]
RollBackFrom(h, failed) ==
    helper' = [helper EXCEPT ![h].pc = "rollback", ![h].at = Manifest, ![h].failed = failed]

\* helper.lock: a second helper of the work gives up at once.
TakeHelperLock(h) ==
    /\ helper[h].pc = "lock"
    /\ IF HelperLocked THEN helper' = [helper EXCEPT ![h] = NoHelper] ELSE Goto(h, "owners", 0)
    /\ UNCHANGED <<files, edits, plan, offer, service, window, pending, receipt, owner,
                   crashes, faults, attempts>>

\* The owner locks are awaited, then held until the plan was applied.
TakeOwnerLocks(h) ==
    /\ helper[h].pc = "owners"
    /\ \/ owner = "none" /\ owner' = "helper" /\ Goto(h, "files", 0)
       \/ owner # "none" /\ Raise(h) /\ UNCHANGED owner
    /\ UNCHANGED <<files, edits, plan, offer, service, window, pending, receipt,
                   crashes, faults, attempts>>

WaitWindowsFiles(h) ==
    /\ helper[h].pc = "files"
    /\ IF window THEN Raise(h) /\ owner' = "none" ELSE Goto(h, "plan", 0) /\ UNCHANGED owner
    /\ UNCHANGED <<files, edits, plan, offer, service, window, pending, receipt,
                   crashes, faults, attempts>>

\* apply_plan up to its first write; a closed plan is not applied again.
ReadPlan(h) ==
    /\ helper[h].pc = "plan"
    /\ CASE plan.state = "installed" ->
              IF Verified THEN Goto(h, "result", 0) ELSE Raise(h)
         [] plan.state = "applying" -> RollBackFrom(h, FALSE)
         [] plan.state \notin {"installed", "applying"} /\ helper[h].mode = "recover" ->
              Goto(h, "result", 0)
         [] OTHER ->
              IF plan.state = "prepared" /\ Verified THEN Goto(h, "backup", 1) ELSE Raise(h)
    /\ UNCHANGED <<files, edits, plan, offer, service, window, pending, receipt, owner,
                   crashes, faults, attempts>>

\* Fault: the plan is marked as applying before its preimages are saved.
BackUpLate(h) ==
    /\ helper[h].pc = "backup"
    /\ plan' = [plan EXCEPT !.state = "applying"]
    /\ Goto(h, "write", 1)
    /\ UNCHANGED <<files, edits, offer, service, window, pending, receipt, owner,
                   crashes, faults, attempts>>

\* All preimages are durable before the first live write.
BackUp(h) ==
    /\ helper[h].pc = "backup"
    /\ LET f == helper[h].at IN
       IF f > Manifest THEN
            /\ plan' = [plan EXCEPT !.state = "applying", !.held = pending]
            /\ Goto(h, "write", 1)
       ELSE IF files[f] # Before(f) \/ f \in plan.backup THEN
            Raise(h) /\ UNCHANGED plan
       ELSE /\ plan' = IF Before(f) = Absent THEN plan
                       ELSE [plan EXCEPT !.backup = @ \cup {f}]
            /\ Goto(h, "backup", f + 1)
    /\ UNCHANGED <<files, edits, offer, service, window, pending, receipt, owner,
                   crashes, faults, attempts>>

\* What the user put into a file is gone when the installer writes over it.
Overwritten(f) == [edits EXCEPT ![f] = IF @ = "kept" /\ files[f] = User THEN "lost" ELSE @]

\* The replacement of one file; a disk may refuse it, a removed file too.
Write(h) ==
    /\ helper[h].pc = "write"
    /\ LET f == helper[h].at IN
       IF f > Manifest THEN
            /\ IF Verified THEN plan' = [plan EXCEPT !.state = "installed"] /\ Goto(h, "result", 0)
               ELSE RollBackFrom(h, TRUE) /\ UNCHANGED plan
            /\ UNCHANGED <<files, edits, faults>>
       ELSE /\ \/ /\ After(f) # Absent \/ files[f] # Absent
                  /\ files' = [files EXCEPT ![f] = After(f)]
                  /\ edits' = Overwritten(f)
                  /\ Goto(h, "write", f + 1)
                  /\ UNCHANGED faults
               \/ /\ After(f) = Absent /\ files[f] = Absent
                  /\ RollBackFrom(h, TRUE)
                  /\ UNCHANGED <<files, edits, faults>>
               \/ /\ faults < MaxFaults
                  /\ faults' = faults + 1
                  /\ RollBackFrom(h, TRUE)
                  /\ UNCHANGED <<files, edits>>
            /\ UNCHANGED plan
    /\ UNCHANGED <<offer, service, window, pending, receipt, owner, crashes, attempts>>

\* Fault: whatever stands in the place of a managed file is replaced.
RestorableAlways(f) == files[f] = files[f]

\* A file is restored only while it is exactly what the installation wrote.
Restorable(f) == files[f] = After(f)

Rollback(h) ==
    /\ helper[h].pc = "rollback"
    /\ LET f == helper[h].at IN
       IF f = 0 THEN
            /\ plan' = [plan EXCEPT !.state = "rolled_back"]
            /\ Goto(h, IF helper[h].failed THEN "failed" ELSE "result", 0)
            /\ UNCHANGED <<files, edits>>
       ELSE IF files[f] = Before(f) THEN
            Goto(h, "rollback", f - 1) /\ UNCHANGED <<files, edits, plan>>
       ELSE IF Restorable(f) /\ (Before(f) = Absent \/ f \in plan.backup) THEN
            /\ files' = [files EXCEPT ![f] = Before(f)]
            /\ edits' = Overwritten(f)
            /\ Goto(h, "rollback", f - 1)
            /\ UNCHANGED plan
       ELSE Raise(h) /\ UNCHANGED <<files, edits, plan>>
    /\ UNCHANGED <<offer, service, window, pending, receipt, owner, crashes, faults, attempts>>

\* The owner locks are given up, then the outcome is recorded.
Result(h) ==
    /\ helper[h].pc = "result"
    /\ owner' = "none"
    /\ receipt' = plan.state
    /\ Goto(h, "clear", 0)
    /\ UNCHANGED <<files, edits, plan, offer, service, window, pending,
                   crashes, faults, attempts>>

ClearPending(h) ==
    /\ helper[h].pc = "clear"
    /\ pending' = FALSE
    /\ Goto(h, "reopen", 0)
    /\ UNCHANGED <<files, edits, plan, offer, service, window, receipt, owner,
                   crashes, faults, attempts>>

\* Fault: every failed helper clears it.
ClearsAlways == plan.state # "none"

\* Only a plan without writes clears the launch hold after a failure.
Clears == plan.state \in {"prepared", "rolled_back"}

RecordFailure(h) ==
    /\ helper[h].pc = "failed"
    /\ owner' = IF owner = "helper" THEN "none" ELSE owner
    /\ receipt' = "failed"
    /\ pending' = (pending /\ ~Clears)
    /\ Goto(h, "reopen", 0)
    /\ UNCHANGED <<files, edits, plan, offer, service, window, crashes, faults, attempts>>

Reopen(h) ==
    /\ helper[h].pc = "reopen"
    /\ window' = (window \/ (helper[h].reopen /\ ~pending))
    /\ helper' = [helper EXCEPT ![h] = NoHelper]
    /\ UNCHANGED <<files, edits, plan, offer, service, pending, receipt, owner,
                   crashes, faults, attempts>>

-----------------------------------------------------------------------------
(* The environment                                                         *)

\* A helper that already looked at the file, and has not replaced it yet.
Underway(f) ==
    \E h \in Helpers :
        \/ helper[h].pc = "backup" /\ helper[h].at > f
        \/ helper[h].pc = "write" /\ helper[h].at <= f

Edit(f) ==
    /\ Cardinality({g \in Paths : edits[g] # "none"}) < MaxEdits
    /\ edits[f] = "none"
    /\ \E content \in {User, Absent} :
          /\ files[f] # content
          /\ files' = [files EXCEPT ![f] = content]
          /\ edits' = [edits EXCEPT ![f] =
                IF content = User /\ ~Underway(f) THEN "kept" ELSE "late"]
    /\ UNCHANGED <<plan, offer, service, window, helper, pending, receipt, owner,
                   crashes, faults, attempts>>

HelperDies(h) ==
    /\ helper[h] # NoHelper
    /\ crashes < MaxCrashes
    /\ crashes' = crashes + 1
    /\ owner' = IF helper[h].pc # "lock" /\ owner = "helper" THEN "none" ELSE owner
    /\ helper' = [helper EXCEPT ![h] = NoHelper]
    /\ UNCHANGED <<files, edits, plan, offer, service, window, pending, receipt, faults, attempts>>

ServiceDies ==
    /\ service.state # "down"
    /\ crashes < MaxCrashes
    /\ crashes' = crashes + 1
    /\ owner' = "none"
    /\ service' = Stopped
    /\ UNCHANGED <<files, edits, plan, offer, window, helper, pending, receipt, faults, attempts>>

HelperStep(h) ==
    \/ TakeHelperLock(h) \/ TakeOwnerLocks(h) \/ WaitWindowsFiles(h) \/ ReadPlan(h)
    \/ BackUp(h) \/ Write(h) \/ Rollback(h) \/ Result(h) \/ ClearPending(h)
    \/ RecordFailure(h) \/ Reopen(h)

Next ==
    \/ Check \/ Prepare \/ InstallSelected \/ Dispatch \/ DispatchFails \/ ServiceExits
    \/ HandlePendingUpdate \/ OpenWindow \/ CloseWindow \/ RecoverBeforeStart \/ StartService
    \/ \E h \in Helpers : HelperStep(h) \/ HelperDies(h)
    \/ \E f \in Members : Edit(f)
    \/ ServiceDies

Spec == Init /\ [][Next]_vars

-----------------------------------------------------------------------------
(* What must hold                                                          *)

\* Files of both versions lie beside each other.
Mixed ==
    /\ \E f \in Paths : Before(f) # After(f) /\ files[f] = After(f) /\ files[f] # Absent
    /\ \E f \in Paths : Before(f) # After(f) /\ files[f] = Before(f) /\ files[f] # Absent

\* An interrupted applying plan keeps the launch hold, so that normal startup
\* can recover the preimages (product_install.py:306).  It does not hold: the
\* helper never reads the pending record, and one that starts after a recovery
\* by the launcher already gave the update up applies it without the hold.
InterruptedIsHeld ==
    plan.state = "applying" /\ (\A h \in Helpers : helper[h] = NoHelper) => pending

\* What does: whenever the installed files are a mix of two versions, the update
\* is on record as pending, if it was when the installer began to write.
MixIsPending == Mixed /\ plan.held => pending

\* Nothing the user put into a managed file before the installer looked at it
\* is written over, neither by the installation nor by a rollback.
EditsKept == \A f \in Paths : edits[f] # "lost"

\* With no helper at work and no update pending, the recorded outcome is what
\* the files are, apart from what the user changed.
ReceiptIsTrue ==
    (plan.held /\ ~pending /\ \A h \in Helpers : helper[h] = NoHelper)
        => /\ receipt = "installed" => \A f \in Paths : files[f] = After(f) \/ edits[f] # "none"
           /\ receipt \in {"prepared", "rolled_back"} =>
                 \A f \in Paths : files[f] = Before(f) \/ edits[f] # "none"

\* A rolled back or applying plan can always be restored: its preimages are saved.
PreimagesSaved ==
    plan.state \in {"applying", "installed"} =>
        \A f \in Paths : Before(f) = Absent \/ f \in plan.backup

InstallSound == MixIsPending /\ EditsKept /\ ReceiptIsTrue /\ PreimagesSaved

-----------------------------------------------------------------------------
(* Why InstallSound holds                                                  *)

Outcomes == {"none", "prepared", "applying", "installed", "rolled_back"}

\* The helper that works holds helper.lock, and the owner locks from the first
\* look at the files until the outcome is recorded.
Locked == {"owners", "files", "plan", "backup", "write", "rollback", "result", "clear",
           "failed", "reopen"}
Holding == {"files", "plan", "backup", "write", "rollback", "result"}
Services == {Stopped} \cup
            [state : {"up", "dispatching", "exiting"}, prepared : BOOLEAN, version : {1, 2}]

HelperTypes ==
    /\ DOMAIN helper = Helpers
    /\ \A h \in Helpers : helper[h] # NoHelper =>
          helper[h] \in [pc : Locked \cup {"lock"}, mode : {"install", "recover"},
                         reopen : BOOLEAN, at : 0 .. Manifest + 1, failed : BOOLEAN]

InstallTypes ==
    /\ files \in [Paths -> {Absent, Old, New, User}]
    /\ edits \in [Paths -> {"none", "kept", "late"}]
    /\ edits[Manifest] = "none" /\ files[Manifest] \in {Old, New}
    /\ plan \in [state : Outcomes, backup : SUBSET Paths, held : BOOLEAN]
    /\ service \in Services
    /\ pending \in BOOLEAN
    /\ owner \in {"none", "service", "helper"}
    /\ HelperTypes

\* What a file may be before and after the installation: the user may have
\* edited it since.
Touched(f) == edits[f] # "none" /\ files[f] \in {User, Absent}
IsBefore(f) == files[f] = Before(f) \/ Touched(f)
IsAfter(f) == files[f] = After(f) \/ Touched(f)

Saved(f) == Before(f) = Absent \/ f \in plan.backup

\* A service runs beside no helper at work, and what it has prepared it runs in
\* the old version.
ServiceKnown ==
    service.state # "down" =>
        /\ owner = "service"
        /\ service.version = 1 => files[Manifest] = Old
        /\ service.prepared \/ service.state # "up" => service.version = 1

\* What the latest plan says of the files.
PlanKnown ==
    /\ plan.state = "applying" /\ plan.held => pending /\ service.state = "down"
    /\ plan.state = "installed" => \A f \in Paths : IsAfter(f)
    /\ plan.state \in {"none", "prepared", "rolled_back"} => \A f \in Paths : IsBefore(f)
    /\ receipt = "installed" => plan.state = "installed"
    /\ receipt \in {"prepared", "rolled_back"} /\ plan.held
          /\ plan.state \in {"applying", "installed"} => pending

\* What a helper knows at each of its places.
HelperKnown(h) ==
    /\ helper[h].pc \in Holding => owner = "helper"
    /\ helper[h].pc = "backup" =>
          /\ plan.state = "prepared"
          /\ \A f \in Paths : f < helper[h].at => Saved(f)
    /\ helper[h].pc = "write" =>
          /\ plan.state = "applying"
          /\ \A f \in Paths : f < helper[h].at => IsAfter(f)
    /\ helper[h].pc \in {"backup", "write"} => helper[h].at # 0
    /\ helper[h].pc = "rollback" =>
          /\ plan.state = "applying"
          /\ helper[h].at \in 0 .. Manifest
          /\ \A f \in Paths : f > helper[h].at => IsBefore(f)
    /\ helper[h].pc \in {"result", "clear"} => plan.state # "applying"
    /\ helper[h].pc = "clear" /\ plan.state = "installed" => receipt = "installed"

InstallInv ==
    /\ InstallTypes
    /\ \A h, other \in Helpers :
          helper[h].pc \in Locked /\ helper[other].pc \in Locked => h = other
    /\ \A h \in Helpers : HelperKnown(h)
    /\ ServiceKnown
    /\ PlanKnown
    /\ PreimagesSaved
    /\ \A f \in Paths : Underway(f) /\ edits[f] = "kept" => files[f] # User
=============================================================================
