--------------------------- MODULE ProjectInstall ---------------------------
(***************************************************************************)
(* tools/bootstrap.py: the framework is copied into a project of the user. *)
(* A run plans from what it reads, takes the lock file, compares again,    *)
(* saves every preimage in a backup directory and then replaces file by    *)
(* file, keeping a manifest of how far it came.  An update replaces only   *)
(* the members an earlier complete installation still owns; a rollback     *)
(* restores a backup if no file changed since.  Runs overlap, the user     *)
(* edits files between any two steps, and a run may die at each of them.   *)
(***************************************************************************)
EXTENDS Naturals, FiniteSets, Sequences

CONSTANTS
    Installers, Rollers, \* runs that may be at work at once
    Guides,              \* files outside .oif/: the user's from then on
    Common, Retired,     \* members of .oif/ in both versions, and in the first only
    MaxBackups, MaxEdits, MaxCrashes

VARIABLES
    source,   \* version of the distribution the runs install from
    files,    \* content of each file of the project
    backups,  \* the backup directories, oldest first
    lock,     \* the lock file: "free", its run, or "dead" for one of a dead run
    run,      \* the runs
    owed,     \* what the user wrote and is still entitled to: file and content
    edits, crashes

vars == <<source, files, backups, lock, run, owed, edits, crashes>>

Runs == Installers \cup Rollers

\* Paths are numbered in the order of a plan: deletions of an update come last.
Paths == Guides \cup Common \cup Retired
Absent == 0
Theirs == 3 \* what the user had before the first installation
Edited == 4 \* what the user wrote later
Users == {Theirs, Edited}

First(left) == CHOOSE f \in left : \A g \in left : f <= g
Last(left) == CHOOSE f \in left : \A g \in left : g <= f

Idle == [pc |-> "idle"]

Init ==
    /\ source = 1
    /\ \E f \in Paths : files = [g \in Paths |-> IF g = f THEN Theirs ELSE Absent]
    /\ backups = <<>>
    /\ lock = "free"
    /\ run = [r \in Runs |-> Idle]
    /\ owed = {<<f, Theirs>> : f \in {g \in Paths : files[g] = Theirs}}
    /\ edits = 0
    /\ crashes = 0

-----------------------------------------------------------------------------
(* Planning                                                                *)

\* The members of the package in the distribution at hand.
Package == Common \cup (IF source = 1 THEN Retired ELSE {})

\* Entries of a plan: the identities before and after, Absent for a deletion.
Entries(after) == [f \in DOMAIN after |-> [before |-> files[f], after |-> after[f]]]

Minimal == Entries([f \in Guides |-> source])
Complete == Entries([f \in Guides \cup Package |-> source])

\* The backup that decides who owns the package: rolled back ones are skipped,
\* and so are those of minimal installations.
Candidates ==
    {b \in DOMAIN backups : backups[b].state = "unrecorded"
        \/ (backups[b].complete /\ backups[b].state # "ROLLED_BACK")}
Latest == CHOOSE b \in Candidates : \A c \in Candidates : c <= b

\* An update needs an applied installation whose members nobody changed.
Owned(b) ==
    {f \in DOMAIN backups[b].entries \ Guides : backups[b].entries[f].after # Absent}
Baseline ==
    /\ Candidates # {}
    /\ backups[Latest].state = "APPLIED"
    /\ \A f \in Owned(Latest) : files[f] = backups[Latest].entries[f].after
    /\ Owned(Latest) # {}

\* A new member may not stand where the project has a file of its own.
Unowned == \E f \in Package \ Owned(Latest) : files[f] # Absent

Update ==
    Entries([f \in Package \cup Owned(Latest) |-> IF f \in Package THEN source ELSE Absent])

Start(r, kind, entries, base) ==
    run' = [run EXCEPT ![r] = [pc |-> "lock", kind |-> kind, entries |-> entries, base |-> base,
                               backup |-> 0, left |-> {}, seen |-> <<>>]]

\* The preview: nothing is locked or written.
PlanInstall(r) ==
    /\ run[r] = Idle
    /\ Len(backups) < MaxBackups
    /\ \/ Start(r, "minimal", Minimal, <<>>)
       \/ Start(r, "complete", Complete, <<>>)
       \/ Baseline /\ ~Unowned /\ Start(r, "update", Update, <<Latest, backups[Latest]>>)
    /\ UNCHANGED <<source, files, backups, lock, owed, edits, crashes>>

PlanRollback(r) ==
    /\ run[r] = Idle
    /\ \E b \in DOMAIN backups :
          /\ backups[b].state # "unrecorded"
          /\ run' = [run EXCEPT ![r] = [pc |-> "lock", kind |-> "rollback",
                        entries |-> backups[b].entries, base |-> <<>>,
                        backup |-> b, left |-> {}, seen |-> <<>>]]
    /\ UNCHANGED <<source, files, backups, lock, owed, edits, crashes>>

-----------------------------------------------------------------------------
(* Installing                                                              *)

\* The lock is an exclusive file: a run that finds it gives up.
TakeLock(r) ==
    /\ run[r].pc = "lock"
    /\ IF lock = "free"
         THEN lock' = r /\ run' = [run EXCEPT ![r].pc = "compare"]
         ELSE run' = [run EXCEPT ![r] = Idle] /\ UNCHANGED lock
    /\ UNCHANGED <<source, files, backups, owed, edits, crashes>>

\* Every end of a run, by an exception too, takes its own lock file away.
Leave(r) == run' = [run EXCEPT ![r] = Idle] /\ lock' = "free"

\* Fault: only the files are compared again.
SameBaseAssumed(r) == run[r].kind = run[r].kind

\* The manifest the update was planned from, byte for byte.
SameBase(r) == run[r].base = <<>> \/ backups[run[r].base[1]] = run[r].base[2]

SameFiles(r) == \A f \in DOMAIN run[r].entries : files[f] = run[r].entries[f].before

\* Under the lock the plan is compared with the project once more.
Compare(r) ==
    /\ run[r].pc = "compare" /\ run[r].kind # "rollback"
    /\ IF SameBase(r) /\ SameFiles(r) /\ Len(backups) < MaxBackups
         THEN /\ backups' = Append(backups,
                   [state |-> "unrecorded", complete |-> run[r].kind # "minimal",
                    entries |-> run[r].entries])
              /\ run' = [run EXCEPT ![r].pc = "save", ![r].backup = Len(backups) + 1,
                                    ![r].left = DOMAIN run[r].entries]
              /\ UNCHANGED lock
         ELSE Leave(r) /\ UNCHANGED backups
    /\ UNCHANGED <<source, files, owed, edits, crashes>>

SetState(r, state) == backups' = [backups EXCEPT ![run[r].backup].state = state]

\* The preimages are saved, then the manifest that names them; a file that
\* changed meanwhile leaves a directory without a manifest behind.
SavePreimages(r) ==
    /\ run[r].pc = "save"
    /\ IF SameFiles(r)
         THEN /\ SetState(r, "PREPARED")
              /\ run' = [run EXCEPT ![r].pc = "next"]
              /\ UNCHANGED lock
         ELSE Leave(r) /\ UNCHANGED backups
    /\ UNCHANGED <<source, files, owed, edits, crashes>>

\* One file is compared and announced in the manifest ...
Announce(r) ==
    /\ run[r].pc = "next"
    /\ IF run[r].left = {}
         THEN SetState(r, "APPLIED") /\ Leave(r)
         ELSE LET f == First(run[r].left) IN
                IF files[f] = run[r].entries[f].before
                  THEN /\ SetState(r, "APPLYING")
                       /\ run' = [run EXCEPT ![r].pc = "write"]
                       /\ UNCHANGED lock
                  ELSE SetState(r, "INTERRUPTED") /\ Leave(r)
    /\ UNCHANGED <<source, files, owed, edits, crashes>>

\* ... then replaced or removed.
Replace(r) ==
    /\ run[r].pc = "write"
    /\ LET f == First(run[r].left) IN
       /\ files' = [files EXCEPT ![f] = run[r].entries[f].after]
       /\ run' = [run EXCEPT ![r].pc = "next", ![r].left = @ \ {f}]
    /\ UNCHANGED <<source, backups, lock, owed, edits, crashes>>

-----------------------------------------------------------------------------
(* Rolling back                                                            *)

\* Every file is as the installation left it or as it was before.
Restorable(r) ==
    \A f \in DOMAIN run[r].entries :
        files[f] \in {run[r].entries[f].before, run[r].entries[f].after}

CompareRollback(r) ==
    /\ run[r].pc = "compare" /\ run[r].kind = "rollback"
    /\ IF Restorable(r)
         THEN /\ SetState(r, "ROLLING_BACK")
              /\ run' = [run EXCEPT ![r].pc = "restore", ![r].left = DOMAIN run[r].entries,
                            ![r].seen = [f \in DOMAIN run[r].entries |-> files[f]]]
              /\ UNCHANGED lock
         ELSE Leave(r) /\ UNCHANGED backups
    /\ UNCHANGED <<source, files, owed, edits, crashes>>

\* Fault: the comparison made for all files at the start is relied upon.
StillSeenAtStart(r, f) == f \in DOMAIN run[r].seen

\* The file is still what the comparison of all files saw.
StillSeen(r, f) == files[f] = run[r].seen[f]

\* Files already restored are passed over; the next one is announced ...
Restore(r) ==
    /\ run[r].pc = "restore"
    /\ IF run[r].left = {}
         THEN SetState(r, "ROLLED_BACK") /\ Leave(r)
         ELSE LET f == Last(run[r].left) IN
              IF ~StillSeen(r, f) THEN SetState(r, "ROLLBACK_INTERRUPTED") /\ Leave(r)
              ELSE /\ run' = IF files[f] = run[r].entries[f].before
                               THEN [run EXCEPT ![r].left = @ \ {f}]
                               ELSE [run EXCEPT ![r].pc = "put"]
                   /\ UNCHANGED <<backups, lock>>
    /\ UNCHANGED <<source, files, owed, edits, crashes>>

\* ... and gets its preimage back.
Put(r) ==
    /\ run[r].pc = "put"
    /\ LET f == Last(run[r].left) IN
       /\ files' = [files EXCEPT ![f] = run[r].entries[f].before]
       /\ run' = [run EXCEPT ![r].pc = "restore", ![r].left = @ \ {f}]
    /\ UNCHANGED <<source, backups, lock, owed, edits, crashes>>

-----------------------------------------------------------------------------
(* The environment                                                         *)

NewDistribution ==
    /\ source = 1
    /\ source' = 2
    /\ UNCHANGED <<files, backups, lock, run, owed, edits, crashes>>

\* A file a run has compared for the last time and is about to replace.
AboutToReplace(f) ==
    \E r \in Runs :
        \/ run[r].pc = "write" /\ First(run[r].left) = f
        \/ run[r].pc = "put" /\ Last(run[r].left) = f

Edit(f) ==
    /\ edits < MaxEdits
    /\ files[f] # Edited
    /\ edits' = edits + 1
    /\ files' = [files EXCEPT ![f] = Edited]
    /\ owed' = (owed \ {<<f, files[f]>>})
               \cup (IF AboutToReplace(f) THEN {} ELSE {<<f, Edited>>})
    /\ UNCHANGED <<source, backups, lock, run, crashes>>

Crash(r) ==
    /\ run[r] # Idle
    /\ crashes < MaxCrashes
    /\ crashes' = crashes + 1
    /\ lock' = IF lock = r THEN "dead" ELSE lock
    /\ run' = [run EXCEPT ![r] = Idle]
    /\ UNCHANGED <<source, files, backups, owed, edits>>

\* The user found the owner of the lock gone and removes the file.
ReconcileLock ==
    /\ lock = "dead"
    /\ lock' = "free"
    /\ UNCHANGED <<source, files, backups, run, owed, edits, crashes>>

Next ==
    \/ \E r \in Installers : PlanInstall(r)
    \/ \E r \in Rollers : PlanRollback(r)
    \/ \E r \in Runs :
          \/ TakeLock(r) \/ Compare(r) \/ SavePreimages(r)
          \/ Announce(r) \/ Replace(r) \/ CompareRollback(r) \/ Restore(r) \/ Put(r)
          \/ Crash(r)
    \/ NewDistribution \/ ReconcileLock
    \/ \E f \in Paths : Edit(f)

Spec == Init /\ [][Next]_vars

-----------------------------------------------------------------------------
(* What must hold                                                          *)

\* Everything the user wrote before a run compared the file for the last time
\* is still in the project or in a backup a manifest names.
NothingLost ==
    \A o \in owed :
        \/ files[o[1]] = o[2]
        \/ \E b \in DOMAIN backups :
              /\ backups[b].state # "unrecorded"
              /\ o[1] \in DOMAIN backups[b].entries
              /\ backups[b].entries[o[1]].before = o[2]

\* While an update is writing, the installation it took its ownership from is
\* the applied one it was when the update was planned: no rollback of it has
\* begun, however the runs overlap.
UpdateOwnsItsBase ==
    \A r \in Runs :
        (run[r] # Idle /\ run[r].kind = "update" /\ run[r].pc \in {"save", "next", "write"})
            => backups[run[r].base[1]].state = "APPLIED"

\* An installation on record as applied and never followed by another run left
\* whole what the user did not edit; what a dead run did not finish is on record
\* as unfinished.
AppliedIsWhole ==
    LET last == Len(backups) IN
    (last > 0 /\ lock = "free" /\ backups[last].state = "APPLIED"
        /\ \A b \in 1 .. last - 1 : backups[b].state # "ROLLING_BACK")
      => \A f \in DOMAIN backups[last].entries :
            \/ files[f] = backups[last].entries[f].after
            \/ <<f, Edited>> \in owed
            \/ \E b \in 1 .. last - 1 :
                  backups[b].state \in {"ROLLED_BACK", "ROLLBACK_INTERRUPTED"}

InstallationSound == NothingLost /\ UpdateOwnsItsBase /\ AppliedIsWhole

-----------------------------------------------------------------------------
(* Why InstallationSound holds                                             *)

States == {"unrecorded", "PREPARED", "APPLYING", "APPLIED", "INTERRUPTED", "ROLLING_BACK",
           "ROLLED_BACK", "ROLLBACK_INTERRUPTED"}
Entry == [before : 0 .. 4, after : 0 .. 2]
Plans == UNION {[planned -> Entry] : planned \in SUBSET Paths}
Backup == [state : States, complete : BOOLEAN, entries : Plans]

\* The places at which a run holds the lock.
Installing == {"save", "next", "write"}
RollingBack == {"restore", "put"}
Active == {"compare"} \cup Installing \cup RollingBack

InstallationTypes ==
    /\ source \in {1, 2}
    /\ files \in [Paths -> 0 .. 4]
    /\ backups \in Seq(Backup)
    /\ owed \subseteq Paths \X Users
    /\ DOMAIN run = Runs

\* A backup that a manifest names holds what the user wrote.
Saved(o) ==
    \E b \in DOMAIN backups :
        /\ backups[b].state # "unrecorded"
        /\ o[1] \in DOMAIN backups[b].entries
        /\ backups[b].entries[o[1]].before = o[2]

\* The file is as an installation left it, or the user has edited it since.
Installed(entries, f) == files[f] = entries[f].after \/ <<f, Edited>> \in owed

\* What a run knows: it is alone at its backup, which says what it is doing, and
\* the file it is about to replace is nobody's but in a backup.
RunKnown(r) ==
    LET own == run[r] IN
    own # Idle =>
        /\ own \in [pc : Active \cup {"lock"}, kind : {"minimal", "complete", "update", "rollback"},
                    entries : Plans, base : {own.base}, backup : Nat, left : SUBSET Paths,
                    seen : {own.seen}]
        /\ own.pc \in Active => lock = r
        /\ own.pc \in RollingBack => own.kind = "rollback"
        /\ own.pc \in Installing => own.kind # "rollback"
        /\ own.kind = "update" => own.base # <<>> /\ own.base[1] \in DOMAIN backups
                                  /\ own.base[2].state = "APPLIED"
        /\ own.kind = "rollback" \/ own.pc \in Installing =>
              /\ own.backup \in DOMAIN backups
              /\ own.entries = backups[own.backup].entries
              /\ own.pc \notin Installing => backups[own.backup].state # "unrecorded"
        /\ own.pc \in Installing =>
              /\ own.backup = Len(backups)
              /\ own.kind = "update" => own.base[1] < Len(backups)
                                        /\ backups[own.base[1]].state = "APPLIED"
        /\ own.pc \in Installing \cup RollingBack => own.left \subseteq DOMAIN own.entries
        /\ own.pc = "save" => /\ backups[own.backup].state = "unrecorded"
                              /\ own.left = DOMAIN own.entries
        /\ own.pc = "next" => backups[own.backup].state \in {"PREPARED", "APPLYING"}
        /\ own.pc = "write" => backups[own.backup].state = "APPLYING"
        /\ own.pc \in {"next", "write"} =>
              \A f \in DOMAIN own.entries \ own.left : Installed(own.entries, f)
        /\ own.pc \in RollingBack =>
              /\ backups[own.backup].state = "ROLLING_BACK"
              /\ \A f \in DOMAIN own.entries :
                    own.seen[f] \in {own.entries[f].before, own.entries[f].after}
        /\ own.pc \in {"write", "put"} => own.left # {}
        /\ own.pc = "write" => \A o \in owed : o[1] = First(own.left) => Saved(o)
        /\ own.pc = "put" => \A o \in owed : o[1] = Last(own.left) => Saved(o)

\* AppliedIsWhole, while a run holds the lock as well.
AppliedKnown ==
    LET last == Len(backups) IN
    (last > 0 /\ backups[last].state = "APPLIED"
        /\ \A b \in 1 .. last - 1 : backups[b].state # "ROLLING_BACK")
      => \A f \in DOMAIN backups[last].entries :
            \/ Installed(backups[last].entries, f)
            \/ \E b \in 1 .. last - 1 :
                  backups[b].state \in {"ROLLED_BACK", "ROLLBACK_INTERRUPTED"}

InstallationInv ==
    /\ InstallationTypes
    /\ \A r \in Runs : RunKnown(r)
    /\ \A o \in owed : files[o[1]] = o[2] \/ Saved(o)
    /\ AppliedKnown
=============================================================================
