--------------------------- MODULE ObjectiveJournal ---------------------------
(***************************************************************************)
(* How one chat's objective ledger is stored (runtime/objective_ledger.py):*)
(* commands and host hooks, each a process of its own, append to one       *)
(* journal under a lock file and then replace three views of it.  Any of   *)
(* them may be killed between two steps; a killed holder leaves its lock   *)
(* behind, which only recover-lock removes.                                *)
(*                                                                         *)
(* An event is its identity, its kind and its content.  The hash chain is  *)
(* the sequence itself: a head names a prefix of the journal.  A caller    *)
(* that dies is replaced by a new process under the same name, so a lock   *)
(* is its owner's name and whether that owner still lives.                 *)
(***************************************************************************)
EXTENDS Naturals, Sequences, FiniteSets

CONSTANTS
  Callers,      \* processes that may run at the same time
  Rescuers,     \* those of them that may run recover-lock
  Sources,      \* messages of the user, named by their delivery
  Bodies,       \* contents that may arrive under one delivery name
  MaxFaults     \* how many deaths and failed writes a behaviour has

ASSUME JournalAssumption ==
  /\ Rescuers \subseteq Callers
  /\ MaxFaults \in Nat
  /\ Bodies # {}

VARIABLES
  journal,      \* journal.jsonl: the complete records
  torn,         \* bytes of an incomplete record follow them
  lock,         \* ledger.lock: Free, or whose it is and whether he lives
  views,        \* the revision in current.json, in the index, on the card
  gaps,         \* messages with a capture-gap record of this chat
  call,         \* call[c]: what process c is doing
  faults

vars == <<journal, torn, lock, views, gaps, call, faults>>

Capture(s, b) == [id |-> <<"capture", s>>, source |-> s, body |-> b]
Consume(s, b) == [id |-> <<"consume", s>>, source |-> s, body |-> b]
Captures == {Capture(s, b) : s \in Sources, b \in Bodies}
\* A classification or a disposition of a message, under its --event-id.
Consumes == {Consume(s, b) : s \in Sources, b \in Bodies}
Events == Captures \cup Consumes

NoEvent == [id |-> <<"none">>, source |-> "none", body |-> "none"]

Free == [owner |-> "nobody", lives |-> FALSE]
Anywhere == 0 - 1        \* no --expected-head
Idle == [at |-> "idle", op |-> "none", event |-> NoEvent, expect |-> Anywhere, seen |-> Free,
         wrote |-> FALSE, answer |-> "none"]

\* Places a process is at while it holds, or believes it holds, the lock.
Inside == {"scan", "append", "current", "index", "card", "leave"}

Init ==
  /\ journal = <<>>
  /\ torn = FALSE
  /\ lock = Free
  /\ views = [current |-> 0, index |-> 0, card |-> 0]
  /\ gaps = {}
  /\ call = [c \in Callers |-> Idle]
  /\ faults = 0

\* Process c goes on at another place; the call it runs stays the same.
Go(c, place, wrote, answer) ==
  call' = [call EXCEPT ![c] = [at |-> place, op |-> @.op, event |-> @.event,
                               expect |-> @.expect, seen |-> @.seen,
                               wrote |-> wrote, answer |-> answer]]
Move(c, place) == Go(c, place, call[c].wrote, call[c].answer)
Answer(c, place, word) == Go(c, place, call[c].wrote, word)

\* A call that begins: what it is about, the head it states, the lock it saw.
Call(place, op, event, expect, seen) ==
  [at |-> place, op |-> op, event |-> event, expect |-> expect, seen |-> seen,
   wrote |-> FALSE, answer |-> "none"]
Becomes(c, new) == call' = [call EXCEPT ![c] = new]

\* A hook with the user's message, a command that appends, a read of the
\* state, or recover-lock with the digest of the lock it was shown.
\* A caller that states a head states one it may have read.
Begin(c) ==
  /\ call[c].at = "idle"
  /\ \/ \E e \in Captures : Becomes(c, Call("wait", "prompt", e, Anywhere, Free))
     \/ \E e \in Consumes, h \in {Anywhere} \cup 0..Len(journal) :
          Becomes(c, Call("wait", "command", e, h, Free))
     \/ Becomes(c, Call("wait", "read", NoEvent, Anywhere, Free))
     \/ /\ c \in Rescuers
        /\ lock # Free
        /\ Becomes(c, Call("inspect", "rescue", NoEvent, Anywhere, lock))
  /\ UNCHANGED <<journal, torn, lock, views, gaps, faults>>

\* FileLock.__enter__: the complete owner record is linked into place, or
\* the deadline passes while another's is there.
Enter(c) ==
  /\ call[c].at = "wait"
  /\ lock = Free
  /\ lock' = [owner |-> c, lives |-> TRUE]
  /\ Move(c, "scan")
  /\ UNCHANGED <<journal, torn, views, gaps, faults>>

GiveUp(c) ==
  /\ call[c].at = "wait"
  /\ lock # Free
  /\ Answer(c, "report", "refused")
  /\ UNCHANGED <<journal, torn, lock, views, gaps, faults>>

\* scan_journal(repair_partial=True): an incomplete last line is preserved
\* beside the journal and cut off.
Repair == torn' = FALSE

Recorded(e) == \E i \in DOMAIN journal : journal[i] = e
\* Fault: only the latest record is asked for the identity.
TakenLately(id) == journal # <<>> /\ journal[Len(journal)].id = id
Taken(id) == \E i \in DOMAIN journal : journal[i].id = id
Pending(s) ==
  /\ Taken(<<"capture", s>>)
  /\ ~Taken(<<"consume", s>>)

\* normalize_proposed_transition as far as the journal decides it: a message
\* is classified or disposed of once.
Normalizes(e) == e \in Captures \/ Pending(e.source)

\* append_event up to the first byte: compare the head, normalise against
\* the replayed state, then look for the identity among the records.
Scan(c) ==
  LET e == call[c].event IN
  /\ call[c].at = "scan"
  /\ Repair
  /\ IF call[c].op \in {"read", "rescue"}
     THEN Answer(c, "current", "done")
     ELSE IF \/ call[c].expect \notin {Anywhere, Len(journal)}
             \/ ~Normalizes(e)
             \/ Taken(e.id) /\ ~Recorded(e)
          THEN Answer(c, "leave", "refused")
          ELSE IF Recorded(e)
               THEN Answer(c, "current", "done")
               ELSE Move(c, "append")
  /\ UNCHANGED <<journal, lock, views, gaps, faults>>

\* Reading the journal, cutting it or keeping the evidence of a rejection
\* fails: the call ends without having written a record, and without a gap.
ScanFails(c) ==
  /\ call[c].at = "scan"
  /\ faults < MaxFaults /\ faults' = faults + 1
  /\ torn' \in {torn, FALSE}
  /\ Answer(c, "leave", "failed")
  /\ UNCHANGED <<journal, lock, views, gaps>>

Written(e) == journal' = Append(journal, e)

\* One write and one fsync.  A failure leaves nothing, a part of the line or
\* the whole of it, and the caller is told the effect is uncertain.
AppendRecord(c) ==
  /\ call[c].at = "append"
  /\ Written(call[c].event)
  /\ Go(c, "current", TRUE, "done")
  /\ UNCHANGED <<torn, lock, views, gaps, faults>>

Fault == faults < MaxFaults /\ faults' = faults + 1

AppendFails(c) ==
  /\ call[c].at = "append"
  /\ Fault
  /\ \/ Written(call[c].event) /\ torn' = torn
     \/ journal' = journal /\ torn' \in BOOLEAN
  /\ Go(c, "leave", journal' # journal, "uncertain")
  /\ UNCHANGED <<lock, views, gaps>>

\* write_projection replaces current.json, then the evidence index, then the
\* card, each atomically.
Project(c) ==
  /\ call[c].at \in {"current", "index", "card"}
  /\ views' = [views EXCEPT ![call[c].at] = Len(journal)]
  /\ Move(c, CASE call[c].at = "current" -> "index"
               [] call[c].at = "index" -> "card"
               [] OTHER -> "leave")
  /\ UNCHANGED <<journal, torn, lock, gaps, faults>>

ProjectFails(c) ==
  /\ call[c].at \in {"current", "index", "card"}
  /\ Fault
  /\ Answer(c, "leave", IF call[c].wrote THEN "uncertain" ELSE "failed")
  /\ UNCHANGED <<journal, torn, lock, views, gaps>>

\* FileLock.__exit__ removes the lock if its bytes are still the caller's.
\* A lock that changed, vanished or cannot be removed turns the answer of a
\* call that touched the journal into an uncertain one.
UnsureForgetting(c) == "refused"     \* Fault: whatever was written before.
Unsure(c) == IF call[c].wrote \/ call[c].answer = "uncertain" THEN "uncertain" ELSE "refused"

Leave(c) ==
  /\ call[c].at = "leave"
  /\ LET mine == lock = [owner |-> c, lives |-> TRUE] IN
     \/ /\ mine
        /\ lock' = Free
        /\ Move(c, "report")
        /\ faults' = faults
     \/ /\ ~mine
        /\ lock' = lock
        /\ Answer(c, "report", Unsure(c))
        /\ faults' = faults
     \/ /\ mine
        /\ Fault
        /\ lock' = [lock EXCEPT !.lives = FALSE]
        /\ Answer(c, "report", Unsure(c))
  /\ UNCHANGED <<journal, torn, views, gaps>>

\* main(): the answer goes out and the process ends.  A hook that could not
\* keep the user's message leaves a capture gap instead and lets him go on.
Report(c) ==
  /\ call[c].at = "report"
  /\ gaps' = IF call[c].op = "prompt" /\ call[c].answer = "refused"
             THEN gaps \cup {call[c].event.source}
             ELSE gaps
  /\ Move(c, "idle")
  /\ UNCHANGED <<journal, torn, lock, views, faults>>

\* recover_dead_owner_lock: the bytes must have the expected digest and a
\* dead owner; they are preserved, read once more, and then whatever lies
\* under the lock's name is removed.
\* Fault: the owner is not asked for.
InspectAnyOwner(c) ==
  /\ call[c].at = "inspect"
  /\ IF lock = call[c].seen /\ lock # Free
     THEN Move(c, "recheck")
     ELSE Answer(c, "report", "refused")
  /\ UNCHANGED <<journal, torn, lock, views, gaps, faults>>

Inspect(c) ==
  /\ call[c].at = "inspect"
  /\ IF lock = call[c].seen /\ lock # Free /\ ~lock.lives
     THEN Move(c, "recheck")
     ELSE Answer(c, "report", "refused")
  /\ UNCHANGED <<journal, torn, lock, views, gaps, faults>>

Recheck(c) ==
  /\ call[c].at = "recheck"
  /\ IF lock = call[c].seen
     THEN Move(c, "remove")
     ELSE Answer(c, "report", "refused")
  /\ UNCHANGED <<journal, torn, lock, views, gaps, faults>>

RemoveLock(c) ==
  /\ call[c].at = "remove"
  /\ lock' = Free
  /\ IF lock = Free THEN Answer(c, "report", "refused") ELSE Move(c, "wait")
  /\ UNCHANGED <<journal, torn, views, gaps, faults>>

\* A process is killed.  During its one write of a record any part of the
\* line may have reached the disk.  Its lock stays.
Die(c) ==
  /\ call[c].at \notin {"idle", "report"}
  /\ Fault
  /\ IF call[c].at = "append"
     THEN \/ Written(call[c].event) /\ torn' = torn
          \/ journal' = journal /\ torn' \in BOOLEAN
     ELSE UNCHANGED <<journal, torn>>
  /\ lock' = IF lock = [owner |-> c, lives |-> TRUE]
             THEN [lock EXCEPT !.lives = FALSE] ELSE lock
  /\ Becomes(c, Idle)
  /\ UNCHANGED <<views, gaps>>

Next == \E c \in Callers :
  \/ Begin(c)
  \/ Enter(c)
  \/ GiveUp(c)
  \/ Scan(c)
  \/ ScanFails(c)
  \/ AppendRecord(c)
  \/ AppendFails(c)
  \/ Project(c)
  \/ ProjectFails(c)
  \/ Leave(c)
  \/ Report(c)
  \/ Inspect(c)
  \/ Recheck(c)
  \/ RemoveLock(c)
  \/ Die(c)

Spec == Init /\ [][Next]_vars

-------------------------------------------------------------------------------
Places == {"idle", "wait", "inspect", "recheck", "remove", "report"} \cup Inside

Locks == [owner : Callers \cup {"nobody"}, lives : BOOLEAN]
Calls == [at : Places, op : {"none", "prompt", "command", "read", "rescue"},
          event : Events \cup {NoEvent}, expect : Nat \cup {Anywhere}, seen : Locks,
          wrote : BOOLEAN, answer : {"none", "done", "refused", "failed", "uncertain"}]

\* Every variable has its type.
TypeOK ==
  /\ journal \in Seq(Events)
  /\ torn \in BOOLEAN
  /\ lock \in Locks
  /\ views \in [{"current", "index", "card"} -> Nat]
  /\ gaps \subseteq Sources
  /\ call \in [Callers -> Calls]
  /\ faults \in 0..MaxFaults

\* The lock is one process's at a time: whoever is inside the critical
\* section is the living owner the lock file names, although holders die
\* anywhere and others remove their locks.
HolderOwnsLock ==
  \A c \in Callers : call[c].at \in Inside => lock = [owner |-> c, lives |-> TRUE]

\* A finished call said the truth: one that answered that nothing was done
\* appended nothing, one that answered that it is done is in the journal, and
\* a message of the user that was refused has left a gap of this chat that
\* says it is missing.
AnswersTrue ==
  \A c \in Callers : call[c].at = "idle" =>
    /\ call[c].answer \in {"refused", "failed"} => ~call[c].wrote
    /\ call[c].answer = "done" /\ call[c].op \in {"prompt", "command"}
         => Recorded(call[c].event)
    /\ call[c].op = "prompt" /\ ~Recorded(call[c].event)
         => call[c].answer \in {"uncertain", "failed"} \/ call[c].event.source \in gaps

\* The ledger implements the append-only log its readers rely on.
Log == INSTANCE AppendOnlyLog WITH Entry <- Events, log <- journal, shown <- views.card
JournalIsLog == Log!Spec
===============================================================================
