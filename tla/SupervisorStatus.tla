--------------------------- MODULE SupervisorStatus ---------------------------
(***************************************************************************)
(* The durable status a Worker keeps for a Supervisor that only pulls      *)
(* (durable_status.py): a journal of records, one file each, and           *)
(* status.json, which repeats the last.  Processes write concurrently,     *)
(* under a lock the operating system releases when one of them dies;       *)
(* preflight, read and verify take no lock.                                *)
(*                                                                         *)
(* A record that names a pending decision holds one transition.  Only a    *)
(* message of the Supervisor that names exactly that record lets a later   *)
(* turn of the Worker go on with it.  Status ids and hashes are the        *)
(* position in the journal: the chain admits no other record there.        *)
(***************************************************************************)
EXTENDS Naturals, Sequences

CONSTANTS
  Writers,        \* processes of the Worker
  Turns,          \* its turns, as the host numbers them
  Transitions,    \* what may be held for a decision
  Candidates,     \* what the work is about
  MaxRecords,     \* MAX_JOURNAL_RECORDS
  MaxDeaths       \* how many processes die in a behaviour

VARIABLES
  journal,        \* the records
  current,        \* the record status.json repeats; 0: no file
  lock,           \* who holds status.lock
  messages,       \* what the Supervisor has sent
  write,          \* write[w]: what writer w is doing
  deaths

vars == <<journal, current, lock, messages, write, deaths>>

NoMessage == [status |-> 0, transition |-> "none", turn |-> 0]
Messages == [status : 1..MaxRecords, transition : Transitions, turn : Turns]
Records == [id : 1..MaxRecords, turn : Turns, held : Transitions \cup {"none"},
            candidate : Candidates, bound : Messages \cup {NoMessage}]
NoRecord == [id |-> 0, turn |-> 0, held |-> "none", candidate |-> "none", bound |-> NoMessage]
Writes == [at : {"idle", "compare", "wait", "create", "replace"},
           request : Records \cup {NoRecord}, expect : 0..MaxRecords, seen : 0..MaxRecords]
Idle == [at |-> "idle", request |-> NoRecord, expect |-> 0, seen |-> 0]

Init ==
  /\ journal = <<>>
  /\ current = 0
  /\ lock = "nobody"
  /\ messages = {}
  /\ write = [w \in Writers |-> Idle]
  /\ deaths = 0

Go(w, doing) == write' = [write EXCEPT ![w] = doing]
End(w) == Go(w, Idle)

\* What writer w is doing when it goes on to the next point with a request.
Doing(w, at, request) ==
  [at |-> at, request |-> request, expect |-> write[w].expect, seen |-> write[w].seen]

\* The Supervisor pulls the latest status and answers it, once in the model;
\* the host delivers his message in a turn of the Worker.
Send(turn) ==
  /\ journal # <<>>
  /\ LET last == journal[Len(journal)] IN
       /\ last.held # "none"
       /\ \A m \in messages : m.status # Len(journal)
       /\ messages' = messages \cup
            {[status |-> Len(journal), transition |-> last.held, turn |-> turn]}
  /\ UNCHANGED <<journal, current, lock, write, deaths>>

\* validate_supervisor_message: the exact prior status, the transition it
\* holds, the current turn, and a later one than the record's.
\* Fault: any later turn may be told to go on.
MessageOfAnyStatus(message, position, last, turn) ==
  /\ message.transition = last.held
  /\ message.turn = turn
  /\ turn # last.turn

MessageFits(message, position, last, turn) ==
  /\ message.status = position
  /\ message.transition = last.held
  /\ message.turn = turn
  /\ turn # last.turn

\* The rules for a record that follows a held one: a message frees the held
\* transition with the same candidate, or the record repeats the hold.
MayFollow(request, position, last) ==
  IF request.bound # NoMessage
  THEN /\ last.held # "none"
       /\ MessageFits(request.bound, position, last, request.turn)
       /\ request.held = "none"
       /\ request.candidate = last.candidate
  ELSE last.held # "none" => request.held = last.held /\ request.candidate = last.candidate

\* A caller prepares a request against a status it has read, and
\* preflight_write_request lists the journal, unlocked.  What the request
\* says is drawn when the record is built from it.
Begin(w) ==
  /\ write[w].at = "idle"
  /\ \E n \in 0..Len(journal) :
       Go(w, [at |-> "compare", request |-> NoRecord, expect |-> n, seen |-> Len(journal)])
  /\ UNCHANGED <<journal, current, lock, messages, deaths>>

\* reconcile_current without repair: a status.json ahead of the journal that
\* was read is an error, a missing or older one is not.
Compare(w) ==
  /\ write[w].at = "compare"
  /\ IF current <= write[w].seen /\ write[w].expect = write[w].seen
     THEN Go(w, Doing(w, "wait", NoRecord))
     ELSE End(w)
  /\ UNCHANGED <<journal, current, lock, messages, deaths>>

\* build_record, and validate_record on its result: the record may stand
\* after the latest one.
Buildable(record) ==
  /\ Len(journal) < MaxRecords
  /\ record.id = Len(journal) + 1
  /\ record.bound \in messages \cup {NoMessage}
  /\ IF journal = <<>> THEN record.bound = NoMessage
     ELSE MayFollow(record, Len(journal), journal[Len(journal)])

\* write_status under the lock: the journal is read again and its end is
\* compared with the expected one, the record is built against it, and
\* reconcile_current brings status.json up to it before anything is written.
Acquire(w) ==
  /\ write[w].at = "wait"
  /\ lock = "nobody"
  /\ \/ /\ write[w].expect = Len(journal)
        /\ \E r \in Records : Buildable(r) /\ Go(w, Doing(w, "create", r))
        /\ lock' = w
        /\ current' = Len(journal)
     \/ /\ End(w)
        /\ UNCHANGED <<lock, current>>
  /\ UNCHANGED <<journal, messages, deaths>>

\* atomic_create links a complete event file into the journal.
\* Fault: status.json is replaced first.
CreateEventLast(w) ==
  /\ write[w].at = "create"
  /\ current' = Len(journal) + 1
  /\ Go(w, Doing(w, "replace", NoRecord))
  /\ UNCHANGED <<journal, lock, messages, deaths>>

CreateEvent(w) ==
  /\ write[w].at = "create"
  /\ journal' = Append(journal, write[w].request)
  /\ Go(w, Doing(w, "replace", NoRecord))
  /\ UNCHANGED <<current, lock, messages, deaths>>

\* atomic_write replaces status.json; the lock goes.
ReplaceStatus(w) ==
  /\ write[w].at = "replace"
  /\ current' = Len(journal)
  /\ lock' = "nobody"
  /\ End(w)
  /\ UNCHANGED <<journal, messages, deaths>>

\* A writer dies between any two file operations.
Die(w) ==
  /\ write[w].at # "idle"
  /\ deaths < MaxDeaths
  /\ deaths' = deaths + 1
  /\ lock' = IF lock = w THEN "nobody" ELSE lock
  /\ End(w)
  /\ UNCHANGED <<journal, current, messages>>

Next ==
  \/ \E t \in Turns : Send(t)
  \/ \E w \in Writers : Begin(w) \/ Compare(w) \/ Acquire(w) \/ CreateEvent(w)
                        \/ ReplaceStatus(w) \/ Die(w)

Spec == Init /\ [][Next]_vars

-------------------------------------------------------------------------------
\* Every variable has its type.
TypeOK ==
  /\ journal \in Seq(Records)
  /\ current \in 0..MaxRecords
  /\ lock \in Writers \cup {"nobody"}
  /\ messages \subseteq Messages
  /\ write \in [Writers -> Writes]
  /\ deaths \in 0..MaxDeaths

\* A held transition goes on only by the Supervisor's word: the record after a
\* held one repeats the hold and its candidate, or was written in another turn
\* on a message that the Supervisor sent in answer to exactly that record.
\* So no message is used twice, and an answer to an older status is void.
HeldUntilAnswered ==
  \A i \in 1..(Len(journal) - 1) :
    journal[i].held # "none" =>
      /\ journal[i + 1].candidate = journal[i].candidate
      /\ \/ journal[i + 1].held = journal[i].held
         \/ /\ journal[i + 1].bound \in messages
            /\ journal[i + 1].bound.status = i
            /\ journal[i + 1].bound.turn # journal[i].turn

\* The status is the append-only log the Supervisor pulls from.
Log == INSTANCE AppendOnlyLog WITH Entry <- Records, log <- journal, shown <- current
StatusIsLog == Log!Spec
===============================================================================
