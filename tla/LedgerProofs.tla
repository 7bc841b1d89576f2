----------------------------- MODULE LedgerProofs -----------------------------
(***************************************************************************)
(* Proofs about Ledger, for every value of its constants.  What a call on  *)
(* the journal answered is true; and while one process at a time may       *)
(* recover locks, the lock is exclusive and the journal is an append-only  *)
(* log (the run LockStolen shows what two of them can do).  A transition   *)
(* the status holds waits for the Supervisor's answer to exactly that      *)
(* record, and the status is an append-only log too.  An effect that may   *)
(* have happened stays in view under any contract.  Each record, side by   *)
(* side with the others, is a behaviour of its own component.  Last, the   *)
(* work: phases, units and processes.                                      *)
(***************************************************************************)
EXTENDS Ledger, TLAPS

(***************************************************************************)
(* The journal.                                                            *)
(***************************************************************************)
\* What a call knows at each of its places: nothing is answered before it has
\* decided, what it wrote or found is in the journal, and what it refused it
\* has not written.
CallOK(c) ==
  /\ call[c].op = "prompt" => call[c].event \in Captures
  /\ call[c].op = "command" => call[c].event \in Consumes
  /\ call[c].at \in {"wait", "inspect", "recheck", "remove", "scan", "append"}
       => call[c].wrote = FALSE /\ call[c].answer = "none"
  /\ call[c].at # "idle" => call[c].op # "none"
  /\ call[c].at = "append" => call[c].op \in {"prompt", "command"}
  /\ call[c].at \in {"current", "index", "card", "leave", "report"} => call[c].answer # "none"
  /\ call[c].at = "idle" /\ call[c].answer = "none" => call[c].op = "none"
  /\ call[c].answer \in {"refused", "failed"} => call[c].wrote = FALSE
  /\ call[c].answer = "done" /\ call[c].op \in {"prompt", "command"} => Recorded(call[c].event)
  /\ call[c].at = "idle" /\ call[c].op = "prompt" /\ ~Recorded(call[c].event)
       => call[c].answer \in {"uncertain", "failed"} \/ call[c].event.source \in gaps

AnswerInv == TypeOK /\ \A c \in Callers : CallOK(c)

\* What all steps of a process have in common.
Grows == journal' = journal \/ \E e \in Events : Written(e)
Alone(c) == \A d \in Callers \ {c} : call'[d] = call[d]

-------------------------------------------------------------------------------
\* The pieces have their types.
LEMMA PieceTypes ==
  /\ Idle \in Calls /\ Free \in Locks
  /\ \A e \in Captures : e \in Events /\ e.source \in Sources
  /\ \A e \in Consumes : e \in Events
  /\ \A c \in Callers, l \in BOOLEAN : [owner |-> c, lives |-> l] \in Locks
BY DEF Idle, Calls, Free, Locks, Places, Inside, Events, Captures, Consumes, Capture, Consume

\* What a call is after it went on.
LEMMA GoFacts ==
  ASSUME TypeOK, NEW c \in Callers, NEW p \in Places, NEW w \in BOOLEAN,
         NEW a \in {"none", "done", "refused", "failed", "uncertain"}, Go(c, p, w, a)
  PROVE  /\ call' \in [Callers -> Calls] /\ Alone(c)
         /\ call'[c].at = p /\ call'[c].op = call[c].op /\ call'[c].event = call[c].event
         /\ call'[c].seen = call[c].seen /\ call'[c].wrote = w /\ call'[c].answer = a
BY DEF TypeOK, Calls, Go, Alone

\* What is recorded stays recorded.
LEMMA RecordsStay ==
  ASSUME TypeOK, Grows
  PROVE  /\ journal' \in Seq(Events)
         /\ \A e : Recorded(e) => Recorded(e)'
         /\ \A id : Taken(id) => Taken(id)'
<1>1. CASE journal' = journal
  BY <1>1 DEF TypeOK, Recorded, Taken
<1>2. ASSUME NEW n \in Events, Written(n)
      PROVE  /\ journal' \in Seq(Events)
             /\ \A e : Recorded(e) => Recorded(e)'
             /\ \A id : Taken(id) => Taken(id)'
  <2>1. /\ journal' \in Seq(Events)
        /\ \A i \in DOMAIN journal : i \in DOMAIN journal' /\ journal'[i] = journal[i]
    BY <1>2 DEF Written, TypeOK
  <2> QED
    BY <2>1 DEF Recorded, Taken
<1> QED
  BY <1>1, <1>2 DEF Grows

\* A step of one process leaves what the others know as it was.
LEMMA OthersKeep ==
  ASSUME AnswerInv, NEW c \in Callers, Alone(c), Grows, gaps \subseteq gaps',
         NEW d \in Callers \ {c}
  PROVE  CallOK(d)'
<1>1. call'[d] = call[d] /\ CallOK(d)
  BY DEF Alone, AnswerInv
<1>2. \A e : Recorded(e) => Recorded(e)'
  BY RecordsStay DEF AnswerInv
<1> QED
  BY <1>1, <1>2 DEF CallOK

\* What an event written by a process is, and what its journal then holds.
LEMMA WrittenFacts ==
  ASSUME AnswerInv, NEW c \in Callers, call[c].at = "append",
         NEW e, e = call[c].event, Written(e)
  PROVE  Grows /\ e \in Events /\ Recorded(e)' /\ journal' # journal
<1>1. e \in Events
  BY PieceTypes DEF AnswerInv, CallOK
<1>2. journal \in Seq(Events) /\ journal' = Append(journal, e)
  BY DEF AnswerInv, TypeOK, Written
<1>3. /\ Len(journal) \in Nat /\ Len(journal') = Len(journal) + 1
      /\ journal'[Len(journal) + 1] = e /\ DOMAIN journal' = 1..(Len(journal) + 1)
  BY <1>1, <1>2
<1>4. \E i \in DOMAIN journal' : journal'[i] = e
  BY <1>3
<1>5. journal' # journal
  BY <1>3
<1> QED
  BY <1>1, <1>4, <1>5 DEF Grows, Recorded

-------------------------------------------------------------------------------
\* What a step of process c shows for the invariant.
Shows(c) == TypeOK' /\ CallOK(c)' /\ Alone(c) /\ Grows /\ gaps \subseteq gaps'

\* A call begins.
LEMMA BeginShows ==
  ASSUME AnswerInv, NEW c \in Callers, Begin(c)
  PROVE  Shows(c)
<1> USE PieceTypes DEF AnswerInv
<1>1. UNCHANGED <<journal, torn, lock, views, gaps, faults>>
  BY DEF Begin
<1>2. ASSUME NEW p \in {"wait", "inspect"}, NEW o \in {"prompt", "command", "read", "rescue"},
             NEW e \in Events \cup {NoEvent}, NEW h \in {Anywhere} \cup Nat, NEW s \in Locks,
             Becomes(c, Call(p, o, e, h, s)),
             o = "prompt" => e \in Captures, o = "command" => e \in Consumes
      PROVE  Shows(c)
  <2>1. /\ call' \in [Callers -> Calls] /\ Alone(c)
        /\ call'[c].at = p /\ call'[c].op = o /\ call'[c].event = e
        /\ call'[c].seen = s /\ call'[c].wrote = FALSE /\ call'[c].answer = "none"
    BY <1>2 DEF TypeOK, Calls, Becomes, Call, Alone, Places
  <2>2. TypeOK'
    BY <1>1, <2>1 DEF TypeOK
  <2>3. CallOK(c)'
    BY <1>1, <1>2, <2>1 DEF CallOK
  <2> QED
    BY <1>1, <2>1, <2>2, <2>3 DEF Shows, Grows
<1>3. ASSUME NEW e \in Captures, Becomes(c, Call("wait", "prompt", e, Anywhere, Free))
      PROVE  Shows(c)
  BY <1>2, <1>3
<1>4. ASSUME NEW e \in Consumes, NEW h \in {Anywhere} \cup 0..Len(journal),
             Becomes(c, Call("wait", "command", e, h, Free))
      PROVE  Shows(c)
  <2>1. h \in {Anywhere} \cup Nat
    BY DEF TypeOK
  <2> QED
    BY <1>2, <1>4, <2>1
<1>5. CASE Becomes(c, Call("wait", "read", NoEvent, Anywhere, Free))
  BY <1>2, <1>5
<1>6. CASE Becomes(c, Call("inspect", "rescue", NoEvent, Anywhere, lock))
  BY <1>2, <1>6 DEF TypeOK
<1> QED
  BY <1>3, <1>4, <1>5, <1>6 DEF Begin

\* The way into the lock, and what recover-lock does outside it.
LEMMA OutsideShows ==
  ASSUME AnswerInv, NEW c \in Callers,
         Enter(c) \/ GiveUp(c) \/ Inspect(c) \/ Recheck(c) \/ RemoveLock(c)
  PROVE  Shows(c)
<1> USE PieceTypes DEF AnswerInv, Places, Inside
<1>1. CallOK(c) /\ call[c] \in Calls
  BY DEF TypeOK
<1>2. ASSUME NEW p \in Places, NEW w \in BOOLEAN, NEW a \in {"none", "refused"},
             Go(c, p, w, a), w = FALSE, call[c].at # "idle",
             \/ a = "none" /\ p \in {"wait", "recheck", "remove", "scan"}
             \/ a = "refused" /\ p = "report",
             UNCHANGED <<journal, torn, views, gaps, faults>>, lock' \in Locks
      PROVE  Shows(c)
  <2>1. /\ call' \in [Callers -> Calls] /\ Alone(c)
        /\ call'[c].at = p /\ call'[c].op = call[c].op /\ call'[c].event = call[c].event
        /\ call'[c].seen = call[c].seen /\ call'[c].wrote = FALSE /\ call'[c].answer = a
    BY <1>2, GoFacts
  <2>2. TypeOK'
    BY <1>2, <2>1 DEF TypeOK
  <2>3. CallOK(c)'
    BY <1>1, <1>2, <2>1 DEF CallOK
  <2> QED
    BY <1>2, <2>1, <2>2, <2>3 DEF Shows, Grows
<1>3. CASE Enter(c)
  BY <1>1, <1>2, <1>3 DEF Enter, Move, CallOK
<1>4. CASE GiveUp(c)
  BY <1>1, <1>2, <1>4 DEF GiveUp, Answer, CallOK, TypeOK
<1>5. CASE Inspect(c)
  BY <1>1, <1>2, <1>5 DEF Inspect, Move, Answer, CallOK, TypeOK
<1>6. CASE Recheck(c)
  BY <1>1, <1>2, <1>6 DEF Recheck, Move, Answer, CallOK, TypeOK
<1>7. CASE RemoveLock(c)
  BY <1>1, <1>2, <1>7 DEF RemoveLock, Move, Answer, CallOK
<1> QED
  BY <1>3, <1>4, <1>5, <1>6, <1>7

\* Reading the journal and deciding.
LEMMA ScanShows ==
  ASSUME AnswerInv, NEW c \in Callers, Scan(c) \/ ScanFails(c)
  PROVE  Shows(c)
<1> USE DEF AnswerInv, Places, Inside
<1>1. CallOK(c) /\ call[c] \in Calls
  BY DEF TypeOK
<1>2. /\ UNCHANGED <<journal, lock, views, gaps>> /\ torn' \in BOOLEAN
      /\ faults' \in 0..MaxFaults /\ call[c].at = "scan" /\ call[c].wrote = FALSE
      /\ call[c].answer = "none"
  <2>1. UNCHANGED <<journal, lock, views, gaps>> /\ call[c].at = "scan"
    BY DEF Scan, ScanFails
  <2>2. torn' \in BOOLEAN
    BY DEF Scan, ScanFails, Repair, TypeOK
  <2>3. faults' \in 0..MaxFaults
    <3>1. faults \in 0..MaxFaults /\ MaxFaults \in Nat
      BY JournalAssumption DEF TypeOK
    <3>2. CASE Scan(c)
      BY <3>1, <3>2 DEF Scan
    <3>3. CASE ScanFails(c)
      BY <3>1, <3>3 DEF ScanFails
    <3> QED
      BY <3>2, <3>3
  <2> QED
    BY <1>1, <2>1, <2>2, <2>3 DEF CallOK
<1>3. ASSUME NEW p \in Places, NEW w \in BOOLEAN,
             NEW a \in {"none", "done", "refused", "failed"}, Go(c, p, w, a), w = FALSE,
             \/ p = "append" /\ a = "none" /\ call[c].op \notin {"read", "rescue"}
             \/ p = "current" /\ a = "done"
                /\ (call[c].op \in {"read", "rescue"} \/ Recorded(call[c].event))
             \/ p = "leave" /\ a \in {"refused", "failed"}
      PROVE  Shows(c)
  <2>1. /\ call' \in [Callers -> Calls] /\ Alone(c)
        /\ call'[c].at = p /\ call'[c].op = call[c].op /\ call'[c].event = call[c].event
        /\ call'[c].seen = call[c].seen /\ call'[c].wrote = FALSE /\ call'[c].answer = a
    BY <1>3, GoFacts
  <2>2. TypeOK'
    BY <1>2, <2>1 DEF TypeOK
  <2>3. \A e : Recorded(e)' <=> Recorded(e)
    BY <1>2 DEF Recorded
  <2>4. CallOK(c)'
    BY <1>1, <1>2, <1>3, <2>1, <2>3 DEF CallOK, Calls
  <2> QED
    BY <1>2, <2>1, <2>2, <2>4 DEF Shows, Grows
<1>4. CASE Scan(c)
  BY <1>2, <1>3, <1>4 DEF Scan, Move, Answer
<1>5. CASE ScanFails(c)
  BY <1>2, <1>3, <1>5 DEF ScanFails, Answer
<1> QED
  BY <1>4, <1>5

\* The one write of a record, whole, in part or not at all.
LEMMA AppendShows ==
  ASSUME AnswerInv, NEW c \in Callers, AppendRecord(c) \/ AppendFails(c)
  PROVE  Shows(c)
<1> USE DEF AnswerInv, Places, Inside
<1>1. CallOK(c) /\ call[c] \in Calls /\ call[c].op \in {"prompt", "command"}
      /\ call[c].at = "append"
  BY DEF TypeOK, AppendRecord, AppendFails, CallOK
<1>2. PICK e : e = call[c].event
  OBVIOUS
<1>3. UNCHANGED <<lock, views, gaps>> /\ torn' \in BOOLEAN /\ faults' \in 0..MaxFaults
  <2>1. faults \in 0..MaxFaults /\ MaxFaults \in Nat /\ torn \in BOOLEAN
    BY JournalAssumption DEF TypeOK
  <2>2. CASE AppendRecord(c)
    BY <2>1, <2>2 DEF AppendRecord
  <2>3. CASE AppendFails(c)
    BY <2>1, <2>3 DEF AppendFails, Fault
  <2> QED
    BY <2>2, <2>3
<1>4. ASSUME NEW w \in BOOLEAN, NEW p \in {"current", "leave"}, NEW a \in {"done", "uncertain"},
             Go(c, p, w, a), Grows, a = "done" => Recorded(e)'
      PROVE  Shows(c)
  <2>1. /\ call' \in [Callers -> Calls] /\ Alone(c)
        /\ call'[c].at = p /\ call'[c].op = call[c].op /\ call'[c].event = e
        /\ call'[c].wrote = w /\ call'[c].answer = a
    BY <1>2, <1>4, GoFacts
  <2>2. TypeOK'
    BY <1>3, <1>4, <2>1, RecordsStay DEF TypeOK
  <2>3. CallOK(c)'
    BY <1>1, <1>2, <1>4, <2>1 DEF CallOK
  <2> QED
    BY <1>3, <1>4, <2>1, <2>2, <2>3 DEF Shows
<1>5. CASE AppendRecord(c)
  <2>1. Written(e)
    BY <1>2, <1>5 DEF AppendRecord
  <2>2. Grows /\ Recorded(e)'
    BY <1>1, <1>2, <2>1, WrittenFacts
  <2> QED
    BY <1>4, <1>5, <2>2 DEF AppendRecord
<1>6. CASE AppendFails(c)
  <2>1. Grows
    BY <1>1, <1>2, <1>6, WrittenFacts DEF AppendFails, Grows
  <2>2. (journal' # journal) \in BOOLEAN
    OBVIOUS
  <2> QED
    BY <1>4, <1>6, <2>1, <2>2 DEF AppendFails
<1> QED
  BY <1>5, <1>6

\* The views, and the way out of the lock.
LEMMA InsideShows ==
  ASSUME AnswerInv, NEW c \in Callers, Project(c) \/ ProjectFails(c) \/ Leave(c)
  PROVE  Shows(c)
<1> USE PieceTypes DEF AnswerInv, Places, Inside
<1>1. /\ CallOK(c) /\ call[c] \in Calls /\ call[c].answer # "none"
      /\ call[c].wrote \in BOOLEAN
      /\ call[c].answer \in {"none", "done", "refused", "failed", "uncertain"}
      /\ call[c].at # "idle"
  BY DEF TypeOK, Project, ProjectFails, Leave, CallOK, Calls
<1>2. UNCHANGED <<journal, torn, gaps>> /\ lock' \in Locks
  <2>1. CASE Project(c) \/ ProjectFails(c)
    BY <2>1 DEF Project, ProjectFails, TypeOK
  <2>2. CASE Leave(c)
    <3>1. [lock EXCEPT !.lives = FALSE] \in Locks
      BY DEF TypeOK, Locks
    <3> QED
      BY <2>2, <3>1 DEF Leave, TypeOK
  <2> QED
    BY <2>1, <2>2
<1>3. views' \in [{"current", "index", "card"} -> Nat] /\ faults' \in 0..MaxFaults
  <2>1. /\ faults \in 0..MaxFaults /\ MaxFaults \in Nat /\ Len(journal) \in Nat
        /\ views \in [{"current", "index", "card"} -> Nat]
    BY JournalAssumption DEF TypeOK
  <2>2. CASE Project(c)
    BY <2>1, <2>2 DEF Project
  <2>3. CASE ProjectFails(c)
    BY <2>1, <2>3 DEF ProjectFails, Fault
  <2>4. CASE Leave(c)
    BY <2>1, <2>4 DEF Leave, Fault
  <2> QED
    BY <2>2, <2>3, <2>4
<1>4. ASSUME NEW p \in Places \ {"idle", "wait", "inspect", "recheck", "remove", "scan", "append"},
             NEW a \in {"done", "refused", "failed", "uncertain"},
             Go(c, p, call[c].wrote, a),
             \/ a = call[c].answer
             \/ a = "uncertain"
             \/ call[c].wrote = FALSE /\ a # "done"
      PROVE  Shows(c)
  <2>1. /\ call' \in [Callers -> Calls] /\ Alone(c)
        /\ call'[c].at = p /\ call'[c].op = call[c].op /\ call'[c].event = call[c].event
        /\ call'[c].wrote = call[c].wrote /\ call'[c].answer = a
    BY <1>1, <1>4, GoFacts
  <2>2. TypeOK'
    BY <1>2, <1>3, <2>1 DEF TypeOK
  <2>3. \A e : Recorded(e)' <=> Recorded(e)
    BY <1>2 DEF Recorded
  <2>4. CallOK(c)'
    BY <1>1, <1>4, <2>1, <2>3 DEF CallOK
  <2> QED
    BY <1>2, <2>1, <2>2, <2>4 DEF Shows, Grows
<1>5. CASE Project(c)
  <2>1. PICK p \in {"index", "card", "leave"} : Go(c, p, call[c].wrote, call[c].answer)
    BY <1>5 DEF Project, Move
  <2> QED
    BY <1>1, <1>4, <2>1
<1>6. CASE ProjectFails(c)
  <2>1. CASE call[c].wrote = TRUE
    BY <1>4, <1>6, <2>1 DEF ProjectFails, Answer
  <2>2. CASE call[c].wrote = FALSE
    BY <1>4, <1>6, <2>2 DEF ProjectFails, Answer
  <2> QED
    BY <1>1, <2>1, <2>2
<1>7. CASE Leave(c)
  <2>1. CASE Move(c, "report")
    BY <1>1, <1>4, <2>1 DEF Move
  <2>2. CASE Answer(c, "report", Unsure(c))
    <3>1. CASE call[c].wrote = TRUE \/ call[c].answer = "uncertain"
      BY <1>4, <2>2, <3>1 DEF Answer, Unsure
    <3>2. CASE call[c].wrote = FALSE /\ call[c].answer # "uncertain"
      BY <1>4, <2>2, <3>2 DEF Answer, Unsure
    <3> QED
      BY <1>1, <3>1, <3>2
  <2> QED
    BY <1>7, <2>1, <2>2 DEF Leave
<1> QED
  BY <1>5, <1>6, <1>7

\* The end of a call, by its answer or by death.
LEMMA EndShows ==
  ASSUME AnswerInv, NEW c \in Callers, Report(c) \/ Die(c)
  PROVE  Shows(c)
<1> USE PieceTypes DEF AnswerInv
<1>1. CallOK(c) /\ call[c] \in Calls
  BY DEF TypeOK
<1>2. CASE Report(c)
  <2>1. /\ UNCHANGED <<journal, torn, lock, views, faults>> /\ call[c].at = "report"
        /\ Go(c, "idle", call[c].wrote, call[c].answer)
    BY <1>2 DEF Report, Move
  <2>2. gaps \subseteq gaps' /\ gaps' \subseteq Sources
    BY <1>1, <1>2 DEF Report, TypeOK, CallOK
  <2>3. /\ call' \in [Callers -> Calls] /\ Alone(c)
        /\ call'[c].at = "idle" /\ call'[c].op = call[c].op /\ call'[c].event = call[c].event
        /\ call'[c].wrote = call[c].wrote /\ call'[c].answer = call[c].answer
    BY <1>1, <2>1, GoFacts DEF Calls, Places
  <2>4. TypeOK'
    BY <2>1, <2>2, <2>3 DEF TypeOK
  <2>5. \A e : Recorded(e)' <=> Recorded(e)
    BY <2>1 DEF Recorded
  <2>6. call[c].answer = "refused" /\ call[c].op = "prompt" => call[c].event.source \in gaps'
    BY <1>2 DEF Report
  <2>7. call[c].answer \in {"done", "refused", "failed", "uncertain"}
    BY <1>1, <2>1 DEF CallOK, Calls
  <2>8. CallOK(c)'
    BY <1>1, <2>1, <2>3, <2>5, <2>6, <2>7 DEF CallOK
  <2> QED
    BY <2>1, <2>2, <2>3, <2>4, <2>8 DEF Shows, Grows
<1>3. CASE Die(c)
  <2>1. call' = [call EXCEPT ![c] = Idle] /\ UNCHANGED <<views, gaps>>
    BY <1>3 DEF Die, Becomes
  <2>2. Grows /\ torn' \in BOOLEAN
    <3>1. CASE call[c].at = "append"
      <4>1. PICK e : e = call[c].event
        OBVIOUS
      <4> QED
        BY <1>3, <3>1, <4>1, WrittenFacts DEF Die, Grows, TypeOK
    <3>2. CASE call[c].at # "append"
      BY <1>3, <3>2 DEF Die, Grows, TypeOK
    <3> QED
      BY <3>1, <3>2
  <2>3. lock' \in Locks
    BY <1>3 DEF Die, TypeOK, Locks
  <2>4. faults' \in 0..MaxFaults
    BY <1>3, JournalAssumption DEF Die, Fault, TypeOK
  <2>5. call' \in [Callers -> Calls] /\ Alone(c) /\ call'[c] = Idle
    BY <2>1 DEF TypeOK, Alone
  <2>6. TypeOK'
    BY <2>1, <2>2, <2>3, <2>4, <2>5, RecordsStay DEF TypeOK
  <2>7. CallOK(c)'
    BY <2>5 DEF CallOK, Idle
  <2> QED
    BY <2>1, <2>2, <2>5, <2>6, <2>7 DEF Shows
<1> QED
  BY <1>2, <1>3

-------------------------------------------------------------------------------
\* Every step shows what the invariant asks of its process.
LEMMA StepShows ==
  ASSUME AnswerInv, Next
  PROVE  \E c \in Callers : Shows(c)
BY BeginShows, OutsideShows, ScanShows, AppendShows, InsideShows, EndShows DEF Next

\* What calls know and answer is true in every reachable state.
LEMMA AnswerInvariant == Spec => []AnswerInv
<1>1. Init => AnswerInv
  <2> SUFFICES ASSUME Init PROVE AnswerInv
    OBVIOUS
  <2>1. TypeOK
    <3>1. journal = <<>> /\ torn = FALSE /\ gaps = {}
      BY DEF Init
    <3>5. <<>> \in Seq(Events) /\ FALSE \in BOOLEAN
      OBVIOUS
    <3>2. lock \in Locks /\ call \in [Callers -> Calls]
      BY PieceTypes DEF Init
    <3>3. views \in [{"current", "index", "card"} -> Nat]
      BY DEF Init
    <3>4. faults \in 0..MaxFaults
      BY JournalAssumption DEF Init
    <3> QED
      BY <3>1, <3>2, <3>3, <3>4, <3>5 DEF TypeOK
  <2>2. ASSUME NEW c \in Callers
        PROVE  CallOK(c)
    BY DEF Init, Idle, CallOK
  <2> QED
    BY <2>1, <2>2 DEF AnswerInv
<1>2. AnswerInv /\ [Next]_vars => AnswerInv'
  <2> SUFFICES ASSUME AnswerInv, [Next]_vars PROVE AnswerInv'
    OBVIOUS
  <2>1. CASE Next
    <3>1. PICK c \in Callers : Shows(c)
      BY <2>1, StepShows
    <3>2. ASSUME NEW d \in Callers
          PROVE  CallOK(d)'
      BY <3>1, OthersKeep DEF Shows
    <3> QED
      BY <3>1, <3>2 DEF Shows, AnswerInv
  <2>2. CASE UNCHANGED vars
    BY <2>2 DEF vars, AnswerInv, TypeOK, CallOK, Recorded
  <2> QED
    BY <2>1, <2>2
<1> QED
  BY <1>1, <1>2, PTL DEF Spec

\* Whatever is killed, fails or holds the lock meanwhile, a finished call said
\* the truth about the journal, and a refused message of the user left its gap
\* (main, FileLock.__exit__ and record_capture_gap).
THEOREM AnswersAreTrue == Spec => []AnswersTrue
<1>1. ASSUME AnswerInv
      PROVE  AnswersTrue
  <2> SUFFICES ASSUME NEW c \in Callers, call[c].at = "idle"
               PROVE  /\ call[c].answer \in {"refused", "failed"} => ~call[c].wrote
                      /\ call[c].answer = "done" /\ call[c].op \in {"prompt", "command"}
                           => Recorded(call[c].event)
                      /\ call[c].op = "prompt" /\ ~Recorded(call[c].event)
                           => \/ call[c].answer \in {"uncertain", "failed"}
                              \/ call[c].event.source \in gaps
    BY DEF AnswersTrue
  <2>1. CallOK(c)
    BY <1>1 DEF AnswerInv
  <2> QED
    BY <2>1 DEF CallOK
<1> QED
  BY <1>1, AnswerInvariant, PTL

-------------------------------------------------------------------------------
\* One process at a time runs recover-lock (two are the run LockStolen).
OneRescuer == \A x, y \in Rescuers : x = y

\* The lock of a live process inside.
Mine(c) == [owner |-> c, lives |-> TRUE]

\* What process c relies on about the lock: inside it is its own; a rescuer has
\* seen a dead owner's, and just before it removes one that lock is still there;
\* and nobody else has recorded the identity it is about to write.
LockOK(c) ==
  /\ call[c].at \in Inside => lock = Mine(c)
  /\ call[c].at \in {"inspect", "recheck", "remove"} => c \in Rescuers
  /\ call[c].at \in {"recheck", "remove"} => call[c].seen # Free /\ call[c].seen.lives = FALSE
  /\ call[c].at = "remove" => lock = call[c].seen
  /\ call[c].at = "append" => ~Taken(call[c].event.id)

LockInv == \A c \in Callers : LockOK(c)

\* How a step of process c may change the lock and the journal.
LockMove(c) ==
  /\ \/ lock' = lock
     \/ lock = Free
     \/ lock = Mine(c)
     \/ call[c].at = "remove"
  /\ journal' = journal \/ call[c].at = "append"

\* A lock is one process's.
LEMMA LocksDiffer ==
  ASSUME NEW c, NEW d, c # d
  PROVE  Mine(c) # Mine(d) /\ Mine(c) # Free /\ Mine(c).lives = TRUE
BY DEF Mine, Free

\* A step of another process leaves what d relies on.
LEMMA OthersRely ==
  ASSUME AnswerInv, LockInv, OneRescuer, NEW c \in Callers, Alone(c), LockMove(c),
         NEW d \in Callers \ {c}
  PROVE  LockOK(d)'
<1>1. call'[d] = call[d] /\ LockOK(d) /\ LockOK(c)
  BY DEF Alone, LockInv
<1>2. ASSUME lock = Mine(d)
      PROVE  lock' = lock
  <2>1. lock # Free /\ lock # Mine(c) /\ lock.lives = TRUE
    BY <1>2, LocksDiffer
  <2>2. call[c].at # "remove"
    BY <1>1, <2>1 DEF LockOK
  <2> QED
    BY <2>1, <2>2 DEF LockMove
<1>3. ASSUME call[d].at = "remove"
      PROVE  lock' = lock
  <2>1. lock # Free /\ lock.lives = FALSE /\ d \in Rescuers
    BY <1>1, <1>3 DEF LockOK
  <2>2. lock # Mine(c)
    BY <2>1 DEF Mine
  <2>3. call[c].at # "remove"
    BY <1>1, <2>1 DEF LockOK, OneRescuer
  <2> QED
    BY <2>1, <2>2, <2>3 DEF LockMove
<1>4. ASSUME call[d].at = "append"
      PROVE  journal' = journal
  <2>1. lock = Mine(d) /\ lock # Mine(c)
    BY <1>1, <1>4, LocksDiffer DEF LockOK, Inside
  <2>2. call[c].at # "append"
    BY <1>1, <2>1 DEF LockOK, Inside
  <2> QED
    BY <2>2 DEF LockMove
<1> QED
  BY <1>1, <1>2, <1>3, <1>4 DEF LockOK, Inside, Taken

\* What a step of process c shows for its own reliance.
LockShows(c) == LockOK(c)' /\ LockMove(c)

\* The way into the lock, and what recover-lock does.
LEMMA OutsideLock ==
  ASSUME AnswerInv, LockInv, NEW c \in Callers,
         Begin(c) \/ Enter(c) \/ GiveUp(c) \/ Inspect(c) \/ Recheck(c) \/ RemoveLock(c)
  PROVE  LockShows(c)
<1> USE DEF Inside
<1>1. LockOK(c) /\ call[c] \in Calls /\ call \in [Callers -> Calls] /\ TypeOK
      /\ call[c].wrote \in BOOLEAN
      /\ call[c].answer \in {"none", "done", "refused", "failed", "uncertain"}
  BY DEF LockInv, AnswerInv, TypeOK, Calls
<1>2. ASSUME NEW p \in {"scan", "wait", "report", "recheck", "remove"},
             NEW a \in {"none", "done", "refused", "failed", "uncertain"},
             Go(c, p, call[c].wrote, a)
      PROVE  call'[c].at = p /\ call'[c].seen = call[c].seen
  BY <1>1, <1>2, GoFacts DEF Places
<1>3. CASE Begin(c)
  <2>1. call'[c].at = "wait" \/ (call'[c].at = "inspect" /\ c \in Rescuers)
    BY <1>1, <1>3 DEF Begin, Becomes, Call
  <2> QED
    BY <1>3, <2>1 DEF Begin, LockShows, LockOK, LockMove
<1>4. CASE Enter(c)
  BY <1>1, <1>2, <1>4 DEF Enter, Move, LockShows, LockOK, LockMove, Mine
<1>5. CASE GiveUp(c)
  BY <1>1, <1>2, <1>5 DEF GiveUp, Answer, LockShows, LockOK, LockMove
<1>6. CASE Inspect(c)
  <2>1. CASE lock = call[c].seen /\ lock # Free /\ ~lock.lives
    <3>1. call'[c].at = "recheck" /\ call'[c].seen = call[c].seen
      BY <1>1, <1>2, <1>6, <2>1 DEF Inspect, Move
    <3>2. c \in Rescuers /\ call[c].seen # Free /\ call[c].seen.lives = FALSE
      BY <1>1, <1>6, <2>1 DEF Inspect, LockOK, TypeOK, Locks
    <3> QED
      BY <1>6, <3>1, <3>2 DEF Inspect, LockShows, LockOK, LockMove
  <2>2. CASE ~(lock = call[c].seen /\ lock # Free /\ ~lock.lives)
    BY <1>1, <1>2, <1>6, <2>2 DEF Inspect, Answer, LockShows, LockOK, LockMove
  <2> QED
    BY <2>1, <2>2
<1>7. CASE Recheck(c)
  BY <1>1, <1>2, <1>7 DEF Recheck, Move, Answer, LockShows, LockOK, LockMove
<1>8. CASE RemoveLock(c)
  BY <1>1, <1>2, <1>8 DEF RemoveLock, Move, Answer, LockShows, LockOK, LockMove
<1> QED
  BY <1>3, <1>4, <1>5, <1>6, <1>7, <1>8

\* What is done inside the lock, and the end of a call.
LEMMA InsideLock ==
  ASSUME AnswerInv, LockInv, NEW c \in Callers,
         \/ Scan(c) \/ ScanFails(c) \/ AppendRecord(c) \/ AppendFails(c)
         \/ Project(c) \/ ProjectFails(c) \/ Leave(c) \/ Report(c) \/ Die(c)
  PROVE  LockShows(c)
<1> USE DEF Inside
<1>1. LockOK(c) /\ call[c] \in Calls /\ call \in [Callers -> Calls] /\ TypeOK
      /\ call[c].wrote \in BOOLEAN
      /\ call[c].answer \in {"none", "done", "refused", "failed", "uncertain"}
  BY DEF LockInv, AnswerInv, TypeOK, Calls
<1>2. ASSUME NEW p \in Places, NEW w \in BOOLEAN,
             NEW a \in {"none", "done", "refused", "failed", "uncertain"}, Go(c, p, w, a)
      PROVE  call'[c].at = p /\ call'[c].event = call[c].event
  BY <1>1, <1>2, GoFacts
<1>3. ASSUME NEW p \in Inside \cup {"report", "idle"}, call'[c].at = p,
             call[c].at \in Inside, lock' = lock,
             p = "append" => ~Taken(call[c].event.id)',
             call'[c].event = call[c].event,
             journal' = journal \/ call[c].at = "append"
      PROVE  LockShows(c)
  BY <1>1, <1>3 DEF LockShows, LockOK, LockMove
<1>4. CASE Scan(c)
  <2>1. CASE ~Taken(call[c].event.id) /\ Move(c, "append")
    <3>1. call'[c].at = "append" /\ call'[c].event = call[c].event
      BY <1>1, <1>2, <2>1 DEF Move, Places
    <3> QED
      BY <1>3, <1>4, <2>1, <3>1 DEF Scan, Taken
  <2>2. ASSUME NEW p \in {"current", "leave"}, NEW a \in {"done", "refused"}, Answer(c, p, a)
        PROVE  LockShows(c)
    <3>1. call'[c].at = p /\ call'[c].event = call[c].event
      BY <1>1, <1>2, <2>2 DEF Answer, Places
    <3> QED
      BY <1>3, <1>4, <3>1 DEF Scan
  <2> QED
    BY <1>4, <2>1, <2>2 DEF Scan
<1>5. CASE ScanFails(c)
  <2>1. call'[c].at = "leave" /\ call'[c].event = call[c].event
    BY <1>1, <1>2, <1>5 DEF ScanFails, Answer, Places
  <2> QED
    BY <1>3, <1>5, <2>1 DEF ScanFails
<1>6. CASE AppendRecord(c)
  <2>1. call'[c].at = "current" /\ call'[c].event = call[c].event
    BY <1>1, <1>2, <1>6 DEF AppendRecord, Places
  <2> QED
    BY <1>3, <1>6, <2>1 DEF AppendRecord
<1>7. CASE AppendFails(c)
  <2>1. (journal' # journal) \in BOOLEAN
    OBVIOUS
  <2>2. call'[c].at = "leave" /\ call'[c].event = call[c].event
    BY <1>1, <1>2, <1>7, <2>1 DEF AppendFails, Places
  <2> QED
    BY <1>3, <1>7, <2>2 DEF AppendFails
<1>8. CASE Project(c)
  <2>1. PICK p \in {"index", "card", "leave"} : Go(c, p, call[c].wrote, call[c].answer)
    BY <1>8 DEF Project, Move
  <2>2. call'[c].at = p /\ call'[c].event = call[c].event
    BY <1>1, <1>2, <2>1 DEF Places
  <2> QED
    BY <1>3, <1>8, <2>2 DEF Project
<1>9. CASE ProjectFails(c)
  <2>1. call'[c].at = "leave" /\ call'[c].event = call[c].event
    BY <1>1, <1>2, <1>9 DEF ProjectFails, Answer, Places
  <2> QED
    BY <1>3, <1>9, <2>1 DEF ProjectFails
<1>10. CASE Leave(c)
  <2>1. PICK a \in {"none", "done", "refused", "failed", "uncertain"} :
          Go(c, "report", call[c].wrote, a)
    BY <1>1, <1>10 DEF Leave, Move, Answer, Unsure
  <2>2. call'[c].at = "report"
    BY <1>1, <1>2, <2>1 DEF Places
  <2>3. lock = Mine(c) /\ journal' = journal
    BY <1>1, <1>10 DEF Leave, LockOK
  <2> QED
    BY <2>2, <2>3 DEF LockShows, LockOK, LockMove
<1>11. CASE Report(c)
  <2>1. call'[c].at = "idle"
    BY <1>1, <1>2, <1>11 DEF Report, Move, Places
  <2> QED
    BY <1>11, <2>1 DEF Report, LockShows, LockOK, LockMove
<1>12. CASE Die(c)
  <2>1. call'[c].at = "idle"
    BY <1>1, <1>12 DEF Die, Becomes, Idle
  <2>2. LockMove(c)
    BY <1>12 DEF Die, LockMove, Mine
  <2> QED
    BY <2>1, <2>2 DEF LockShows, LockOK
<1> QED
  BY <1>4, <1>5, <1>6, <1>7, <1>8, <1>9, <1>10, <1>11, <1>12

\* While one process at a time recovers locks, all of it stays true.
LEMMA LockInvariant == ASSUME OneRescuer PROVE Spec => []LockInv
<1>1. Init => LockInv
  BY DEF Init, Idle, LockInv, LockOK, Inside
<1>2. AnswerInv /\ LockInv /\ [Next]_vars => LockInv'
  <2> SUFFICES ASSUME AnswerInv, LockInv, [Next]_vars PROVE LockInv'
    OBVIOUS
  <2>1. ASSUME NEW c \in Callers, LockShows(c), Alone(c)
        PROVE  LockInv'
    BY <2>1, OthersRely DEF LockShows, LockInv
  <2>2. CASE Next
    <3>1. PICK c \in Callers : LockShows(c) /\ Alone(c)
      BY <2>2, OutsideLock, InsideLock, BeginShows, OutsideShows, ScanShows, AppendShows,
         InsideShows, EndShows DEF Next, Shows
    <3> QED
      BY <2>1, <3>1
  <2>3. CASE UNCHANGED vars
    BY <2>3 DEF vars, LockInv, LockOK, Taken
  <2> QED
    BY <2>2, <2>3
<1> QED
  BY <1>1, <1>2, AnswerInvariant, PTL DEF Spec

\* Holders die anywhere and a rescuer removes what they leave, and still one
\* process at a time is inside the lock (FileLock, recover_dead_owner_lock).
THEOREM LockIsExclusive == ASSUME OneRescuer PROVE Spec => []HolderOwnsLock
<1>1. LockInv => HolderOwnsLock
  BY DEF LockInv, LockOK, HolderOwnsLock, Mine
<1> QED
  BY <1>1, LockInvariant, PTL

\* The journal is an append-only log with unique identities, and the card shows
\* a prefix that only moves to its end, whatever fails between (AppendOnlyLog).
THEOREM JournalImplementsLog == ASSUME OneRescuer PROVE Spec => JournalIsLog
<1>1. Init => Log!Init
  BY DEF Init, Log!Init
<1>2. AnswerInv /\ LockInv /\ [Next]_vars => [Log!Commit \/ Log!Show]_<<journal, views.card>>
  <2> SUFFICES ASSUME AnswerInv, LockInv, [Next]_vars
               PROVE  [Log!Commit \/ Log!Show]_<<journal, views.card>>
    OBVIOUS
  <2>1. ASSUME NEW c \in Callers, call[c].at = "append", Written(call[c].event), views' = views
        PROVE  Log!Commit
    <3>1. PICK e : e = call[c].event
      OBVIOUS
    <3>2. e \in Events /\ ~Taken(e.id) /\ journal \in Seq(Events)
      BY <2>1, <3>1, WrittenFacts DEF AnswerInv, TypeOK, LockInv, LockOK
    <3>3. journal' = Append(journal, e) /\ Len(journal') = Len(journal) + 1
          /\ journal'[Len(journal')] = e
      BY <2>1, <3>1, <3>2 DEF Written
    <3> QED
      BY <2>1, <3>2, <3>3 DEF Log!Commit, Taken
  <2>2. ASSUME NEW c \in Callers, AppendRecord(c) \/ AppendFails(c) \/ Die(c)
        PROVE  Log!Commit \/ UNCHANGED <<journal, views.card>>
    BY <2>1, <2>2 DEF AppendRecord, AppendFails, Die
  <2>3. ASSUME NEW c \in Callers, Project(c)
        PROVE  Log!Show \/ UNCHANGED <<journal, views.card>>
    <3>1. views \in [{"current", "index", "card"} -> Nat]
      BY DEF AnswerInv, TypeOK
    <3> QED
      BY <2>3, <3>1 DEF Project, Log!Show
  <2>4. ASSUME NEW c \in Callers,
               \/ Begin(c) \/ Enter(c) \/ GiveUp(c) \/ Scan(c) \/ ScanFails(c)
               \/ ProjectFails(c) \/ Leave(c) \/ Report(c)
               \/ Inspect(c) \/ Recheck(c) \/ RemoveLock(c)
        PROVE  UNCHANGED <<journal, views.card>>
    BY <2>4 DEF Begin, Enter, GiveUp, Scan, ScanFails, ProjectFails, Leave, Report, Inspect,
                Recheck, RemoveLock
  <2>5. CASE UNCHANGED vars
    BY <2>5 DEF vars
  <2> QED
    BY <2>2, <2>3, <2>4, <2>5 DEF Next
<1> QED
  BY <1>1, <1>2, AnswerInvariant, LockInvariant, PTL DEF Spec, JournalIsLog, Log!Spec

-------------------------------------------------------------------------------
(***************************************************************************)
(* The status.                                                             *)
(***************************************************************************)
\* What the proofs take from the constants: the bounds are numbers, and no
\* writer is called nobody.
StatusBounds == MaxRecords \in Nat /\ MaxDeaths \in Nat /\ "nobody" \notin Writers

\* A record's place is its id: the chain of hashes admits it nowhere else.
RecordsChained ==
  /\ Len(records) <= MaxRecords
  /\ \A i \in 1..Len(records) : records[i].id = i

\* status.json never repeats a record that is not in the journal.
StatusBehind == current <= Len(records)

\* Between its steps a writer under the lock can rely on what it has read: the
\* lock is its own and the record it is about to link may still follow.
WriterRelies ==
  \A w \in Writers :
    /\ write[w].at \in {"create", "replace"} => statusLock = w
    /\ write[w].at = "create" => write[w].request \in S!Records /\ S!Buildable(write[w].request)

\* A record written on a message answers the record before it.
MessagesAnswered ==
  \A i \in 1..Len(records) :
    records[i].bound # S!NoMessage =>
      records[i].bound \in messages /\ records[i].bound.status = i - 1

StatusInv ==
  /\ S!TypeOK /\ RecordsChained /\ StatusBehind /\ WriterRelies
  /\ S!HeldUntilAnswered /\ MessagesAnswered

\* One answer frees one hold: no two records are written on the same message.
AnswersUsedOnce ==
  \A i, j \in 1..Len(records) :
    records[i].bound = records[j].bound /\ records[i].bound # S!NoMessage => i = j

-------------------------------------------------------------------------------
\* The types of the pieces.
LEMMA StatusPieces ==
  ASSUME StatusBounds
  PROVE  /\ S!Idle \in S!Writes
         /\ S!NoMessage \notin S!Messages
         /\ \A r \in S!Records : r.id \in 1..MaxRecords /\ r.bound \in S!Messages \cup {S!NoMessage}
<1>1. S!Idle \in S!Writes
  BY DEF StatusBounds, S!Idle, S!Writes
<1>2. S!NoMessage \notin S!Messages
  BY DEF StatusBounds, S!NoMessage, S!Messages
<1>3. \A r \in S!Records : r.id \in 1..MaxRecords /\ r.bound \in S!Messages \cup {S!NoMessage}
  BY DEF S!Records
<1> QED
  BY <1>1, <1>2, <1>3

\* The initial state satisfies the parts.
LEMMA StatusInvInit == ASSUME StatusBounds PROVE S!Init => StatusInv
<1> SUFFICES ASSUME S!Init PROVE StatusInv
  OBVIOUS
<1>1. S!TypeOK
  BY StatusPieces DEF S!Init, S!TypeOK, StatusBounds
<1>2. RecordsChained /\ StatusBehind
  BY DEF S!Init, RecordsChained, StatusBehind, StatusBounds
<1>3. WriterRelies
  BY DEF S!Init, WriterRelies, S!Idle
<1>4. S!HeldUntilAnswered /\ MessagesAnswered
  BY DEF S!Init, S!HeldUntilAnswered, MessagesAnswered
<1> QED
  BY <1>1, <1>2, <1>3, <1>4 DEF StatusInv

\* A record that may follow the latest keeps what the journal promises: its
\* transition is held on, or freed by an answer to exactly that record.
LEMMA AppendKeeps ==
  ASSUME StatusBounds, S!TypeOK, RecordsChained, S!HeldUntilAnswered, MessagesAnswered,
         NEW r \in S!Records, S!Buildable(r), records' = Append(records, r),
             messages' = messages
  PROVE  RecordsChained' /\ S!HeldUntilAnswered' /\ MessagesAnswered' /\ records' \in Seq(S!Records)
<1>1. /\ records \in Seq(S!Records) /\ Len(records) \in Nat /\ Len(records') = Len(records) + 1
      /\ records' \in Seq(S!Records)
      /\ \A i \in 1..Len(records) : records'[i] = records[i]
      /\ records'[Len(records) + 1] = r
  BY DEF S!TypeOK
<1>2. RecordsChained'
  BY <1>1 DEF RecordsChained, S!Buildable, StatusBounds
<1>3. ASSUME NEW i \in 1..(Len(records') - 1), records'[i].held # "none"
      PROVE  /\ records'[i + 1].candidate = records'[i].candidate
             /\ \/ records'[i + 1].held = records'[i].held
                \/ /\ records'[i + 1].bound \in messages'
                   /\ records'[i + 1].bound.status = i
                   /\ records'[i + 1].bound.turn # records'[i].turn
  <2>1. CASE i < Len(records)
    BY <1>1, <1>3, <2>1 DEF S!HeldUntilAnswered
  <2>2. CASE i = Len(records)
    <3>1. S!MayFollow(r, i, records[i]) /\ r.bound \in messages \cup {S!NoMessage}
      BY <1>1, <2>2 DEF S!Buildable
    <3>2. CASE r.bound = S!NoMessage
      BY <1>1, <1>3, <2>2, <3>1, <3>2 DEF S!MayFollow
    <3>3. CASE r.bound # S!NoMessage
      BY <1>1, <1>3, <2>2, <3>1, <3>3 DEF S!MayFollow, S!MessageFits
    <3> QED
      BY <3>2, <3>3
  <2> QED
    BY <1>1, <2>1, <2>2
<1>4. ASSUME NEW i \in 1..Len(records'), records'[i].bound # S!NoMessage
      PROVE  records'[i].bound \in messages' /\ records'[i].bound.status = i - 1
  <2>1. CASE i <= Len(records)
    BY <1>1, <1>4, <2>1 DEF MessagesAnswered
  <2>2. CASE i = Len(records) + 1
    <3>1. r.bound \in messages /\ records # <<>>
      BY <1>1, <1>4, <2>2 DEF S!Buildable
    <3>2. S!MessageFits(r.bound, Len(records), records[Len(records)], r.turn)
      BY <1>1, <1>4, <2>2, <3>1 DEF S!Buildable, S!MayFollow
    <3> QED
      BY <1>1, <2>2, <3>1, <3>2 DEF S!MessageFits
  <2> QED
    BY <1>1, <2>1, <2>2
<1> QED
  BY <1>1, <1>2, <1>3, <1>4 DEF S!HeldUntilAnswered, MessagesAnswered
-------------------------------------------------------------------------------
\* The Supervisor's message is about a record of the journal.
LEMMA SendKeeps ==
  ASSUME StatusBounds, StatusInv, NEW t \in Turns, S!Send(t)
  PROVE  StatusInv'
<1> USE DEF StatusInv
<1>1. Len(records) \in 1..MaxRecords /\ records[Len(records)] \in S!Records
  BY DEF S!Send, S!TypeOK, RecordsChained, StatusBounds
<1>2. messages \subseteq messages' /\ messages' \subseteq S!Messages
  BY <1>1 DEF S!Send, S!TypeOK, S!Messages, S!Records
<1>3. S!TypeOK'
  BY <1>2 DEF S!Send, S!TypeOK
<1>4. RecordsChained' /\ StatusBehind'
  BY DEF S!Send, RecordsChained, StatusBehind
<1>5. WriterRelies'
  BY <1>2 DEF S!Send, WriterRelies, S!Buildable
<1>6. S!HeldUntilAnswered' /\ MessagesAnswered'
  BY <1>2 DEF S!Send, S!HeldUntilAnswered, MessagesAnswered
<1> QED
  BY <1>3, <1>4, <1>5, <1>6

\* What every step of a writer has to show: the others' reliance survives.
LEMMA OtherWritersRely ==
  ASSUME StatusBounds, S!TypeOK, WriterRelies, NEW w \in Writers, NEW x \in S!Writes,
         S!Go(w, x),
         \/ records' = records
         \/ statusLock = w,
         messages' = messages,
         \A v \in Writers \ {w} : statusLock = v => statusLock' = v,
         /\ x.at \in {"create", "replace"} => statusLock' = w
         /\ x.at = "create" => x.request \in S!Records /\ S!Buildable(x.request)'
  PROVE  WriterRelies'
<1> SUFFICES ASSUME NEW v \in Writers
             PROVE  (/\ write[v].at \in {"create", "replace"} => statusLock = v
                     /\ write[v].at = "create" =>
                          write[v].request \in S!Records /\ S!Buildable(write[v].request))'
  BY DEF WriterRelies
<1>1. CASE v = w
  BY <1>1 DEF S!TypeOK, S!Go
<1>2. CASE v # w
  <2>1. write'[v] = write[v]
    BY <1>2 DEF S!TypeOK, S!Go
  <2>2. write[v].at \in {"create", "replace"} => statusLock = v /\ statusLock' = v
    BY <1>2 DEF WriterRelies
  <2>3. write[v].at = "create" => records' = records
    BY <1>2, <2>2
  <2>4. write[v].at = "create" =>
          (write[v].request \in S!Records /\ S!Buildable(write[v].request))'
    BY <2>1, <2>3 DEF WriterRelies, S!Buildable
  <2> QED
    BY <2>1, <2>2, <2>4
<1> QED
  BY <1>1, <1>2

\* Where a writer goes on, it keeps what it has read.
LEMMA DoingTypes ==
  ASSUME S!TypeOK, NEW w \in Writers,
         NEW p \in {"idle", "compare", "wait", "create", "replace"},
         NEW r \in S!Records \cup {S!NoRecord}
  PROVE  S!Doing(w, p, r) \in S!Writes /\ S!Doing(w, p, r).at = p /\ S!Doing(w, p,
      r).request = r
BY DEF S!Doing, S!Writes, S!TypeOK

\* A writer's step keeps every part.
LEMMA WriterKeeps ==
  ASSUME StatusBounds, StatusInv, NEW w \in Writers,
         \/ S!Begin(w)
         \/ S!Compare(w)
         \/ S!Acquire(w)
         \/ S!CreateEvent(w)
         \/ S!ReplaceStatus(w)
         \/ S!Die(w)
  PROVE  StatusInv'
<1> USE DEF StatusInv
<1>0. /\ write[w] \in S!Writes /\ S!Idle \in S!Writes /\ Len(records) \in 0..MaxRecords
      /\ S!Idle.at = "idle"
  BY StatusPieces DEF S!TypeOK, RecordsChained, StatusBounds, S!Idle
<1>1. CASE S!Begin(w)
  <2>1. PICK n \in 0..Len(records) :
          S!Go(w, [at |-> "compare", request |-> S!NoRecord, expect |-> n,
              seen |-> Len(records)])
    BY <1>1 DEF S!Begin
  <2>2. [at |-> "compare", request |-> S!NoRecord, expect |-> n,
      seen |-> Len(records)] \in S!Writes
    BY <1>0, <2>1 DEF S!Writes, StatusBounds
  <2>3. S!TypeOK'
    BY <1>1, <2>1, <2>2 DEF S!Begin, S!TypeOK, S!Go
  <2>4. RecordsChained' /\ StatusBehind' /\ S!HeldUntilAnswered' /\ MessagesAnswered'
    BY <1>1 DEF S!Begin, RecordsChained, StatusBehind, S!HeldUntilAnswered, MessagesAnswered
  <2>5. WriterRelies'
    BY <1>1, <2>1, <2>2, OtherWritersRely DEF S!Begin, S!Go
  <2> QED
    BY <2>3, <2>4, <2>5
<1>2. CASE S!Compare(w)
  <2>1. PICK x \in S!Writes : S!Go(w, x) /\ x.at \in {"idle", "wait"}
    BY <1>0, <1>2, DoingTypes DEF S!Compare, S!End
  <2>2. S!TypeOK'
    BY <1>2, <2>1 DEF S!Compare, S!TypeOK, S!Go
  <2>3. RecordsChained' /\ StatusBehind' /\ S!HeldUntilAnswered' /\ MessagesAnswered'
    BY <1>2 DEF S!Compare, RecordsChained, StatusBehind, S!HeldUntilAnswered, MessagesAnswered
  <2>4. WriterRelies'
    BY <1>2, <2>1, OtherWritersRely DEF S!Compare, S!Go
  <2> QED
    BY <2>2, <2>3, <2>4
<1>3. CASE S!Acquire(w)
  <2>1. UNCHANGED <<records, messages, deaths>> /\ statusLock = "nobody"
    BY <1>3 DEF S!Acquire
  <2>2. RecordsChained' /\ S!HeldUntilAnswered' /\ MessagesAnswered'
    BY <2>1 DEF RecordsChained, S!HeldUntilAnswered, MessagesAnswered
  <2>3. CASE \E r \in S!Records : S!Buildable(r) /\ statusLock' = w /\ current' = Len(records)
               /\ S!Go(w, S!Doing(w, "create", r))
    <3>1. PICK r \in S!Records : S!Buildable(r) /\ statusLock' = w /\ current' = Len(records)
                 /\ S!Go(w, S!Doing(w, "create", r))
      BY <2>3
    <3>2. PICK x \in S!Writes : S!Go(w, x) /\ x.at = "create" /\ x.request = r
      BY <3>1, DoingTypes
    <3>3. S!TypeOK' /\ StatusBehind'
      BY <1>0, <2>1, <3>1, <3>2 DEF S!TypeOK, StatusBehind, S!Go
    <3>4. S!Buildable(r)'
      BY <2>1, <3>1 DEF S!Buildable
    <3>5. WriterRelies'
      BY <2>1, <3>1, <3>2, <3>4, OtherWritersRely DEF StatusBounds, S!Go
    <3> QED
      BY <2>2, <3>3, <3>5
  <2>4. CASE S!End(w) /\ UNCHANGED <<statusLock, current>>
    <3>1. S!TypeOK' /\ StatusBehind'
      BY <1>0, <2>1, <2>4 DEF S!TypeOK, StatusBehind, S!End, S!Go
    <3>2. WriterRelies'
      BY <1>0, <2>1, <2>4, OtherWritersRely DEF S!End, S!Go
    <3> QED
      BY <2>2, <3>1, <3>2
  <2> QED
    BY <1>3, <2>3, <2>4 DEF S!Acquire
<1>4. CASE S!CreateEvent(w)
  <2>1. /\ write[w].request \in S!Records /\ S!Buildable(write[w].request) /\ statusLock = w
        /\ records' = Append(records, write[w].request)
        /\ UNCHANGED <<current, statusLock, messages, deaths>>
    BY <1>4 DEF S!CreateEvent, WriterRelies
  <2>2. PICK x \in S!Writes : S!Go(w, x) /\ x.at = "replace"
    BY <1>4, DoingTypes DEF S!CreateEvent
  <2>3. RecordsChained' /\ S!HeldUntilAnswered' /\ MessagesAnswered' /\ records' \in Seq(S!Records)
    BY <2>1, AppendKeeps
  <2>4. S!TypeOK' /\ StatusBehind'
    BY <1>0, <2>1, <2>2, <2>3 DEF S!TypeOK, StatusBehind, S!Go
  <2>5. WriterRelies'
    BY <2>1, <2>2, OtherWritersRely DEF S!Go
  <2> QED
    BY <2>3, <2>4, <2>5
<1>5. CASE S!ReplaceStatus(w)
  <2>1. statusLock = w
    BY <1>5 DEF S!ReplaceStatus, WriterRelies
  <2>2. S!TypeOK'
    BY <1>0, <1>5 DEF S!ReplaceStatus, S!TypeOK, S!End, S!Go
  <2>3. RecordsChained' /\ StatusBehind' /\ S!HeldUntilAnswered' /\ MessagesAnswered'
    BY <1>0, <1>5 DEF S!ReplaceStatus, RecordsChained, StatusBehind, S!HeldUntilAnswered,
        MessagesAnswered
  <2>4. WriterRelies'
    BY <1>0, <1>5, <2>1, OtherWritersRely DEF S!ReplaceStatus, S!End, S!Go
  <2> QED
    BY <2>2, <2>3, <2>4
<1>6. CASE S!Die(w)
  <2>1. S!TypeOK'
    BY <1>0, <1>6 DEF S!Die, S!End, S!Go, S!TypeOK, StatusBounds
  <2>2. RecordsChained' /\ StatusBehind' /\ S!HeldUntilAnswered' /\ MessagesAnswered'
    BY <1>6 DEF S!Die, RecordsChained, StatusBehind, S!HeldUntilAnswered, MessagesAnswered
  <2>3. WriterRelies'
    BY <1>0, <1>6, OtherWritersRely DEF S!Die, S!End, S!Go
  <2> QED
    BY <2>1, <2>2, <2>3
<1> QED
  BY <1>1, <1>2, <1>3, <1>4, <1>5, <1>6

\* The parts hold together in every reachable state.
LEMMA StatusInvariant == ASSUME StatusBounds PROVE S!Spec => []StatusInv
<1>1. S!Init => StatusInv
  BY StatusInvInit
<1>2. StatusInv /\ [S!Next]_(S!vars) => StatusInv'
  <2> SUFFICES ASSUME StatusInv, [S!Next]_(S!vars) PROVE StatusInv'
    OBVIOUS
  <2>1. CASE S!Next
    BY <2>1, SendKeeps, WriterKeeps DEF S!Next
  <2>2. CASE UNCHANGED S!vars
    BY <2>2 DEF S!vars, StatusInv, S!TypeOK, RecordsChained, StatusBehind, WriterRelies,
        S!Buildable,
                S!HeldUntilAnswered, MessagesAnswered
  <2> QED
    BY <2>1, <2>2
<1> QED
  BY <1>1, <1>2, PTL DEF S!Spec

\* Whatever processes of the Worker write at once and wherever they die, a held
\* transition goes on only by the Supervisor's answer to exactly that record
\* (validate_supervisor_message and the rules of build_record).
THEOREM HeldStatusWaits == ASSUME StatusBounds PROVE S!Spec => []S!HeldUntilAnswered
<1>1. StatusInv => S!HeldUntilAnswered
  BY DEF StatusInv
<1> QED
  BY <1>1, StatusInvariant, PTL

\* No answer of the Supervisor frees two holds, however often it is delivered
\* (validate_supervisor_message compares the status it names with the latest).
THEOREM AnswerIsUsedOnce == ASSUME StatusBounds PROVE S!Spec => []AnswersUsedOnce
<1>1. ASSUME StatusBounds, StatusInv
      PROVE  AnswersUsedOnce
  BY <1>1 DEF StatusInv, S!TypeOK, MessagesAnswered, AnswersUsedOnce
<1> QED
  BY <1>1, StatusInvariant, PTL

\* The journal and status.json are an append-only log and a view of it: a
\* record is added under a place of its own, and status.json moves only to the
\* end of the journal (AppendOnlyLog).
THEOREM StatusImplementsLog == ASSUME StatusBounds PROVE S!Spec => S!StatusIsLog
<1>1. S!Init => S!Log!Init
  BY DEF S!Init, S!Log!Init
<1>2. StatusInv /\ [S!Next]_(S!vars) => [S!Log!Commit \/ S!Log!Show]_<<records, current>>
  <2> SUFFICES ASSUME StatusInv, [S!Next]_(S!vars) PROVE [S!Log!Commit \/ S!Log!Show]_<<records,
      current>>
    OBVIOUS
  <2>1. ASSUME NEW w \in Writers, S!CreateEvent(w)
        PROVE  S!Log!Commit
    <3>1. /\ write[w].request \in S!Records /\ write[w].request.id = Len(records) + 1
          /\ records' = Append(records, write[w].request) /\ current' = current
      BY <2>1 DEF S!CreateEvent, StatusInv, WriterRelies, S!Buildable
    <3>2. /\ records \in Seq(S!Records)
          /\ \A i \in DOMAIN records : records[i].id = i /\ i <= Len(records)
      BY DEF StatusInv, S!TypeOK, RecordsChained
    <3> QED
      BY <3>1, <3>2 DEF S!Log!Commit
  <2>2. ASSUME NEW w \in Writers, S!Acquire(w) \/ S!ReplaceStatus(w)
        PROVE  S!Log!Show \/ UNCHANGED <<records, current>>
    BY <2>2 DEF S!Acquire, S!ReplaceStatus, S!Log!Show
  <2>3. ASSUME NEW w \in Writers, S!Begin(w) \/ S!Compare(w) \/ S!Die(w)
        PROVE  UNCHANGED <<records, current>>
    BY <2>3 DEF S!Begin, S!Compare, S!Die
  <2>4. ASSUME NEW t \in Turns, S!Send(t)
        PROVE  UNCHANGED <<records, current>>
    BY <2>4 DEF S!Send
  <2>5. CASE UNCHANGED S!vars
    BY <2>5 DEF S!vars
  <2> QED
    BY <2>1, <2>2, <2>3, <2>4, <2>5 DEF S!Next
<1> QED
  BY <1>1, <1>2, StatusInvariant, PTL DEF S!Spec, S!StatusIsLog, S!Log!Spec

-------------------------------------------------------------------------------
(***************************************************************************)
(* The contract: an effect that may have happened stays in view, only the  *)
(* user's messages retire what is owed to him, and the helper starts       *)
(* actions on messages its owner has read.                                 *)
(***************************************************************************)
\* What the proofs take from the constants: losses are counted.
ContractBounds == MaxLosses \in Nat

\* Without a contract nothing is owed under one.
NothingOwedUncontracted == contract.id = 0 => C!Current = {}

\* An action that may have run is on record, and so is one the helper is about
\* to run.
StartedFirst ==
  /\ \A a \in ran : action[a].status # "unused"
  /\ prepared.command # "none" => prepared.action \in Actions
  /\ prepared.command = "started" => action[prepared.action].status # "unused"

\* While the helper has the lock, what it found under it stays so, but for the
\* gaps and the bytes.
ReadyToStart ==
  prepared.command = "appending" =>
    /\ prepared.fresh /\ C!Pending = {} /\ contract.id # 0
    /\ action[prepared.action].status = "unused" /\ prepared.outs \subseteq C!Current

ContractInv == C!TypeOK /\ NothingOwedUncontracted /\ StartedFirst /\ ReadyToStart

-------------------------------------------------------------------------------
\* The types of the pieces.
LEMMA ContractPieceTypes ==
  /\ C!None \in C!Contracts /\ C!Unused \in C!Records /\ C!Nothing \in C!Preparations
  /\ C!None.id = 0 /\ C!None.how = "none" /\ C!None.clauses = {}
  /\ C!Nothing.command = "none" /\ C!Unused.status = "unused"
BY DEF C!None, C!Contracts, C!Incremental, C!Unused, C!Records, C!Nothing, C!Preparations

\* The parts hold at first.
LEMMA ContractInvInit == ASSUME ContractBounds PROVE C!Init => ContractInv
<1> SUFFICES ASSUME C!Init PROVE ContractInv
  OBVIOUS
<1>1. /\ source \in [ChatMessages -> {"unseen", "pending", "classified", "disposed"}]
      /\ intact \subseteq C!Known /\ catalog \subseteq Outcomes /\ ran \subseteq Actions
  BY DEF C!Init
<1>2. /\ contract \in C!Contracts /\ contract.clauses \subseteq C!Known /\ written \in Nat
      /\ advice \in {0, contract.id} /\ prepared \in C!Preparations
  BY ContractPieceTypes DEF C!Init
<1>3. outcome \in [Outcomes -> C!Statuses \cup {"absent"}] /\ C!Current = {}
  BY DEF C!Init, C!Current
<1>4. action \in [Actions -> C!Records]
  BY ContractPieceTypes DEF C!Init
<1>5. gap \in [ChatMessages -> {"none", "open", "recovered", "owner"}] /\ losses \in 0..MaxLosses
  BY DEF C!Init, ContractBounds
<1>6. C!TypeOK
  BY <1>1, <1>2, <1>3, <1>4, <1>5 DEF C!TypeOK
<1>7. NothingOwedUncontracted /\ StartedFirst /\ ReadyToStart
  BY <1>3, ContractPieceTypes DEF C!Init, NothingOwedUncontracted, StartedFirst, ReadyToStart
<1> QED
  BY <1>6, <1>7 DEF ContractInv

\* Every append makes what the helper prepared stale, changes nothing else of
\* it, and is not made while the helper has the lock.
LEMMA MovedFacts ==
  ASSUME C!TypeOK, C!Moved
  PROVE  /\ prepared' \in C!Preparations
         /\ prepared'.command = prepared.command /\ prepared'.action = prepared.action
         /\ prepared.command # "appending" /\ ReadyToStart'
BY DEF C!TypeOK, C!Moved, C!Unlocked, C!Preparations, ReadyToStart

\* Messages that are known stay known, whatever becomes of them.
LEMMA KnownStays ==
  ASSUME C!TypeOK, NEW s \in ChatMessages, NEW v \in {"pending", "classified", "disposed"},
         source' = [source EXCEPT ![s] = v]
  PROVE  /\ source' \in [ChatMessages -> {"unseen", "pending", "classified", "disposed"}]
         /\ C!Known \subseteq C!Known' /\ s \in C!Known'
BY DEF C!TypeOK, C!Known

-------------------------------------------------------------------------------
\* A message is captured, or its capture fails, or its bytes change.
LEMMA MessageSteps ==
  ASSUME ContractBounds, ContractInv, NEW s \in ChatMessages,
         C!Ingest(s) \/ C!RecordGap(s) \/ C!SourceChanges(s) \/ C!Dispose(s) \/ C!ResolveGap(s)
  PROVE  ContractInv'
<1> USE DEF ContractInv
<1>1. UNCHANGED <<contract, written, outcome, catalog, advice, action, ran>>
  BY DEF C!Ingest, C!RecordGap, C!SourceChanges, C!Dispose, C!ResolveGap
<1>2. /\ prepared' \in C!Preparations
      /\ prepared'.command = prepared.command /\ prepared'.action = prepared.action
  BY MovedFacts DEF C!Ingest, C!RecordGap, C!SourceChanges, C!Dispose, C!ResolveGap, C!TypeOK
<1>3. /\ source' \in [ChatMessages -> {"unseen", "pending", "classified", "disposed"}]
      /\ C!Known \subseteq C!Known'
      /\ gap' \in [ChatMessages -> {"none", "open", "recovered", "owner"}]
      /\ intact' \subseteq C!Known' /\ losses' \in 0..MaxLosses
  <2>1. CASE C!Ingest(s)
    BY <2>1, KnownStays DEF C!Ingest, C!TypeOK
  <2>2. CASE C!RecordGap(s)
    BY <2>2 DEF C!RecordGap, C!TypeOK, C!Known
  <2>3. CASE C!SourceChanges(s)
    BY <2>3 DEF C!SourceChanges, C!TypeOK, C!Known, ContractBounds
  <2>4. CASE C!Dispose(s)
    BY <2>4, KnownStays DEF C!Dispose, C!TypeOK
  <2>5. CASE C!ResolveGap(s)
    BY <2>5 DEF C!ResolveGap, C!TypeOK, C!Known
  <2> QED
    BY <2>1, <2>2, <2>3, <2>4, <2>5
<1>4. C!TypeOK'
  BY <1>1, <1>2, <1>3 DEF C!TypeOK
<1>5. NothingOwedUncontracted' /\ StartedFirst'
  BY <1>1, <1>2 DEF NothingOwedUncontracted, StartedFirst, C!Current
<1>6. ReadyToStart'
  <2>1. CASE C!Moved
    BY <2>1, MovedFacts
  <2>2. CASE UNCHANGED <<source, prepared>>
    BY <1>1, <2>2 DEF ReadyToStart, C!Pending, C!Current
  <2> QED
    BY <2>1, <2>2 DEF C!Ingest, C!RecordGap, C!SourceChanges, C!Dispose, C!ResolveGap
<1> QED
  BY <1>4, <1>5, <1>6

\* A new contract takes over.
LEMMA TakeOverKeeps ==
  ASSUME ContractBounds, ContractInv, NEW s \in C!Pending,
         NEW how \in C!Incremental \cup {"INITIAL", "REPLACE", "WITHDRAW"},
         NEW clauses \in SUBSET C!Known, NEW objective \in ChatMessages \cup {"none"},
         NEW statuses \in [Outcomes -> C!Statuses \cup {"absent"}],
         how = "WITHDRAW" => \A o \in Outcomes : statuses[o] = "absent",
         C!TakeOver(s, how, clauses, objective, statuses)
  PROVE  ContractInv' /\ contract'.how = (IF how = "WITHDRAW" THEN "none" ELSE how)
         /\ contract'.clauses = (IF how = "WITHDRAW" THEN {} ELSE clauses)
<1> USE DEF ContractInv
<1>0. s \in ChatMessages
  BY DEF C!Pending
<1>1. /\ source' = [source EXCEPT ![s] = "classified"] /\ written' = written + 1
      /\ outcome' = statuses /\ advice' = 0 /\ UNCHANGED <<intact, action, gap, ran, losses>>
      /\ contract' = C!Contract(s, how, clauses, objective) /\ C!Moved
      /\ catalog' \subseteq Outcomes
  BY DEF C!TakeOver, C!TypeOK
<1>2. /\ source' \in [ChatMessages -> {"unseen", "pending", "classified", "disposed"}]
      /\ C!Known \subseteq C!Known'
  BY <1>0, <1>1, KnownStays
<1>3. /\ contract' \in C!Contracts /\ contract'.clauses \subseteq C!Known
      /\ contract'.how = (IF how = "WITHDRAW" THEN "none" ELSE how)
      /\ contract'.clauses = (IF how = "WITHDRAW" THEN {} ELSE clauses)
      /\ contract'.id = 0 => how = "WITHDRAW"
  <2>1. CASE how = "WITHDRAW"
    BY <1>1, <2>1, ContractPieceTypes DEF C!Contract
  <2>2. CASE how # "WITHDRAW"
    <3>1. contract' = [id |-> written + 1, clauses |-> clauses, source |-> s, how |-> how,
                       objective |-> objective]
      BY <1>1, <2>2 DEF C!Contract
    <3>2. written + 1 \in Nat \ {0} /\ clauses \subseteq ChatMessages
      BY DEF C!TypeOK, C!Known
    <3> QED
      BY <1>0, <2>2, <3>1, <3>2 DEF C!Contracts
  <2> QED
    BY <2>1, <2>2
<1>4. C!TypeOK'
  BY <1>1, <1>2, <1>3, MovedFacts DEF C!TypeOK
<1>5. NothingOwedUncontracted'
  BY <1>1, <1>3 DEF NothingOwedUncontracted, C!Current
<1>6. StartedFirst' /\ ReadyToStart'
  BY <1>1, MovedFacts DEF StartedFirst
<1> QED
  BY <1>3, <1>4, <1>5, <1>6
-------------------------------------------------------------------------------
\* What happens to outcomes when a message adds to the contract.
LEMMA IncrementStatuses ==
  ASSUME C!TypeOK, NEW added \in SUBSET Outcomes, NEW moves \in C!Moves
  PROVE  /\ C!Transitioned(C!Merged(added), moves) \in [Outcomes -> C!Statuses \cup {"absent"}]
         /\ \A o \in C!Current : \/ C!Transitioned(C!Merged(added), moves)[o] = outcome[o]
                               \/ /\ moves # {}
                                  /\ C!Transitioned(C!Merged(added), moves)[o] # "absent"
<1> DEFINE merged == C!Merged(added)
           ended == C!Transitioned(merged, moves)
<1>1. /\ merged \in [Outcomes -> C!Statuses \cup {"absent"}]
      /\ \A o \in C!Current : merged[o] = outcome[o]
  BY DEF C!Merged, C!TypeOK, C!Statuses, C!Current
<1>2. CASE moves = {}
  <2>1. ended = [o \in Outcomes |-> merged[o]]
    BY <1>2 DEF C!Transitioned
  <2> QED
    BY <1>1, <2>1 DEF C!Current
<1>3. CASE moves # {}
  <2>1. PICK m : moves = {m} /\ m.operation \in DOMAIN C!Target
    BY <1>3 DEF C!Moves
  <2>2. C!Target[m.operation] \in C!Statuses
    BY <2>1 DEF C!Target, C!Statuses
  <2>3. \A o \in Outcomes : (\E n \in moves : n.outcome = o) =>
          (CHOOSE n \in moves : n.outcome = o) = m
    BY <2>1
  <2>4. \A o \in Outcomes : ended[o] = C!Target[m.operation] \/ ended[o] = merged[o]
    BY <2>3 DEF C!Transitioned
  <2>5. ended \in [Outcomes -> C!Statuses \cup {"absent"}]
    <3>1. ended = [o \in Outcomes |-> ended[o]]
      BY DEF C!Transitioned
    <3> QED
      BY <1>1, <2>2, <2>4, <3>1
  <2>6. "absent" \notin C!Statuses
    BY DEF C!Statuses
  <2> QED
    BY <1>1, <1>3, <2>2, <2>4, <2>5, <2>6 DEF C!Current
<1> QED
  BY <1>2, <1>3

\* What a step may do to an outcome under the current contract.
MayBecome(o) ==
  \/ outcome'[o] = outcome[o]
  \/ outcome[o] = "OPEN" /\ outcome'[o] = "SATISFIED"
  \/ \E s \in C!Pending :
       /\ source'[s] = "classified"
       /\ \/ contract'.how \in {"REPLACE", "none"}
          \/ contract'.how \in C!Incremental /\ s \in contract'.clauses /\ outcome'[o] # "absent"

\* A message that adds to the contract, corrects or clarifies it.
LEMMA IncrementKeeps ==
  ASSUME ContractBounds, ContractInv, NEW s \in ChatMessages, C!ClassifyIncrement(s)
  PROVE  ContractInv' /\ \A o \in C!Current : MayBecome(o)
<1>1. PICK how \in C!Incremental, clauses \in SUBSET C!Known, added \in SUBSET Outcomes,
           moves \in C!Moves, objective \in {contract.objective, s} :
        /\ C!Classifiable(s, how, clauses)
        /\ C!TransitionsBound(s, clauses, moves)
        /\ C!TakeOver(s, how, clauses, objective, C!Transitioned(C!Merged(added), moves))
  BY DEF C!ClassifyIncrement
<1>2. PICK statuses : statuses = C!Transitioned(C!Merged(added), moves)
  OBVIOUS
<1>3. /\ statuses \in [Outcomes -> C!Statuses \cup {"absent"}]
      /\ \A o \in C!Current : statuses[o] = outcome[o] \/ (moves # {} /\ statuses[o] # "absent")
  BY <1>2, IncrementStatuses DEF ContractInv
<1>4. s \in C!Pending /\ objective \in ChatMessages \cup {"none"} /\ how # "WITHDRAW"
  BY <1>1 DEF C!Classifiable, ContractInv, C!TypeOK, C!Contracts, C!Incremental
<1>5. C!TakeOver(s, how, clauses, objective, statuses)
  BY <1>1, <1>2
<1>6. /\ ContractInv' /\ contract'.how = how /\ contract'.clauses = clauses
  BY <1>3, <1>4, <1>5, TakeOverKeeps
<1>7. source'[s] = "classified" /\ outcome' = statuses
  BY <1>5 DEF C!TakeOver, ContractInv, C!TypeOK
<1>8. \A o \in C!Current : MayBecome(o)
  BY <1>1, <1>3, <1>4, <1>6, <1>7 DEF MayBecome, C!TransitionsBound
<1> QED
  BY <1>6, <1>8

\* A message that states, replaces or withdraws the contract.
LEMMA AfreshKeeps ==
  ASSUME ContractBounds, ContractInv, NEW s \in ChatMessages, C!ClassifyAfresh(s)
  PROVE  ContractInv' /\ \A o \in C!Current : MayBecome(o)
<1>1. PICK how \in {"INITIAL", "REPLACE", "WITHDRAW"}, clauses \in SUBSET C!Known :
        \E statuses \in [Outcomes -> IF how = "WITHDRAW" THEN {"absent"}
                                     ELSE C!Statuses \cup {"absent"}] :
          /\ C!Classifiable(s, how, clauses)
          /\ C!TakeOver(s, how, clauses, s, statuses)
  BY DEF C!ClassifyAfresh
<1>2. PICK statuses \in [Outcomes -> IF how = "WITHDRAW" THEN {"absent"}
                                     ELSE C!Statuses \cup {"absent"}] :
        /\ C!Classifiable(s, how, clauses)
        /\ C!TakeOver(s, how, clauses, s, statuses)
  BY <1>1
<1>3. /\ statuses \in [Outcomes -> C!Statuses \cup {"absent"}]
      /\ how = "WITHDRAW" => \A o \in Outcomes : statuses[o] = "absent"
  <2>1. CASE how = "WITHDRAW"
    BY <1>2, <2>1
  <2>2. CASE how # "WITHDRAW"
    BY <1>2, <2>2 DEF C!Statuses
  <2> QED
    BY <2>1, <2>2
<1>4. s \in C!Pending /\ C!Lineage(how)
  BY <1>2 DEF C!Classifiable
<1>5. ContractInv' /\ contract'.how = (IF how = "WITHDRAW" THEN "none" ELSE how)
  BY <1>2, <1>3, <1>4, TakeOverKeeps
<1>6. source'[s] = "classified"
  BY <1>2 DEF C!TakeOver, ContractInv, C!TypeOK
<1>7. CASE how = "INITIAL"
  <2>1. C!Current = {}
    BY <1>4, <1>7 DEF C!Lineage, ContractInv, NothingOwedUncontracted
  <2> QED
    BY <1>5, <2>1
<1>8. CASE how # "INITIAL"
  BY <1>4, <1>5, <1>6, <1>8 DEF MayBecome
<1> QED
  BY <1>7, <1>8

\* Progress only finishes what is open.
LEMMA ProgressKeeps ==
  ASSUME ContractBounds, ContractInv, C!Progress
  PROVE  ContractInv' /\ \A o \in C!Current : MayBecome(o)
<1> USE DEF ContractInv
<1>1. /\ outcome' \in [Outcomes -> C!Statuses \cup {"absent"}]
      /\ \A p \in C!Current : MayBecome(p)
  <2>1. CASE outcome' = outcome
    BY <2>1 DEF MayBecome, C!TypeOK
  <2>2. ASSUME NEW o \in C!Current, NEW status \in C!ProgressTo(outcome[o]),
               outcome' = [outcome EXCEPT ![o] = status]
        PROVE  /\ outcome' \in [Outcomes -> C!Statuses \cup {"absent"}]
               /\ \A p \in C!Current : MayBecome(p)
    <3>1. /\ o \in Outcomes /\ status \in {"OPEN", "SATISFIED"}
          /\ status = outcome[o] \/ outcome[o] = "OPEN"
      BY <2>2 DEF C!Current, C!ProgressTo
    <3>2. outcome' \in [Outcomes -> C!Statuses \cup {"absent"}]
      BY <2>2, <3>1 DEF C!TypeOK, C!Statuses
    <3>3. \A p \in C!Current : MayBecome(p)
      BY <2>2, <3>1 DEF MayBecome, C!TypeOK, C!Current
    <3> QED
      BY <3>2, <3>3
  <2> QED
    BY <2>1, <2>2 DEF C!Progress
<1>3. /\ UNCHANGED <<source, intact, contract, written, catalog, action, gap, ran, losses>>
      /\ advice' = contract.id /\ C!Moved /\ contract.id # 0
  BY DEF C!Progress
<1>5. C!TypeOK'
  BY <1>1, <1>3, MovedFacts DEF C!TypeOK, C!Known
<1>6. NothingOwedUncontracted' /\ StartedFirst' /\ ReadyToStart'
  BY <1>3, MovedFacts DEF NothingOwedUncontracted, StartedFirst
<1> QED
  BY <1>1, <1>5, <1>6

-------------------------------------------------------------------------------
\* An action's record changes to another that is in use.
LEMMA BecomesKeeps ==
  ASSUME ContractInv, NEW a \in Actions, NEW status \in
           {"PENDING", "SUCCEEDED", "FAILED", "CANCELLED", "CANCELLED_UNKNOWN", "UNKNOWN_EFFECT"},
         NEW resolved \in {"none", "REMAINS_UNKNOWN", "SETTLED"},
         NEW outs \in SUBSET Outcomes, C!Becomes(a, status, resolved, outs)
  PROVE  /\ action' \in [Actions -> C!Records] /\ action'[a].status = status
         /\ action'[a].resolved = resolved
         /\ \A b \in Actions \ {a} : action'[b] = action[b]
         /\ \A b \in Actions : action[b].status # "unused" => action'[b].status # "unused"
<1>1. [status |-> status, resolved |-> resolved, outs |-> outs] \in C!Records
  BY DEF C!Records
<1>2. action' = [action EXCEPT ![a] = [status |-> status, resolved |-> resolved, outs |-> outs]]
  BY DEF C!Becomes
<1>3. action \in [Actions -> C!Records]
  BY DEF ContractInv, C!TypeOK
<1> QED
  BY <1>1, <1>2, <1>3

\* The owner starts, ends or reconciles an action.
LEMMA OwnerKeeps ==
  ASSUME ContractBounds, ContractInv, NEW a \in Actions,
         C!ActionStart(a) \/ C!ActionOutcome(a) \/ C!ActionReconcile(a)
  PROVE  ContractInv'
<1> USE DEF ContractInv
<1>1. /\ UNCHANGED <<source, intact, contract, written, outcome, catalog, advice, gap, losses>>
      /\ C!Moved
  BY DEF C!ActionStart, C!ActionOutcome, C!ActionReconcile
<1>2. action[a] \in C!Records
  BY DEF C!TypeOK
<1>3. PICK status \in
             {"PENDING", "SUCCEEDED", "FAILED", "CANCELLED", "CANCELLED_UNKNOWN", "UNKNOWN_EFFECT"},
           resolved \in {"none", "REMAINS_UNKNOWN", "SETTLED"}, outs \in SUBSET Outcomes :
        C!Becomes(a, status, resolved, outs)
  <2>1. CASE C!ActionStart(a)
    BY <2>1 DEF C!ActionStart, C!Started, C!Current
  <2>2. CASE C!ActionOutcome(a)
    BY <1>2, <2>2 DEF C!ActionOutcome, C!Records
  <2>3. CASE C!ActionReconcile(a)
    BY <1>2, <2>3 DEF C!ActionReconcile, C!Records
  <2> QED
    BY <2>1, <2>2, <2>3
<1>4. /\ action' \in [Actions -> C!Records] /\ action'[a].status # "unused"
      /\ \A b \in Actions : action[b].status # "unused" => action'[b].status # "unused"
  BY <1>3, BecomesKeeps
<1>5. ran' \subseteq Actions /\ ran' \subseteq ran \cup {a}
  BY DEF C!ActionStart, C!ActionOutcome, C!ActionReconcile, C!TypeOK
<1>6. C!TypeOK'
  BY <1>1, <1>4, <1>5, MovedFacts DEF C!TypeOK, C!Known
<1>7. NothingOwedUncontracted'
  BY <1>1 DEF NothingOwedUncontracted, C!Current
<1>8. StartedFirst' /\ ReadyToStart'
  BY <1>1, <1>4, <1>5, MovedFacts DEF StartedFirst, C!TypeOK
<1> QED
  BY <1>6, <1>7, <1>8

\* The helper prepares, applies, runs or gives up.
LEMMA HelperKeeps ==
  ASSUME ContractBounds, ContractInv,
         (\E a \in Actions : C!Prepare(a)) \/ C!Apply \/ C!AppendStart \/ C!Run \/ C!HelperEnds
  PROVE  ContractInv'
<1> USE DEF ContractInv
<1>1. UNCHANGED <<source, intact, contract, written, outcome, catalog, advice, gap, losses>>
  BY DEF C!Prepare, C!Apply, C!AppendStart, C!Run, C!HelperEnds
<1>2. NothingOwedUncontracted'
  BY <1>1 DEF NothingOwedUncontracted, C!Current
<1>3. ASSUME prepared' \in C!Preparations, action' \in [Actions -> C!Records], ran' \subseteq Actions
      PROVE  C!TypeOK'
  BY <1>1, <1>3 DEF C!TypeOK, C!Known
<1>4. ASSUME NEW a \in Actions, C!Prepare(a)
      PROVE  ContractInv'
  <2>1. PICK outs \in SUBSET Outcomes :
          prepared' = [command |-> "start", fresh |-> TRUE, action |-> a, outs |-> outs]
    BY <1>4 DEF C!Prepare, C!Current
  <2>2. prepared' \in C!Preparations /\ prepared'.action = a /\ prepared'.command = "start"
    BY <2>1 DEF C!Preparations
  <2>3. UNCHANGED <<action, ran>>
    BY <1>4 DEF C!Prepare
  <2>4. C!TypeOK'
    BY <1>3, <2>2, <2>3 DEF C!TypeOK
  <2>5. StartedFirst' /\ ReadyToStart'
    BY <2>2, <2>3 DEF StartedFirst, ReadyToStart
  <2> QED
    BY <1>2, <2>4, <2>5
<1>5. ASSUME prepared' = C!Nothing, action' = action, ran' \subseteq Actions,
             \A a \in ran' : action[a].status # "unused"
      PROVE  ContractInv'
  <2>1. C!TypeOK'
    BY <1>3, <1>5, ContractPieceTypes DEF C!TypeOK
  <2>2. StartedFirst' /\ ReadyToStart'
    BY <1>5, ContractPieceTypes DEF StartedFirst, ReadyToStart
  <2> QED
    BY <1>2, <2>1, <2>2
<1>6. CASE C!Apply
  <2>1. prepared \in C!Preparations /\ prepared.action \in Actions /\ UNCHANGED <<action, ran>>
    BY <1>6 DEF C!Apply, C!TypeOK, StartedFirst
  <2>2. CASE prepared' = C!Nothing
    BY <1>5, <2>1, <2>2 DEF StartedFirst, C!TypeOK
  <2>3. CASE prepared' # C!Nothing
    <3>1. /\ C!HeadMatches /\ C!Startable(prepared.action, prepared.outs)
          /\ prepared' = [prepared EXCEPT !.command = "appending"]
      BY <1>6, <2>3 DEF C!Apply
    <3>2. /\ prepared' \in C!Preparations /\ prepared'.action = prepared.action
          /\ prepared'.outs = prepared.outs /\ prepared'.fresh = prepared.fresh
          /\ prepared'.command = "appending"
      BY <2>1, <3>1 DEF C!Preparations
    <3>3. C!TypeOK'
      BY <1>3, <2>1, <3>2 DEF C!TypeOK
    <3>4. StartedFirst'
      BY <2>1, <3>2 DEF StartedFirst
    <3>5. ReadyToStart'
      BY <1>1, <2>1, <3>1, <3>2 DEF ReadyToStart, C!HeadMatches, C!Startable,
         C!ReconciliationPending, C!Pending, C!Current
    <3> QED
      BY <1>2, <3>3, <3>4, <3>5
  <2> QED
    BY <2>2, <2>3
<1>7. CASE C!AppendStart
  <2>1. /\ prepared \in C!Preparations /\ prepared.action \in Actions
        /\ prepared.outs \in SUBSET Outcomes /\ ran' = ran
        /\ prepared' = [prepared EXCEPT !.command = "started", !.fresh = FALSE]
    BY <1>7 DEF C!AppendStart, C!TypeOK, StartedFirst, C!Preparations
  <2>2. /\ action' \in [Actions -> C!Records] /\ action'[prepared.action].status = "PENDING"
        /\ \A b \in Actions : action[b].status # "unused" => action'[b].status # "unused"
    BY <1>7, <2>1, BecomesKeeps DEF C!AppendStart, C!Started
  <2>3. /\ prepared' \in C!Preparations /\ prepared'.action = prepared.action
        /\ prepared'.command = "started"
    BY <2>1 DEF C!Preparations
  <2>4. C!TypeOK'
    BY <1>3, <2>1, <2>2, <2>3 DEF C!TypeOK
  <2>5. StartedFirst' /\ ReadyToStart'
    BY <2>1, <2>2, <2>3 DEF StartedFirst, ReadyToStart, C!TypeOK
  <2> QED
    BY <1>2, <2>4, <2>5
<1>8. CASE C!Run
  BY <1>5, <1>8 DEF C!Run, StartedFirst, C!TypeOK
<1>9. CASE C!HelperEnds
  BY <1>5, <1>9 DEF C!HelperEnds, StartedFirst, C!TypeOK
<1> QED
  BY <1>4, <1>6, <1>7, <1>8, <1>9

-------------------------------------------------------------------------------
\* The parts hold together in every reachable state.
LEMMA ContractInvariant == ASSUME ContractBounds PROVE C!Spec => []ContractInv
<1>1. C!Init => ContractInv
  BY ContractInvInit
<1>2. ContractInv /\ [C!Next]_(C!vars) => ContractInv'
  <2> SUFFICES ASSUME ContractInv, [C!Next]_(C!vars) PROVE ContractInv'
    OBVIOUS
  <2>1. CASE C!Next
    BY <2>1, MessageSteps, IncrementKeeps, AfreshKeeps, ProgressKeeps, OwnerKeeps, HelperKeeps
       DEF C!Next
  <2>2. CASE UNCHANGED C!vars
    BY <2>2 DEF C!vars, ContractInv, C!TypeOK, NothingOwedUncontracted, StartedFirst, ReadyToStart,
       C!Known, C!Pending, C!Current
  <2> QED
    BY <2>1, <2>2
<1> QED
  BY <1>1, <1>2, PTL DEF C!Spec

\* Whatever contracts, outcomes and crashes of the helper come and go, the hook
\* denies what depends on an action until it is known what became of it
\* (replay: unknown_effect_action_ids, preflight).
THEOREM EffectsStayInView == ASSUME ContractBounds PROVE C!Spec => []C!EffectNeverForgotten
<1>1. ASSUME ContractInv
      PROVE  C!EffectNeverForgotten
  <2> SUFFICES ASSUME NEW a \in ran
               PROVE  \/ C!Held({a})
                      \/ action[a].status \in {"SUCCEEDED", "FAILED", "CANCELLED"}
                      \/ action[a].resolved = "SETTLED"
    BY DEF C!EffectNeverForgotten
  <2>1. action[a] \in C!Records /\ action[a].status # "unused"
    BY <1>1 DEF ContractInv, C!TypeOK, StartedFirst
  <2> QED
    BY <2>1 DEF C!Records, C!Held, C!UnknownEffect
<1> QED
  BY <1>1, ContractInvariant, PTL

\* An outcome leaves the current contract, or is withdrawn, deferred, superseded
\* or opened again, only in a step that consumes a message of the user
\* (validate_contract_event).
THEOREM OnlyUserRetires == ASSUME ContractBounds PROVE C!Spec => C!RetiredOnlyByUser
<1>1. ASSUME ContractInv, [C!Next]_(C!vars)
      PROVE  \A o \in C!Current : MayBecome(o)
  <2>1. ASSUME NEW s \in ChatMessages, C!ClassifyIncrement(s) \/ C!ClassifyAfresh(s)
        PROVE  \A o \in C!Current : MayBecome(o)
    BY <1>1, <2>1, IncrementKeeps, AfreshKeeps
  <2>2. CASE C!Progress
    BY <1>1, <2>2, ProgressKeeps
  <2>3. ASSUME outcome' = outcome
        PROVE  \A o \in C!Current : MayBecome(o)
    BY <2>3 DEF MayBecome
  <2>4. ASSUME NEW s \in ChatMessages,
               C!Ingest(s) \/ C!RecordGap(s) \/ C!SourceChanges(s) \/ C!Dispose(s) \/ C!ResolveGap(s)
        PROVE  outcome' = outcome
    BY <2>4 DEF C!Ingest, C!RecordGap, C!SourceChanges, C!Dispose, C!ResolveGap
  <2>5. ASSUME NEW a \in Actions,
               C!ActionStart(a) \/ C!ActionOutcome(a) \/ C!ActionReconcile(a) \/ C!Prepare(a)
        PROVE  outcome' = outcome
    BY <2>5 DEF C!ActionStart, C!ActionOutcome, C!ActionReconcile, C!Prepare
  <2>6. CASE C!Apply \/ C!AppendStart \/ C!Run \/ C!HelperEnds
    BY <2>3, <2>6 DEF C!Apply, C!AppendStart, C!Run, C!HelperEnds
  <2>7. CASE UNCHANGED C!vars
    BY <2>3, <2>7 DEF C!vars
  <2> QED
    BY <1>1, <2>1, <2>2, <2>3, <2>4, <2>5, <2>6, <2>7 DEF C!Next
<1>2. ContractInv /\ [C!Next]_(C!vars) => [\A o \in C!Current : MayBecome(o)]_(C!vars)
  BY <1>1
<1> QED
  BY <1>2, ContractInvariant, PTL DEF C!Spec, C!RetiredOnlyByUser, MayBecome

\* Only the helper's own steps change how far it is.
LEMMA HelperMovesItself ==
  ASSUME ContractInv, [C!Next]_(C!vars), prepared'.command # prepared.command
  PROVE  (\E a \in Actions : C!Prepare(a)) \/ C!Apply \/ C!AppendStart \/ C!Run \/ C!HelperEnds
<1>1. ~C!Moved
  BY MovedFacts DEF ContractInv
<1>2. ASSUME NEW s \in ChatMessages
      PROVE  ~(C!Ingest(s) \/ C!Dispose(s) \/ C!ResolveGap(s))
  BY <1>1 DEF C!Ingest, C!Dispose, C!ResolveGap
<1>3. ASSUME NEW s \in ChatMessages
      PROVE  ~(C!ClassifyIncrement(s) \/ C!ClassifyAfresh(s))
  BY <1>1 DEF C!ClassifyIncrement, C!ClassifyAfresh, C!TakeOver
<1>4. ASSUME NEW s \in ChatMessages
      PROVE  ~(C!RecordGap(s) \/ C!SourceChanges(s))
  BY DEF C!RecordGap, C!SourceChanges
<1>5. ~C!Progress
  BY <1>1 DEF C!Progress
<1>6. ASSUME NEW b \in Actions
      PROVE  ~(C!ActionStart(b) \/ C!ActionOutcome(b) \/ C!ActionReconcile(b))
  BY <1>1 DEF C!ActionStart, C!ActionOutcome, C!ActionReconcile
<1>7. ~UNCHANGED C!vars
  BY DEF C!vars
<1> QED
  BY <1>2, <1>3, <1>4, <1>5, <1>6, <1>7 DEF C!Next

\* When the helper gets the lock to record a start, no event has come in since
\* the owner's reading and nothing is unread, open or missing; when it writes
\* the start, still no message has come in and the contract is the same
\* (apply_prepared, append_event: expected_head).
THEOREM HelperStartsOnReading == ASSUME ContractBounds PROVE C!Spec => C!StartsOnReadSources
<1>1. ASSUME ContractInv, [C!Next]_(C!vars),
             prepared.command = "start", prepared'.command = "appending"
      PROVE  /\ prepared.fresh /\ C!Pending = {} /\ C!Unresolved = {}
             /\ contract.id # 0 /\ contract.clauses \subseteq intact
  <2>1. C!Apply
    BY <1>1, HelperMovesItself, ContractPieceTypes
       DEF C!Prepare, C!AppendStart, C!Run, C!HelperEnds, ContractInv, C!TypeOK, C!Preparations
  <2>2. C!HeadMatches /\ C!Startable(prepared.action, prepared.outs)
    BY <1>1, <2>1, ContractPieceTypes DEF C!Apply
  <2> QED
    BY <2>2 DEF C!HeadMatches, C!Startable, C!ReconciliationPending, C!Available
<1>2. ASSUME ContractInv, [C!Next]_(C!vars),
             prepared.command # "started", prepared'.command = "started"
      PROVE  /\ prepared.command = "appending" /\ prepared.fresh
             /\ C!Pending = {} /\ contract.id # 0 /\ contract' = contract
             /\ action[prepared.action].status = "unused"
             /\ action'[prepared.action].status = "PENDING"
             /\ action'[prepared.action].outs \subseteq C!Current
  <2>1. C!AppendStart
    <3>1. \/ prepared.command = "start" /\ (prepared' = C!Nothing \/ prepared'.command = "appending")
          \/ prepared'.command # "started" \/ C!AppendStart
      <4>1. CASE C!Apply
        BY <4>1 DEF C!Apply, ContractInv, C!TypeOK, C!Preparations
      <4> QED
        BY <1>2, <4>1, HelperMovesItself, ContractPieceTypes DEF C!Prepare, C!Run, C!HelperEnds
    <3> QED
      BY <1>2, <3>1, ContractPieceTypes
  <2>2. /\ prepared.command = "appending" /\ prepared.action \in Actions
        /\ prepared.outs \in SUBSET Outcomes /\ contract' = contract
        /\ C!Becomes(prepared.action, "PENDING", "none", prepared.outs)
    BY <1>2, <2>1 DEF C!AppendStart, C!Started, ContractInv, C!TypeOK, StartedFirst, C!Preparations
  <2>3. /\ action'[prepared.action].status = "PENDING"
        /\ action'[prepared.action].outs = prepared.outs
    BY <1>2, <2>2 DEF ContractInv, C!TypeOK, C!Becomes
  <2> QED
    BY <1>2, <2>2, <2>3 DEF ContractInv, ReadyToStart
<1>3. ASSUME ContractInv, [C!Next]_(C!vars)
      PROVE  /\ prepared.command = "start" /\ prepared'.command = "appending"
                  => /\ prepared.fresh /\ C!Pending = {} /\ C!Unresolved = {}
                     /\ contract.id # 0 /\ contract.clauses \subseteq intact
             /\ prepared.command # "started" /\ prepared'.command = "started"
                  => /\ prepared.command = "appending" /\ prepared.fresh
                     /\ C!Pending = {} /\ contract.id # 0 /\ contract' = contract
                     /\ action[prepared.action].status = "unused"
                     /\ action'[prepared.action].status = "PENDING"
                     /\ action'[prepared.action].outs \subseteq C!Current
  BY <1>1, <1>2, <1>3
<1> QED
  BY <1>3, ContractInvariant, PTL DEF C!Spec, C!StartsOnReadSources

-------------------------------------------------------------------------------
(***************************************************************************)
(* The records side by side.                                               *)
(***************************************************************************)
\* Each component in its place: a behaviour of the ledger is one of the file,
LEMMA JournalBehaves == LedgerSpec => Spec
<1>1. LedgerInit => Init
  BY DEF LedgerInit
<1>2. [LedgerNext]_ledgerVars => [Next]_vars
  BY DEF LedgerNext, ledgerVars
<1> QED
  BY <1>1, <1>2, PTL DEF LedgerSpec, Spec

\* one of the contract,
LEMMA ContractBehaves == LedgerSpec => C!Spec
<1>1. LedgerInit => C!Init
  BY DEF LedgerInit
<1>2. [LedgerNext]_ledgerVars => [C!Next]_(C!vars)
  BY DEF LedgerNext, ledgerVars, contractVars, C!vars
<1> QED
  BY <1>1, <1>2, PTL DEF LedgerSpec, C!Spec

\* and one of the status.
LEMMA StatusBehaves == LedgerSpec => S!Spec
<1>1. LedgerInit => S!Init
  BY DEF LedgerInit
<1>2. [LedgerNext]_ledgerVars => [S!Next]_(S!vars)
  BY DEF LedgerNext, ledgerVars, statusVars, S!vars
<1> QED
  BY <1>1, <1>2, PTL DEF LedgerSpec, S!Spec

-------------------------------------------------------------------------------
\* What the proofs of the components ask of their bounds.
LEMMA ComponentBounds == ContractBounds /\ StatusBounds
BY LedgerAssumption DEF ContractBounds, StatusBounds

\* Every variable of the three records has its type.
THEOREM LedgerTypes == LedgerSpec => []LedgerTypeOK
<1>1. Spec => []TypeOK
  <2>1. AnswerInv => TypeOK
    BY DEF AnswerInv
  <2> QED
    BY <2>1, AnswerInvariant, PTL
<1>2. C!Spec => []C!TypeOK
  <2>1. ContractInv => C!TypeOK
    BY DEF ContractInv
  <2>2. C!Spec => []ContractInv
    BY ComponentBounds, ContractInvariant
  <2> QED
    BY <2>1, <2>2, PTL
<1>3. S!Spec => []S!TypeOK
  <2>1. StatusInv => S!TypeOK
    BY DEF StatusInv
  <2>2. S!Spec => []StatusInv
    BY ComponentBounds, StatusInvariant
  <2> QED
    BY <2>1, <2>2, PTL
<1>4. TypeOK /\ C!TypeOK /\ S!TypeOK => LedgerTypeOK
  BY DEF LedgerTypeOK
<1> QED
  BY <1>1, <1>2, <1>3, <1>4, JournalBehaves, ContractBehaves, StatusBehaves, PTL

\* The effect of an action that may have happened stays in view until its own
\* outcome says what became of it (runtime/objective_ledger.py).
THEOREM LedgerEffectsStay == LedgerSpec => []EffectNeverForgotten
<1>1. C!Spec => []C!EffectNeverForgotten
  BY ComponentBounds, EffectsStayInView
<1>2. C!EffectNeverForgotten => EffectNeverForgotten
  BY DEF EffectNeverForgotten
<1> QED
  BY <1>1, <1>2, ContractBehaves, PTL

\* Only the user retires what is owed to him, and the helper starts actions on
\* messages its owner has read (runtime/objective_ledger.py, ledger_input.py).
THEOREM LedgerContractSteps == LedgerSpec => ContractSteps
<1>1. C!Spec => C!RetiredOnlyByUser
  BY ComponentBounds, OnlyUserRetires
<1>2. C!Spec => C!StartsOnReadSources
  BY ComponentBounds, HelperStartsOnReading
<1> QED
  BY <1>1, <1>2, ContractBehaves, PTL DEF ContractSteps

\* A status that holds its candidate waits for an answer to itself
\* (runtime/durable_supervisor.py).
THEOREM LedgerHoldsWait == LedgerSpec => []HeldUntilAnswered
<1>1. S!Spec => []S!HeldUntilAnswered
  BY ComponentBounds, HeldStatusWaits
<1>2. S!HeldUntilAnswered => HeldUntilAnswered
  BY DEF HeldUntilAnswered
<1> QED
  BY <1>1, <1>2, StatusBehaves, PTL

\* The journal of the ledger and the status the Supervisor pulls are
\* append-only logs while one process at a time may recover locks.
THEOREM LedgerKeepsLogs == ASSUME OneRescuer PROVE LedgerSpec => LogsHold
<1>1. Spec => JournalIsLog
  BY JournalImplementsLog
<1>2. S!Spec => S!StatusIsLog
  BY ComponentBounds, StatusImplementsLog
<1> QED
  BY <1>1, <1>2, JournalBehaves, StatusBehaves, PTL DEF LogsHold

\* What a call on the ledger answered is true, in the ledger too.
THEOREM LedgerAnswersTrue == LedgerSpec => []AnswersTrue
BY AnswersAreTrue, JournalBehaves, PTL

\* The lock of the ledger is one process's, in the ledger too, while one process
\* at a time may recover locks.
THEOREM LedgerLock == ASSUME OneRescuer PROVE LedgerSpec => []HolderOwnsLock
BY LockIsExclusive, JournalBehaves, PTL

-------------------------------------------------------------------------------
(***************************************************************************)
(* The work: phases.                                                       *)
(***************************************************************************)
\* What evaluate advises can be done: there is something to select for each
\* action it names, and without one a check is blocked.
LEMMA AdviceFollows ==
  ASSUME Phase!TypeOK, Phase!StaysReadable
  PROVE  Phase!AdviceAdmitted /\ Phase!NeverAtALoss
<1> USE DEF Phase!Advise
<1>1. Phase!NeverAtALoss
  BY DEF Phase!NeverAtALoss, Phase!TypeOK, Phase!AllPass, Phase!Failed, Phase!Later,
     Phase!Current, Phase!PendingChecks, Phase!Advice
<1>2. ASSUME NEW act \in Phase!Advice.actions, NEW items \in SUBSET Items,
             NEW checks \in SUBSET Checks, NEW findings \in SUBSET Checks,
             Phase!Admitted(Phase!Advice.phase, act, items, checks, findings),
             Phase!Advice.phase # "BUILD" => Phase!Reviewed
      PROVE  Phase!AdviceAdmitted /\ Phase!NeverAtALoss
  BY <1>1, <1>2 DEF Phase!AdviceAdmitted, Phase!StaysReadable, Phase!Readable, Phase!Reviewed
<1>3. CASE Phase!PendingItems # {}
  <2>1. Phase!Advice = Phase!Advise({"IMPLEMENT"}, "BUILD", FALSE)
    BY <1>3 DEF Phase!Advice
  <2>2. Phase!Admitted("BUILD", "IMPLEMENT", Phase!PendingItems, {}, {})
    BY <1>3 DEF Phase!Admitted, Phase!AllowedIn
  <2>3. Phase!PendingItems \subseteq Items
    BY DEF Phase!PendingItems
  <2> QED
    BY <1>2, <2>1, <2>2, <2>3
<1>4. CASE Phase!PendingItems = {} /\ ~Phase!Reviewed
  <2>1. Phase!Advice = Phase!Advise({"SCOPE_REVIEW"}, "BUILD", FALSE)
    BY <1>4 DEF Phase!Advice
  <2>2. Phase!Admitted("BUILD", "SCOPE_REVIEW", {}, {}, {})
    BY DEF Phase!Admitted, Phase!AllowedIn
  <2> QED
    BY <1>2, <2>1, <2>2
<1>5. CASE Phase!PendingItems = {} /\ Phase!Reviewed /\ Phase!PendingChecks # {}
  <2>1. Phase!Advice = Phase!Advise({"FORMAL_CHECK"}, "SWEEP", FALSE)
    BY <1>5 DEF Phase!Advice
  <2>2. Phase!Admitted("SWEEP", "FORMAL_CHECK", {}, Phase!PendingChecks, {})
    BY <1>5 DEF Phase!Admitted, Phase!AllowedIn
  <2>3. Phase!PendingChecks \subseteq Checks
    BY DEF Phase!PendingChecks, Phase!Current
  <2> QED
    BY <1>2, <1>5, <2>1, <2>2, <2>3
<1>6. CASE Phase!PendingItems = {} /\ Phase!Reviewed /\ Phase!PendingChecks = {} /\ ~Phase!Collected
  <2>1. Phase!Advice = Phase!Advise({"COLLECT_FINDINGS"}, "SWEEP", FALSE)
    BY <1>6 DEF Phase!Advice, Phase!Collected
  <2>2. Phase!Admitted("SWEEP", "COLLECT_FINDINGS", {}, {}, {})
    BY <1>6 DEF Phase!Admitted, Phase!AllowedIn
  <2> QED
    BY <1>2, <1>6, <2>1, <2>2
<1>7. CASE Phase!PendingItems = {} /\ Phase!Reviewed /\ Phase!Collected /\ Phase!Mandatory # {}
  <2>1. Phase!Advice = Phase!Advise({"REPAIR_FINDINGS"}, "REPAIR", FALSE)
    BY <1>7 DEF Phase!Advice, Phase!Collected
  <2>2. Phase!Mandatory \subseteq Checks /\ Phase!Mandatory = Phase!WholeCauses(Phase!Mandatory)
    BY DEF Phase!Mandatory, Phase!WholeCauses
  <2>3. Phase!Consumers(Phase!Mandatory) \subseteq Items
    BY DEF Phase!Consumers, Phase!Mandatory, Phase!TypeOK, Phase!Findings, Phase!NoFinding
  <2>4. Phase!Admitted("REPAIR", "REPAIR_FINDINGS", Phase!Consumers(Phase!Mandatory), {},
                       Phase!Mandatory)
    BY <1>7, <2>2 DEF Phase!Admitted, Phase!AllowedIn
  <2> QED
    BY <1>2, <1>7, <2>1, <2>2, <2>3, <2>4
<1>8. CASE /\ Phase!PendingItems = {} /\ Phase!Reviewed /\ Phase!Collected
           /\ Phase!Mandatory = {} /\ Phase!AllPass
  <2>1. Phase!Advice = Phase!Advise({"ACCEPT"}, "ACCEPT", FALSE)
    BY <1>8 DEF Phase!Advice, Phase!Collected
  <2>2. Phase!Admitted("ACCEPT", "ACCEPT", {}, {}, {})
    BY <1>8 DEF Phase!Admitted, Phase!AllowedIn, Phase!Collected
  <2> QED
    BY <1>2, <1>8, <2>1, <2>2
<1>9. CASE /\ Phase!PendingItems = {} /\ Phase!Reviewed /\ Phase!Collected
           /\ Phase!Mandatory = {} /\ ~Phase!AllPass
  <2>1. Phase!Advice.owner = TRUE
    BY <1>9 DEF Phase!Advice, Phase!Collected
  <2> QED
    BY <1>1, <2>1 DEF Phase!AdviceAdmitted
<1> QED
  BY <1>1, <1>3, <1>4, <1>5, <1>6, <1>7, <1>8, <1>9 DEF Phase!Collected

\* What each step of the owner keeps; the advice follows from it.
PhaseCore ==
  Phase!TypeOK /\ Phase!StaysReadable /\ Phase!AcceptedWhole /\ Phase!AcceptedLast

\* There are two stages.
LEMMA StageTypes == \A k \in Checks : Phase!Stage(k) \in {0, 1}
<1> SUFFICES ASSUME NEW k \in Checks PROVE Phase!Stage(k) \in {0, 1}
  OBVIOUS
<1>1. k \in Nat
  BY LedgerAssumption
<1>2. k % 2 \in {0, 1}
  BY <1>1
<1> QED
  BY <1>2 DEF Phase!Stage

\* A finding that is resolved is still one.
LEMMA ResolvedTypes ==
  \A x \in Phase!Findings : /\ Phase!Resolved(x) \in Phase!Findings
                            /\ Phase!Resolved(x).mandatory = x.mandatory
BY DEF Phase!Resolved, Phase!Findings

\* After the work is accepted nothing is left to do: no step of the owner is
\* admitted.
LEMMA AcceptedStops ==
  ASSUME PhaseCore, Phase!Next, accepted = TRUE
  PROVE  FALSE
<1>1. Phase!Advice = Phase!Advise({"ACCEPT"}, "ACCEPT", FALSE) /\ phase = "ACCEPT"
  BY DEF PhaseCore, Phase!AcceptedWhole, Phase!AcceptedLast, Phase!Advice, Phase!AllPass,
     Phase!PendingChecks, Phase!Current
<1>2. Phase!Advice.phase = "ACCEPT" /\ Phase!Advice.owner = FALSE
  BY <1>1 DEF Phase!Advise
<1>3. ~Phase!Move /\ ~Phase!OwnerTransition
  BY <1>1, <1>2 DEF Phase!Move, Phase!OwnerTransition
<1>4. \A act, items, checks, findings :
        Phase!Admitted(phase, act, items, checks, findings) => act = "ACCEPT"
  BY <1>1 DEF Phase!Admitted, Phase!AllowedIn
<1>5. ~Phase!Accept
  BY DEF Phase!Accept
<1>6. ~Phase!Review
  BY <1>4 DEF Phase!Review
<1>7. ~Phase!Collect
  BY <1>4 DEF Phase!Collect
<1>8. \A i \in Items : ~Phase!Implement(i)
  BY <1>4 DEF Phase!Implement
<1>9. \A k \in Checks : ~Phase!RunCheck(k)
  BY <1>4 DEF Phase!RunCheck
<1>10. \A findings \in SUBSET Phase!Mandatory : ~Phase!Repair(findings)
  BY <1>4 DEF Phase!Repair
<1> QED
  BY <1>3, <1>5, <1>6, <1>7, <1>8, <1>9, <1>10 DEF Phase!Next

\* Every step of the owner keeps the core.
LEMMA PhaseStep ==
  ASSUME PhaseCore, Phase!Next
  PROVE  PhaseCore'
<1> USE DEF PhaseCore
<1>1. Phase!TypeOK'
  <2> USE DEF Phase!TypeOK
  <2>1. CASE Phase!Move
    BY <2>1 DEF Phase!Move, Phase!Advice, Phase!Advise
  <2>2. CASE Phase!Review
    BY <2>2 DEF Phase!Review
  <2>3. CASE Phase!Collect
    BY <2>3 DEF Phase!Collect
  <2>4. CASE Phase!OwnerTransition
    BY <2>4, StageTypes DEF Phase!OwnerTransition, Phase!Later
  <2>5. CASE Phase!Accept
    BY <2>5 DEF Phase!Accept
  <2>6. ASSUME NEW i \in Items, Phase!Implement(i)
        PROVE  Phase!TypeOK'
    BY <2>6 DEF Phase!Implement
  <2>7. ASSUME NEW k \in Checks, Phase!RunCheck(k)
        PROVE  Phase!TypeOK'
    BY <2>7 DEF Phase!RunCheck
  <2>8. ASSUME NEW findings \in SUBSET Phase!Mandatory, Phase!Repair(findings)
        PROVE  Phase!TypeOK'
    BY <2>8, ResolvedTypes DEF Phase!Repair, Phase!Mandatory, Phase!NoFinding
  <2> QED
    BY <2>1, <2>2, <2>3, <2>4, <2>5, <2>6, <2>7, <2>8 DEF Phase!Next
<1>2. Phase!StaysReadable'
  <2> USE DEF Phase!StaysReadable, Phase!Readable, Phase!TypeOK
  <2>1. CASE Phase!Move
    BY <2>1 DEF Phase!Move
  <2>2. CASE Phase!Review
    BY <2>2 DEF Phase!Review, Phase!Admitted, Phase!AllowedIn
  <2>3. CASE Phase!Collect
    BY <2>3 DEF Phase!Collect
  <2>4. CASE Phase!OwnerTransition
    BY <2>4 DEF Phase!OwnerTransition
  <2>5. CASE Phase!Accept
    BY <2>5 DEF Phase!Accept
  <2>6. ASSUME NEW i \in Items, Phase!Implement(i)
        PROVE  Phase!StaysReadable'
    BY <2>6 DEF Phase!Implement
  <2>7. ASSUME NEW k \in Checks, Phase!RunCheck(k)
        PROVE  Phase!StaysReadable'
    BY <2>7 DEF Phase!RunCheck
  <2>8. ASSUME NEW findings \in SUBSET Phase!Mandatory, Phase!Repair(findings)
        PROVE  Phase!StaysReadable'
    BY <2>8, ResolvedTypes DEF Phase!Repair, Phase!Mandatory, Phase!NoFinding
  <2> QED
    BY <2>1, <2>2, <2>3, <2>4, <2>5, <2>6, <2>7, <2>8 DEF Phase!Next
<1>3. Phase!AcceptedWhole' /\ Phase!AcceptedLast'
  <2> USE DEF Phase!AcceptedWhole, Phase!AcceptedLast, Phase!AllPass, Phase!Mandatory,
              Phase!PendingItems, Phase!Reviewed
  <2>1. CASE Phase!Accept
    BY <2>1 DEF Phase!Accept, Phase!Admitted, Phase!AllowedIn, Phase!TypeOK
  <2>2. CASE ~Phase!Accept
    <3>1. accepted' = accepted
      BY <2>2 DEF Phase!Next, Phase!Move, Phase!Review, Phase!Collect, Phase!OwnerTransition,
         Phase!Implement, Phase!RunCheck, Phase!Repair
    <3> QED
      BY <3>1, AcceptedStops
  <2> QED
    BY <2>1, <2>2
<1> QED
  BY <1>1, <1>2, <1>3

-------------------------------------------------------------------------------
(***************************************************************************)
(* The work: units.                                                        *)
(***************************************************************************)
\* Before the first request nothing is handed over.
LEMMA UnitInit == Unit!Init => Unit!UnitInv
BY LedgerAssumption DEF Unit!Init, Unit!UnitInv, Unit!UnitSound, Unit!TypeOK, Unit!NoUnit,
   Unit!NoReport, Unit!Reports, Unit!UnitStates, Unit!Integrations

\* What a report can say: an effect is partial when the status is.
LEMMA ReportTypes ==
  \A x \in Unit!Reports : /\ x.claimed \in {"base", "made", "other"}
                          /\ x.status = "partial" <=> x.effect = "partial"
BY DEF Unit!Reports

\* Every step of the parent, of a child and of the world keeps the invariant.
LEMMA UnitStep ==
  ASSUME Unit!UnitInv, Unit!Next
  PROVE  Unit!UnitInv'
<1> USE LedgerAssumption DEF Unit!UnitInv, Unit!UnitSound, Unit!TypeOK
<1>1. CASE Unit!Change
  <2>1. MaxChanges \in Nat /\ changes' = changes + 1 /\ changes < MaxChanges
    BY <1>1 DEF Unit!Change
  <2>2. version' = version \/ version' = version + 1
    BY <1>1 DEF Unit!Change
  <2>3. changes' \in 0..MaxChanges /\ version' \in 1..(MaxChanges + 1) /\ version' <= changes' + 1
    BY <2>1, <2>2
  <2>4. admits' \in BOOLEAN
    BY <1>1 DEF Unit!Change
  <2>5. output' \in [Units -> {"base", "made", "other"}]
    BY <1>1 DEF Unit!Change
  <2> QED
    BY <1>1, <2>3, <2>4, <2>5 DEF Unit!Change
<1>2. ASSUME NEW u \in Units, Unit!Work(u)
      PROVE  Unit!UnitInv'
  <2>1. output' \in [Units -> {"base", "made", "other"}]
    BY <1>2 DEF Unit!Work
  <2>2. report' \in [Units -> Unit!Reports \cup {Unit!NoReport}]
    BY <1>2 DEF Unit!Work
  <2> QED
    BY <1>2, <2>1, <2>2 DEF Unit!Work
<1>3. ASSUME NEW u \in Units, Unit!Prepare(u)
      PROVE  Unit!UnitInv'
  <2> DEFINE new == [Unit!NoUnit EXCEPT !.at = "prepared", !.bound = version]
  <2>1. new \in Unit!UnitStates /\ new.at = "prepared"
    <3>1. version \in Nat
      OBVIOUS
    <3> QED
      BY <3>1 DEF Unit!NoUnit, Unit!UnitStates
  <2>2. unit' = [unit EXCEPT ![u] = new] /\ u - 1 \notin Units
    BY <1>3 DEF Unit!Prepare
  <2> HIDE DEF new
  <2> QED
    BY <1>3, <2>1, <2>2 DEF Unit!Prepare
<1>4. ASSUME NEW u \in Units, Unit!Verify(u)
      PROVE  Unit!UnitInv'
  BY <1>4 DEF Unit!Verify, Unit!UnitStates
<1>5. ASSUME NEW u \in Units, Unit!Send(u)
      PROVE  Unit!UnitInv'
  BY <1>5 DEF Unit!Send, Unit!UnitStates
<1>6. ASSUME NEW u \in Units, Unit!Integrate(u)
      PROVE  Unit!UnitInv'
  BY <1>6 DEF Unit!Integrate, Unit!Handoff, Unit!Integrations
<1>7. ASSUME NEW u \in Units, Unit!BuildNext(u)
      PROVE  Unit!UnitInv'
  BY <1>7 DEF Unit!BuildNext, Unit!Handoff, Unit!UnitStates
<1>8. ASSUME NEW u \in Units, Unit!ContinueWork(u)
      PROVE  Unit!UnitInv'
  <2>1. /\ unit[u].at = "built" /\ unit' = [unit EXCEPT ![u].at = "prepared"]
        /\ unit[u].decided.effect = "partial" => unit[u].reconciled
    BY <1>8 DEF Unit!ContinueWork, Unit!Handoff
  <2> QED
    BY <1>8, <2>1 DEF Unit!ContinueWork, Unit!UnitStates
<1> QED
  BY <1>1, <1>2, <1>3, <1>4, <1>5, <1>6, <1>7, <1>8 DEF Unit!Next

\* A request is verified on what it was prepared for.
LEMMA UnitStepSound == Unit!UnitInv /\ Unit!Next => Unit!StepSound
BY DEF Unit!UnitInv, Unit!Next, Unit!StepSound, Unit!Change, Unit!Work, Unit!Prepare, Unit!Verify,
   Unit!Send, Unit!Integrate, Unit!BuildNext, Unit!ContinueWork, Unit!Fresh, Unit!UnitStates,
   Unit!NoUnit

-------------------------------------------------------------------------------
(***************************************************************************)
(* The work: processes.                                                    *)
(***************************************************************************)
\* The parts of OperationInv that are steps have to keep: the rest follows.
OperationCore ==
  /\ bound \in 1..2
  /\ directory \in [Roots -> {"absent", "request", "result"}]
  /\ process \in [Roots -> Operation!Processes]
  /\ run \in [Roots -> Operation!Runs]
  /\ result \in [Roots -> Operation!Results]
  /\ \A r \in Roots :
       /\ Operation!RunInv(r)
       /\ result[r].status = "succeeded" => process[r].exit = "accepted"

\* Effects are handed on, and the result is there when it is relied on.
LEMMA OperationFollows == OperationCore => Operation!OperationInv
<1> SUFFICES ASSUME OperationCore PROVE Operation!OperationInv
  OBVIOUS
<1> USE DEF OperationCore
<1>1. Operation!TypeOK
  BY DEF Operation!TypeOK, Operation!Runs, Operation!Results
<1>2. ASSUME NEW r \in Roots
      PROVE  /\ process[r].started <= 1
             /\ process[r].effects => Operation!Reconcile(r)
             /\ Operation!NextWork(r) => result[r] # Operation!NoResult
  BY DEF Operation!Processes, Operation!Results, Operation!RunInv, Operation!Reconcile,
     Operation!NextWork
<1> QED
  BY <1>1, <1>2 DEF Operation!OperationInv, Operation!OperationSound

\* No directory is used before the first call.
LEMMA OperationInit == Operation!Init => OperationCore
BY DEF Operation!Init, OperationCore, Operation!RunInv, Operation!NoProcess, Operation!Idle,
   Operation!NoResult, Operation!Processes, Operation!Runs, Operation!Results

\* What a step does in one directory says nothing of the others.
LEMMA OperationElsewhere ==
  ASSUME OperationCore, NEW r \in Roots,
         directory'[r] = directory[r], process'[r] = process[r], run'[r] = run[r],
         result'[r] = result[r]
  PROVE  /\ Operation!RunInv(r)'
         /\ (result[r].status = "succeeded" => process[r].exit = "accepted")'
BY DEF OperationCore, Operation!RunInv

\* The state of one directory after a step, and the whole after it.
LEMMA OperationKept ==
  ASSUME OperationCore, NEW r \in Roots, bound' = bound,
         NEW d \in {"absent", "request", "result"}, NEW p \in Operation!Processes,
         NEW u \in Operation!Runs, NEW t \in Operation!Results,
         directory' = [directory EXCEPT ![r] = d], process' = [process EXCEPT ![r] = p],
         run' = [run EXCEPT ![r] = u], result' = [result EXCEPT ![r] = t],
         Operation!RunInv(r)', t.status = "succeeded" => p.exit = "accepted"
  PROVE  OperationCore'
<1>1. /\ directory' \in [Roots -> {"absent", "request", "result"}]
      /\ process' \in [Roots -> Operation!Processes]
      /\ run' \in [Roots -> Operation!Runs]
      /\ result' \in [Roots -> Operation!Results]
      /\ bound' \in 1..2
  BY DEF OperationCore
<1>2. result'[r] = t /\ process'[r] = p
  BY DEF OperationCore
<1>3. ASSUME NEW s \in Roots
      PROVE  /\ Operation!RunInv(s)'
             /\ result'[s].status = "succeeded" => process'[s].exit = "accepted"
  <2>1. CASE s = r
    BY <1>2, <2>1
  <2>2. CASE s # r
    <3>1. /\ directory'[s] = directory[s] /\ process'[s] = process[s]
          /\ run'[s] = run[s] /\ result'[s] = result[s]
      BY <2>2 DEF OperationCore
    <3> QED
      BY <3>1, OperationElsewhere
  <2> QED
    BY <2>1, <2>2
<1> QED
  BY <1>1, <1>3 DEF OperationCore

\* Of what a step leaves alone in a directory it keeps the value.
LEMMA OperationSame ==
  ASSUME OperationCore, NEW r \in Roots
  PROVE  /\ directory = [directory EXCEPT ![r] = directory[r]]
         /\ process = [process EXCEPT ![r] = process[r]]
         /\ run = [run EXCEPT ![r] = run[r]]
         /\ result = [result EXCEPT ![r] = result[r]]
         /\ directory[r] \in {"absent", "request", "result"}
         /\ process[r] \in Operation!Processes
         /\ run[r] \in Operation!Runs
         /\ result[r] \in Operation!Results
         /\ Operation!RunInv(r)
         /\ result[r].status = "succeeded" => process[r].exit = "accepted"
BY DEF OperationCore

\* Every step of a runner and of its process keeps the core.
LEMMA OperationStep ==
  ASSUME OperationCore, Operation!Next
  PROVE  OperationCore'
<1> USE DEF OperationCore
<1>1. CASE Operation!Rebind
  BY <1>1, OperationElsewhere DEF Operation!Rebind
<1>2. ASSUME NEW r \in Roots, Operation!Begin(r)
      PROVE  OperationCore'
  <2>1. PICK scope \in {"read-only", "owned-local"} :
          run' = [run EXCEPT ![r] = [at |-> "begun", scope |-> scope, bound |-> bound,
                   exit |-> "none", status |-> "unknown", started |-> FALSE]]
    BY <1>2 DEF Operation!Begin, Operation!Idle
  <2> DEFINE u == [at |-> "begun", scope |-> scope, bound |-> bound, exit |-> "none",
                   status |-> "unknown", started |-> FALSE]
  <2>2. u \in Operation!Runs
    BY DEF Operation!Runs
  <2>3. /\ u.at = "begun" /\ u.started = FALSE /\ u.status = "unknown" /\ u.exit = "none"
    OBVIOUS
  <2>4. run' = [run EXCEPT ![r] = u] /\ run'[r] = u
    BY <2>1
  <2> HIDE DEF u
  <2>5. /\ directory[r] = "absent" /\ directory'[r] = "request" /\ bound' = bound
        /\ process' = process /\ result' = result
        /\ directory' = [directory EXCEPT ![r] = "request"]
    BY <1>2 DEF Operation!Begin
  <2>6. Operation!RunInv(r)'
    <3>1. Operation!RunInv(r) /\ process[r] \in Operation!Processes
      OBVIOUS
    <3> QED
      BY <2>3, <2>4, <2>5, <3>1 DEF Operation!RunInv, Operation!Processes
  <2> QED
    <3>1. /\ process' = [process EXCEPT ![r] = process[r]]
          /\ result' = [result EXCEPT ![r] = result[r]]
          /\ process[r] \in Operation!Processes /\ result[r] \in Operation!Results
          /\ result[r].status = "succeeded" => process[r].exit = "accepted"
      BY <2>5, OperationSame
    <3> HIDE DEF OperationCore
    <3> QED
      BY <2>2, <2>4, <2>5, <2>6, <3>1, OperationKept
<1>3. ASSUME NEW r \in Roots, Operation!Start(r)
      PROVE  OperationCore'
  BY <1>3 DEF Operation!Start, Operation!Runs, Operation!Processes, Operation!RunInv
<1>4. ASSUME NEW r \in Roots, Operation!Act(r)
      PROVE  OperationCore'
  <2> DEFINE acts == [process[r] EXCEPT !.effects = TRUE]
             exits(code) == [process[r] EXCEPT !.exit = code]
  <2>1. PICK p \in Operation!Processes :
          /\ process' = [process EXCEPT ![r] = p] /\ p.started = process[r].started
          /\ \/ run[r].scope = "owned-local" /\ p.exit = "none"
             \/ p.exit # "none" /\ (p.effects <=> process[r].effects)
    <3>1. process[r] \in Operation!Processes /\ process[r].exit = "none"
      BY <1>4 DEF Operation!Act
    <3>2. CASE run[r].scope = "owned-local" /\ process' = [process EXCEPT ![r] = acts]
      <4>1. /\ acts \in Operation!Processes /\ acts.started = process[r].started
            /\ acts.exit = "none"
        BY <3>1 DEF Operation!Processes
      <4> QED
        BY <3>2, <4>1
    <3>3. ASSUME NEW code \in {"accepted", "other"},
                 process' = [process EXCEPT ![r] = exits(code)]
          PROVE  \E p \in Operation!Processes :
                   /\ process' = [process EXCEPT ![r] = p] /\ p.started = process[r].started
                   /\ \/ run[r].scope = "owned-local" /\ p.exit = "none"
                      \/ p.exit # "none" /\ (p.effects <=> process[r].effects)
      <4>1. /\ exits(code) \in Operation!Processes
            /\ exits(code).started = process[r].started /\ exits(code).exit = code
            /\ exits(code).effects = process[r].effects
        BY <3>1 DEF Operation!Processes
      <4> QED
        BY <3>3, <4>1
    <3> QED
      BY <1>4, <3>2, <3>3 DEF Operation!Act
  <2>2. /\ bound' = bound /\ directory' = directory /\ run' = run /\ result' = result
        /\ process[r].started = 1 /\ process[r].exit = "none"
    BY <1>4 DEF Operation!Act
  <2>3. Operation!RunInv(r)' /\ result[r].status # "succeeded"
    <3>1. /\ Operation!RunInv(r) /\ process'[r] = p
          /\ result[r].status = "succeeded" => process[r].exit = "accepted"
      BY <2>1
    <3> QED
      BY <2>1, <2>2, <3>1 DEF Operation!RunInv, Operation!Processes
  <2> QED
    <3>1. /\ directory' = [directory EXCEPT ![r] = directory[r]]
          /\ run' = [run EXCEPT ![r] = run[r]]
          /\ result' = [result EXCEPT ![r] = result[r]]
          /\ directory[r] \in {"absent", "request", "result"}
          /\ run[r] \in Operation!Runs /\ result[r] \in Operation!Results
      BY <2>2, OperationSame
    <3>2. bound' = bound
      BY <2>2
    <3> HIDE DEF OperationCore
    <3> QED
      BY <2>1, <2>3, <3>1, <3>2, OperationKept
<1>5. ASSUME NEW r \in Roots, Operation!Wait(r)
      PROVE  OperationCore'
  <2> DEFINE exited == [run[r] EXCEPT !.at = "ended", !.exit = process[r].exit,
                   !.status = IF process[r].exit = "accepted" THEN "succeeded" ELSE "failed"]
             cut == [run[r] EXCEPT !.at = "ended", !.status = "unknown"]
  <2>1. run[r].at = "waiting" /\ process[r] \in Operation!Processes /\ run[r] \in Operation!Runs
    BY <1>5 DEF Operation!Wait
  <2>2. PICK u \in Operation!Runs :
          /\ run' = [run EXCEPT ![r] = u]
          /\ u.at = "ended" /\ u.scope = run[r].scope /\ (u.started <=> run[r].started)
          /\ \/ u.status = "unknown"
             \/ u.status = "succeeded" /\ process[r].exit = "accepted"
             \/ u.status = "failed" /\ process[r].exit # "none"
    <3>1. CASE process[r].exit # "none" /\ run' = [run EXCEPT ![r] = exited]
      <4>1. /\ exited \in Operation!Runs /\ exited.at = "ended"
            /\ exited.scope = run[r].scope /\ exited.started = run[r].started
            /\ exited.status =
                 IF process[r].exit = "accepted" THEN "succeeded" ELSE "failed"
        BY <2>1 DEF Operation!Runs, Operation!Processes
      <4> QED
        BY <3>1, <4>1
    <3>2. CASE run' = [run EXCEPT ![r] = cut]
      <4>1. /\ cut \in Operation!Runs /\ cut.at = "ended" /\ cut.status = "unknown"
            /\ cut.scope = run[r].scope /\ cut.started = run[r].started
        BY <2>1 DEF Operation!Runs
      <4> QED
        BY <3>2, <4>1
    <3> QED
      BY <1>5, <3>1, <3>2 DEF Operation!Wait
  <2>3. bound' = bound /\ directory' = directory /\ process' = process /\ result' = result
    BY <1>5 DEF Operation!Wait
  <2>4. Operation!RunInv(r)'
    <3>1. Operation!RunInv(r) /\ run'[r] = u
      BY <2>2
    <3> QED
      BY <2>1, <2>2, <2>3, <3>1 DEF Operation!RunInv
  <2> QED
    <3>1. /\ directory' = [directory EXCEPT ![r] = directory[r]]
          /\ process' = [process EXCEPT ![r] = process[r]]
          /\ result' = [result EXCEPT ![r] = result[r]]
          /\ directory[r] \in {"absent", "request", "result"}
          /\ process[r] \in Operation!Processes /\ result[r] \in Operation!Results
          /\ result[r].status = "succeeded" => process[r].exit = "accepted"
      BY <2>3, OperationSame
    <3>2. bound' = bound
      BY <2>3
    <3> HIDE DEF OperationCore
    <3> QED
      BY <2>2, <2>4, <3>1, <3>2, OperationKept
<1>6. ASSUME NEW r \in Roots, Operation!WriteResult(r)
      PROVE  OperationCore'
  <2> DEFINE u == [run[r] EXCEPT !.at = "idle"]
             t == [status |-> run[r].status, effect |-> Operation!Effect(r),
                   started |-> run[r].started, exit |-> run[r].exit,
                   changed |-> bound # run[r].bound]
  <2>1. /\ run[r].at = "ended" /\ bound' = bound /\ process' = process
        /\ directory' = [directory EXCEPT ![r] = "result"]
        /\ run' = [run EXCEPT ![r] = u] /\ result' = [result EXCEPT ![r] = t]
    BY <1>6 DEF Operation!WriteResult
  <2>2. /\ u \in Operation!Runs /\ u.at = "idle" /\ u.scope = run[r].scope
        /\ u.status = run[r].status /\ (u.started <=> run[r].started)
    BY DEF Operation!Runs
  <2>3. /\ t \in Operation!Results /\ t.status = run[r].status
        /\ t.effect = Operation!Effect(r)
        /\ t.status # "none"
    BY DEF Operation!Runs, Operation!Results, Operation!Effect
  <2>4. t # Operation!NoResult
    BY <2>3 DEF Operation!NoResult
  <2>5. run'[r] = u /\ result'[r] = t /\ directory'[r] = "result"
    BY <2>1
  <2>6. Operation!RunInv(r) /\ process[r] \in Operation!Processes /\ run[r] \in Operation!Runs
    OBVIOUS
  <2> HIDE DEF u, t
  <2>7. t.effect = "none" =>
          /\ ~process[r].effects
          /\ process[r].started = 0 \/ process[r].exit # "none" \/ run[r].scope = "read-only"
    BY <2>1, <2>3, <2>6 DEF Operation!Effect, Operation!RunInv, Operation!Processes,
       Operation!Runs
  <2>8. Operation!RunInv(r)'
    BY <2>1, <2>2, <2>4, <2>5, <2>6, <2>7 DEF Operation!RunInv, Operation!NoResult
  <2>9. t.status = "succeeded" => process[r].exit = "accepted"
    BY <2>1, <2>3, <2>6 DEF Operation!RunInv
  <2> QED
    BY <2>1, <2>2, <2>3, <2>8, <2>9, OperationKept
<1>7. ASSUME NEW r \in Roots, Operation!Die(r)
      PROVE  OperationCore'
  <2> DEFINE u == [Operation!Idle EXCEPT !.scope = run[r].scope]
  <2>1. /\ run' = [run EXCEPT ![r] = u] /\ run[r].at # "idle" /\ bound' = bound
        /\ process' = process /\ result' = result /\ directory' = directory
    BY <1>7 DEF Operation!Die
  <2>2. u \in Operation!Runs /\ u.at = "idle" /\ u.scope = run[r].scope
    <3>1. run[r].scope \in {"read-only", "owned-local"}
      BY DEF Operation!Runs
    <3>2. Operation!Idle \in Operation!Runs /\ Operation!Idle.at = "idle"
      BY DEF Operation!Runs, Operation!Idle
    <3> QED
      BY <3>1, <3>2 DEF Operation!Runs
  <2>3. run'[r] = u /\ Operation!RunInv(r)
    BY <2>1
  <2> HIDE DEF u
  <2>4. Operation!RunInv(r)'
    BY <2>1, <2>2, <2>3 DEF Operation!RunInv
  <2> QED
    <3>1. /\ directory' = [directory EXCEPT ![r] = directory[r]]
          /\ process' = [process EXCEPT ![r] = process[r]]
          /\ result' = [result EXCEPT ![r] = result[r]]
          /\ directory[r] \in {"absent", "request", "result"}
          /\ process[r] \in Operation!Processes /\ result[r] \in Operation!Results
          /\ result[r].status = "succeeded" => process[r].exit = "accepted"
      BY <2>1, OperationSame
    <3>2. run' = [run EXCEPT ![r] = u] /\ bound' = bound
      BY <2>1
    <3> HIDE DEF OperationCore, u
    <3> QED
      BY <2>2, <2>4, <3>1, <3>2, OperationKept
<1> QED
  BY <1>1, <1>2, <1>3, <1>4, <1>5, <1>6, <1>7 DEF Operation!Next

-------------------------------------------------------------------------------
\* Work is collected, handed over and recorded as what was really done: what
\* is advised can be done and what is accepted is complete; what is integrated
\* was claimed and verified; a process is started once and its effects are
\* handed on (work_phase.py, work_io.py, operation_io.py).
THEOREM WorkIsSound == LedgerSpec => WorkSound
<1> DEFINE Core == PhaseCore /\ Unit!UnitInv /\ OperationCore
<1>1. LedgerInit => Core
  <2>1. Phase!Init => PhaseCore
    BY DEF PhaseCore, Phase!Init, Phase!TypeOK, Phase!StaysReadable, Phase!Readable,
       Phase!AcceptedWhole, Phase!AcceptedLast
  <2> QED
    BY <2>1, UnitInit, OperationInit DEF LedgerInit
<1>2. Core /\ [LedgerNext]_ledgerVars => Core'
  <2> SUFFICES ASSUME Core, [LedgerNext]_ledgerVars
               PROVE  Core'
    OBVIOUS
  <2>1. UNCHANGED phaseVars => PhaseCore'
    BY DEF phaseVars, PhaseCore, Phase!TypeOK, Phase!StaysReadable, Phase!Readable,
       Phase!AcceptedWhole, Phase!AcceptedLast, Phase!AllPass, Phase!Mandatory,
       Phase!PendingItems, Phase!Reviewed
  <2>2. UNCHANGED unitVars => Unit!UnitInv'
    BY DEF unitVars, Unit!UnitInv, Unit!UnitSound, Unit!TypeOK
  <2>3. UNCHANGED operationVars => OperationCore'
    BY DEF operationVars, OperationCore, Operation!RunInv
  <2>4. /\ UNCHANGED phaseVars \/ Phase!Next
        /\ UNCHANGED unitVars \/ Unit!Next
        /\ UNCHANGED operationVars \/ Operation!Next
    BY DEF LedgerNext, ledgerVars, workVars
  <2> QED
    BY <2>1, <2>2, <2>3, <2>4, PhaseStep, UnitStep, OperationStep
<1>3. Core => Phase!PhaseInv /\ Unit!UnitInv /\ Operation!OperationInv
  BY AdviceFollows, OperationFollows DEF PhaseCore, Phase!PhaseInv, Phase!PhaseSound
<1>4. Core /\ [LedgerNext]_ledgerVars => [Unit!StepSound]_unitVars
  BY UnitStepSound DEF LedgerNext, ledgerVars, workVars
<1>5. LedgerSpec => []Core
  BY <1>1, <1>2, PTL DEF LedgerSpec
<1>6. LedgerSpec => [][Unit!StepSound]_unitVars
  BY <1>4, <1>5, PTL DEF LedgerSpec
<1>7. /\ Core => (scene = "phase" => Phase!PhaseInv)
      /\ Core => (scene = "unit" => Unit!UnitInv)
      /\ Core => (scene = "operation" => Operation!OperationInv)
  BY <1>3
<1> QED
  BY <1>5, <1>6, <1>7, PTL DEF WorkSound
===============================================================================
