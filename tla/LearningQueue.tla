----------------------------- MODULE LearningQueue -----------------------------
(***************************************************************************)
(* The learning queue (learning_queue.py): one SQLite database with a row  *)
(* for each candidate improvement and the events that made it so.  Owners  *)
(* read a candidate, send an event for the revision they read, and send it *)
(* again when the answer was lost; others page through what is due.  A     *)
(* transaction is one step: BEGIN IMMEDIATE admits one writer at a time,   *)
(* and a failed one is rolled back.                                        *)
(*                                                                         *)
(* Of the evidence an event carries, the model keeps whether there is a    *)
(* measurement in it; the other proofs a state requires are data.          *)
(***************************************************************************)
EXTENDS Naturals, FiniteSets

CONSTANTS
  Candidates,     \* their identities, in the order of the pages: numbers
  Kin,            \* those of the objective and family that is asked for
  Ids,            \* event identities: numbers, as many as may be committed
  MaxPending      \* events an owner may have sent without an answer

VARIABLES
  row,            \* row[c]: candidate_current
  history,        \* queue_events
  pending,        \* events sent and not known to be answered
  pager           \* one reader of the due list

vars == <<row, history, pending, pager>>

States == {"discovered", "prepared", "evaluated", "active-bounded", "measured",
           "deferred", "retired", "superseded"}
Triggers == {"now", "later"}
Nobody == 0
NoRow == [revision |-> 0, state |-> "none", measured |-> FALSE, successor |-> Nobody,
          trigger |-> "later", event |-> 0]
Resting == [at |-> "idle", frontier |-> <<>>, got |-> {}, after |-> 0]

Init ==
  /\ row = [c \in Candidates |-> NoRow]
  /\ history = {}
  /\ pending = {}
  /\ pager = Resting

-------------------------------------------------------------------------------
(* One event *)

Exits == {"deferred", "retired", "superseded"}

\* _normalize_event: a measurement and a successor where there must be one,
\* and not where there can be none.
Normal(e) ==
  /\ e.state = "measured" => e.measured
  /\ e.measured => e.state \in Exits \cup {"measured"}
  /\ (e.successor # Nobody) = (e.state = "superseded")
  /\ e.successor # e.candidate

LegalTransitions ==
  [s \in States \cup {"none"} |->
     CASE s = "none" -> {"discovered"}
       [] s = "discovered" -> {"prepared"} \cup Exits
       [] s = "prepared" -> {"evaluated"} \cup Exits
       [] s = "evaluated" -> {"active-bounded"} \cup Exits
       [] s = "active-bounded" -> {"measured"} \cup Exits
       [] s = "measured" -> {"prepared"} \cup Exits
       [] s = "deferred" -> States \ {"discovered", "deferred"}
       [] OTHER -> {}]

Allowed(e) ==
  LET from == row[e.candidate].state IN
  IF e.metadata THEN from = e.state ELSE e.state \in LegalTransitions[from]

\* _validate_identity_continuity: leaving a stage keeps its evidence, and a
\* measurement is introduced by the state measured only.
Continues(e) ==
  LET prior == row[e.candidate] IN
  /\ e.metadata => e.measured = prior.measured /\ e.successor = prior.successor
  /\ e.state \in Exits /\ prior.measured => e.measured
  /\ e.measured /\ ~prior.measured => e.state = "measured"

\* Fault: only the candidate itself is refused as its successor.
NoCycleOfOne(e) == e.successor # e.candidate

\* _validate_graph_references: the walk from the successor meets nobody twice.
NoCycle(e) ==
  LET next == [c \in Candidates |-> IF c = e.candidate THEN e.successor ELSE row[c].successor]
      after[n \in 0..Cardinality(Candidates)] ==
        IF n = 0 THEN e.successor
        ELSE IF after[n - 1] = Nobody THEN Nobody ELSE next[after[n - 1]]
  IN \A n \in DOMAIN after : after[n] # e.candidate

References(e) ==
  e.successor # Nobody =>
    /\ row[e.successor].revision > 0
    /\ (e.successor \in Kin) = (e.candidate \in Kin)
    /\ NoCycle(e)

Fresh(e) == e.expect = row[e.candidate].revision

Accepted(e) == Fresh(e) /\ Allowed(e) /\ Normal(e) /\ Continues(e) /\ References(e)

Recorded(e) == \E past \in history : past.id = e.id

-------------------------------------------------------------------------------
(* Owners *)

\* An owner reads a candidate and prepares an event for the revision it has.
\* What the event says is drawn when it is first looked at.
Prepare ==
  /\ Cardinality(pending) < MaxPending
  /\ \E c \in Candidates, i \in Ids :
       /\ \A e \in pending : e.id # i
       /\ \A j \in Ids : j < i => \E e \in history \cup pending : e.id = j
       /\ ~Recorded([id |-> i])
       /\ pending' = pending \cup {[id |-> i, candidate |-> c, expect |-> row[c].revision]}
  /\ UNCHANGED <<row, history, pager>>

Contents ==
  [state : States, metadata : BOOLEAN, measured : BOOLEAN, successor : Candidates \cup {Nobody},
   trigger : Triggers]

\* The event a prepared one becomes with its contents.
Said(e, content) ==
  [id |-> e.id, candidate |-> e.candidate, expect |-> e.expect, state |-> content.state,
   metadata |-> content.metadata, measured |-> content.measured,
   successor |-> content.successor]

\* The event is on record: its stored result is given again.
Repeats(e) == Recorded(e)

\* upsert_candidate.  The answer may be lost, or say that the commit is not
\* known; the owner keeps the event then and may send it again.  A reader who came to
\* the end has used what he read before the next commit.
Upsert(e) ==
  /\ e \in pending
  /\ \E answered \in BOOLEAN : pending' = IF answered THEN pending \ {e} ELSE pending
  /\ \/ /\ ~Repeats(e)
        /\ \E content \in Contents :
             /\ Accepted(Said(e, content))
             /\ history' = history \cup {[id |-> e.id, candidate |-> e.candidate,
                                          expect |-> e.expect, state |-> content.state]}
             /\ row' = [row EXCEPT ![e.candidate] =
                  [revision |-> row[e.candidate].revision + 1, state |-> content.state,
                   measured |-> content.measured, successor |-> content.successor,
                   trigger |-> content.trigger, event |-> e.id]]
        /\ pager' = IF pager.at = "done" THEN Resting ELSE pager
     \/ UNCHANGED <<row, history, pager>>

-------------------------------------------------------------------------------
(* The reader of the due list: pages of one match *)

Due(c) ==
  /\ row[c].revision > 0
  /\ c \in Kin
  /\ row[c].state \notin {"retired", "superseded"}
  /\ row[c].trigger = "now"

\* _projection_snapshot_sha256
Frontier == [c \in Candidates |-> row[c].revision]

\* The page after the candidate of the cursor, in the order of their ids.
Page(got, after) ==
  LET later == {c \in Candidates : Due(c) /\ c > after}
      first == {c \in later : \A d \in later : c <= d} IN
  /\ pager' = [at |-> IF Cardinality(later) > 1 THEN "more" ELSE "done",
               frontier |-> Frontier, got |-> got \cup first,
               after |-> IF later = {} THEN after ELSE CHOOSE c \in first : TRUE]
  /\ UNCHANGED <<row, history, pending>>

\* find_due without a cursor, and with the cursor of the page before: bound to
\* the whole projection, and refused when that has changed.
FindDue ==
  IF pager.at # "more" THEN Page({}, 0)
  ELSE IF pager.frontier = Frontier /\ Due(pager.after) THEN Page(pager.got, pager.after)
  ELSE pager' = Resting /\ UNCHANGED <<row, history, pending>>

Next ==
  \/ Prepare
  \/ \E e \in pending : Upsert(e)
  \/ FindDue

Spec == Init /\ [][Next]_vars
-------------------------------------------------------------------------------
\* Every variable has its type.
TypeOK ==
  /\ \A c \in Candidates : /\ row[c].revision \in Nat
                           /\ row[c].state \in States \cup {"none"}
                           /\ row[c].measured \in BOOLEAN
                           /\ row[c].successor \in Candidates \cup {Nobody}
  /\ {e.id : e \in history} \subseteq Ids
  /\ Cardinality(pending) <= MaxPending
  /\ pager.at \in {"idle", "more", "done"} /\ pager.got \subseteq Candidates

EventsOf(c) == {e \in history : e.candidate = c}

\* The queue is sound, however owners race and send again:
\* an event is recorded once, each against the revision its owner read, and
\* the row says what the last one said;
\* a measurement was introduced by an event of the state measured;
\* no candidate is, in the end, its own successor;
\* and a reader who came to the end of the pages has all that is due, if the
\* projection is still the one of his first page.
QueueSound ==
  /\ TypeOK
  /\ \A e, f \in history : e.id = f.id => e = f
  /\ \A c \in Candidates :
       /\ {e.expect : e \in EventsOf(c)} = 0..(row[c].revision - 1)
       /\ Cardinality(EventsOf(c)) = row[c].revision
       /\ \A e \in EventsOf(c) : e.expect + 1 = row[c].revision => e.state = row[c].state
       /\ row[c].measured => \E e \in EventsOf(c) : e.state = "measured"
       /\ \A d \in Candidates : row[c].successor = d => row[d].successor # c
  /\ pager.at = "done" /\ pager.frontier = Frontier => pager.got = {c \in Candidates : Due(c)}

-------------------------------------------------------------------------------
(* Why QueueSound holds                                                    *)

Rows == [revision : Nat, state : States \cup {"none"}, measured : BOOLEAN,
         successor : Candidates \cup {Nobody}, trigger : Triggers, event : Nat]
Sent == [id : Ids, candidate : Candidates, expect : Nat]
Committed == [id : Ids, candidate : Candidates, expect : Nat, state : States]

QueueTypes ==
  /\ row \in [Candidates -> Rows]
  /\ history \in SUBSET Committed
  /\ pending \in SUBSET Sent /\ IsFiniteSet(pending) /\ Cardinality(pending) <= MaxPending
  /\ pager.at \in {"idle", "more", "done"}
  /\ pager.got \subseteq Candidates /\ pager.after \in Nat
  /\ pager.at # "idle" => pager.frontier \in [Candidates -> Nat]

\* The events of a candidate are its revisions, and its row is the last of them.
RowKnown(c) ==
  /\ IsFiniteSet(EventsOf(c)) /\ Cardinality(EventsOf(c)) = row[c].revision
  /\ {e.expect : e \in EventsOf(c)} = 0..(row[c].revision - 1)
  /\ \A e \in EventsOf(c) : e.expect + 1 = row[c].revision => e.state = row[c].state
  /\ row[c].measured => \E e \in EventsOf(c) : e.state = "measured"
  /\ \A d \in Candidates : row[c].successor = d => row[d].successor # c

\* While nothing was committed since its first page, a reader has what is due up
\* to its cursor, and all of it at the end.
PagerKnown ==
  /\ pager.at # "idle" => \A c \in Candidates : pager.frontier[c] <= row[c].revision
  /\ pager.frontier = Frontier =>
       /\ pager.at = "more" =>
            pager.got = {c \in Candidates : Due(c) /\ c <= pager.after}
       /\ pager.at = "done" => pager.got = {c \in Candidates : Due(c)}

QueueInv ==
  /\ QueueTypes
  /\ \A e, f \in history : e.id = f.id => e = f
  /\ \A c \in Candidates : RowKnown(c)
  /\ PagerKnown
===============================================================================
