------------------------------- MODULE ReviewPages -------------------------------
(***************************************************************************)
(* A review of a source (bounded_judgments.review_proposal): of the whole, *)
(* when it fits, and otherwise of pages, whose records are fragments of    *)
(* the source.  A page whose response is cut off is asked again in parts.  *)
(* A review that was interrupted takes the pages that have a response, and *)
(* makes pages of what they leave of the source, which need not be the     *)
(* pages there were.                                                       *)
(*                                                                         *)
(* The source is a text; a record is <<first, last>>, a page a sequence of *)
(* records.  One request is the subject of ModelJudgment.                  *)
(***************************************************************************)
EXTENDS Naturals, Sequences, FiniteSets

CONSTANTS
  Length,         \* of the source
  Capacities,     \* what may fit into one request
  MaxCrashes

VARIABLES
  capacity,       \* one of Capacities
  asked,          \* bounded_model_call: the pages, and what came of each
  run,            \* the review: pages to be made, and the records reviewed
  coverage,       \* bounded_review_coverage: the records reviewed, once complete
  crashes

vars == <<capacity, asked, run, coverage, crashes>>

Source == <<1, Length>>
Root == <<>>
Idle == [at |-> "idle", root |-> FALSE, todo |-> <<>>, covered |-> {}]

Init ==
  /\ capacity \in Capacities
  /\ asked = {} /\ run = Idle /\ coverage = {} /\ crashes = 0

Text(record) == record[1]..record[2]
Records(page) == {page[i] : i \in DOMAIN page}
TextOf(records) == UNION {Text(record) : record \in records}
Size(page) == Cardinality(TextOf(Records(page)))
Fits(page) == Size(page) <= capacity

\* _split: the halves of a text.
Pieces(record) ==
  LET middle == (record[1] + record[2]) \div 2 IN
  <<<<record[1], middle>>, <<middle + 1, record[2]>>>>

\* _pages: as many records as fit make the next page; one that does not is split.
Pages(records) ==
  LET Split1(list) == IF Size(<<Head(list)>>) > capacity
                      THEN Pieces(Head(list)) \o Tail(list) ELSE list
      next[list \in Seq(Text(Source) \X Text(Source))] ==
        IF list = <<>> THEN <<>>
        ELSE IF Split1(list) # list THEN next[Split1(list)]
        ELSE LET best == CHOOSE n \in DOMAIN list :
                           /\ Fits(SubSeq(list, 1, n))
                           /\ n = Len(list) \/ ~Fits(SubSeq(list, 1, n + 1))
             IN <<SubSeq(list, 1, best)>> \o next[SubSeq(list, best + 1, Len(list))]
  IN next[records]

\* _remaining_review_records: what the records leave of the source, in order.
\* Fault: only records, and not their texts, are left out.
RemainingRecords(covered) == IF Source \in covered THEN <<>> ELSE <<Source>>
Remaining(covered) ==
  LET left == Text(Source) \ TextOf(covered)
      gaps[from \in 1..(Length + 1)] ==
        IF \A n \in left : n < from THEN <<>>
        ELSE LET first == CHOOSE n \in left : n >= from /\ \A m \in left : m >= from => n <= m
                 last == CHOOSE n \in first..Length :
                           first..n \subseteq left /\ (n = Length \/ n + 1 \notin left)
             IN <<<<first, last>>>> \o gaps[last + 1]
  IN gaps[1]

Saved(page) == {a \in asked : a.page = page}
Outcome(page) == (CHOOSE a \in Saved(page) : TRUE).outcome
\* _review_owner: pages that were cut off are left out.
Owned == {a.page : a \in {a \in asked : a.page # Root /\ a.outcome # "short"}}

\* review_proposal, _resume_review_pages
Begin ==
  /\ run = Idle /\ coverage = {}
  /\ \A page \in Owned : Outcome(page) = "whole"
  /\ LET covered == UNION {Records(page) : page \in Owned} IN
     IF covered # {}
     THEN run' = [at |-> "paging", root |-> FALSE, todo |-> Pages(Remaining(covered)),
                  covered |-> covered]
     ELSE IF Fits(<<Source>>)
     THEN run' = [at |-> "paging", root |-> TRUE, todo |-> <<Root>>, covered |-> {}]
     ELSE run' = [at |-> "paging", root |-> FALSE, todo |-> Pages(<<Source>>), covered |-> {}]
  /\ UNCHANGED <<capacity, asked, coverage, crashes>>

Page == Head(run.todo)
Paging == run.at = "paging" /\ run.todo # <<>>

Ask ==
  /\ Paging /\ Saved(Page) = {}
  /\ asked' = asked \cup {[page |-> Page, outcome |-> "started"]}
  /\ run' = [run EXCEPT !.at = "waiting"]
  /\ UNCHANGED <<capacity, coverage, crashes>>

Respond ==
  /\ run.at = "waiting"
  /\ \E outcome \in {"whole", "short"} :
       asked' = (asked \ Saved(Page)) \cup {[page |-> Page, outcome |-> outcome]}
  /\ run' = [run EXCEPT !.at = "paging"]
  /\ UNCHANGED <<capacity, coverage, crashes>>

Leaf ==
  /\ Paging /\ Saved(Page) # {} /\ Outcome(Page) = "whole"
  /\ run' = [run EXCEPT !.todo = Tail(@),
               !.covered = @ \cup IF Page = Root THEN {Source} ELSE Records(Page)]
  /\ UNCHANGED <<capacity, asked, coverage, crashes>>

\* _smaller_parts, as pages
Parts(page) ==
  IF Len(page) > 1
  THEN <<SubSeq(page, 1, Len(page) \div 2), SubSeq(page, Len(page) \div 2 + 1, Len(page))>>
  ELSE <<<<Pieces(page[1])[1]>>, <<Pieces(page[1])[2]>>>>

\* A page that cannot be divided ends the review.
Split ==
  /\ Paging /\ Saved(Page) # {} /\ Outcome(Page) = "short"
  /\ LET page == IF Page = Root THEN <<Source>> ELSE Page IN
     run' = IF Size(page) = 1 THEN Idle ELSE [run EXCEPT !.todo = Parts(page) \o Tail(@)]
  /\ UNCHANGED <<capacity, asked, coverage, crashes>>

\* What was sent and never answered is not sent again.
Hold ==
  /\ Paging /\ Saved(Page) # {} /\ Outcome(Page) = "started"
  /\ run' = Idle
  /\ UNCHANGED <<capacity, asked, coverage, crashes>>

Finish ==
  /\ run.at = "paging" /\ run.todo = <<>>
  /\ coverage' = run.covered
  /\ run' = Idle
  /\ UNCHANGED <<capacity, asked, crashes>>

Crash ==
  /\ run # Idle /\ crashes < MaxCrashes
  /\ crashes' = crashes + 1
  /\ run' = Idle
  /\ UNCHANGED <<capacity, asked, coverage>>

Next == Begin \/ Ask \/ Respond \/ Leaf \/ Split \/ Hold \/ Finish \/ Crash

Spec == Init /\ [][Next]_vars

-------------------------------------------------------------------------------
\* Every variable has its type.
TypeOK ==
  /\ capacity \in Capacities
  /\ \A a \in asked : TextOf(Records(a.page)) \subseteq Text(Source)
  /\ run.at \in {"idle", "paging", "waiting"}

Disjoint(records) == \A r, s \in records : r # s => Text(r) \cap Text(s) = {}

\* A review that is complete has read all of the source, and none of it twice,
\* whatever pages were made of it before each interruption; and what has been
\* reviewed is not sent for review again.
ReviewSound ==
  /\ TypeOK
  /\ Disjoint(run.covered)
  /\ run.at = "waiting" => TextOf(Records(Page)) \cap TextOf(run.covered) = {}
  /\ coverage # {} => Disjoint(coverage) /\ TextOf(coverage) = Text(Source)
===============================================================================
