---------------------------- MODULE AppendOnlyLog ----------------------------
(***************************************************************************)
(* What the objective ledger and the supervisor status each promise to     *)
(* those who read them: a log that only grows, one accepted entry at a     *)
(* time and no identity twice, and a view that shows a prefix of it and    *)
(* only ever moves to the whole log.                                       *)
(***************************************************************************)
EXTENDS Naturals, Sequences

CONSTANT Entry       \* what an entry may be: a record with a field id

VARIABLES
  log,               \* the authoritative entries
  shown              \* how many of them the view shows

Init == log = <<>> /\ shown = 0

Commit ==
  /\ Len(log') = Len(log) + 1
  /\ LET e == log'[Len(log')]
     IN /\ e \in Entry
        /\ \A i \in DOMAIN log : log[i].id # e.id
        /\ log' = Append(log, e)
  /\ shown' = shown

Show == shown' = Len(log) /\ log' = log

Spec == Init /\ [][Commit \/ Show]_<<log, shown>>
==============================================================================
