------------------------- MODULE CorrectionReturn --------------------------
(***************************************************************************)
(* How a correction that a Web judgment asked for comes back to the        *)
(* operation it came from (web_judgments.py and engine.py,                 *)
(* _web_correction_boundary): the dependent operation is parked on a stack *)
(* of frames, a governed operation resolves the correction, its own        *)
(* reviewed cycle completes, and only then the parent goes on.  A          *)
(* resolution may be corrected itself, at any depth.  Left out: the        *)
(* adoption of a policy, the only way an operation is put aside without a  *)
(* frame (ReviewedTask).                                                   *)
(***************************************************************************)
EXTENDS Naturals, FiniteSets, Sequences

CONSTANTS Ops, Corrections, MaxSources, MaxCrashes

VARIABLES
    op,          \* the operations: what they are for and how far they are
    correction,  \* the corrections: their parents and their resolutions
    current,     \* the operation of the task's cycle, 0 for none
    frames,      \* the parked operations, the last one on top
    source,      \* the version of the task's sources
    pc,          \* where the loop of the task is
    crashes

vars == <<op, correction, current, frames, source, pc, crashes>>

Kinds == {"plan", "work", "resolve"}
NoOp == [status |-> "none", kind |-> "work", target |-> 0, source |-> 0]
NoCorrection == [status |-> "none", kind |-> "web", parent |-> 0, resolution |-> 0,
                 receipt |-> FALSE]

Init ==
    /\ op = [o \in Ops |-> NoOp]
    /\ correction = [c \in Corrections |-> NoCorrection]
    /\ current = 0
    /\ frames = <<>>
    /\ source = 1
    /\ pc = "boundary"
    /\ crashes = 0

-----------------------------------------------------------------------------
(* The frontier: what has not returned                                     *)

Opened == {c \in Corrections : correction[c].status # "none"}
Web == {c \in Opened : correction[c].kind = "web"}
Pending == {c \in Opened : correction[c].status = "pending"}

\* The corrections of the operation that resolved c.
Children(c) == {d \in Opened : /\ correction[c].resolution # 0
                               /\ correction[d].parent = correction[c].resolution}

\* c with every correction that was met on the way of its resolution.
Lineage(c) ==
    LET grow[n \in Nat] == IF n = 0 THEN {c}
                           ELSE grow[n - 1] \cup UNION {Children(d) : d \in grow[n - 1]}
    IN grow[Cardinality(Corrections)]

\* A review of the resolution's own outcome is still pending.
OwnPending(o) == \E d \in Pending : correction[d].kind = "applied" /\ correction[d].parent = o

\* A Web correction needs its receipt and the completed cycle of its resolution.
Closed(c) ==
    /\ correction[c].status = "resolved"
    /\ op[correction[c].resolution].status = "complete"
    /\ correction[c].kind = "web" =>
           correction[c].receipt /\ ~OwnPending(correction[c].resolution)

Returned(c) == \A d \in Lineage(c) : Closed(d)

Frontier == {c \in Web : ~Returned(c)}
Blocked == {correction[c].parent : c \in Frontier}

\* Reviews of applied knowledge count where a correction depends on them.
Linked == UNION {Lineage(c) : c \in Web}
HasPendingReturn(o) == \E c \in Linked : correction[c].parent = o /\ ~Returned(c)

-----------------------------------------------------------------------------
(* Receipts                                                                *)

\* The chain from an operation that completed, through the reviews it resolved,
\* to the Web correction it returns to, if nothing on the way is pending.
ReturnsTo(o) ==
    LET up[n \in Nat] ==
          \* the operation met after n reviews, 0 when the chain ended
          IF n = 0 THEN o
          ELSE LET p == up[n - 1] IN
               IF \/ p = 0
                  \/ op[p].kind # "resolve"
                  \/ OwnPending(p)
                  \/ p \in Blocked
                  \/ correction[op[p].target].kind = "web"
                 THEN 0 ELSE correction[op[p].target].parent
    IN {op[up[n]].target : n \in {m \in 0 .. Cardinality(Ops) :
            /\ up[m] # 0
            /\ op[up[m]].kind = "resolve"
            /\ op[up[m]].status \in {"learned", "complete"}
            /\ ~OwnPending(up[m])
            /\ up[m] \notin Blocked
            /\ correction[op[up[m]].target].kind = "web"
            /\ ~HasPendingReturn(up[m])}}

Confirmed(corrections, list) == [c \in Corrections |->
    IF c \in corrections THEN [list[c] EXCEPT !.receipt = TRUE] ELSE list[c]]

\* Receipts an interrupted process left out, from completed resolutions only.
Recoverable ==
    {c \in Frontier : /\ correction[c].status = "resolved"
                      /\ ~correction[c].receipt
                      /\ op[correction[c].resolution].status = "complete"
                      /\ correction[c].resolution \notin Blocked
                      /\ ~HasPendingReturn(correction[c].resolution)
                      /\ c \in ReturnsTo(correction[c].resolution)}

RecoverReviewedReturns ==
    /\ pc = "boundary"
    /\ Recoverable # {}
    /\ correction' = Confirmed(Recoverable, correction)
    /\ UNCHANGED <<op, current, frames, source, pc, crashes>>

-----------------------------------------------------------------------------
(* The boundary between cycles                                             *)

Started(o) == op[o].status \in {"executed", "learned", "complete"}
Finished(o) == op[o].status \in {"complete", "superseded"}
FrameOps == {frames[i].op : i \in DOMAIN frames}

\* A current operation that did not start is dropped when the sources change.
SourceBoundary ==
    /\ pc = "boundary"
    /\ current # 0
    /\ op[current].source # source
    /\ ~Started(current)
    /\ op' = [op EXCEPT ![current].status = "superseded"]
    /\ current' = 0
    /\ UNCHANGED <<correction, frames, source, pc, crashes>>

SourcesSettled == current # 0 => op[current].source = source \/ Started(current)

Parked == IF current \in Blocked
            THEN Append(frames, [op |-> current, source |-> op[current].source])
            ELSE frames

\* A resolution at work that is neither current nor parked is taken up again.
Reattachable == {correction[c].resolution : c \in Frontier}
                \ ({0} \cup Blocked \cup FrameOps \cup {o \in Ops : Finished(o)})

\* Fault: only the pending corrections of an operation hold it.
WaitsForPending(o) == \E c \in Pending : correction[c].parent = o

\* A plan waits for every correction, other work for its own.
Waits(o) == o \in Blocked \/ (op[o].kind = "plan" /\ Frontier # {})

\* A parked operation that never started is not taken up under newer sources.
Outdated(f) == ~Started(f.op) /\ (f.source # source \/ Finished(f.op))

WebCorrectionBoundary ==
    /\ pc = "boundary"
    /\ SourcesSettled
    /\ Recoverable = {}
    /\ pc' = "work"
    /\ LET list == Parked
           held == IF current \in Blocked THEN 0 ELSE current IN
       IF held # 0 THEN current' = held /\ frames' = list /\ UNCHANGED op
       ELSE IF Reattachable \ {current} # {}
         THEN current' \in Reattachable \ {current} /\ frames' = list /\ UNCHANGED op
       ELSE IF list # <<>> /\ ~Waits(list[Len(list)].op)
         THEN LET f == list[Len(list)] IN
              /\ frames' = SubSeq(list, 1, Len(list) - 1)
              /\ current' = IF Outdated(f) THEN 0 ELSE f.op
              /\ op' = IF Outdated(f) THEN [op EXCEPT ![f.op].status = "superseded"] ELSE op
       ELSE current' = 0 /\ frames' = list /\ UNCHANGED op
    /\ UNCHANGED <<correction, source, crashes>>

-----------------------------------------------------------------------------
(* One cycle of the current operation                                      *)

ToBoundary == pc' = "boundary"

\* A new operation, for what the model chose: a resolution names a pending
\* correction.  A process that died while it closed a cycle left it current.
Propose ==
    /\ pc = "work"
    /\ current # 0 => op[current].status = "complete"
    /\ \E o \in Ops, k \in Kinds :
          /\ op[o].status = "none"
          /\ \A p \in Ops : p < o => op[p].status # "none"
          /\ \E c \in (IF k = "resolve" THEN Pending ELSE {0}) :
                op' = [op EXCEPT ![o] = [status |-> "proposed", kind |-> k, target |-> c,
                                         source |-> source]]
          /\ current' = o
    /\ UNCHANGED <<correction, frames, source, pc, crashes>>

NextCorrection == {c \in Corrections : /\ c \notin Opened
                                       /\ \A d \in Corrections : d < c => d \in Opened}

Open(kind, o) ==
    \E c \in NextCorrection :
        correction' = [correction EXCEPT ![c] =
            [NoCorrection EXCEPT !.status = "pending", !.kind = kind, !.parent = o]]

\* The judgment of an exchange, of this cycle or of an earlier one whose binding
\* changed, asks for a correction: the cycle is left.
JudgeExchange ==
    /\ pc = "work"
    /\ \E o \in Ops :
          /\ op[o].status # "none"
          /\ o = current \/ Started(o)
          /\ o \notin Blocked
          /\ Open("web", o)
    /\ ToBoundary
    /\ UNCHANGED <<op, current, frames, source, crashes>>

Execute ==
    /\ pc = "work"
    /\ current # 0
    /\ op[current].status = "proposed"
    /\ op[current].source = source
    /\ ~Waits(current)
    /\ LET c == op[current].target IN
       IF op[current].kind = "resolve"
         THEN /\ correction[c].status = "pending"
              /\ correction' = [correction EXCEPT ![c].status = "resolved",
                                                  ![c].resolution = current]
         ELSE UNCHANGED correction
    /\ op' = [op EXCEPT ![current].status = "executed"]
    /\ UNCHANGED <<current, frames, source, pc, crashes>>

\* Sources that changed after the review ask for another proposal.
Revise ==
    /\ pc = "work"
    /\ current # 0
    /\ op[current].status = "proposed"
    /\ op[current].source # source
    /\ op' = [op EXCEPT ![current].status = "superseded"]
    /\ current' = 0
    /\ ToBoundary
    /\ UNCHANGED <<correction, frames, source, crashes>>

\* The result is judged and learned from; the review of what was applied may ask
\* for a correction of its own.
Learn ==
    /\ pc = "work"
    /\ current # 0
    /\ op[current].status = "executed"
    /\ current \notin Blocked
    /\ op' = [op EXCEPT ![current].status = "learned"]
    /\ UNCHANGED correction \/ Open("applied", current)
    /\ UNCHANGED <<current, frames, source, pc, crashes>>

\* The receipt of what the operation resolved, before its cycle is closed.
ConfirmReviewedOutcomes ==
    /\ pc = "work"
    /\ current # 0
    /\ op[current].status = "learned"
    /\ correction' = Confirmed(ReturnsTo(current), correction)
    /\ pc' = "close"
    /\ UNCHANGED <<op, current, frames, source, crashes>>

CloseCycle ==
    /\ pc = "close"
    /\ op' = [op EXCEPT ![current].status = "complete"]
    /\ pc' = "advance"
    /\ UNCHANGED <<correction, current, frames, source, crashes>>

Advance ==
    /\ pc = "advance"
    /\ current' = 0
    /\ ToBoundary
    /\ UNCHANGED <<op, correction, frames, source, crashes>>

\* A cycle is left at any time: a stop, a held decision, a failed call.
Leave ==
    /\ pc = "work"
    /\ ToBoundary
    /\ UNCHANGED <<op, correction, current, frames, source, crashes>>

NewSource ==
    /\ source < MaxSources
    /\ source' = source + 1
    /\ UNCHANGED <<op, correction, current, frames, pc, crashes>>

Crash ==
    /\ pc # "boundary"
    /\ crashes < MaxCrashes
    /\ crashes' = crashes + 1
    /\ pc' = "boundary"
    /\ UNCHANGED <<op, correction, current, frames, source>>

Next ==
    \/ RecoverReviewedReturns \/ SourceBoundary \/ WebCorrectionBoundary
    \/ Propose \/ JudgeExchange \/ Execute \/ Revise \/ Learn
    \/ ConfirmReviewedOutcomes \/ CloseCycle \/ Advance \/ Leave \/ NewSource \/ Crash

Spec == Init /\ [][Next]_vars

-----------------------------------------------------------------------------
(* What must hold                                                          *)

\* No operation is forgotten: one that is not over is current or parked, and has
\* one place.
OnePlace ==
    /\ \A i, j \in DOMAIN frames : i # j => frames[i].op # frames[j].op
    /\ current \notin FrameOps
    /\ \A o \in Ops : op[o].status \in {"proposed", "executed", "learned"} =>
          o = current \/ o \in FrameOps

\* A receipt names the reviewed resolution of its correction, and that one had no
\* review of its own left.
ReceiptIsEarned ==
    \A c \in Opened : correction[c].receipt =>
        /\ correction[c].status = "resolved"
        /\ op[correction[c].resolution].status \in {"learned", "complete"}
        /\ op[correction[c].resolution].target = c

\* Every correction on the frontier that is resolved, with nothing left on its
\* way, is confirmed by the time work goes on.
NoneStaysOpen ==
    pc = "work" => \A c \in Web :
        (\A d \in Lineage(c) : /\ correction[d].status = "resolved"
                               /\ op[correction[d].resolution].status = "complete") =>
            Returned(c)

\* Work goes on only on an operation whose Web corrections have all come back:
\* resolved by a cycle that completed, with every correction met on the way.
ParentWaits ==
    pc # "boundary" /\ current # 0 =>
        \A c \in Web : correction[c].parent = current =>
            \A d \in Lineage(c) : /\ correction[d].status = "resolved"
                                  /\ op[correction[d].resolution].status = "complete"

ReturnSound == OnePlace /\ ReceiptIsEarned /\ NoneStaysOpen /\ ParentWaits
=============================================================================
