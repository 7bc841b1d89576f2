------------------------------ MODULE ModelJudgment ------------------------------
(***************************************************************************)
(* One judgment asked of a model (engine._call, disposition_recovery.py,   *)
(* providers.ModelGateway): a request is paid for and may be delivered     *)
(* without its response being seen.  Every request is on record before it  *)
(* is sent, every response before it is looked at.  A response with a      *)
(* defect is answered with feedback, once for each defect.  After an       *)
(* interruption the record alone says what may be sent next.               *)
(*                                                                         *)
(* An input is the sequence of what has been added to the first one: the   *)
(* defects fed back, and Resumed for an explicit resume of the task.       *)
(***************************************************************************)
EXTENDS Naturals, Sequences

CONSTANTS
  Defects,        \* what may be wrong with a response
  MaxBindings,    \* source, policy, owner, lease and settings, as one number
  MaxSends, MaxStops, MaxCrashes

VARIABLES
  binding,
  calls,          \* bounded_model_call, in the order of their creation
  index,          \* the call that stands for the request, and whether it is as referenced
  run,            \* the process: what it does, and the response in its hands
  sends,          \* what was sent: the input, for which call, and the response
  kept,           \* model_response: the sends whose response is on record
  values,         \* the sends whose response was returned as the judgment
  control,        \* running, stopping or stopped
  resumes,        \* what held at each resume
  unresolved,     \* an operation of the task has an unknown effect
  stops, crashes

vars == <<binding, calls, index, run, sends, kept, values, control, resumes, unresolved,
          stops, crashes>>
outside == <<binding, control, resumes, unresolved,
                 stops, crashes>>

Resumed == "resumed"
Responses == {"valid", "truncated", "error", "lost"} \cup Defects
Idle == [at |-> "idle", send |-> 0]

Init ==
  /\ binding = 1 /\ calls = <<>> /\ index = [call |-> 0, exact |-> TRUE] /\ run = Idle
  /\ sends = <<>> /\ kept = {} /\ values = {}
  /\ control = "running" /\ resumes = <<>> /\ unresolved = FALSE /\ stops = 0 /\ crashes = 0

Current == index.call
Call == calls[Current]

\* checkpoint: the call, and the index that refers to it.
Checkpoint(call) ==
  /\ calls' = [calls EXCEPT ![Current] = call]
  /\ index' = [index EXCEPT !.exact = TRUE]

-------------------------------------------------------------------------------
(* What may be sent, by the records: _authenticate *)

\* interrupted_resume: the user stopped the task while the call was open and
\* has resumed it since, with the same binding and no effect unknown.
ExplicitlyResumed(call) ==
  /\ call.end = "interrupted"
  /\ call.resumes < Len(resumes)
  /\ resumes[call.resumes + 1] = [binding |-> call.binding, unresolved |-> FALSE]
  /\ ~unresolved

\* _interrupted_response: complete and matching, and the only one, it is used.
Matching(call) == {s \in kept : sends[s].input = call.input}

\* The lineage of an interrupted call is not ambiguous.
Interrupted(call) == call.send = "dispatching" /\ call.end = "interrupted"
Unambiguous ==
  (\E k \in DOMAIN calls : Interrupted(calls[k])) =>
    \A k, m \in DOMAIN calls : k # m => calls[k].parent # calls[m].parent

\* The request that may follow call, if any.
Continues(call) ==
  \/ call.send = "pending_feedback" /\ call.end \in {"failed", "interrupted"}
  \/ call.send = "failed_response" /\ call.end = "failed"
  \/ /\ Interrupted(call) /\ ExplicitlyResumed(call)
     /\ \A s, t \in Matching(call) : s = t /\ sends[s].response = "valid"
Restorable(call) == Interrupted(call) /\ Matching(call) # {}
NextInput(call) ==
  IF Interrupted(call) /\ ~Restorable(call) THEN Append(call.input, Resumed) ELSE call.input

\* The call is the one the index refers to, of this binding.
Found == Current # 0 /\ index.exact /\ Call.binding = binding /\ Unambiguous

\* The outcome of a call that has one, whatever became of its consumer.
Received(call) == call.send = "succeeded" /\ call.end \in {"succeeded", "failed"}

-------------------------------------------------------------------------------
(* DispositionRecovery.call *)

\* Fault: the defects fed back by earlier calls are forgotten.
InheritedNot(call) == {}
Inherited(call) == call.shapes

NewCall(input, shapes) ==
  [binding |-> binding, input |-> input, shapes |-> shapes, send |-> "not_sent", end |-> "none",
   resumes |-> 0, parent |-> Current, result |-> 0]

\* The call is on record, and the index refers to it, before anything is sent.
Ask ==
  /\ run = Idle /\ control = "running"
  /\ \/ /\ calls = <<>>
        /\ calls' = <<NewCall(<<>>, {})>>
        /\ run' = [Idle EXCEPT !.at = "ready"]
     \/ /\ Found /\ Continues(Call)
        /\ calls' = Append(calls, NewCall(NextInput(Call), Inherited(Call)))
        /\ run' = IF Restorable(Call)
                  THEN [at |-> "restored", send |-> CHOOSE s \in Matching(Call) : TRUE]
                  ELSE [Idle EXCEPT !.at = "ready"]
  /\ index' = [call |-> Len(calls'), exact |-> TRUE]
  /\ UNCHANGED <<sends, kept, values, outside>>

\* A later caller of the same request gets what is on record.
Answer ==
  /\ run = Idle /\ control = "running"
  /\ Found /\ Received(Call)
  /\ values' = values \cup {Call.result}
  /\ UNCHANGED <<calls, index, run, sends, kept, outside>>

\* The call ends with an event; status and outcome go on record with it.
Ends(call, end) == Checkpoint([call EXCEPT !.end = end, !.resumes = Len(resumes)]) /\ run' = Idle

-------------------------------------------------------------------------------
(* engine._call, ModelGateway.generate *)

Stopping == control = "stopping"

\* before_send, and the request itself; nothing is awaited in between.
Send ==
  /\ run.at = "ready" /\ ~Stopping
  /\ Call.binding = binding
  /\ Len(sends) < MaxSends
  /\ Checkpoint([Call EXCEPT !.send = "dispatching"])
  /\ \E response \in Responses :
       sends' = Append(sends, [input |-> Call.input, response |-> response, binding |-> binding,
                               resumes |-> Len(resumes)])
  /\ run' = [at |-> "waiting", send |-> Len(sends) + 1]
  /\ UNCHANGED <<kept, values, outside>>

\* The binding changed, or the correction does not fit: nothing is sent.
Withhold ==
  /\ run.at = "ready" /\ ~Stopping
  /\ Ends(Call, "failed")
  /\ UNCHANGED <<sends, kept, values, outside>>

\* _retain_response: before anything else is done with it.
Retain ==
  /\ run.at = "waiting" /\ sends[run.send].response # "lost"
  /\ kept' = kept \cup {run.send}
  /\ run' = [run EXCEPT !.at = "received"]
  /\ UNCHANGED <<calls, index, sends, values, outside>>

\* Fault: whatever fails may be sent again.
UnseenAsFailed(call) == [call EXCEPT !.send = "failed_response"]
Unseen(call) == call

\* No response, or none that could be retained: what was sent stays unknown.
Lose ==
  /\ run.at = "waiting"
  /\ Ends(Unseen(Call), "failed")
  /\ UNCHANGED <<sends, kept, values, outside>>

Response == sends[run.send].response

\* Nothing but the source and the policy is looked at again.
Accept ==
  /\ run.at \in {"received", "restored"} /\ Response = "valid"
  /\ IF Call.binding = binding
     THEN /\ Checkpoint([Call EXCEPT !.send = "succeeded", !.result = run.send])
          /\ run' = [run EXCEPT !.at = "succeeded"]
     ELSE Ends(Call, "failed")
  /\ UNCHANGED <<sends, kept, values, outside>>

\* The result is on record, or its consumer failed; it is the result anyway.
Return ==
  /\ run.at = "succeeded"
  /\ \/ Ends(Call, "succeeded") /\ values' = values \cup {run.send}
     \/ Ends(Call, "failed") /\ UNCHANGED values
  /\ UNCHANGED <<sends, kept, outside>>

\* rejected: a defect that was fed back before is not fed back again.
Reject ==
  /\ run.at = "received" /\ Response \in Defects
  /\ IF Response \in Call.shapes
     THEN Ends([Call EXCEPT !.send = "held"], "failed")
     ELSE /\ Checkpoint([Call EXCEPT !.send = "pending_feedback", !.input = Append(@, Response),
                                     !.shapes = @ \cup {Response}])
          /\ run' = [Idle EXCEPT !.at = "ready"]
  /\ UNCHANGED <<sends, kept, values, outside>>

\* A response that is an error: the request has had no effect, and may be sent
\* again by a later caller; one that was cut off may not.
Fail ==
  /\ run.at = "received" /\ Response \in {"error", "truncated"}
  /\ Ends([Call EXCEPT !.send = IF Response = "error" THEN "failed_response" ELSE "truncated"],
          "failed")
  /\ UNCHANGED <<sends, kept, values, outside>>

\* The task is cancelled while the request is open, before the next one, or,
\* where an agent sends it, when the response has been retained.
Cancelled ==
  /\ Stopping
  /\ run.at \in {"ready", "restored", "waiting", "received"}
  /\ Ends(Call, "interrupted")
  /\ UNCHANGED <<sends, kept, values, outside>>

-------------------------------------------------------------------------------
(* The task *)

Rebind ==
  /\ binding < MaxBindings
  /\ binding' = binding + 1
  /\ UNCHANGED <<calls, index, run, sends, kept, values, control, resumes, unresolved,
                 stops, crashes>>

Stop ==
  /\ control = "running" /\ stops < MaxStops
  /\ control' = "stopping" /\ stops' = stops + 1
  /\ UNCHANGED <<binding, calls, index, run, sends, kept, values, resumes, unresolved, crashes>>

Stopped ==
  /\ Stopping /\ run = Idle
  /\ control' = "stopped"
  /\ UNCHANGED <<binding, calls, index, run, sends, kept, values, resumes, unresolved,
                 stops, crashes>>

\* resume_context is what the resume event records.
Resume ==
  /\ control = "stopped"
  /\ control' = "running"
  /\ resumes' = Append(resumes, [binding |-> binding, unresolved |-> unresolved])
  /\ UNCHANGED <<binding, calls, index, run, sends, kept, values, unresolved, stops, crashes>>

\* start_task, which is not a resume.
Start ==
  /\ control = "stopped"
  /\ control' = "running"
  /\ UNCHANGED <<binding, calls, index, run, sends, kept, values, resumes, unresolved,
                 stops, crashes>>

\* Other operations of the task.
Operate ==
  /\ run = Idle
  /\ unresolved' = ~unresolved
  /\ UNCHANGED <<binding, calls, index, run, sends, kept, values, control, resumes, stops, crashes>>

\* The call is written, then the index: a crash may come in between.
Crash ==
  /\ crashes < MaxCrashes
  /\ crashes' = crashes + 1
  /\ run' = Idle
  /\ control' = IF Stopping THEN "stopped" ELSE control
  /\ \/ UNCHANGED index
     \/ run.at # "idle"
        /\ index' = IF Call.send = "not_sent" THEN [call |-> Call.parent, exact |-> TRUE]
                    ELSE [index EXCEPT !.exact = FALSE]
  /\ UNCHANGED <<binding, calls, sends, kept, values, resumes, unresolved, stops>>

Next ==
  \/ Ask \/ Answer \/ Send \/ Withhold \/ Retain \/ Lose \/ Accept \/ Return \/ Reject
  \/ Fail \/ Cancelled
  \/ Rebind \/ Stop \/ Stopped \/ Start \/ Resume \/ Operate \/ Crash

Spec == Init /\ [][Next]_vars

-------------------------------------------------------------------------------
\* Every variable has its type.
TypeOK ==
  /\ binding \in 1..MaxBindings
  /\ index.call \in 0..Len(calls)
  /\ \A k \in DOMAIN calls :
       /\ calls[k].send \in {"not_sent", "dispatching", "pending_feedback", "held",
                            "failed_response",
                             "truncated", "succeeded"}
       /\ calls[k].end \in {"none", "failed", "interrupted", "succeeded"}
  /\ kept \subseteq DOMAIN sends /\ values \subseteq kept

\* What is sent is paid for, so nothing is sent twice unless an error was seen
\* to answer the first time; what is sent after a request whose response was
\* never seen follows a resume by the user.  No defect is fed
\* back twice, across all calls.  Whoever asks gets one judgment, the same for all, and it
\* is a valid response to a request of the binding the call was made under.
JudgmentSound ==
  /\ TypeOK
  /\ \A i, j \in DOMAIN sends : i < j =>
       /\ sends[i].input = sends[j].input => i \in kept /\ sends[i].response = "error"
       /\ i \notin kept => sends[i].resumes < sends[j].resumes
       /\ sends[i].binding = sends[j].binding
  /\ \A k \in DOMAIN calls :
       LET fed == SelectSeq(calls[k].input, LAMBDA part : part # Resumed) IN
       \A m, n \in DOMAIN fed : m # n => fed[m] # fed[n]
  /\ \A s, t \in values : s = t /\ sends[s].response = "valid"
===============================================================================
