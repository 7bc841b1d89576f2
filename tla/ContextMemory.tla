----------------------------- MODULE ContextMemory -----------------------------
(***************************************************************************)
(* The working memory of a long task (practical_context.PracticalContext): *)
(* before a request whose input grows too large, the controller has the    *)
(* model summarize the older results.  The request may fail or be cut      *)
(* short, the instructions or the capacity may change while it is out, and *)
(* an answer saved before a crash is used again (PracticalEngine._call).   *)
(*                                                                         *)
(* Sizes are counted in results: one result, and the memory, has size 1.   *)
(***************************************************************************)
EXTENDS Naturals, FiniteSets

CONSTANTS
  Capacities,    \* usable inputs
  MaxResults, MaxSources, MaxResumes, MaxCrashes

VARIABLES
  total,      \* results of the task so far
  source,     \* the revision of its instructions
  usable,     \* the capacity the settings give
  memory,     \* practical_context_current, with what its summary was made of
  failed,     \* practical_context_failure: instructions, start and capacity
  saved,      \* answers to these instructions, saved and not consumed
  pc,         \* "idle", "preparing", "asking" for a summary, "acting"
  ask,        \* the summary that is asked for
  resumes, crashes

vars == <<total, source, usable, memory, failed, saved, pc, ask, resumes, crashes>>

NoMemory == [through |-> 0, from |-> 0, upto |-> 0, evidence |-> 0, source |-> 1, at |-> 1]
NoKey == <<>>
NoAsk == [source |-> 0, from |-> 0, upto |-> 0]

Init ==
  /\ total = 0 /\ source = 1 /\ usable \in Capacities /\ memory = NoMemory /\ failed = NoKey
  /\ saved = {} /\ pc = "idle" /\ ask = NoAsk /\ resumes = 0 /\ crashes = 0

-------------------------------------------------------------------------------
MaxOf(S) == CHOOSE n \in S : \A x \in S : x <= n

\* project: the results after the memory, and the memory
History == total - memory.through
Size == History + IF memory = NoMemory THEN 0 ELSE 1

\* Summarize above this size, to leave room for the next result.
Target == usable - 1

\* The latest results, two at most, that fit beside a summary stay out of it; of the
\* others, as many as one request can take, by halves.
Tail == MaxOf({0} \cup {n \in 1 .. 2 : n <= History /\ n + 1 <= Target})
Halves(n) == {n} \cup {MaxOf({1, n \div 2 ^ k}) : k \in 1 .. n}
Count == LET n == MaxOf({1, History - Tail})
         IN MaxOf({x \in Halves(n) : x <= usable \/ x = 1})

Key == <<source, memory.through, usable>>
Summarizes == Size > Target /\ History > 0 /\ failed # Key

\* Start and resume_task: resuming retries a summary that failed (retry_on_resume).
Start ==
  /\ pc = "idle" /\ pc' = "preparing"
  /\ UNCHANGED <<total, source, usable, memory, failed, saved, ask, resumes, crashes>>

Resume ==
  /\ pc = "idle" /\ resumes < MaxResumes /\ resumes' = resumes + 1
  /\ pc' = "preparing" /\ failed' = NoKey
  /\ UNCHANGED <<total, source, usable, memory, saved, ask, crashes>>

\* prepare: another round, or the request itself, or the input is too large even so.
Prepare ==
  /\ pc = "preparing"
  /\ IF Summarizes THEN
       /\ pc' = "asking"
       /\ ask' = [source |-> source, from |-> memory.through, upto |-> memory.through + Count]
     ELSE pc' = (IF Size > usable THEN "idle" ELSE "acting") /\ ask' = NoAsk
  /\ UNCHANGED <<total, source, usable, memory, failed, saved, resumes, crashes>>

\* Fault: a saved answer is taken, whatever was asked.
SavedForSource == saved

\* _call: an answer saved for the same input is used; it is not asked for again.
Reusable == {c \in saved : c.from = ask.from /\ c.upto = ask.upto}

\* What becomes of an answer: dropped, a failure of its own, or the new memory.
Settle(c) ==
  IF source # ask.source THEN
    pc' = "idle" /\ ask' = NoAsk /\ UNCHANGED <<memory, failed, saved>>
  ELSE
    /\ pc' = "preparing" /\ ask' = NoAsk /\ saved' = saved \ {c}
    /\ IF c.evidence >= ask.upto THEN failed' = Key /\ UNCHANGED memory
       ELSE /\ memory' = [through |-> ask.upto, from |-> c.from, upto |-> c.upto,
                          evidence |-> c.evidence, source |-> ask.source, at |-> source]
            /\ UNCHANGED failed

Answers == {[from |-> ask.from, upto |-> ask.upto, evidence |-> e] :
              e \in {0, ask.upto - 1, ask.upto}}

Reuse ==
  /\ pc = "asking" /\ source = ask.source /\ \E c \in Reusable : Settle(c)
  /\ UNCHANGED <<total, source, usable, resumes, crashes>>

Receive ==
  /\ pc = "asking" /\ Reusable = {} /\ \E c \in Answers : Settle(c)
  /\ UNCHANGED <<total, source, usable, resumes, crashes>>

\* The request fails: recorded unless the instructions have changed.
Fail ==
  /\ pc = "asking" /\ Reusable = {} /\ ask' = NoAsk
  /\ IF source # ask.source THEN pc' = "idle" /\ UNCHANGED failed
     ELSE pc' = "preparing" /\ failed' = Key
  /\ UNCHANGED <<total, source, usable, memory, saved, resumes, crashes>>

\* A tool runs and its result joins the history; or the run ends or is stopped.
Act ==
  /\ pc = "acting" /\ total < MaxResults /\ total' = total + 1 /\ pc' = "preparing"
  /\ UNCHANGED <<source, usable, memory, failed, saved, ask, resumes, crashes>>

End ==
  /\ pc \in {"asking", "acting"} /\ pc' = "idle" /\ ask' = NoAsk
  /\ UNCHANGED <<total, source, usable, memory, failed, saved, resumes, crashes>>

AddSource ==
  /\ source < MaxSources /\ source' = source + 1 /\ saved' = {}
  /\ UNCHANGED <<total, usable, memory, failed, pc, ask, resumes, crashes>>

\* Settings change between runs.
SetCapacity(n) ==
  /\ pc = "idle" /\ usable' = n
  /\ UNCHANGED <<total, source, memory, failed, saved, pc, ask, resumes, crashes>>

\* A crash, perhaps right after an answer was saved
Crash ==
  /\ crashes < MaxCrashes /\ crashes' = crashes + 1 /\ pc' = "idle" /\ ask' = NoAsk
  /\ \/ UNCHANGED saved
     \/ /\ pc = "asking" /\ source = ask.source /\ Reusable = {}
        /\ \E c \in Answers : saved' = saved \cup {c}
  /\ UNCHANGED <<total, source, usable, memory, failed, resumes>>

Next ==
  \/ Start \/ Resume \/ Prepare \/ Reuse \/ Receive \/ Fail \/ Act \/ End
  \/ AddSource \/ Crash \/ \E n \in Capacities : SetCapacity(n)

Spec == Init /\ [][Next]_vars

-------------------------------------------------------------------------------
TypeOK ==
  /\ total \in 0 .. MaxResults /\ source \in 1 .. MaxSources /\ usable \in Capacities
  /\ pc \in {"idle", "preparing", "asking", "acting"}

\* Whatever fails, changes or is replayed while a summary is out: the memory covers
\* exactly the results its summary was made of, up to the one it says, and names
\* evidence only among them; it was made for the instructions then in force; and
\* what is sent to the model with it fits.
ContextSound ==
  /\ TypeOK
  /\ memory.through <= total
  /\ memory.upto = memory.through
  /\ memory # NoMemory => /\ memory.from < memory.through /\ memory.evidence < memory.through
                          /\ memory.source = memory.at
  /\ pc = "acting" => Size <= usable
===============================================================================
