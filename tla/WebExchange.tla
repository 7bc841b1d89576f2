---------------------------- MODULE WebExchange ----------------------------
(***************************************************************************)
(* WebCollector (providers.py): one collection of public pages for one     *)
(* operation.  Every request is an exchange of its own record in the       *)
(* store, keyed by what is asked: prepared, started, then a response or a  *)
(* failure.  A collection that was interrupted is run again and reads what *)
(* the records hold; it never repeats a request.  The reviewed engine asks *)
(* for a judgment before and after each exchange, ordinary reads do not.   *)
(***************************************************************************)
EXTENDS Naturals, FiniteSets, Sequences

CONSTANTS
    Planned,    \* the addresses of the query: 1 .. Planned
    Addresses,  \* all addresses, with those reached by redirects only
    MaxRuns, MaxCrashes, MaxFaults

VARIABLES
    reviewed,  \* is the collection the reviewed engine's
    searched,  \* does a search provider name the addresses, or the query itself
    exchange,  \* the saved exchange of each address
    verdict,   \* the saved judgments of each address: before and after
    run,       \* the collection at work, with what it has in memory
    sent,      \* requests that left for each address
    answer,    \* what each address answered, once it was asked
    results,   \* what finished collections returned
    runs, crashes, faults

vars == <<reviewed, searched, exchange, verdict, run, sent, answer, results,
          runs, crashes, faults>>
Kept == <<reviewed, searched>>

Search == 0   \* the address of the search provider
Targets == Addresses \cup {Search}

\* What a request can end with: a page, one that cannot be read, a redirect, an
\* HTTP error, more bytes than allowed, or a failure of the transport.
Plain(kind) == [kind |-> kind, to |-> 0]
Answers == {Plain(k) : k \in {"page", "unreadable", "error", "limit", "broken"}}
           \cup [kind : {"redirect"}, to : Addresses]

NoAnswer == Plain("none")
NotKnown == Plain("unknown")
NoExchange == [stage |-> "none", answer |-> NoAnswer, analysed |-> FALSE]
Idle == [pc |-> "idle"]

Init ==
    /\ reviewed \in BOOLEAN
    /\ searched \in BOOLEAN
    /\ exchange = [u \in Targets |-> NoExchange]
    /\ verdict = [u \in Targets |-> [before |-> "none", after |-> "none"]]
    /\ run = Idle
    /\ sent = [u \in Targets |-> 0]
    /\ answer = [u \in Targets |-> NoAnswer]
    /\ results = {}
    /\ runs = 0
    /\ crashes = 0
    /\ faults = 0

Quiet == UNCHANGED <<Kept, sent, answer, results, runs, crashes, faults>>

-----------------------------------------------------------------------------
(* The exchange of the current address                                     *)

At(pc) == run.pc = pc
Go(pc) == run' = [run EXCEPT !.pc = pc]
Save(u, e) == exchange' = [exchange EXCEPT ![u] = e]

Collect ==
    /\ At("idle")
    /\ runs < MaxRuns
    /\ runs' = runs + 1
    /\ LET first == IF searched THEN Search ELSE 1 IN
       run' = [pc |-> "acquire", next |-> first, url |-> first, visited |-> {first},
               sources |-> {}, failures |-> {}]
    /\ UNCHANGED <<Kept, exchange, verdict, sent, answer, results, crashes, faults>>

\* Fault: a start without an end counts as one that was never made.
UnknownEndRetried(e) == [e EXCEPT !.stage = "prepared"]

\* A start nobody saw the end of is unknown, and is not repeated.
UnknownEnd(e) == [e EXCEPT !.stage = "failed", !.answer = NotKnown]

\* The saved exchange decides what is still to do.
Acquire ==
    /\ At("acquire")
    /\ LET u == run.url
           e == exchange[u] IN
       CASE e.stage \in {"none", "prepared"} ->
              Save(u, [e EXCEPT !.stage = "prepared"]) /\ Go("before")
         [] e.stage = "started" ->
              /\ Save(u, UnknownEnd(e))
              /\ Go(IF UnknownEnd(e).stage = "failed" THEN "failed" ELSE "before")
         [] e.stage = "failed" -> Go("failed") /\ UNCHANGED exchange
         [] e.stage = "response" -> Go("analyse") /\ UNCHANGED exchange
    /\ Quiet /\ UNCHANGED verdict

\* The reviewed engine judges the exchange once at each stage; the saved
\* verdict answers a repeated question.
Judge(u, stage, next) ==
    IF ~reviewed THEN Go(next) /\ UNCHANGED verdict
    ELSE \E v \in {"proceed", "revise"} :
            /\ verdict[u][stage] \in {"none", v}
            /\ verdict' = [verdict EXCEPT ![u][stage] = v]
            /\ IF v = "proceed" THEN Go(next) ELSE run' = Idle

Before ==
    /\ At("before")
    /\ Judge(run.url, "before", "start")
    /\ Quiet /\ UNCHANGED exchange

\* Fault: the request leaves before its start is on record.
StartUnsaved ==
    /\ At("start")
    /\ Go("transport")
    /\ Quiet /\ UNCHANGED <<exchange, verdict>>

\* The start is on record before the name is resolved.
Start ==
    /\ At("start")
    /\ Save(run.url, [exchange[run.url] EXCEPT !.stage = "started"])
    /\ Go("transport")
    /\ Quiet /\ UNCHANGED verdict

\* What came back is in memory only; it may be cut short by a cancellation.
Transport ==
    /\ At("transport")
    /\ \E a \in Answers \cup {NotKnown} :
          /\ answer' = [answer EXCEPT ![run.url] = a]
          /\ Go("save")
    /\ sent' = [sent EXCEPT ![run.url] = @ + 1]
    /\ UNCHANGED <<Kept, exchange, verdict, results, runs, crashes, faults>>

Completed(a) == a.kind \notin {"limit", "broken", "unknown"}

\* The evidence is saved before anything judges or uses it.
SaveExchange ==
    /\ At("save")
    /\ LET u == run.url IN
       /\ Save(u, [stage |-> IF Completed(answer[u]) THEN "response" ELSE "failed",
                   answer |-> answer[u], analysed |-> FALSE])
       /\ Go(IF Completed(answer[u]) THEN "analyse" ELSE "failed")
    /\ Quiet /\ UNCHANGED verdict

\* The effect was observed and its evidence cannot be saved: no replay.
RetentionFails ==
    /\ At("save")
    /\ faults < MaxFaults
    /\ faults' = faults + 1
    /\ run' = Idle
    /\ UNCHANGED <<Kept, exchange, verdict, sent, answer, results, runs, crashes>>

\* Local processing of a response, kept with it before its judgment.
AnalyzeResponse ==
    /\ At("analyse")
    /\ Save(run.url, [exchange[run.url] EXCEPT !.analysed = TRUE])
    /\ Go("after")
    /\ Quiet /\ UNCHANGED verdict

After ==
    /\ At("after")
    /\ Judge(run.url, "after", "use")
    /\ Quiet /\ UNCHANGED exchange

\* A failed exchange is judged too, and its collection ends or goes on.
Failed ==
    /\ At("failed")
    /\ IF reviewed
         THEN /\ \E v \in {"proceed", "revise"} :
                    /\ verdict[run.url].after \in {"none", v}
                    /\ verdict' = [verdict EXCEPT ![run.url].after = v]
              /\ run' = Idle
         ELSE /\ Go(IF exchange[run.url].answer.kind = "limit" THEN "use" ELSE "raise")
              /\ UNCHANGED verdict
    /\ Quiet /\ UNCHANGED exchange

-----------------------------------------------------------------------------
(* The collection                                                          *)

\* The next planned address, or the end of the collection.
Advance(sources, failures) ==
    run' = IF run.next = Planned
             THEN [run EXCEPT !.pc = "return", !.sources = sources, !.failures = failures]
             ELSE [run EXCEPT !.pc = "acquire", !.next = @ + 1, !.url = run.next + 1,
                              !.visited = {run.next + 1},
                              !.sources = sources, !.failures = failures]

Answer == exchange[run.url].answer
Using(kinds) ==
    /\ At("use")
    /\ Answer.kind \in kinds
    /\ Quiet /\ UNCHANGED <<exchange, verdict>>

\* The results of a search are the planned addresses; its redirect is refused.
UseSearch ==
    /\ Using({"page", "unreadable", "error", "redirect", "limit"})
    /\ run.url = Search
    /\ IF Answer.kind = "page" THEN Advance({}, {}) ELSE Go("raise")

\* A redirect is an exchange of its own, with its own judgments.
Follow ==
    /\ Using({"redirect"})
    /\ run.url # Search
    /\ IF Answer.to \in run.visited THEN Go("raise")
       ELSE run' = [run EXCEPT !.pc = "acquire", !.url = Answer.to, !.visited = @ \cup {Answer.to}]

\* The page is the source its kept analysis extracted.
UsePage ==
    /\ Using({"page", "unreadable"})
    /\ run.url # Search
    /\ IF Answer.kind = "page" /\ exchange[run.url].analysed
         THEN Advance(run.sources \cup {run.url}, run.failures)
         ELSE Go("raise")

\* A definite error of one page ends a reviewed collection, not an ordinary read.
UseError ==
    /\ Using({"error"})
    /\ run.url # Search
    /\ IF reviewed THEN Go("raise") ELSE Advance(run.sources, run.failures \cup {run.next})

\* The reads that ended at the limit of bytes, as their saved prefixes show.
LimitEvidence ==
    {u \in Addresses : exchange[u].stage = "failed" /\ exchange[u].answer.kind = "limit"}

\* A retained prefix is a source, and the target it cut short is named.
UseLimit ==
    /\ Using({"limit"})
    /\ run.url \in LimitEvidence
    /\ Advance(run.sources \cup {run.url}, run.failures \cup {run.next})

Return ==
    /\ At("return")
    /\ results' = IF run.sources = {} THEN results
                  ELSE results \cup {[sources |-> run.sources, failures |-> run.failures]}
    /\ run' = Idle
    /\ UNCHANGED <<Kept, exchange, verdict, sent, answer, runs, crashes, faults>>

Raise ==
    /\ At("raise")
    /\ run' = Idle
    /\ Quiet /\ UNCHANGED <<exchange, verdict>>

\* The process dies at any point.
Crash ==
    /\ run # Idle
    /\ crashes < MaxCrashes
    /\ crashes' = crashes + 1
    /\ run' = Idle
    /\ UNCHANGED <<Kept, exchange, verdict, sent, answer, results, runs, faults>>

Next ==
    \/ Collect \/ Acquire \/ Before \/ Start \/ Transport \/ SaveExchange \/ RetentionFails
    \/ AnalyzeResponse \/ After \/ Failed
    \/ UseSearch \/ Follow \/ UsePage \/ UseError \/ UseLimit \/ Return \/ Raise \/ Crash

Spec == Init /\ [][Next]_vars

-----------------------------------------------------------------------------
(* What must hold                                                          *)

\* However often a collection is interrupted and run again, each address is
\* asked at most once, and in the reviewed engine only after its request was
\* accepted.
SentOnce ==
    \A u \in Targets :
        /\ sent[u] <= 1
        /\ sent[u] = 1 /\ reviewed => verdict[u].before = "proceed"

\* A saved exchange says what the address answered, or that it is not known.
EvidenceIsReal ==
    \A u \in Targets :
        /\ exchange[u].stage \in {"response", "failed"} =>
               sent[u] <= 1 /\ exchange[u].answer \in {answer[u], NotKnown}
        /\ exchange[u].stage = "response" => exchange[u].answer = answer[u] /\ sent[u] = 1
        /\ sent[u] = 1 => exchange[u].stage \in {"started", "response", "failed"}

\* Every collection of the operation that returns, returns the same pages, and
\* only from responses that are saved.
RepeatIsSame ==
    /\ Cardinality(results) <= 1
    /\ \A r \in results : \A u \in r.sources :
          exchange[u].stage = "response" \/ exchange[u].answer.kind = "limit"

\* A judgment after an exchange is about an exchange that ended.
JudgedAfterwards ==
    \A u \in Targets :
        verdict[u].after # "none" => exchange[u].stage \in {"response", "failed"}

ExchangeSound == SentOnce /\ EvidenceIsReal /\ RepeatIsSame /\ JudgedAfterwards
=============================================================================
