------------------------------- MODULE BatchRun -------------------------------
(***************************************************************************)
(* One `--batch` run: the job's URLs dispatched under a semaphore, each    *)
(* scraped by an engine of its own that captures its page in the shared    *)
(* sink, joined, flushed, extracted from the spool, exported and turned    *)
(* into an exit code; with a shutdown signal at any time.                  *)
(***************************************************************************)
EXTENDS BoundedSink

CONSTANTS Count,            \* URLs of the batch; a URL is its place, and so its page
          MaxConcurrent     \* permits of the semaphore

ASSUME BatchAssumption ==
    /\ Count \in Nat \ {0} /\ MaxConcurrent \in Nat \ {0} /\ Pages = 1..Count

VARIABLES pc,               \* where the run is
          next,             \* the next URL to dispatch
          task,             \* URL -> how far its task is
          cancel,           \* the shutdown token is fired
          errors,           \* URLs the job reports as failed
          line,             \* lines of the spool read back
          results,          \* pages extracted
          failures,         \* pages whose extraction failed
          exported,         \* pages written by the export phase
          exit              \* the exit code

batchVars == <<pc, next, task, cancel, errors, line, results, failures, exported, exit>>
vars == <<sinkVars, batchVars>>

Init ==
    /\ SinkInit
    /\ pc = "job" /\ next = 1 /\ cancel = FALSE
    /\ task = [u \in 1..Count |-> "none"]
    /\ errors = {} /\ line = 0 /\ results = {} /\ failures = {} /\ exported = {} /\ exit = "none"

Goto(from, to) == pc = from /\ pc' = to

\* The run returns its exit code.
Exits(code) == pc' = "end" /\ exit' = code

-----------------------------------------------------------------------------
(* The manager and the processor. *)

\* A shutdown before the job skips it, one during the dispatch ends the dispatch.
SkipJob ==
    /\ Goto("job", "close") /\ cancel
    /\ UNCHANGED <<sinkVars, next, task, cancel, errors, line, results, failures, exported, exit>>

StartJob ==
    /\ Goto("job", "dispatch") /\ ~cancel
    /\ UNCHANGED <<sinkVars, next, task, cancel, errors, line, results, failures, exported, exit>>

DispatchEnds ==
    /\ Goto("dispatch", "join") /\ (cancel \/ next > Count)
    /\ UNCHANGED <<sinkVars, next, task, cancel, errors, line, results, failures, exported, exit>>

WantPermit ==
    /\ Goto("dispatch", "permit") /\ ~cancel /\ next <= Count
    /\ UNCHANGED <<sinkVars, next, task, cancel, errors, line, results, failures, exported, exit>>

Working == { u \in 1..Count : task[u] \in {"runs", "captured"} }

\* The token is not looked at again once the permit is there.
Dispatch ==
    /\ Goto("permit", "dispatch") /\ Cardinality(Working) < MaxConcurrent
    /\ task' = [task EXCEPT ![next] = "runs"] /\ next' = next + 1
    /\ UNCHANGED <<sinkVars, cancel, errors, line, results, failures, exported, exit>>

\* The engine of one URL: a page is captured as soon as it is fetched.
Fetched(u) ==
    /\ task[u] = "runs" /\ Capture(u)
    /\ task' = [task EXCEPT ![u] = "captured"]
    /\ UNCHANGED <<pc, next, cancel, errors, line, results, failures, exported, exit>>

\* Also without a page: the seed is excluded by a pattern, the signal reached
\* the engine first, or the engine gave up on a task and aborted it.
Ends(u) ==
    /\ task[u] \in {"runs", "captured"}
    /\ task' = [task EXCEPT ![u] = "ok"]
    /\ UNCHANGED <<sinkVars, pc, next, cancel, errors, line, results, failures, exported, exit>>

\* The fetch fails, or the task panics at any point.
Fails(u) ==
    /\ task[u] \in {"runs", "captured"}
    /\ task' = [task EXCEPT ![u] = "err"]
    /\ UNCHANGED <<sinkVars, pc, next, cancel, errors, line, results, failures, exported, exit>>

Join(u) ==
    /\ pc = "join" /\ task[u] \in {"ok", "err"}
    /\ task' = [task EXCEPT ![u] = "joined"]
    /\ errors' = IF task[u] = "err" THEN errors \cup {u} ELSE errors
    /\ UNCHANGED <<sinkVars, pc, next, cancel, line, results, failures, exported, exit>>

\* Mutant: a shutdown abandons the tasks that still run.
JoinEndsEarly ==
    /\ Goto("join", "close")
    /\ cancel \/ \A u \in 1..Count : task[u] \in {"none", "joined"}
    /\ UNCHANGED <<sinkVars, next, task, cancel, errors, line, results, failures, exported, exit>>

JoinEnds ==
    /\ Goto("join", "close") /\ \A u \in 1..Count : task[u] \in {"none", "joined"}
    /\ UNCHANGED <<sinkVars, next, task, cancel, errors, line, results, failures, exported, exit>>

-----------------------------------------------------------------------------
(* The rest of run_batch. *)

CloseSink ==
    /\ Goto("close", "flush") /\ Close
    /\ UNCHANGED <<next, task, cancel, errors, line, results, failures, exported, exit>>

FlushFails ==
    /\ pc = "flush" /\ writer = "failed" /\ Exits("IoError")
    /\ UNCHANGED <<sinkVars, next, task, cancel, errors, line, results, failures, exported>>

\* An empty spool is an error, also when a shutdown is why it is empty.
NothingCaptured ==
    /\ pc = "flush" /\ writer = "done" /\ spool = <<>> /\ Exits("NetworkError")
    /\ UNCHANGED <<sinkVars, next, task, cancel, errors, line, results, failures, exported>>

Flushed ==
    /\ Goto("flush", "extract") /\ writer = "done" /\ spool # <<>>
    /\ UNCHANGED <<sinkVars, next, task, cancel, errors, line, results, failures, exported, exit>>

\* The spool is read line by line; extraction of a page may fail.
Extract ==
    /\ pc = "extract" /\ line < Len(spool)
    /\ line' = line + 1
    /\ \/ results' = results \cup {spool[line']} /\ UNCHANGED failures
       \/ failures' = failures \cup {spool[line']} /\ UNCHANGED results
    /\ UNCHANGED <<sinkVars, pc, next, task, cancel, errors, exported, exit>>

\* Reading the spool, or the vector ingestion after it, fails: nothing is exported.
IoFails ==
    /\ pc = "extract" /\ Exits("IoError")
    /\ UNCHANGED <<sinkVars, next, task, cancel, errors, line, results, failures, exported>>

\* The outcome of the export phase is discarded.
Export ==
    /\ Goto("extract", "route") /\ line = Len(spool)
    /\ exported' \in {results, {}}
    /\ UNCHANGED <<sinkVars, next, task, cancel, errors, line, results, failures, exit>>

\* Mutant: only what the crawl reports counts as failed.
ExitCodeCrawlOnly ==
    IF cancel \/ errors = {} THEN "Success"
    ELSE IF results = {} THEN "AllFailed" ELSE "PartialSuccess"

\* cancelled_exit, then batch_exit_code; AllFailed stands for its four severities.
ExitCode ==
    IF cancel \/ (errors = {} /\ failures = {}) THEN "Success"
    ELSE IF results = {} THEN "AllFailed" ELSE "PartialSuccess"

Route ==
    /\ pc = "route" /\ Exits(ExitCode)
    /\ UNCHANGED <<sinkVars, next, task, cancel, errors, line, results, failures, exported>>

\* SIGINT or SIGTERM.
Signal ==
    /\ ~cancel /\ pc # "end" /\ cancel' = TRUE
    /\ UNCHANGED <<sinkVars, pc, next, task, errors, line, results, failures, exported, exit>>

Run ==
    \/ SkipJob \/ StartJob \/ DispatchEnds \/ WantPermit \/ Dispatch
    \/ (\E u \in 1..Count : Join(u)) \/ JoinEnds
    \/ CloseSink \/ FlushFails \/ NothingCaptured \/ Flushed
    \/ Extract \/ IoFails \/ Export \/ Route

Sink == SinkStep /\ UNCHANGED batchVars

Task(u) == Fetched(u) \/ Ends(u) \/ Fails(u)

Next == Run \/ Sink \/ (\E u \in 1..Count : Task(u)) \/ Signal

\* The runtime runs what can run, and every fetch has its timeout.
Fairness == WF_vars(Run) /\ WF_vars(Sink) /\ \A u \in 1..Count : WF_vars(Task(u))

Spec == Init /\ [][Next]_vars
FairSpec == Spec /\ Fairness

-----------------------------------------------------------------------------

\* A page that was captured is extracted or listed as a failure of a run that
\* does not end in an I/O error, also when the run is cancelled: tasks in flight
\* are drained and their pages reach the spool (processor.rs: "every
\* already-spawned task is drained to completion").
DrainKept ==
    exit \in {"Success", "PartialSuccess", "AllFailed", "NetworkError"} =>
        /\ \A u \in 1..Count : task[u] \in {"none", "joined"}
        /\ captured = results \cup failures

\* Exit code 0 of a run that no shutdown touched says that no URL failed, in the
\* crawl or in the extraction, and that every page there was is in the results
\* (orchestrator.rs: batch_exit_code).
SuccessIsHonest ==
    exit = "Success" /\ ~cancel => errors = {} /\ results = captured

\* Refuted: a URL whose task ends without a page is a success, and the export
\* phase's failure is dropped (orchestrator.rs: run_batch).
SuccessMeansExported == exit = "Success" /\ ~cancel => exported = 1..Count

\* Whatever fails and whenever the shutdown comes, the run ends: the writer sees
\* the last sender go and nobody waits for a place in a dead channel.
RunEnds == <>(exit # "none")

=============================================================================
