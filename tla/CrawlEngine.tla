----------------------------- MODULE CrawlEngine -----------------------------
(***************************************************************************)
(* One crawl after another over one checkpoint file                         *)
(* (application/crawler/engine.rs, crawl_task.rs, collector.rs): the loop    *)
(* that joins finished page tasks, drains what they discovered, saves,      *)
(* dispatches and waits; the tasks, each at a point where it may be         *)
(* overtaken; the shutdown signal, the bounded drain and the final          *)
(* checkpoint.  The process may be killed at any step.                      *)
(***************************************************************************)
EXTENDS CrawlScheduler

CONSTANTS Links,         \* the site: what extract_links finds and the filters allow
          Interval,      \* checkpoint_interval
          NoCheckpoint,  \* no checkpoint file
          Faults,        \* subset of {"signal", "crash", "save", "wedge", "memory"}
          MaxFaults,     \* bound: those, over all runs
          MaxRuns        \* bound: runs

ASSUME EngineAssumption ==
    /\ Links \in [Urls -> SUBSET Urls]
    /\ Interval \in Nat /\ MaxFaults \in Nat /\ MaxRuns \in Nat

VARIABLES
    disk,       \* the checkpoint file
    pc,         \* where the engine is; "idle" without a process
    loaded,     \* checkpoint_state
    path,       \* checkpoint_path is set
    task,       \* per URL: where its task is ("none": the JoinSet has none), the
                \* depth it was dispatched with, the links it has still to push
    counter,    \* the collector's counter
    pages,      \* pages_crawled
    shutdown,   \* the shutdown flag
    cancelled,  \* the cancellation token
    runs, faults,
    \* history, of the run in progress
    fetched,    \* how many bodies of each page were captured
    lost        \* URLs whose task was cancelled or aborted

counts  == <<counter, pages>>
signals == <<shutdown, cancelled>>
history == <<fetched, lost>>
vars == <<scheduler, level, disk, pc, loaded, path, task, counts, signals, runs, faults, history>>

Checkpoint == [visited : SUBSET Urls, queued : Seq(Urls)]

TaskState == [at    : {"none", "limit", "captured", "links", "done"},
              depth : 0..MaxDepth,
              left  : SUBSET Urls]

NoTask == [at |-> "none", depth |-> 0, left |-> {}]

Fresh == [visited |-> {}, queued |-> <<>>]

TypeOK ==
    /\ SchedulerTypeOK
    /\ disk \in Checkpoint \cup {NoCheckpoint} /\ loaded \in Checkpoint /\ path \in BOOLEAN
    /\ pc \in {"idle", "top", "join", "drain", "save", "spawn", "wait", "finish",
               "conclude", "shutdown"}
    /\ task \in [Urls -> TaskState]
    /\ counter \in Nat /\ pages \in Nat
    /\ shutdown \in BOOLEAN /\ cancelled \in BOOLEAN
    /\ runs \in 0..MaxRuns /\ faults \in 0..MaxFaults
    /\ fetched \in [Urls -> Nat] /\ lost \subseteq Urls

Init ==
    /\ visited = {} /\ seen = {} /\ queue = {} /\ pending = <<>>
    /\ level = "normal" /\ disk = NoCheckpoint
    /\ pc = "idle" /\ loaded = Fresh /\ path = FALSE
    /\ task = [u \in Urls |-> NoTask] /\ counter = 0 /\ pages = 0
    /\ shutdown = FALSE /\ cancelled = FALSE
    /\ runs = 0 /\ faults = 0
    /\ fetched = [u \in Urls |-> 0] /\ lost = {}

\* The process is gone, and its memory with it.
Forgotten ==
    /\ visited' = {} /\ seen' = {} /\ queue' = {} /\ pending' = <<>> /\ level' = "normal"
    /\ pc' = "idle" /\ loaded' = Fresh /\ path' = FALSE
    /\ task' = [u \in Urls |-> NoTask] /\ counter' = 0 /\ pages' = 0
    /\ shutdown' = FALSE /\ cancelled' = FALSE
    /\ fetched' = [u \in Urls |-> 0] /\ lost' = {}

Fault(kind) == kind \in Faults /\ faults < MaxFaults /\ faults' = faults + 1

-----------------------------------------------------------------------------
(* The page tasks. *)

At(u) == task[u].at

Running == {u \in Urls : At(u) # "none"}

\* Its task goes on, with links still to push.
Goto(u, where, links) ==
    task' = [task EXCEPT ![u] = [at |-> where, depth |-> task[u].depth, left |-> links]]

\* until_ready_or_cancel sees the token before it has a permit.
CancelledWait(u) ==
    /\ At(u) = "limit" /\ cancelled
    /\ Goto(u, "done", {}) /\ lost' = lost \cup {u}
    /\ UNCHANGED <<scheduler, level, disk, pc, loaded, path, counts, signals,
                   runs, faults, fetched>>

\* It grants one, and there is no session, a WAF challenge or another fetch error.
FetchFails(u) ==
    /\ At(u) = "limit" /\ Goto(u, "done", {})
    /\ UNCHANGED <<scheduler, level, disk, pc, loaded, path, counts, signals,
                   runs, faults, history>>

\* It grants one, and the body is there: counted and handed to the sink.
Fetch(u) ==
    /\ At(u) = "limit" /\ Goto(u, "captured", {})
    /\ pages' = pages + 1
    /\ fetched' = [fetched EXCEPT ![Canon[u]] = @ + 1]
    /\ UNCHANGED <<scheduler, level, disk, pc, loaded, path, counter, signals,
                   runs, faults, lost>>

\* The pipeline filters or rejects the item: no result, no links.
Reject(u) ==
    /\ At(u) = "captured" /\ Goto(u, "done", {})
    /\ UNCHANGED <<scheduler, level, disk, pc, loaded, path, counts, signals,
                   runs, faults, history>>

\* Mutant: links of the last level are extracted too.
SendPastDepth(u) ==
    /\ At(u) = "captured"
    /\ counter' = counter + 1
    /\ \E found \in {{}, IF task[u].depth <= MaxDepth THEN Links[u] ELSE {}} :
          Goto(u, "links", found)
    /\ UNCHANGED <<scheduler, level, disk, pc, loaded, path, pages, signals, runs, faults,
                   history>>

\* The result is sent, counted before it is on the channel; links are extracted
\* above the last level, if that succeeds.
Send(u) ==
    /\ At(u) = "captured"
    /\ counter' = counter + 1
    /\ \E found \in {{}, IF task[u].depth < MaxDepth THEN Links[u] ELSE {}} :
          Goto(u, "links", found)
    /\ UNCHANGED <<scheduler, level, disk, pc, loaded, path, pages, signals, runs,
                   faults, history>>

PushLink(u) ==
    /\ At(u) = "links"
    /\ \E l \in task[u].left :
          /\ Push([url |-> l, depth |-> task[u].depth + 1])
          /\ Goto(u, "links", task[u].left \ {l})
    /\ UNCHANGED <<visited, pending, level, disk, pc, loaded, path, counts, signals,
                   runs, faults, history>>

Finished(u) ==
    /\ At(u) = "links" /\ task[u].left = {} /\ Goto(u, "done", {})
    /\ UNCHANGED <<scheduler, level, disk, pc, loaded, path, counts, signals,
                   runs, faults, history>>

Task(u) == \/ CancelledWait(u) \/ FetchFails(u) \/ Fetch(u) \/ Reject(u)
           \/ Send(u) \/ PushLink(u) \/ Finished(u)

-----------------------------------------------------------------------------
(* The engine. *)

Full == counter >= MaxPages

\* save_checkpoint, from the state as it is now; an error is only logged.
Save ==
    \/ /\ path
       /\ disk' = [visited |-> visited, queued |-> SnapshotPending]
       /\ UNCHANGED faults
    \/ path /\ Fault("save") /\ UNCHANGED disk
    \/ ~path /\ UNCHANGED <<disk, faults>>

\* with_checkpoint and the beginning of run().
Start ==
    /\ pc = "idle" /\ runs < MaxRuns
    /\ runs' = runs + 1
    /\ loaded' = IF disk = NoCheckpoint THEN Fresh ELSE disk
    /\ path' = TRUE
    /\ SeedAndRestore(loaded'.visited, loaded'.queued)
    /\ pc' = "top"
    /\ UNCHANGED <<level, disk, task, counts, signals, faults, history>>

\* The loop's condition and its first two exits.
Top ==
    /\ pc = "top"
    /\ LET work == HasPendingWork \/ Running # {}
       IN  \/ /\ work /\ shutdown
              /\ cancelled' = TRUE /\ Save /\ pc' = "finish"
           \/ /\ ~work \/ (~shutdown /\ Full)
              /\ pc' = "finish" /\ UNCHANGED <<cancelled, disk, faults>>
           \/ /\ work /\ ~shutdown /\ ~Full
              /\ pc' = "join" /\ UNCHANGED <<cancelled, disk, faults>>
    /\ UNCHANGED <<scheduler, level, loaded, path, task, counts, shutdown, runs, history>>

\* Mutant: max_pages is looked at once per iteration.
JoinUnchecked ==
    /\ pc = "join"
    /\ task' = [u \in Urls |-> IF At(u) = "done" THEN NoTask ELSE task[u]]
    /\ pc' = "drain"
    /\ UNCHANGED <<scheduler, level, disk, loaded, path, counts, signals, runs, faults, history>>

\* process_completed_tasks, and the second look at max_pages.
Join ==
    /\ pc = "join"
    /\ task' = [u \in Urls |-> IF At(u) = "done" THEN NoTask ELSE task[u]]
    /\ IF Full THEN pc' = "finish" /\ cancelled' = TRUE
       ELSE pc' = "drain" /\ UNCHANGED cancelled
    /\ UNCHANGED <<scheduler, level, disk, loaded, path, counts, shutdown, runs,
                   faults, history>>

Drain ==
    /\ pc = "drain" /\ DrainDiscovered
    /\ pc' = "save"
    /\ UNCHANGED <<level, disk, loaded, path, task, counts, signals, runs, faults, history>>

\* maybe_save_periodic_checkpoint.
PeriodicSave ==
    /\ pc = "save"
    /\ IF Interval > 0 /\ pages > 0 /\ pages % Interval = 0
       THEN Save ELSE UNCHANGED <<disk, faults>>
    /\ pc' = "spawn"
    /\ UNCHANGED <<scheduler, level, loaded, path, task, counts, signals, runs, history>>

\* spawn_available_tasks, one task.
Spawn ==
    /\ pc = "spawn" /\ CanSpawn(Cardinality(Running))
    /\ \E e \in Entry :
          /\ NextUrl(e)
          /\ task' = [task EXCEPT ![e.url] = [at |-> "limit", depth |-> e.depth, left |-> {}]]
    /\ UNCHANGED <<level, disk, pc, loaded, path, counts, signals, runs, faults, history>>

\* The limit is reached, or next_url has nothing left.
SpawnDone ==
    /\ pc = "spawn"
    /\ \/ ~CanSpawn(Cardinality(Running)) /\ UNCHANGED scheduler
       \/ CanSpawn(Cardinality(Running)) /\ NothingNext
    /\ pc' = "wait"
    /\ UNCHANGED <<level, disk, loaded, path, task, counts, signals, runs, faults, history>>

\* wait_for_task: a task, or the time limit, or nothing to wait for.
Wait ==
    /\ pc = "wait" /\ pc' = "top"
    /\ \/ UNCHANGED task
       \/ /\ ~CanSpawn(Cardinality(Running)) /\ HasPendingWork
          /\ \E u \in Urls : At(u) = "done" /\ task' = [task EXCEPT ![u] = NoTask]
    /\ UNCHANGED <<scheduler, level, disk, loaded, path, counts, signals, runs,
                   faults, history>>

\* drain_tasks: all tasks end, or those that have not after the time limit are
\* aborted.
Finish ==
    /\ pc = "finish" /\ pc' = "conclude"
    /\ task' = [u \in Urls |-> NoTask]
    /\ LET stragglers == {u \in Urls : At(u) \notin {"none", "done"}}
       IN  /\ lost' = lost \cup stragglers
           /\ IF stragglers = {} THEN UNCHANGED faults ELSE Fault("wedge")
    /\ UNCHANGED <<scheduler, level, disk, loaded, path, counts, signals, runs,
                   fetched>>

\* A crawl that completed deletes its checkpoint, any other one saves it.
Conclude ==
    /\ pc = "conclude" /\ pc' = "shutdown"
    /\ IF ~shutdown /\ ~HasPendingWork /\ ~Full
       THEN /\ path' = FALSE
            /\ \/ disk' = NoCheckpoint /\ UNCHANGED faults
               \/ Fault("save") /\ UNCHANGED disk
       ELSE Save /\ UNCHANGED path
    /\ UNCHANGED <<scheduler, level, loaded, task, counts, signals, runs, history>>

\* Engine::shutdown saves once more, and the process ends.
Shutdown ==
    /\ pc = "shutdown" /\ Save /\ Forgotten
    /\ UNCHANGED runs

-----------------------------------------------------------------------------
(* The environment. *)

\* Mutant: the token is fired before the flag is set.
SignalCancelsFirst ==
    /\ pc \notin {"idle", "shutdown"} /\ ~cancelled /\ Fault("signal")
    /\ cancelled' = TRUE
    /\ UNCHANGED <<scheduler, level, disk, pc, loaded, path, task, counts, shutdown, runs, history>>

\* The handler sets the flag first and fires the token second.
Signal ==
    /\ pc \notin {"idle", "shutdown"} /\ ~shutdown /\ Fault("signal")
    /\ shutdown' = TRUE
    /\ UNCHANGED <<scheduler, level, disk, pc, loaded, path, task, counts, cancelled, runs, history>>

SignalCancels ==
    /\ pc # "idle" /\ shutdown /\ ~cancelled
    /\ cancelled' = TRUE
    /\ UNCHANGED <<scheduler, level, disk, pc, loaded, path, task, counts, shutdown, runs,
                   faults, history>>

\* The poller of with_autoscale sees memory pressure come and go.
Pressure ==
    /\ pc # "idle" /\ level' \in Levels \ {level} /\ Fault("memory")
    /\ UNCHANGED <<scheduler, disk, pc, loaded, path, task, counts, signals, runs, history>>

Relief ==
    /\ level # "normal" /\ level' = "normal"
    /\ UNCHANGED <<scheduler, disk, pc, loaded, path, task, counts, signals, runs, faults, history>>

Crash ==
    /\ pc # "idle" /\ Fault("crash") /\ Forgotten
    /\ UNCHANGED <<disk, runs>>

-----------------------------------------------------------------------------

Loop == \/ Top \/ Join \/ Drain \/ PeriodicSave \/ Spawn \/ SpawnDone \/ Wait
        \/ Finish \/ Conclude \/ Shutdown

Next == \/ Start \/ Loop \/ \E u \in Urls : Task(u)
        \/ Signal \/ SignalCancels \/ Pressure \/ Relief \/ Crash

Spec == Init /\ [][Next]_vars

\* The runtime polls the engine, and some task that can go on (every wait of a
\* task is bounded: rate limiter, fetch timeout); memory pressure passes.
FairSpec == /\ Spec /\ WF_vars(Loop) /\ WF_vars(\E u \in Urls : Task(u)) /\ WF_vars(Relief)

-----------------------------------------------------------------------------
(* Properties. *)

\* No page is fetched twice in a run, nor again after a checkpoint that has it,
\* under whatever spelling and by however many tasks it is found (record_visit,
\* push_prioritized).
FetchedOnce ==
    \A u \in Urls :
        fetched[u] + (IF \E v \in loaded.visited : Canon[v] = u THEN 1 ELSE 0) <= 1

\* Tasks in flight overshoot max_pages by less than the concurrency limit: the
\* loop looks at the counter again before it fans out (crawl_loop, issue #590).
BudgetKept == counter <= MaxPages - 1 + Base

\* Nothing a run discovered is forgotten while it goes on: each page pushed on
\* the queue is still to be dispatched or was.
NothingForgotten ==
    seen \subseteq Page(queue) \cup Page(ToSet(pending)) \cup {Canon[v] : v \in visited}

\* Only a crawl that did everything it set out to do deletes its checkpoint: no
\* task was cancelled or aborted and nothing discovered is left (run, F-01).
DeletedOnlyWhenDone ==
    pc = "shutdown" /\ ~path =>
        /\ lost = {} /\ queue = {}
        /\ seen \subseteq {Canon[v] : v \in visited}

\* What a stopped or truncated run interrupted is left for the resumed one: a
\* page whose task was cancelled or aborted is not among those its checkpoint
\* calls visited (CrawlCheckpoint::visited, "fully processed").
InterruptedLeftOver ==
    pc = "shutdown" /\ path /\ disk # NoCheckpoint => lost \cap disk.visited = {}

\* Every run ends, whatever its tasks, a signal or memory pressure do (the
\* bounded waits of wait_for_task and drain_tasks, #509).
RunsEnd == pc # "idle" ~> pc = "idle"

=============================================================================
