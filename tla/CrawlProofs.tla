----------------------------- MODULE CrawlProofs -----------------------------
(***************************************************************************)
(* Safety of the crawl for every site, budget, concurrency and number of    *)
(* runs and faults: max_pages is overshot by less than the concurrency      *)
(* limit, no page is fetched twice, nothing discovered is forgotten, and     *)
(* only a crawl that did everything deletes its checkpoint.                  *)
(***************************************************************************)
EXTENDS CrawlEngine, FiniteSetTheorems, TLAPS

-----------------------------------------------------------------------------
(* The inductive invariants. *)

\* Tasks whose page is not counted yet, and tasks that counted it or never will.
Unsent(t) == {u \in Urls : t[u].at \in {"limit", "captured"}}

Settled(t) == {u \in Urls : t[u].at \in {"links", "done"}}

\* The types the proofs need: pending and queue are free.
Typed ==
    /\ level \in Levels /\ counter \in Nat
    /\ task \in [Urls -> TaskState]
    /\ fetched \in [Urls -> Nat]
    /\ visited \subseteq Urls
    /\ disk # NoCheckpoint => disk.visited \subseteq Urls

Clean ==
    pc = "idle" => task = [u \in Urls |-> NoTask] /\ fetched = [u \in Urls |-> 0]

\* A task works on a page of its own, which this run dispatched.
Owned ==
    /\ loaded.visited \subseteq visited
    /\ Running \subseteq visited \ loaded.visited
    /\ \A u \in Running, v \in visited : Canon[u] = Canon[v] => u = v

Owning == Typed /\ Clean /\ Owned

\* There is a slot for each task, and a page of the allowance for each task
\* that may still count one.  Between the second look at max_pages and the
\* dispatch, only tasks that leave Unsent can have counted.
Slots == Cardinality(Running) <= Base

Allowance == counter + Cardinality(Unsent(task)) <= MaxPages - 1 + Base

Looked ==
    pc \in {"drain", "save", "spawn"} => counter <= MaxPages - 1 + Cardinality(Settled(task))

Budget == Slots /\ Allowance /\ Looked

\* A page that was fetched was dispatched, and one that waits for its permit
\* was not fetched.
Traced == \A p \in Urls : fetched[p] # 0 => \E v \in visited : Canon[v] = p

Unfetched == \A u \in Urls : At(u) = "limit" => fetched[Canon[u]] = 0

Fetches == Traced /\ Unfetched /\ FetchedOnce

\* The types of the run's state, with what makes them hold: links are left to
\* tasks above the last level only, and the queue has an entry per page.
Deep == \A u \in Urls : task[u].left # {} => task[u].depth < MaxDepth

Distinct ==
    /\ Page(queue) \subseteq seen
    /\ \A e, f \in queue : Canon[e.url] = Canon[f.url] => e = f

Queued == TypeOK /\ Deep /\ IsFiniteSet(queue) /\ Distinct

\* What keeps a crawl from being complete: a signal, or max_pages.  The token is
\* fired, and tasks are lost, for one of these only.
Decided == shutdown \/ Full

Resolved == cancelled \/ lost # {} => Decided

\* What tasks pushed is seen by the loop before it ends: whenever the queue may
\* hold something after a drain, a task is still there that the next round joins,
\* or work is pending, which makes that round happen.
Served ==
    /\ pc \in {"save", "spawn", "wait"} /\ queue # {} => Running # {}
    /\ pc \in {"top", "join"} /\ queue # {} => Running # {} \/ pending # <<>>
    /\ pc = "finish" => Decided \/ (pending = <<>> /\ queue = {} /\ Running = {})
    /\ pc = "conclude" => Running = {} /\ (Decided \/ queue = {})
    /\ pc = "shutdown" =>
           Running = {} /\ (path \/ (lost = {} /\ queue = {} /\ pending = <<>>))

Ending == Resolved /\ Served

Open == pc \notin {"idle", "shutdown"} => path

-----------------------------------------------------------------------------
(* Ownership. *)

\* What a saved checkpoint calls visited, and what a failed save leaves.
LEMMA SaveTyped == ASSUME Owning, Save PROVE (disk # NoCheckpoint => disk.visited \subseteq Urls)'
  BY DEF Owning, Typed, Save, Fault

\* A process that ends leaves a clean slate.
LEMMA ForgottenOwning ==
    ASSUME Owning, Forgotten, (disk # NoCheckpoint => disk.visited \subseteq Urls)'
    PROVE  Owning'
  <1>1. NoTask \in TaskState
    BY SchedulerAssumption DEF NoTask, TaskState
  <1>2. Running' = {}
    BY DEF Forgotten, Running, At, NoTask
  <1> QED
    BY <1>1, <1>2 DEF Owning, Typed, Clean, Owned, Forgotten, Fresh, Levels

\* A task that moves on keeps its page, and what it has still to push are URLs.
LEMMA TaskGoes ==
    ASSUME Owning, NEW u \in Urls, Task(u)
    PROVE  \E where \in {"captured", "links", "done"}, links \in SUBSET Urls :
               Goto(u, where, links)
  <1>1. task[u].left \in SUBSET Urls
    BY DEF Owning, Typed, TaskState
  <1>2. CASE CancelledWait(u) \/ FetchFails(u) \/ Fetch(u) \/ Reject(u) \/ Finished(u)
    BY <1>2 DEF CancelledWait, FetchFails, Fetch, Reject, Finished
  <1>3. CASE Send(u)
    <2>1. PICK found \in {{}, IF task[u].depth < MaxDepth THEN Links[u] ELSE {}} :
              Goto(u, "links", found)
      BY <1>3 DEF Send
    <2>2. found \in SUBSET Urls
      BY EngineAssumption
    <2> QED
      BY <2>1, <2>2
  <1>4. CASE PushLink(u)
    BY <1>1, <1>4 DEF PushLink
  <1> QED
    BY <1>2, <1>3, <1>4 DEF Task

LEMMA TaskOwning ==
    ASSUME Owning, NEW u \in Urls, Task(u)
    PROVE  Owning'
  <1>1. UNCHANGED <<visited, loaded, level, disk, pc>>
    BY DEF Task, CancelledWait, FetchFails, Fetch, Reject, Send, PushLink, Finished, scheduler
  <1>2. At(u) # "none" /\ pc # "idle"
    BY DEF Task, CancelledWait, FetchFails, Fetch, Reject, Send, PushLink, Finished,
           Owning, Typed, Clean, At, NoTask
  <1>3. counter' \in Nat /\ fetched' \in [Urls -> Nat]
    BY SchedulerAssumption
    DEF Task, CancelledWait, FetchFails, Fetch, Reject, Send, PushLink, Finished,
        counts, history, Owning, Typed
  <1>4. PICK where \in {"captured", "links", "done"}, links \in SUBSET Urls :
            Goto(u, where, links)
    BY TaskGoes
  <1>5. task' \in [Urls -> TaskState]
    BY <1>4 DEF Goto, Owning, Typed, TaskState
  <1>6. Running' = Running
    BY <1>2, <1>4 DEF Goto, Owning, Typed, Running, At
  <1> QED
    BY <1>1, <1>2, <1>3, <1>5, <1>6 DEF Owning, Typed, Clean, Owned

\* The dispatched page is new to the run, under any spelling.
LEMMA SpawnOwning == ASSUME Owning, Spawn PROVE Owning'
  <1>1. PICK e \in Entry : NextUrl(e)
            /\ task' = [task EXCEPT ![e.url] = [at |-> "limit", depth |-> e.depth, left |-> {}]]
    BY DEF Spawn
  <1>2. e.url \in Urls /\ e.depth \in 0..MaxDepth
    BY DEF Entry
  <1>3. ~IsVisited(e.url) /\ visited' = visited \cup {e.url}
    BY <1>1 DEF NextUrl
  <1>4. Running' = Running \cup {e.url}
    BY <1>1, <1>2 DEF Running, At, Owning, Typed
  <1>5. Typed'
    BY <1>1, <1>2, <1>3 DEF Spawn, Owning, Typed, TaskState, counts, history
  <1>6. Owned'
    BY <1>3, <1>4 DEF Spawn, Owning, Owned, IsVisited
  <1> QED
    BY <1>5, <1>6 DEF Owning, Clean, Spawn

LEMMA OwningInit == ASSUME Init PROVE Owning
  BY SchedulerAssumption
  DEF Init, Owning, Typed, Clean, Owned, Levels, TaskState, NoTask, Running, At, Fresh

LEMMA OwningStep == ASSUME Owning, [Next]_vars PROVE Owning'
  <1>1. CASE Start
    <2>1. Running' = {} /\ Running = {}
      BY <1>1 DEF Start, Owning, Clean, Running, At, NoTask
    <2>2. loaded'.visited \subseteq Urls /\ visited' = loaded'.visited
      BY <1>1 DEF Start, SeedAndRestore, Owning, Typed, Fresh
    <2> QED
      BY <1>1, <2>1, <2>2 DEF Start, Owning, Typed, Clean, Owned, counts, history
  <1>2. CASE \E u \in Urls : Task(u)
    BY <1>2, TaskOwning
  <1>3. CASE Spawn
    BY <1>3, SpawnOwning
  <1>4. CASE Join \/ Wait \/ Finish
    <2>1. NoTask \in TaskState /\ NoTask.at = "none" /\ task \in [Urls -> TaskState]
      BY SchedulerAssumption DEF NoTask, TaskState, Owning, Typed
    <2>2. task' \in [Urls -> TaskState]
      BY <1>4, <2>1 DEF Join, Wait, Finish
    <2>3. Running' \subseteq Running
      BY <1>4, <2>1 DEF Join, Wait, Finish, Running, At
    <2> QED
      BY <1>4, <2>2, <2>3
      DEF Join, Wait, Finish, Owning, Typed, Clean, Owned, scheduler, counts, history
  <1>5. CASE Shutdown \/ Crash
    BY <1>5, SaveTyped, ForgottenOwning DEF Shutdown, Crash, Owning, Typed
  <1>6. CASE \/ Top \/ Drain \/ PeriodicSave \/ SpawnDone \/ Conclude
             \/ Signal \/ SignalCancels \/ Pressure \/ Relief \/ UNCHANGED vars
    <2>1. (disk # NoCheckpoint => disk.visited \subseteq Urls)'
      BY <1>6, SaveTyped
      DEF Top, Drain, PeriodicSave, SpawnDone, Conclude, Signal, SignalCancels, Pressure,
          Relief, vars, Owning, Typed
    <2>2. UNCHANGED <<visited, loaded, task, counter, fetched>> /\ level' \in Levels
      BY <1>6
      DEF Top, Drain, PeriodicSave, SpawnDone, Conclude, Signal, SignalCancels, Pressure,
          Relief, vars, Owning, Typed, scheduler, counts, history, DrainDiscovered,
          NothingNext, Levels
    <2>3. pc' = "idle" => pc = "idle"
      BY <1>6
      DEF Top, Drain, PeriodicSave, SpawnDone, Conclude, Signal, SignalCancels, Pressure,
          Relief, vars
    <2> QED
      BY <2>1, <2>2, <2>3 DEF Owning, Typed, Clean, Owned, Running, At
  <1> QED
    BY <1>1, <1>2, <1>3, <1>4, <1>5, <1>6 DEF Next, Loop

-----------------------------------------------------------------------------
(* The budget. *)

LEMMA Counting ==
    \A S \in SUBSET Urls :
        /\ IsFiniteSet(S) /\ Cardinality(S) \in Nat
        /\ \A T \in SUBSET S : Cardinality(T) <= Cardinality(S)
  <1> SUFFICES ASSUME NEW S \in SUBSET Urls
               PROVE  /\ IsFiniteSet(S) /\ Cardinality(S) \in Nat
                      /\ \A T \in SUBSET S : Cardinality(T) <= Cardinality(S)
    OBVIOUS
  <1>1. IsFiniteSet(S)
    BY FS_Subset, SchedulerAssumption
  <1> QED
    BY <1>1, FS_CardinalityType, FS_Subset

\* A task is unsent or settled.
LEMMA Split ==
    ASSUME NEW t \in [Urls -> TaskState]
    PROVE  LET running == {u \in Urls : t[u].at # "none"}
           IN  /\ running = Unsent(t) \cup Settled(t)
               /\ Cardinality(running) = Cardinality(Unsent(t)) + Cardinality(Settled(t))
  <1> DEFINE running == {u \in Urls : t[u].at # "none"}
  <1>1. running = Unsent(t) \cup Settled(t) /\ Unsent(t) \cap Settled(t) = {}
    BY DEF TaskState, Unsent, Settled
  <1>2. Unsent(t) \in SUBSET Urls /\ Settled(t) \in SUBSET Urls
    BY DEF Unsent, Settled
  <1>3. Cardinality(Unsent(t) \cap Settled(t)) = 0
    BY <1>1, FS_EmptySet
  <1>4. Cardinality(Unsent(t) \cup Settled(t)) =
            Cardinality(Unsent(t)) + Cardinality(Settled(t)) - 0
    BY <1>2, <1>3, Counting, FS_Union
  <1> QED
    BY <1>1, <1>2, <1>4, Counting

\* Autoscaling only lowers the limit.
LEMMA WithinBase ==
    ASSUME level \in Levels
    PROVE  EffectiveConcurrency \in Nat /\ EffectiveConcurrency <= Base
  BY SchedulerAssumption DEF EffectiveConcurrency, Levels

\* Without a page counted or a task more, and no settled task joined between the
\* look and the dispatch, there is room as before.
LEMMA BudgetEases ==
    ASSUME Owning, Owning', Budget, counter' = counter,
           Running' \subseteq Running, Unsent(task') \subseteq Unsent(task),
           pc' \in {"drain", "save", "spawn"} =>
               /\ pc \in {"drain", "save", "spawn"}
               /\ Settled(task) \subseteq Settled(task')
    PROVE  Budget'
  <1>1. /\ Running \in SUBSET Urls /\ Running' \in SUBSET Urls
        /\ Unsent(task) \in SUBSET Urls /\ Unsent(task') \in SUBSET Urls
        /\ Settled(task) \in SUBSET Urls /\ Settled(task') \in SUBSET Urls
    BY DEF Running, Unsent, Settled
  <1>2. /\ Cardinality(Running') <= Cardinality(Running)
        /\ Cardinality(Unsent(task')) <= Cardinality(Unsent(task))
        /\ pc' \in {"drain", "save", "spawn"} =>
               Cardinality(Settled(task)) <= Cardinality(Settled(task'))
    BY <1>1, Counting
  <1>3. /\ Cardinality(Running) \in Nat /\ Cardinality(Running') \in Nat
        /\ Cardinality(Unsent(task)) \in Nat /\ Cardinality(Unsent(task')) \in Nat
        /\ Cardinality(Settled(task)) \in Nat /\ Cardinality(Settled(task')) \in Nat
    BY <1>1, Counting
  <1>4. counter \in Nat /\ MaxPages \in Nat /\ Base \in Nat
    BY SchedulerAssumption DEF Owning, Typed
  <1> QED
    BY <1>2, <1>3, <1>4 DEF Budget, Slots, Allowance, Looked

LEMMA SendBudget ==
    ASSUME Owning, Budget, NEW u \in Urls, Send(u)
    PROVE  Budget'
  <1>1. PICK links : Goto(u, "links", links)
    BY DEF Send
  <1>2. /\ Running' = Running /\ u \in Unsent(task) /\ u \notin Settled(task)
        /\ Unsent(task') = Unsent(task) \ {u}
        /\ Settled(task') = Settled(task) \cup {u}
    BY <1>1 DEF Send, Goto, Owning, Typed, Running, Unsent, Settled, At
  <1>3. Unsent(task) \in SUBSET Urls /\ Settled(task) \in SUBSET Urls
    BY DEF Unsent, Settled
  <1>4. /\ Cardinality(Unsent(task')) = Cardinality(Unsent(task)) - 1
        /\ Cardinality(Settled(task')) = Cardinality(Settled(task)) + 1
    BY <1>2, <1>3, Counting, FS_RemoveElement, FS_AddElement
  <1>5. Cardinality(Unsent(task)) \in Nat /\ Cardinality(Settled(task)) \in Nat
    BY <1>3, Counting
  <1>6. counter' = counter + 1 /\ pc' = pc /\ counter \in Nat
    BY DEF Send, Owning, Typed
  <1> QED
    BY <1>2, <1>4, <1>5, <1>6, SchedulerAssumption DEF Budget, Slots, Allowance, Looked

\* A dispatch takes a free slot, and finds the counter below max_pages but for
\* settled tasks that hold slots of their own.
LEMMA SpawnBudget == ASSUME Owning, Budget, Spawn PROVE Budget'
  <1>1. PICK e \in Entry : NextUrl(e)
            /\ task' = [task EXCEPT ![e.url] = [at |-> "limit", depth |-> e.depth, left |-> {}]]
    BY DEF Spawn
  <1>2. e.url \in Urls /\ e.url \notin Running
    BY <1>1 DEF Entry, NextUrl, IsVisited, Owning, Owned
  <1>3. /\ Running' = Running \cup {e.url}
        /\ Unsent(task') = Unsent(task) \cup {e.url} /\ e.url \notin Unsent(task)
        /\ Settled(task') = Settled(task)
    BY <1>1, <1>2 DEF Owning, Typed, Running, Unsent, Settled, At
  <1>4. /\ Running \in SUBSET Urls /\ Unsent(task) \in SUBSET Urls
        /\ Settled(task) \in SUBSET Urls
    BY DEF Running, Unsent, Settled
  <1>5. /\ Cardinality(Running') = Cardinality(Running) + 1
        /\ Cardinality(Unsent(task')) = Cardinality(Unsent(task)) + 1
    BY <1>2, <1>3, <1>4, Counting, FS_AddElement
  <1>6. /\ Cardinality(Running) \in Nat /\ Cardinality(Unsent(task)) \in Nat
        /\ Cardinality(Settled(task)) \in Nat
    BY <1>4, Counting
  <1>7. Cardinality(Running) = Cardinality(Unsent(task)) + Cardinality(Settled(task))
    BY Split DEF Owning, Typed, Running, At
  <1>8. Cardinality(Running) + 1 <= Base
    BY <1>6, WithinBase, SchedulerAssumption DEF Spawn, CanSpawn, Owning, Typed
  <1>9. counter' = counter /\ pc' = "spawn" /\ pc = "spawn" /\ counter \in Nat
    BY DEF Spawn, counts, Owning, Typed
  <1> QED
    BY <1>3, <1>5, <1>6, <1>7, <1>8, <1>9, SchedulerAssumption
    DEF Budget, Slots, Allowance, Looked

\* No task holds a slot in a fresh process.
LEMMA NoneRunning ==
    ASSUME NEW t, t = [u \in Urls |-> NoTask]
    PROVE  /\ Cardinality({u \in Urls : t[u].at # "none"}) = 0
           /\ Cardinality(Unsent(t)) = 0
  <1>1. {u \in Urls : t[u].at # "none"} = {} /\ Unsent(t) = {}
    BY DEF Unsent, NoTask
  <1> QED
    BY <1>1, FS_EmptySet

LEMMA BudgetInit == ASSUME Init PROVE Budget
  <1>1. Cardinality(Running) = 0 /\ Cardinality(Unsent(task)) = 0
    BY NoneRunning DEF Init, Running, At
  <1> QED
    BY <1>1, SchedulerAssumption DEF Init, Budget, Slots, Allowance, Looked

LEMMA BudgetStep == ASSUME Owning, Owning', Budget, [Next]_vars PROVE Budget'
  <1>1. CASE \E u \in Urls : Task(u)
    <2>1. PICK u \in Urls : Task(u)
      BY <1>1
    <2>2. CASE Send(u)
      BY <2>2, SendBudget
    <2>3. CASE ~Send(u)
      <3>1. PICK where \in {"captured", "links", "done"}, links \in SUBSET Urls :
                Goto(u, where, links)
        BY <2>1, TaskGoes
      <3>2. /\ where \in {"links", "done"} => Settled(task) \subseteq Settled(task')
            /\ where = "captured" => At(u) = "limit"
            /\ where = "links" => At(u) = "links"
            /\ At(u) # "none" /\ pc' = pc /\ counter' = counter
        BY <2>1, <2>3, <3>1
        DEF Task, CancelledWait, FetchFails, Fetch, Reject, PushLink, Finished, Goto,
            Owning, Typed, Settled, At, counts
      <3>3. Running' \subseteq Running /\ Unsent(task') \subseteq Unsent(task)
        BY <3>1, <3>2 DEF Goto, Owning, Typed, Running, Unsent, At
      <3>4. Settled(task) \subseteq Settled(task')
        BY <3>1, <3>2 DEF Goto, Owning, Typed, Settled, At
      <3> QED
        BY <3>2, <3>3, <3>4, BudgetEases
    <2> QED
      BY <2>2, <2>3
  <1>2. CASE Spawn
    BY <1>2, SpawnBudget
  <1>3. CASE Join \/ Wait \/ Finish
    <2>1. /\ NoTask.at = "none" /\ counter' = counter
          /\ \A u \in Urls : task'[u] = task[u] \/ task'[u] = NoTask
      BY <1>3 DEF Join, Wait, Finish, Owning, Typed, NoTask, counts
    <2>2. Running' \subseteq Running /\ Unsent(task') \subseteq Unsent(task)
      BY <2>1 DEF Running, Unsent, At
    <2>3. CASE pc' \notin {"drain", "save", "spawn"}
      BY <2>1, <2>2, <2>3, BudgetEases
    <2>4. CASE pc' \in {"drain", "save", "spawn"}
      <3>1. counter < MaxPages
        BY <1>3, <2>4, SchedulerAssumption DEF Join, Wait, Finish, Full, Owning, Typed
      <3>2. Slots' /\ Allowance'
        <4>1. /\ Running \in SUBSET Urls /\ Running' \in SUBSET Urls
              /\ Unsent(task) \in SUBSET Urls /\ Unsent(task') \in SUBSET Urls
          BY DEF Running, Unsent
        <4> QED
          BY <2>1, <2>2, <4>1, Counting, SchedulerAssumption
          DEF Budget, Slots, Allowance, Owning, Typed
      <3>3. Cardinality(Settled(task')) \in Nat
        BY Counting DEF Settled
      <3> QED
        BY <2>1, <3>1, <3>2, <3>3, SchedulerAssumption DEF Budget, Looked, Owning, Typed
    <2> QED
      BY <2>3, <2>4
  <1>4. CASE Shutdown \/ Crash
    <2>1. task' = [u \in Urls |-> NoTask] /\ counter' = 0 /\ pc' = "idle"
      BY <1>4 DEF Shutdown, Crash, Forgotten
    <2>2. Cardinality(Running') = 0 /\ Cardinality(Unsent(task')) = 0
      BY <2>1, NoneRunning DEF Running, At
    <2> QED
      BY <2>1, <2>2, SchedulerAssumption DEF Budget, Slots, Allowance, Looked
  <1>5. CASE \/ Start \/ Top \/ Drain \/ PeriodicSave \/ SpawnDone \/ Conclude
             \/ Signal \/ SignalCancels \/ Pressure \/ Relief \/ UNCHANGED vars
    <2>1. UNCHANGED <<task, counter>>
      BY <1>5
      DEF Start, Top, Drain, PeriodicSave, SpawnDone, Conclude, Signal, SignalCancels,
          Pressure, Relief, vars, counts
    <2>2. pc' \in {"drain", "save", "spawn"} => pc \in {"drain", "save", "spawn"}
      BY <1>5
      DEF Start, Top, Drain, PeriodicSave, SpawnDone, Conclude, Signal, SignalCancels,
          Pressure, Relief, vars
    <2> QED
      BY <2>1, <2>2, BudgetEases DEF Running, At
  <1> QED
    BY <1>1, <1>2, <1>3, <1>4, <1>5 DEF Next, Loop

\* Tasks in flight overshoot max_pages by less than the concurrency limit
\* (crawl_loop's second look at is_full, #590).
THEOREM BudgetAlwaysKept == Spec => []BudgetKept
  <1>1. Init => Owning /\ Budget
    BY OwningInit, BudgetInit
  <1>2. Owning /\ Budget /\ [Next]_vars => (Owning /\ Budget)'
    BY OwningStep, BudgetStep
  <1>3. Owning /\ Budget => BudgetKept
    <2> SUFFICES ASSUME Owning, Budget PROVE BudgetKept
      OBVIOUS
    <2>1. Cardinality(Unsent(task)) \in Nat
      BY Counting DEF Unsent
    <2> QED
      BY <2>1, SchedulerAssumption DEF Budget, Allowance, BudgetKept, Owning, Typed
  <1> QED
    BY <1>1, <1>2, <1>3, PTL DEF Spec

-----------------------------------------------------------------------------
(* The fetches. *)

\* A task that has its permit is the only one its page has, and the page is in
\* no checkpoint.
LEMMA FetchFetches ==
    ASSUME Owning, Fetches, NEW u \in Urls, Fetch(u)
    PROVE  Fetches'
  <1>1. /\ At(u) = "limit" /\ u \in Running /\ u \in visited /\ u \notin loaded.visited
        /\ \A v \in visited : Canon[u] = Canon[v] => u = v
        /\ UNCHANGED <<visited, loaded>>
    BY DEF Fetch, Owning, Owned, Running, At, scheduler
  <1>2. /\ Canon[u] \in Urls /\ fetched[Canon[u]] = 0
        /\ fetched' \in [Urls -> Nat] /\ fetched'[Canon[u]] = 1
        /\ \A p \in Urls \ {Canon[u]} : fetched'[p] = fetched[p]
    <2>1. Canon[u] \in Urls
      BY SchedulerAssumption
    <2>2. fetched[Canon[u]] = 0
      BY <1>1 DEF Fetches, Unfetched
    <2>3. fetched' = [fetched EXCEPT ![Canon[u]] = @ + 1] /\ fetched \in [Urls -> Nat]
      BY DEF Fetch, Owning, Typed
    <2> QED
      BY <2>1, <2>2, <2>3
  <1>3. Traced'
    BY <1>1, <1>2 DEF Fetches, Traced, Owning, Typed
  <1>4. Unfetched'
    <2> SUFFICES ASSUME NEW w \in Urls, At(w)' = "limit" PROVE fetched'[Canon[w]] = 0
      BY DEF Unfetched
    <2>1. w # u /\ At(w) = "limit"
      BY <1>1 DEF Fetch, Goto, At, Owning, Typed
    <2>2. w \in Running /\ Canon[w] # Canon[u]
      BY <1>1, <2>1 DEF Owning, Owned, Running
    <2> QED
      BY <1>2, <2>1, <2>2, SchedulerAssumption DEF Fetches, Unfetched, Owning, Typed
  <1>5. FetchedOnce'
    <2> SUFFICES ASSUME NEW p \in Urls
                 PROVE  fetched'[p] + (IF \E v \in loaded'.visited : Canon[v] = p
                                       THEN 1 ELSE 0) <= 1
      BY DEF FetchedOnce
    <2>1. CASE p = Canon[u]
      <3>1. ~ \E v \in loaded'.visited : Canon[v] = p
        BY <1>1, <2>1 DEF Owning, Owned
      <3> QED
        BY <1>2, <2>1, <3>1 DEF Owning, Typed
    <2>2. CASE p # Canon[u]
      BY <1>1, <1>2, <2>2 DEF Fetches, FetchedOnce, Owning, Typed
    <2> QED
      BY <2>1, <2>2
  <1> QED
    BY <1>3, <1>4, <1>5 DEF Fetches

\* What is dispatched was not fetched before: it would have been visited.
LEMMA SpawnFetches == ASSUME Owning, Fetches, Spawn PROVE Fetches'
  <1>1. PICK e \in Entry : NextUrl(e)
            /\ task' = [task EXCEPT ![e.url] = [at |-> "limit", depth |-> e.depth, left |-> {}]]
    BY DEF Spawn
  <1>2. /\ e.url \in Urls /\ \A v \in visited : Canon[v] # Canon[e.url]
        /\ visited \subseteq visited' /\ UNCHANGED <<fetched, loaded>>
    BY <1>1 DEF Entry, NextUrl, IsVisited, Spawn, history
  <1>3. Canon[e.url] \in Urls /\ fetched[Canon[e.url]] = 0
    BY <1>2, SchedulerAssumption DEF Fetches, Traced
  <1>4. Unfetched'
    BY <1>1, <1>2, <1>3 DEF Fetches, Unfetched, At, Owning, Typed
  <1> QED
    BY <1>2, <1>4 DEF Fetches, Traced, FetchedOnce

\* Nothing was fetched yet by a process that starts.
LEMMA NothingFetched ==
    ASSUME NEW f, f = [u \in Urls |-> 0], NEW s
    PROVE  \A p \in Urls : f[p] = 0 /\ f[p] + (IF \E v \in s : Canon[v] = p THEN 1 ELSE 0) <= 1
  OBVIOUS

LEMMA FetchesInit == ASSUME Init PROVE Fetches
  BY NothingFetched, SchedulerAssumption
  DEF Init, Fetches, Traced, Unfetched, FetchedOnce, At, NoTask

LEMMA FetchesStep == ASSUME Owning, Fetches, [Next]_vars PROVE Fetches'
  <1>1. CASE \E u \in Urls : Task(u)
    <2>1. PICK u \in Urls : Task(u)
      BY <1>1
    <2>2. CASE Fetch(u)
      BY <2>2, FetchFetches
    <2>3. CASE ~Fetch(u)
      <3>1. PICK where \in {"captured", "links", "done"}, links \in SUBSET Urls :
                Goto(u, where, links)
        BY <2>1, TaskGoes
      <3>2. UNCHANGED <<visited, loaded, fetched>>
        BY <2>1, <2>3
        DEF Task, CancelledWait, FetchFails, Reject, Send, PushLink, Finished, scheduler,
            history
      <3>3. \A w \in Urls : At(w)' = "limit" => At(w) = "limit"
        BY <3>1 DEF Goto, At, Owning, Typed
      <3> QED
        BY <3>2, <3>3 DEF Fetches, Traced, Unfetched, FetchedOnce
    <2> QED
      BY <2>2, <2>3
  <1>2. CASE Spawn
    BY <1>2, SpawnFetches
  <1>3. CASE Start
    <2>1. /\ task' = [u \in Urls |-> NoTask] /\ fetched' = [u \in Urls |-> 0]
      BY <1>3 DEF Start, Owning, Clean, history
    <2> QED
      BY <2>1, NothingFetched, SchedulerAssumption
      DEF Fetches, Traced, Unfetched, FetchedOnce, At, NoTask
  <1>4. CASE Shutdown \/ Crash
    <2>1. /\ task' = [u \in Urls |-> NoTask] /\ fetched' = [u \in Urls |-> 0]
      BY <1>4 DEF Shutdown, Crash, Forgotten
    <2> QED
      BY <2>1, NothingFetched, SchedulerAssumption
      DEF Fetches, Traced, Unfetched, FetchedOnce, At, NoTask
  <1>5. CASE \/ Join \/ Wait \/ Finish \/ Top \/ Drain \/ PeriodicSave \/ SpawnDone \/ Conclude
             \/ Signal \/ SignalCancels \/ Pressure \/ Relief \/ UNCHANGED vars
    <2>1. UNCHANGED <<visited, loaded, fetched>>
      BY <1>5
      DEF Join, Wait, Finish, Top, Drain, PeriodicSave, SpawnDone, Conclude, Signal,
          SignalCancels, Pressure, Relief, vars, scheduler, history, DrainDiscovered,
          NothingNext
    <2>2. \A u \in Urls : task'[u] = task[u] \/ task'[u] = NoTask
      BY <1>5
      DEF Join, Wait, Finish, Top, Drain, PeriodicSave, SpawnDone, Conclude, Signal,
          SignalCancels, Pressure, Relief, vars, Owning, Typed
    <2>3. \A w \in Urls : At(w)' = "limit" => At(w) = "limit"
      BY <2>2 DEF At, NoTask
    <2> QED
      BY <2>1, <2>3 DEF Fetches, Traced, Unfetched, FetchedOnce
  <1> QED
    BY <1>1, <1>2, <1>3, <1>4, <1>5 DEF Next, Loop

\* A page is fetched at most once by a run, and not at all if the checkpoint it
\* resumed from has it, under whatever spelling (record_visit).
THEOREM PagesFetchedOnce == Spec => []FetchedOnce
  <1>1. Init => Owning /\ Fetches
    BY OwningInit, FetchesInit
  <1>2. Owning /\ Fetches /\ [Next]_vars => (Owning /\ Fetches)'
    BY OwningStep, FetchesStep
  <1>3. Owning /\ Fetches => FetchedOnce
    BY DEF Fetches
  <1> QED
    BY <1>1, <1>2, <1>3, PTL DEF Spec

-----------------------------------------------------------------------------
(* The priority order. *)

LEMMA EntryIs ==
    ASSUME NEW e \in Entry
    PROVE  e.url \in Nat /\ e.depth \in Nat /\ Priority(e) \in Nat
  <1>1. e.url \in Urls /\ e.depth \in 0..MaxDepth
    BY DEF Entry
  <1>2. Urls \subseteq Nat
    BY SchedulerAssumption
  <1>3. MaxDepth \in Nat
    BY SchedulerAssumption
  <1>4. e.depth \in Nat
    BY <1>1, <1>3
  <1>5. e.url \in Nat
    BY <1>1, <1>2
  <1> QED
    BY <1>4, <1>5 DEF Priority

\* Before orders entries of different URLs.
LEMMA BeforeOrders ==
    ASSUME NEW e \in Entry, NEW f \in Entry, NEW g \in Entry
    PROVE  /\ ~Before(e, e)
           /\ Before(e, f) /\ Before(f, g) => Before(e, g)
           /\ e.url # f.url => Before(e, f) \/ Before(f, e)
  <1>1. /\ e.url \in Nat /\ f.url \in Nat /\ g.url \in Nat
        /\ Priority(e) \in Nat /\ Priority(f) \in Nat /\ Priority(g) \in Nat
    BY EntryIs
  <1> QED
    BY <1>1 DEF Before

\* Different ranks below their number leave no place free.
LEMMA RanksFill ==
    ASSUME NEW S, IsFiniteSet(S), NEW n \in Nat, n = Cardinality(S), NEW rank \in [S -> Nat],
           \A e \in S : rank[e] < n, \A e, f \in S : e # f => rank[e] # rank[f]
    PROVE  \A i \in 1..n : \E e \in S : rank[e] = i - 1
  <1>1. \A e \in S : rank[e] \in 0..(n - 1)
    OBVIOUS
  <1>2. rank \in Injection(S, 0..(n - 1))
    BY <1>1 DEF Injection, IsInjective
  <1>3. IsFiniteSet(0..(n - 1)) /\ Cardinality(0..(n - 1)) = n
    <2>1. 0 \in Int /\ n - 1 \in Int
      OBVIOUS
    <2> QED
      BY <2>1, FS_Interval
  <1>4. rank \in Surjection(S, 0..(n - 1))
    BY <1>2, <1>3, FS_Injection
  <1>5. \A p \in 0..(n - 1) : \E e \in S : rank[e] = p
    BY <1>4 DEF Surjection
  <1>6. \A i \in 1..n : i - 1 \in 0..(n - 1)
    OBVIOUS
  <1> QED
    BY <1>5, <1>6

\* In priority order, each entry of a queue of distinct pages has its place.
LEMMA Ordered ==
    ASSUME NEW S \in SUBSET Entry, IsFiniteSet(S),
           \A e, f \in S : Canon[e.url] = Canon[f.url] => e = f
    PROVE  /\ InPriorityOrder(S) \in Seq(S)
           /\ \A e \in S : \E i \in DOMAIN InPriorityOrder(S) : InPriorityOrder(S)[i] = e
  <1> DEFINE before(e) == {f \in S : Before(f, e)}
             n == Cardinality(S)
             rank == [e \in S |-> Cardinality(before(e))]
             order == InPriorityOrder(S)
  <1>1. n \in Nat
    BY FS_CardinalityType
  <1>2. \A e \in S : before(e) \in SUBSET S
    OBVIOUS
  <1>3. \A e \in S : IsFiniteSet(before(e)) /\ Cardinality(before(e)) \in Nat
    BY <1>2, FS_Subset, FS_CardinalityType
  <1>4. rank \in [S -> Nat] /\ \A e \in S : rank[e] = Cardinality(before(e))
    BY <1>3
  <1>5. \A e, f \in S : e \in before(f) <=> Before(e, f)
    OBVIOUS
  <1>6. \A e, f \in S : Before(e, f) => before(e) \in SUBSET before(f)
    BY BeforeOrders
  <1>7. order = [i \in 1..n |-> CHOOSE e \in S : Cardinality(before(e)) = i - 1]
    BY DEF InPriorityOrder
  <1> HIDE DEF before, n, rank, order
  <1>8. \A e \in S : rank[e] < n
    <2> SUFFICES ASSUME NEW e \in S PROVE rank[e] < n
      OBVIOUS
    <2>1. before(e) # S
      BY <1>5, BeforeOrders
    <2>2. Cardinality(before(e)) <= n /\ Cardinality(before(e)) # n
      BY <1>2, <2>1, FS_Subset DEF n
    <2> QED
      BY <1>1, <1>3, <1>4, <2>2
  <1>9. \A e, f \in S : Before(e, f) => rank[e] < rank[f]
    <2> SUFFICES ASSUME NEW e \in S, NEW f \in S, Before(e, f) PROVE rank[e] < rank[f]
      OBVIOUS
    <2>1. before(e) # before(f)
      BY <1>5, BeforeOrders
    <2>2. /\ Cardinality(before(e)) <= Cardinality(before(f))
          /\ Cardinality(before(e)) # Cardinality(before(f))
      BY <1>3, <1>6, <2>1, FS_Subset
    <2> QED
      BY <1>3, <1>4, <2>2
  <1>10. \A e, f \in S : e # f => rank[e] # rank[f]
    <2> SUFFICES ASSUME NEW e \in S, NEW f \in S, e # f PROVE rank[e] # rank[f]
      OBVIOUS
    <2>1. Before(e, f) \/ Before(f, e)
      BY BeforeOrders
    <2>2. rank[e] \in Nat /\ rank[f] \in Nat
      BY <1>4
    <2> QED
      BY <1>9, <2>1, <2>2
  <1>11. \A i \in 1..n : \E e \in S : rank[e] = i - 1
    BY <1>1, <1>4, <1>8, <1>10, RanksFill DEF n
  <1>12. \A i \in 1..n : order[i] \in S /\ rank[order[i]] = i - 1
    <2> SUFFICES ASSUME NEW i \in 1..n PROVE order[i] \in S /\ rank[order[i]] = i - 1
      OBVIOUS
    <2>1. order[i] = CHOOSE e \in S : Cardinality(before(e)) = i - 1
      BY <1>7
    <2>2. \E e \in S : Cardinality(before(e)) = i - 1
      BY <1>4, <1>11
    <2>3. order[i] \in S /\ Cardinality(before(order[i])) = i - 1
      BY <2>1, <2>2
    <2> QED
      BY <1>4, <2>3
  <1>13. order \in Seq(S) /\ DOMAIN order = 1..n
    <2>1. order \in [1..n -> S]
      BY <1>7, <1>12
    <2> QED
      BY <1>1, <2>1
  <1>14. \A e \in S : \E i \in DOMAIN order : order[i] = e
    <2> SUFFICES ASSUME NEW e \in S PROVE \E i \in DOMAIN order : order[i] = e
      OBVIOUS
    <2>1. rank[e] \in Nat /\ rank[e] < n
      BY <1>4, <1>8
    <2>2. rank[e] + 1 \in 1..n /\ (rank[e] + 1) - 1 = rank[e]
      BY <1>1, <2>1
    <2>3. order[rank[e] + 1] \in S /\ rank[order[rank[e] + 1]] = rank[e]
      BY <1>12, <2>2
    <2>4. order[rank[e] + 1] = e
      BY <1>10, <2>3
    <2> QED
      BY <1>13, <2>2, <2>4
  <1> QED
    BY <1>13, <1>14 DEF order

-----------------------------------------------------------------------------
(* Types. *)

LEMMA Empty == Page({}) = {} /\ IsFiniteSet({})
  BY FS_EmptySet DEF Page

\* The state of no process.
LEMMA Blank ==
    /\ NoTask \in TaskState /\ NoTask.left = {} /\ NoTask.at = "none"
    /\ Fresh \in Checkpoint /\ <<>> \in Seq(Entry)
  BY SchedulerAssumption DEF NoTask, TaskState, Fresh, Checkpoint

LEMMA BlankQueued ==
    ASSUME visited = {}, seen = {}, queue = {}, pending = <<>>, level = "normal",
           pc = "idle", loaded = Fresh, path = FALSE, task = [u \in Urls |-> NoTask],
           counter = 0, pages = 0, shutdown = FALSE, cancelled = FALSE,
           fetched = [u \in Urls |-> 0], lost = {},
           disk \in Checkpoint \cup {NoCheckpoint}, faults \in 0..MaxFaults, runs \in 0..MaxRuns
    PROVE  Queued
  <1>1. SchedulerTypeOK
    BY Blank DEF SchedulerTypeOK, Levels
  <1>2. task \in [Urls -> TaskState] /\ Deep
    BY Blank DEF Deep
  <1>3. Distinct /\ IsFiniteSet(queue)
    BY Empty DEF Distinct
  <1>4. fetched \in [Urls -> Nat] /\ loaded \in Checkpoint
    BY Blank
  <1> QED
    BY <1>1, <1>2, <1>3, <1>4 DEF Queued, TypeOK

LEMMA QueuedInit == ASSUME Init PROVE Queued
  <1>1. 0 \in 0..MaxFaults /\ 0 \in 0..MaxRuns
    BY EngineAssumption
  <1> QED
    BY <1>1, BlankQueued DEF Init

\* A checkpoint saved from a well-typed scheduler.
LEMMA SnapshotTyped ==
    ASSUME Queued PROVE SnapshotPending \in Seq(Urls)
  <1> DEFINE all == pending \o InPriorityOrder(queue)
             n == IF Len(all) < MaxPages THEN Len(all) ELSE MaxPages
  <1>1. InPriorityOrder(queue) \in Seq(Entry) /\ pending \in Seq(Entry)
    <2>1. InPriorityOrder(queue) \in Seq(queue)
      BY Ordered DEF Queued, TypeOK, SchedulerTypeOK, Distinct
    <2> QED
      BY <2>1 DEF Queued, TypeOK, SchedulerTypeOK
  <1>2. all \in Seq(Entry)
    BY <1>1
  <1>3. SnapshotPending = [i \in 1..n |-> all[i].url]
    BY DEF SnapshotPending
  <1> HIDE DEF all
  <1>4. n \in Nat /\ n <= Len(all)
    BY <1>2, SchedulerAssumption
  <1> HIDE DEF n
  <1>5. \A i \in 1..n : all[i] \in Entry
    BY <1>2, <1>4
  <1>6. \A i \in 1..n : all[i].url \in Urls
    BY <1>5 DEF Entry
  <1> QED
    BY <1>3, <1>4, <1>6

LEMMA SaveKeeps ==
    ASSUME Queued, Save
    PROVE  disk' \in Checkpoint \cup {NoCheckpoint} /\ faults' \in 0..MaxFaults
  <1>1. faults' \in 0..MaxFaults
    BY EngineAssumption DEF Save, Fault, Queued, TypeOK
  <1>2. disk' \in Checkpoint \cup {NoCheckpoint}
    BY SnapshotTyped DEF Save, Checkpoint, Queued, TypeOK, SchedulerTypeOK
  <1> QED
    BY <1>1, <1>2

LEMMA ForgottenQueued ==
    ASSUME Queued, Forgotten, disk' \in Checkpoint \cup {NoCheckpoint}, faults' \in 0..MaxFaults,
           runs' = runs
    PROVE  Queued'
  <1>1. SchedulerTypeOK'
    BY Blank DEF Forgotten, SchedulerTypeOK, Levels
  <1>2. task' \in [Urls -> TaskState] /\ Deep'
    BY Blank DEF Forgotten, Deep
  <1>3. Distinct' /\ IsFiniteSet(queue')
    BY Empty DEF Forgotten, Distinct
  <1>4. fetched' \in [Urls -> Nat] /\ loaded' \in Checkpoint
    BY Blank DEF Forgotten
  <1>5. runs' \in 0..MaxRuns
    BY DEF Queued, TypeOK
  <1> QED
    BY <1>1, <1>2, <1>3, <1>4, <1>5 DEF Forgotten, Queued, TypeOK

\* Steps that leave the scheduler's collections alone.
LEMMA Unscheduled ==
    ASSUME Queued, UNCHANGED <<visited, seen, queue, pending, loaded, runs>>,
           level' \in Levels, disk' \in Checkpoint \cup {NoCheckpoint}, path' \in BOOLEAN,
           pc' \in {"idle", "top", "join", "drain", "save", "spawn", "wait", "finish",
                    "conclude", "shutdown"},
           task' \in [Urls -> TaskState], Deep', counter' \in Nat, pages' \in Nat,
           shutdown' \in BOOLEAN, cancelled' \in BOOLEAN, faults' \in 0..MaxFaults,
           fetched' \in [Urls -> Nat], lost' \subseteq Urls
    PROVE  Queued'
  BY DEF Queued, TypeOK, SchedulerTypeOK, Distinct

LEMMA TaskQueued ==
    ASSUME Queued, Owning, NEW u \in Urls, Task(u) PROVE Queued'
  <1>1. PICK where \in {"captured", "links", "done"}, links \in SUBSET Urls : Goto(u, where, links)
    BY TaskGoes
  <1>2. task' \in [Urls -> TaskState]
    BY <1>1 DEF Goto, Queued, TypeOK, TaskState
  <1>3. Deep'
    <2>1. task'[u].left # {} => task[u].depth < MaxDepth
      <3>1. task[u].left # {} => task[u].depth < MaxDepth
        BY DEF Queued, Deep
      <3>2. CASE Send(u)
        BY <3>2 DEF Send, Goto, Queued, TypeOK
      <3>3. CASE PushLink(u)
        BY <3>1, <3>3 DEF PushLink, Goto, Queued, TypeOK
      <3>4. CASE CancelledWait(u) \/ FetchFails(u) \/ Fetch(u) \/ Reject(u) \/ Finished(u)
        BY <3>4 DEF CancelledWait, FetchFails, Fetch, Reject, Finished, Goto, Queued, TypeOK
      <3> QED
        BY <3>2, <3>3, <3>4 DEF Task
    <2> QED
      BY <1>1, <2>1 DEF Goto, Queued, TypeOK, Deep
  <1>4. /\ UNCHANGED <<visited, pending, level, disk, pc, loaded, path, signals, runs, faults>>
        /\ counter' \in Nat /\ pages' \in Nat /\ lost' \subseteq Urls
    BY DEF Task, CancelledWait, FetchFails, Fetch, Reject, Send, PushLink, Finished, scheduler,
           counts, history, Queued, TypeOK
  <1>5. fetched' \in [Urls -> Nat]
    BY SchedulerAssumption
    DEF Task, CancelledWait, FetchFails, Fetch, Reject, Send, PushLink, Finished, history,
        Queued, TypeOK
  <1>6. CASE UNCHANGED <<seen, queue>>
    BY <1>2, <1>3, <1>4, <1>5, <1>6, Unscheduled DEF signals, Queued, TypeOK, SchedulerTypeOK
  <1>7. CASE PushLink(u)
    <2>1. PICK l \in task[u].left : Push([url |-> l, depth |-> task[u].depth + 1])
      BY <1>7 DEF PushLink
    <2> DEFINE e == [url |-> l, depth |-> task[u].depth + 1]
    <2>2. e \in Entry
      <3>1. task[u].depth \in 0..MaxDepth /\ task[u].left \subseteq Urls /\ task[u].depth < MaxDepth
        BY DEF Queued, TypeOK, TaskState, Deep
      <3>2. task[u].depth + 1 \in 0..MaxDepth
        BY <3>1, SchedulerAssumption
      <3> QED
        BY <3>1, <3>2 DEF Entry
    <2> HIDE DEF e
    <2>3. CASE Canon[e.url] \in seen
      BY <1>6, <2>1, <2>3 DEF Push, e
    <2>4. CASE Canon[e.url] \notin seen
      <3>1. seen' = seen \cup {Canon[e.url]} /\ queue' = queue \cup {e}
        BY <2>1, <2>4 DEF Push, e
      <3>2. Canon[e.url] \in Urls
        BY <2>2, SchedulerAssumption DEF Entry
      <3>3. IsFiniteSet(queue')
        BY <3>1, FS_AddElement DEF Queued
      <3>4. Distinct'
        BY <2>4, <3>1 DEF Queued, Distinct, Page
      <3>5. seen' \subseteq Urls /\ queue' \subseteq Entry
        BY <2>2, <3>1, <3>2 DEF Queued, TypeOK, SchedulerTypeOK
      <3> QED
        BY <1>2, <1>3, <1>4, <1>5, <3>3, <3>4, <3>5 DEF signals, Queued, TypeOK, SchedulerTypeOK
    <2> QED
      BY <2>3, <2>4
  <1> QED
    BY <1>6, <1>7
    DEF Task, CancelledWait, FetchFails, Fetch, Reject, Send, Finished, scheduler

LEMMA SpawnQueued == ASSUME Queued, Spawn PROVE Queued'
  <1>1. PICK e \in Entry : NextUrl(e)
            /\ task' = [task EXCEPT ![e.url] = [at |-> "limit", depth |-> e.depth, left |-> {}]]
    BY DEF Spawn
  <1>2. e.url \in Urls /\ e.depth \in 0..MaxDepth
    BY DEF Entry
  <1>3. task' \in [Urls -> TaskState]
    BY <1>1, <1>2 DEF Queued, TypeOK, TaskState
  <1>4. Deep'
    BY <1>1, <1>2 DEF Queued, TypeOK, Deep
  <1>5. pending \in Seq(Entry) /\ pending' \in Seq(Entry)
    <2>1. PICK i \in DOMAIN pending : pending' = SubSeq(pending, i + 1, Len(pending))
      BY <1>1 DEF NextUrl
    <2> QED
      BY <2>1 DEF Queued, TypeOK, SchedulerTypeOK
  <1>6. visited' \subseteq Urls /\ UNCHANGED <<seen, queue>>
    BY <1>1, <1>2 DEF NextUrl, Queued, TypeOK, SchedulerTypeOK
  <1> QED
    BY <1>3, <1>4, <1>5, <1>6
    DEF Spawn, counts, signals, history, Queued, TypeOK, SchedulerTypeOK, Distinct

LEMMA StartQueued == ASSUME Queued, Start PROVE Queued'
  <1> DEFINE seed == [url |-> Seed, depth |-> 0]
             restored == [i \in DOMAIN loaded'.queued |-> [url |-> loaded'.queued[i], depth |-> 0]]
  <1>1. loaded' \in Checkpoint /\ runs' \in 0..MaxRuns
    BY Blank, EngineAssumption DEF Start, Queued, TypeOK
  <1>2. loaded'.visited \subseteq Urls /\ loaded'.queued \in Seq(Urls)
    BY <1>1 DEF Checkpoint
  <1>3. seed \in Entry /\ Canon[Seed] \in Urls /\ 0 \in 0..MaxDepth
    BY SchedulerAssumption DEF Entry
  <1>4. /\ visited' = loaded'.visited /\ seen' = {Canon[Seed]} /\ queue' = {seed}
        /\ pending' = restored \o <<seed>>
    BY DEF Start, SeedAndRestore
  <1>5. restored \in Seq(Entry)
    <2>1. \A i \in DOMAIN loaded'.queued : [url |-> loaded'.queued[i], depth |-> 0] \in Entry
      BY <1>2, <1>3 DEF Entry
    <2>2. Len(loaded'.queued) \in Nat /\ DOMAIN loaded'.queued = 1..Len(loaded'.queued)
      BY <1>2
    <2>3. restored \in [1..Len(loaded'.queued) -> Entry]
      BY <2>1, <2>2
    <2> QED
      BY <2>2, <2>3
  <1> HIDE DEF restored
  <1>6. pending' \in Seq(Entry)
    BY <1>3, <1>4, <1>5
  <1>7. SchedulerTypeOK'
    BY <1>2, <1>3, <1>4, <1>6 DEF Start, Queued, TypeOK, SchedulerTypeOK
  <1>8. IsFiniteSet(queue') /\ Distinct'
    <2>1. IsFiniteSet({seed})
      BY FS_Singleton
    <2> QED
      BY <1>4, <2>1 DEF Distinct, Page
  <1>9. Deep'
    BY DEF Start, Queued, Deep
  <1> QED
    BY <1>1, <1>7, <1>8, <1>9 DEF Start, counts, signals, history, Queued, TypeOK

LEMMA DrainQueued == ASSUME Queued, Drain PROVE Queued'
  <1>1. InPriorityOrder(queue) \in Seq(Entry)
    <2>1. InPriorityOrder(queue) \in Seq(queue)
      BY Ordered DEF Queued, TypeOK, SchedulerTypeOK, Distinct
    <2> QED
      BY <2>1 DEF Queued, TypeOK, SchedulerTypeOK
  <1>2. pending' \in Seq(Entry)
    BY <1>1 DEF Drain, DrainDiscovered, Queued, TypeOK, SchedulerTypeOK
  <1>3. SchedulerTypeOK'
    BY <1>2 DEF Drain, DrainDiscovered, Queued, TypeOK, SchedulerTypeOK
  <1>4. IsFiniteSet(queue') /\ Distinct'
    BY Empty DEF Drain, DrainDiscovered, Distinct
  <1> QED
    BY <1>3, <1>4 DEF Drain, DrainDiscovered, counts, signals, history, Queued, TypeOK, Deep

LEMMA QueuedStep == ASSUME Owning, Queued, [Next]_vars PROVE Queued'
  <1>1. CASE \E u \in Urls : Task(u)
    BY <1>1, TaskQueued
  <1>2. CASE Start
    BY <1>2, StartQueued
  <1>3. CASE Spawn
    BY <1>3, SpawnQueued
  <1>4. CASE Drain
    BY <1>4, DrainQueued
  <1>5. CASE Shutdown
    BY <1>5, SaveKeeps, ForgottenQueued DEF Shutdown
  <1>6. CASE Crash
    <2>1. faults' \in 0..MaxFaults
      BY <1>6, EngineAssumption DEF Crash, Fault, Queued, TypeOK
    <2> QED
      BY <1>6, <2>1, ForgottenQueued DEF Crash, Queued, TypeOK
  <1>7. CASE Join \/ Wait \/ Finish
    <2>1. task' \in [Urls -> TaskState] /\ Deep'
      <3>1. /\ task' = [u \in Urls |-> task'[u]]
            /\ \A u \in Urls : task'[u] = task[u] \/ task'[u] = NoTask
        BY <1>7 DEF Join, Wait, Finish, Queued, TypeOK
      <3> QED
        BY <3>1, Blank DEF Queued, TypeOK, Deep
    <2>2. faults' \in 0..MaxFaults
      BY <1>7, EngineAssumption DEF Join, Wait, Finish, Fault, Queued, TypeOK
    <2> QED
      BY <1>7, <2>1, <2>2, Unscheduled
      DEF Join, Wait, Finish, scheduler, counts, signals, history, Queued, TypeOK, SchedulerTypeOK
  <1>8. CASE Top \/ PeriodicSave \/ Conclude
    <2>1. disk' \in Checkpoint \cup {NoCheckpoint} /\ faults' \in 0..MaxFaults
      BY <1>8, SaveKeeps, EngineAssumption DEF Top, PeriodicSave, Conclude, Fault, Queued, TypeOK
    <2>2. Deep'
      BY <1>8 DEF Top, PeriodicSave, Conclude, Queued, Deep
    <2>3. path' \in BOOLEAN
      BY <1>8 DEF Top, PeriodicSave, Conclude, Queued, TypeOK
    <2> QED
      BY <1>8, <2>1, <2>2, <2>3, Unscheduled
      DEF Top, PeriodicSave, Conclude, scheduler, counts, signals, history, Queued, TypeOK, SchedulerTypeOK
  <1>9. CASE SpawnDone
    BY <1>9, Blank
    DEF SpawnDone, NothingNext, scheduler, counts, signals, history, Queued, TypeOK, SchedulerTypeOK,
        Distinct, Deep
  <1>10. CASE Signal \/ SignalCancels \/ Pressure \/ Relief \/ UNCHANGED vars
    <2>1. faults' \in 0..MaxFaults /\ level' \in Levels
      BY <1>10, EngineAssumption
      DEF Signal, SignalCancels, Pressure, Relief, vars, Fault, Queued, TypeOK, SchedulerTypeOK, Levels
    <2>2. Deep'
      BY <1>10 DEF Signal, SignalCancels, Pressure, Relief, vars, Queued, Deep
    <2>3. CASE Signal \/ SignalCancels
      BY <2>1, <2>2, <2>3, Unscheduled
      DEF Signal, SignalCancels, scheduler, counts, history, Queued, TypeOK, SchedulerTypeOK
    <2>4. CASE Pressure \/ Relief
      BY <2>1, <2>2, <2>4, Unscheduled
      DEF Pressure, Relief, scheduler, counts, signals, history, Queued, TypeOK, SchedulerTypeOK
    <2>5. CASE UNCHANGED vars
      BY <2>1, <2>2, <2>5, Unscheduled
      DEF vars, scheduler, counts, signals, history, Queued, TypeOK, SchedulerTypeOK
    <2> QED
      BY <1>10, <2>3, <2>4, <2>5
  <1> QED
    BY <1>1, <1>2, <1>3, <1>4, <1>5, <1>6, <1>7, <1>8, <1>9, <1>10 DEF Next, Loop

-----------------------------------------------------------------------------
(* Nothing is forgotten. *)

\* An entry leaves the queue for the buffer, and the buffer for the visited URLs.
LEMMA KeptStep == ASSUME Owning, Queued, NothingForgotten, [Next]_vars PROVE NothingForgotten'
  <1>1. CASE UNCHANGED <<visited, seen, queue, pending>>
    BY <1>1 DEF NothingForgotten
  <1>2. CASE \E u \in Urls : PushLink(u)
    <2>1. PICK e : Push(e) /\ UNCHANGED <<visited, pending>>
      BY <1>2 DEF PushLink
    <2>2. CASE UNCHANGED <<seen, queue>>
      BY <1>1, <2>1, <2>2
    <2>3. CASE seen' = seen \cup {Canon[e.url]} /\ queue' = queue \cup {e}
      <3>1. Page(queue') = Page(queue) \cup {Canon[e.url]}
        BY <2>3 DEF Page
      <3> QED
        BY <2>1, <2>3, <3>1 DEF NothingForgotten
    <2> QED
      BY <2>1, <2>2, <2>3 DEF Push
  <1>3. CASE Start
    <2> DEFINE seed == [url |-> Seed, depth |-> 0]
    <2>1. seen' = {Canon[Seed]} /\ queue' = {seed}
      BY <1>3 DEF Start, SeedAndRestore
    <2>2. Page(queue') = {Canon[Seed]}
      BY <2>1 DEF Page
    <2> QED
      BY <2>1, <2>2 DEF NothingForgotten
  <1>4. CASE Spawn
    <2>1. PICK e \in Entry : NextUrl(e)
      BY <1>4 DEF Spawn
    <2>2. PICK i \in DOMAIN pending :
              /\ pending[i] = e
              /\ \A j \in 1..(i - 1) : IsVisited(pending[j].url)
              /\ pending' = SubSeq(pending, i + 1, Len(pending))
              /\ visited' = visited \cup {e.url}
              /\ UNCHANGED <<seen, queue>>
      BY <2>1 DEF NextUrl
    <2>3. pending \in Seq(Entry) /\ DOMAIN pending = 1..Len(pending) /\ Len(pending) \in Nat
      BY DEF Queued, TypeOK, SchedulerTypeOK
    <2>4. \A j \in 1..Len(pending) :
              \/ Canon[pending[j].url] \in {Canon[v] : v \in visited'}
              \/ pending[j] \in ToSet(pending')
      <3> SUFFICES ASSUME NEW j \in 1..Len(pending)
                   PROVE  \/ Canon[pending[j].url] \in {Canon[v] : v \in visited'}
                          \/ pending[j] \in ToSet(pending')
        OBVIOUS
      <3>1. CASE j < i
        <4>1. IsVisited(pending[j].url)
          BY <2>2, <2>3, <3>1
        <4> QED
          BY <2>2, <4>1 DEF IsVisited
      <3>2. CASE j = i
        BY <2>2, <3>2
      <3>3. CASE j > i
        <4>1. j - i \in DOMAIN pending' /\ pending'[j - i] = pending[j]
          BY <2>2, <2>3, <3>3
        <4> QED
          BY <4>1 DEF ToSet
      <3> QED
        BY <2>3, <3>1, <3>2, <3>3
    <2>5. Page(ToSet(pending)) \subseteq Page(ToSet(pending')) \cup {Canon[v] : v \in visited'}
      BY <2>3, <2>4 DEF Page, ToSet
    <2>6. {Canon[v] : v \in visited} \subseteq {Canon[v] : v \in visited'}
      BY <2>2
    <2> QED
      BY <2>2, <2>5, <2>6 DEF NothingForgotten
  <1>5. CASE SpawnDone
    <2>1. CASE UNCHANGED scheduler
      BY <1>1, <2>1 DEF scheduler
    <2>2. CASE NothingNext
      <3>1. Page(ToSet(pending)) \subseteq {Canon[v] : v \in visited}
        BY <2>2 DEF NothingNext, IsVisited, Page, ToSet
      <3> QED
        BY <2>2, <3>1 DEF NothingNext, NothingForgotten
    <2> QED
      BY <1>5, <2>1, <2>2 DEF SpawnDone
  <1>6. CASE Drain
    <2> DEFINE order == InPriorityOrder(queue)
    <2>1. order \in Seq(queue) /\ \A e \in queue : \E i \in DOMAIN order : order[i] = e
      BY Ordered DEF Queued, TypeOK, SchedulerTypeOK, Distinct
    <2>2. pending' = pending \o order /\ queue' = {} /\ UNCHANGED <<visited, seen>>
      BY <1>6 DEF Drain, DrainDiscovered
    <2> HIDE DEF order
    <2>3. pending \in Seq(Entry) /\ order \in Seq(Entry)
      BY <2>1 DEF Queued, TypeOK, SchedulerTypeOK
    <2>4. ToSet(pending) \subseteq ToSet(pending')
      BY <2>2, <2>3 DEF ToSet
    <2>5. queue \subseteq ToSet(pending')
      <3> SUFFICES ASSUME NEW e \in queue PROVE e \in ToSet(pending')
        OBVIOUS
      <3>1. PICK i \in DOMAIN order : order[i] = e
        BY <2>1
      <3>2. Len(pending) + i \in DOMAIN pending' /\ pending'[Len(pending) + i] = e
        BY <2>2, <2>3, <3>1
      <3> QED
        BY <3>2 DEF ToSet
    <2>6. Page(queue) \cup Page(ToSet(pending)) \subseteq Page(ToSet(pending'))
      BY <2>4, <2>5 DEF Page
    <2> QED
      BY <2>2, <2>6 DEF NothingForgotten
  <1>7. CASE Shutdown \/ Crash
    BY <1>7 DEF Shutdown, Crash, Forgotten, NothingForgotten
  <1>8. CASE \/ Top \/ Join \/ PeriodicSave \/ Wait \/ Finish \/ Conclude
             \/ Signal \/ SignalCancels \/ Pressure \/ Relief \/ UNCHANGED vars
    BY <1>1, <1>8
    DEF Top, Join, PeriodicSave, Wait, Finish, Conclude, Signal, SignalCancels, Pressure, Relief,
        vars, scheduler
  <1>9. ASSUME NEW u \in Urls, Task(u) PROVE NothingForgotten'
    BY <1>1, <1>2, <1>9
    DEF Task, CancelledWait, FetchFails, Fetch, Reject, Send, Finished, scheduler
  <1> QED
    BY <1>3, <1>4, <1>5, <1>6, <1>7, <1>8, <1>9 DEF Next, Loop

-----------------------------------------------------------------------------
(* The end of a run. *)

LEMMA OpenStep == ASSUME Open, [Next]_vars PROVE Open'
  <1>1. ASSUME NEW u \in Urls, Task(u) PROVE Open'
    BY <1>1 DEF Task, CancelledWait, FetchFails, Fetch, Reject, Send, PushLink, Finished, Open
  <1>2. CASE Start \/ Loop
    BY <1>2
    DEF Start, Loop, Top, Join, Drain, PeriodicSave, Spawn, SpawnDone, Wait, Finish, Conclude,
        Shutdown, Forgotten, Open
  <1>3. CASE Signal \/ SignalCancels \/ Pressure \/ Relief \/ Crash \/ UNCHANGED vars
    BY <1>3 DEF Signal, SignalCancels, Pressure, Relief, Crash, Forgotten, vars, Open
  <1> QED
    BY <1>1, <1>2, <1>3 DEF Next

LEMMA EndingInit == ASSUME Init PROVE Ending
  BY DEF Init, Ending, Resolved, Served

\* The counter does not go back.
LEMMA DecidedStays ==
    ASSUME Queued, Decided, counter' \in Nat, counter' >= counter, shutdown => shutdown'
    PROVE  Decided'
  BY SchedulerAssumption DEF Decided, Full, Queued, TypeOK

\* While a task runs the crawl goes on: only the bounded drain ends tasks.
LEMMA TaskEnding ==
    ASSUME Owning, Queued, Ending, NEW u \in Urls, Task(u) PROVE Ending'
  <1>1. PICK where \in {"captured", "links", "done"}, links \in SUBSET Urls : Goto(u, where, links)
    BY TaskGoes
  <1>2. /\ UNCHANGED <<pending, pc, path, shutdown, cancelled>>
        /\ counter' \in Nat /\ counter' >= counter
        /\ lost' = lost \/ cancelled
        /\ At(u) # "none"
    BY DEF Task, CancelledWait, FetchFails, Fetch, Reject, Send, PushLink, Finished, scheduler,
           counts, signals, history, Queued, TypeOK
  <1>3. Running' # {} /\ Running # {}
    BY <1>1, <1>2 DEF Goto, Running, At, Queued, TypeOK
  <1>4. Decided => Decided'
    BY <1>2, DecidedStays
  <1>5. Resolved'
    BY <1>2, <1>4 DEF Ending, Resolved
  <1>6. Served'
    BY <1>2, <1>3, <1>4 DEF Ending, Served
  <1> QED
    BY <1>5, <1>6 DEF Ending

LEMMA EndingStep == ASSUME Owning, Queued, Queued', Open, Ending, [Next]_vars PROVE Ending'
  <1>1. ASSUME NEW u \in Urls, Task(u) PROVE Ending'
    BY <1>1, TaskEnding
  <1>2. CASE Start
    BY <1>2, Blank DEF Start, SeedAndRestore, signals, history, counts, Ending, Resolved, Served, Decided, Full
  <1>3. CASE Spawn
    <2>1. PICK e \in Entry :
              task' = [task EXCEPT ![e.url] = [at |-> "limit", depth |-> e.depth, left |-> {}]]
      BY <1>3 DEF Spawn
    <2>2. e.url \in Running'
      BY <2>1 DEF Entry, Running, At, Queued, TypeOK
    <2> QED
      BY <1>3, <2>2 DEF Spawn, counts, signals, history, Ending, Resolved, Served, Decided, Full
  <1>4. CASE Top
    <2>1. UNCHANGED <<queue, pending, lost, counter, shutdown>> /\ Running' = Running
      BY <1>4 DEF Top, scheduler, counts, history, Running, At
    <2>2. cancelled' => cancelled \/ shutdown
      BY <1>4 DEF Top
    <2>3. Decided' = Decided
      BY <2>1 DEF Decided, Full
    <2>4. \/ pc' = "join"
          \/ pc' = "finish" /\ (Decided \/ (pending = <<>> /\ Running = {}))
      BY <1>4 DEF Top, HasPendingWork, Decided
    <2>5. queue # {} => Running # {} \/ pending # <<>>
      BY <1>4 DEF Top, Ending, Served
    <2> QED
      BY <2>1, <2>2, <2>3, <2>4, <2>5 DEF Ending, Resolved, Served, Decided
  <1>5. CASE Join
    <2>1. \/ pc' = "drain" /\ cancelled' = cancelled
          \/ pc' = "finish" /\ Full
      BY <1>5 DEF Join
    <2>2. UNCHANGED <<lost, counter, shutdown>> /\ (Full => Full')
      BY <1>5 DEF Join, counts, history, Full
    <2> QED
      BY <2>1, <2>2 DEF Ending, Resolved, Served, Decided
  <1>6. CASE Drain
    BY <1>6
    DEF Drain, DrainDiscovered, counts, signals, history, Ending, Resolved, Served, Decided, Full
  <1>7. CASE PeriodicSave \/ SpawnDone
    <2>1. UNCHANGED <<queue, task, lost, counter, shutdown, cancelled>> /\ Running' = Running
      BY <1>7
      DEF PeriodicSave, SpawnDone, NothingNext, scheduler, counts, signals, history, Running, At
    <2>2. pc \in {"save", "spawn"} /\ pc' \in {"spawn", "wait"}
      BY <1>7 DEF PeriodicSave, SpawnDone
    <2> QED
      BY <2>1, <2>2 DEF Ending, Resolved, Served, Decided, Full
  <1>8. CASE Wait
    <2>1. UNCHANGED <<queue, pending, lost, counter, shutdown, cancelled>>
      BY <1>8 DEF Wait, scheduler, counts, signals, history
    <2>2. pc = "wait" /\ pc' = "top"
      BY <1>8 DEF Wait
    <2>3. Running' = Running \/ pending # <<>>
      BY <1>8 DEF Wait, HasPendingWork, Running, At
    <2> QED
      BY <2>1, <2>2, <2>3 DEF Ending, Resolved, Served, Decided, Full
  <1>9. CASE Finish
    <2>1. UNCHANGED <<queue, counter, shutdown, cancelled>> /\ pc = "finish" /\ pc' = "conclude"
      BY <1>9 DEF Finish, scheduler, counts, signals
    <2>2. Running' = {}
      BY <1>9, Blank DEF Finish, Running, At
    <2>3. Running = {} => lost' = lost
      BY <1>9 DEF Finish, Running
    <2>4. Decided' = Decided
      BY <2>1 DEF Decided, Full
    <2> QED
      BY <2>1, <2>2, <2>3, <2>4 DEF Ending, Resolved, Served
  <1>10. CASE Conclude
    <2>1. /\ UNCHANGED <<queue, pending, task, lost, counter, shutdown, cancelled>>
          /\ pc = "conclude" /\ pc' = "shutdown"
      BY <1>10 DEF Conclude, scheduler, counts, signals, history
    <2>2. Running' = Running /\ Decided' = Decided
      BY <2>1 DEF Running, At, Decided, Full
    <2>3. path' \/ (~Decided /\ pending = <<>>)
      BY <1>10 DEF Conclude, HasPendingWork, Decided, Open
    <2> QED
      BY <2>1, <2>2, <2>3 DEF Ending, Resolved, Served
  <1>11. CASE Shutdown \/ Crash
    BY <1>11 DEF Shutdown, Crash, Forgotten, Ending, Resolved, Served
  <1>12. CASE Signal \/ SignalCancels \/ Pressure \/ Relief \/ UNCHANGED vars
    <2>1. /\ UNCHANGED <<queue, pending, pc, path, task, lost, counter>>
          /\ shutdown => shutdown'
          /\ cancelled' => cancelled \/ shutdown'
      BY <1>12
      DEF Signal, SignalCancels, Pressure, Relief, vars, scheduler, counts, signals, history
    <2>2. Running' = Running /\ (Decided => Decided')
      BY <2>1 DEF Running, At, Decided, Full
    <2>3. Resolved'
      BY <2>1, <2>2 DEF Ending, Resolved, Decided
    <2>4. Served'
      BY <2>1, <2>2 DEF Ending, Served
    <2> QED
      BY <2>3, <2>4 DEF Ending
  <1> QED
    BY <1>1, <1>2, <1>3, <1>4, <1>5, <1>6, <1>7, <1>8, <1>9, <1>10, <1>11, <1>12 DEF Next, Loop

LEMMA KeptInit == ASSUME Init PROVE NothingForgotten
  BY DEF Init, NothingForgotten

\* The crawl's state is of its types: in particular a checkpoint is one a run can
\* load, and no link is pushed below the last level (CrawlCheckpoint, extract_links).
THEOREM TypeCorrect == Spec => []TypeOK
  <1>1. Init => Owning /\ Queued
    BY OwningInit, QueuedInit
  <1>2. Owning /\ Queued /\ [Next]_vars => (Owning /\ Queued)'
    BY OwningStep, QueuedStep
  <1>3. Queued => TypeOK
    BY DEF Queued
  <1> QED
    BY <1>1, <1>2, <1>3, PTL DEF Spec

\* While a run goes on, what it pushed on its queue is still to be dispatched or was
\* (drain_discovered, next_url).
THEOREM DiscoveredIsKept == Spec => []NothingForgotten
  <1>1. Init => Owning /\ Queued /\ NothingForgotten
    BY OwningInit, QueuedInit, KeptInit
  <1>2. Owning /\ Queued /\ NothingForgotten /\ [Next]_vars => (Owning /\ Queued /\ NothingForgotten)'
    BY OwningStep, QueuedStep, KeptStep
  <1> QED
    BY <1>1, <1>2, PTL DEF Spec

\* A crawl that deleted its checkpoint lost no task and left no discovered page
\* undispatched: no task can push behind the loop's back (crawl_loop, run, F-01).
THEOREM DeletionMeansDone == Spec => []DeletedOnlyWhenDone
  <1> DEFINE I == Owning /\ Queued /\ NothingForgotten /\ Open /\ Ending
  <1>1. Init => I
    BY OwningInit, QueuedInit, KeptInit, EndingInit DEF Init, Open
  <1>2. I /\ [Next]_vars => I'
    BY OwningStep, QueuedStep, KeptStep, OpenStep, EndingStep
  <1>3. I => DeletedOnlyWhenDone
    <2> SUFFICES ASSUME I, pc = "shutdown", ~path
                 PROVE  lost = {} /\ queue = {} /\ seen \subseteq {Canon[v] : v \in visited}
      BY DEF DeletedOnlyWhenDone
    <2>1. lost = {} /\ queue = {} /\ pending = <<>>
      BY DEF Ending, Served
    <2>2. ToSet(pending) = {}
      BY <2>1 DEF ToSet
    <2>3. Page(queue) = {} /\ Page(ToSet(pending)) = {}
      BY <2>1, <2>2, Empty
    <2> QED
      BY <2>1, <2>3 DEF NothingForgotten
  <1> QED
    BY <1>1, <1>2, <1>3, PTL DEF Spec

=============================================================================
