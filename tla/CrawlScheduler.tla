--------------------------- MODULE CrawlScheduler ---------------------------
(***************************************************************************)
(* The crawl's scheduling state (application/crawler/crawl_scheduler.rs and *)
(* infrastructure/crawler/url_queue.rs): the discovery queue the page tasks *)
(* share, with its own set of seen pages; the local buffer of pending       *)
(* entries; the visited set, marked at dispatch; the concurrency limit.     *)
(* CrawlEngine.tla drives it.                                               *)
(***************************************************************************)
EXTENDS Naturals, Sequences, FiniteSets, SequencesExt

CONSTANTS Urls,      \* numbered in their lexicographic order
          Canon,     \* normalize_url: Canon[u] is the page that u is a spelling of
          Seed,      \* config.seed_url
          MaxPages,  \* config.max_pages
          MaxDepth,  \* config.max_depth
          Base       \* the budget model's crawl tier

ASSUME SchedulerAssumption ==
    /\ Urls \subseteq Nat /\ IsFiniteSet(Urls) /\ Seed \in Urls
    /\ Canon \in [Urls -> Urls]
    /\ MaxPages \in Nat \ {0} /\ MaxDepth \in Nat /\ Base \in Nat \ {0}

VARIABLES
    visited,  \* URLs dispatched, or restored from a checkpoint
    seen,     \* pages that were ever pushed on this process's queue
    queue,    \* UrlQueue: discovered, not yet drained
    pending,  \* the scheduler's buffer, first in first out
    level     \* memory pressure, set by the poller

scheduler == <<visited, seen, queue, pending>>

Entry == [url : Urls, depth : 0..MaxDepth]

Page(entries) == {Canon[e.url] : e \in entries}

Levels == {"normal", "reduced", "critical"}

SchedulerTypeOK ==
    /\ visited \subseteq Urls
    /\ seen \subseteq Urls
    /\ queue \subseteq Entry
    /\ pending \in Seq(Entry)
    /\ level \in Levels

-----------------------------------------------------------------------------
(* UrlQueue. *)

\* PrioritizedUrl::from_source: links lose priority with depth, down to a floor;
\* the seed, alone at depth 0, comes first.
Priority(e) == IF e.depth < 20 THEN 20 - e.depth ELSE 0

\* PrioritizedUrl::cmp: among equals the smaller URL comes first.
Before(e, f) ==
    \/ Priority(e) > Priority(f)
    \/ Priority(e) = Priority(f) /\ e.url < f.url

\* A place for each entry: as many come before it.
InPriorityOrder(entries) ==
    [i \in 1..Cardinality(entries) |->
        CHOOSE e \in entries : Cardinality({f \in entries : Before(f, e)}) = i - 1]

\* push_prioritized: a page is accepted once, however it is spelled.  The seen
\* set is read by pushes only, so entering it and the heap are one step.
Push(e) ==
    IF Canon[e.url] \in seen
    THEN UNCHANGED <<seen, queue>>
    ELSE seen' = seen \cup {Canon[e.url]} /\ queue' = queue \cup {e}

-----------------------------------------------------------------------------
(* CrawlScheduler. *)

\* Mutant: URLs are compared as they are spelled.
IsVisitedSpelling(url) == url \in visited

IsVisited(url) == \E v \in visited : Canon[v] = Canon[url]

\* restore_visited, restore_pending (depth 0, past the queue and its seen set),
\* then seed: queue and buffer both.
SeedAndRestore(urls, queued) ==
    LET seed == [url |-> Seed, depth |-> 0]
    IN  /\ visited' = urls
        /\ seen' = {Canon[Seed]} /\ queue' = {seed}
        /\ pending' = [i \in DOMAIN queued |-> [url |-> queued[i], depth |-> 0]] \o <<seed>>

\* Mutant: what was drained replaces what was pending.
DrainReplacing ==
    /\ pending' = InPriorityOrder(queue)
    /\ queue' = {}
    /\ UNCHANGED <<visited, seen>>

DrainDiscovered ==
    /\ pending' = pending \o InPriorityOrder(queue)
    /\ queue' = {}
    /\ UNCHANGED <<visited, seen>>

HasPendingWork == pending # <<>>

EffectiveConcurrency == CASE level = "normal"   -> Base
                          [] level = "reduced"  -> Base \div 2
                          [] level = "critical" -> 0

CanSpawn(inFlight) == inFlight < EffectiveConcurrency

\* next_url, the limit known not to be reached: drop what was visited, hand out
\* and mark what comes first after it.
NextUrl(e) ==
    \E i \in DOMAIN pending :
        /\ pending[i] = e /\ ~IsVisited(e.url)
        /\ \A j \in 1..(i - 1) : IsVisited(pending[j].url)
        /\ pending' = SubSeq(pending, i + 1, Len(pending))
        /\ visited' = visited \cup {e.url}
        /\ UNCHANGED <<seen, queue>>

\* Mutant: visited entries are passed over, not popped.
NothingNextKept ==
    /\ \A i \in DOMAIN pending : IsVisited(pending[i].url)
    /\ UNCHANGED scheduler

\* next_url that finds nothing.
NothingNext ==
    /\ \A i \in DOMAIN pending : IsVisited(pending[i].url)
    /\ pending' = <<>>
    /\ UNCHANGED <<visited, seen, queue>>

\* snapshot_pending_bounded: what is next in line first, at most max_pages.
SnapshotPending ==
    LET all == pending \o InPriorityOrder(queue)
    IN  [i \in 1..(IF Len(all) < MaxPages THEN Len(all) ELSE MaxPages) |-> all[i].url]

=============================================================================
