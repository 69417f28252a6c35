--------------------------- MODULE AssetDownloader ---------------------------
(***************************************************************************)
(* Downloader::download (adapters/downloader/mod.rs): calls of many pages    *)
(* share one registry of cells, each filled at most once; a ledger keeps the *)
(* order of insertion, and every call evicts what exceeds the capacity,      *)
(* sparing the cells whose download is marked as in flight.  Files are       *)
(* streamed to a temporary one and renamed.  A call may be dropped at any of *)
(* its awaits.                                                               *)
(***************************************************************************)
EXTENDS Integers, Sequences, FiniteSets

CONSTANTS Calls,       \* calls of download; also the cells they create
          Urls,
          Capacity,    \* asset_cache_capacity
          Concurrency, \* calls under way at once
          MaxRetries,  \* config.max_retries
          Content,     \* what a URL serves
          FileName,    \* generate_filename, for a URL and its content
          None

ASSUME AssetAssumption ==
    /\ IsFiniteSet(Urls) /\ IsFiniteSet(Calls)
    /\ Capacity \in Nat \ {0} /\ Concurrency \in Nat \ {0} /\ MaxRetries \in Nat
    /\ None \notin Calls \cup Urls

VARIABLES
    at,        \* where each call is
    url,       \* what it downloads
    cell,      \* the cell it holds
    attempt,   \* retries of the download it runs
    asset,     \* what it returned, or is about to
    map,       \* downloaded_urls: the cell of each URL
    value,     \* what each cell holds
    queue,     \* the ledger's queue ...
    seen,      \* ... and its membership set
    lock,      \* the call that holds the ledger
    scan,      \* evict_over_capacity's counters, and what it deferred
    inFlight,  \* in_flight_downloads: a set, not a count
    files      \* final paths and their content

ledger == <<queue, seen, lock, scan>>
vars == <<at, url, cell, attempt, asset, map, value, ledger, inFlight, files>>

Cached == { u \in Urls : map[u] # None }

\* A file keeps its name, or has a piece of its content's hash appended.
Path(name, suffix) == [name |-> name, suffix |-> suffix]

Asset == [url : Urls, path : [name : {FileName[u] : u \in Urls}, suffix : {None} \cup {Content[u] : u \in Urls}],
          content : {Content[u] : u \in Urls}]

Places == {"idle", "missed", "push", "check", "lock", "scan", "guard", "await", "fetch", "place",
           "done", "failed"}

NoScan == [need |-> 0, visits |-> 0, deferred |-> <<>>]

TypeOK ==
    /\ at \in [Calls -> Places]
    /\ url \in [Calls -> Urls \cup {None}]
    /\ cell \in [Calls -> Calls \cup {None}]
    /\ attempt \in [Calls -> 0..MaxRetries]
    /\ asset \in [Calls -> Asset \cup {None}]
    /\ map \in [Urls -> Calls \cup {None}]
    /\ value \in [Calls -> Asset \cup {None}]
    /\ queue \in Seq(Urls) /\ seen \subseteq Urls /\ lock \in Calls \cup {None}
    /\ scan \in [need : Nat, visits : Nat, deferred : Seq(Urls)]
    /\ inFlight \subseteq Urls

Init ==
    /\ at = [c \in Calls |-> "idle"] /\ url = [c \in Calls |-> None]
    /\ cell = [c \in Calls |-> None] /\ attempt = [c \in Calls |-> 0]
    /\ asset = [c \in Calls |-> None]
    /\ map = [u \in Urls |-> None] /\ value = [c \in Calls |-> None]
    /\ queue = <<>> /\ seen = {} /\ lock = None /\ scan = NoScan
    /\ inFlight = {} /\ files = [p \in {} |-> None]

Goes(c, place) == at' = [at EXCEPT ![c] = place]

-----------------------------------------------------------------------------
(* Looking up, and entering the registry. *)

Active == { c \in Calls : at[c] \notin {"idle", "done", "failed"} }

\* The fast path: a filled cell answers at once.
Begin(c, u) ==
    /\ at[c] = "idle" /\ Cardinality(Active) < Concurrency
    /\ IF u \in Cached /\ value[map[u]] # None
       THEN /\ Goes(c, "done") /\ asset' = [asset EXCEPT ![c] = value[map[u]]]
            /\ UNCHANGED url
       ELSE /\ Goes(c, "missed") /\ url' = [url EXCEPT ![c] = u]
            /\ UNCHANGED asset
    /\ UNCHANGED <<cell, attempt, map, value, ledger, inFlight, files>>

\* or_insert_with: the cell that is there, or a new one.
Enter(c) ==
    /\ at[c] = "missed"
    /\ map' = IF url[c] \in Cached THEN map ELSE [map EXCEPT ![url[c]] = c]
    /\ cell' = [cell EXCEPT ![c] = map'[url[c]]]
    /\ Goes(c, "push")
    /\ UNCHANGED <<url, attempt, asset, value, ledger, inFlight, files>>

\* push_new, under the ledger's lock.
PushNew(c) ==
    /\ at[c] = "push" /\ lock = None
    /\ IF url[c] \in seen
       THEN UNCHANGED <<queue, seen>>
       ELSE queue' = Append(queue, url[c]) /\ seen' = seen \cup {url[c]}
    /\ Goes(c, "check")
    /\ UNCHANGED <<url, cell, attempt, asset, map, value, lock, scan, inFlight, files>>

-----------------------------------------------------------------------------
(* evict_over_capacity. *)

\* The first look at the map takes no lock.
CheckCapacity(c) ==
    /\ at[c] = "check"
    /\ Goes(c, IF Cardinality(Cached) <= Capacity THEN "guard" ELSE "lock")
    /\ UNCHANGED <<url, cell, attempt, asset, map, value, ledger, inFlight, files>>

\* The second, for the excess, is under the lock.
LockLedger(c) ==
    /\ at[c] = "lock" /\ lock = None
    /\ lock' = c
    /\ scan' = [need |-> Cardinality(Cached) - Capacity, visits |-> Len(queue), deferred |-> <<>>]
    /\ Goes(c, "scan")
    /\ UNCHANGED <<url, cell, attempt, asset, map, value, queue, seen, inFlight, files>>

\* InFlight: an empty cell whose URL is marked.
Spared(u) == u \in Cached /\ value[map[u]] = None /\ u \in inFlight

\* Mutant: the loop evicts one entry too many.
OnceMore == scan.need >= 0 /\ scan.visits > 0 /\ queue # <<>>

More == scan.need > 0 /\ scan.visits > 0 /\ queue # <<>>

\* Mutant: the scan forgets to drop the membership.
ForgetNot(u) == seen

Forget(u) == seen \ {u}

\* One turn of the loop: the oldest is deferred, or leaves the map and the ledger;
\* a key that has left the map already counts like one that leaves.
Visit(c) ==
    /\ at[c] = "scan" /\ More
    /\ LET u == Head(queue)
       IN  IF Spared(u)
           THEN /\ scan' = [scan EXCEPT !.visits = @ - 1, !.deferred = Append(@, u)]
                /\ UNCHANGED <<map, seen>>
           ELSE /\ map' = [map EXCEPT ![u] = None]
                /\ seen' = Forget(u)
                /\ scan' = [scan EXCEPT !.visits = @ - 1, !.need = @ - 1]
    /\ queue' = Tail(queue)
    /\ UNCHANGED <<at, url, cell, attempt, asset, value, lock, inFlight, files>>

\* What was deferred goes back to the end.
Unlock(c) ==
    /\ at[c] = "scan" /\ ~More
    /\ queue' = queue \o scan.deferred
    /\ lock' = None /\ scan' = NoScan
    /\ Goes(c, "guard")
    /\ UNCHANGED <<url, cell, attempt, asset, map, value, seen, inFlight, files>>

-----------------------------------------------------------------------------
(* The cell: one call at a time runs the download, the others wait. *)

\* InFlightGuard::new.
Guard(c) ==
    /\ at[c] = "guard"
    /\ inFlight' = inFlight \cup {url[c]}
    /\ Goes(c, "await")
    /\ UNCHANGED <<url, cell, attempt, asset, map, value, ledger, files>>

\* The call is over, and its guard drops the mark, whoever else set it.
Ends(c, place) ==
    /\ Goes(c, place)
    /\ inFlight' = inFlight \ {url[c]}
    /\ url' = [url EXCEPT ![c] = None]
    /\ cell' = [cell EXCEPT ![c] = None]
    /\ attempt' = [attempt EXCEPT ![c] = 0]

Runs(x) == \E c \in Calls : cell[c] = x /\ at[c] \in {"fetch", "place"}

\* get_or_try_init: a filled cell answers, an empty one that nobody fills is ours.
GetFilled(c) ==
    /\ at[c] = "await" /\ value[cell[c]] # None
    /\ asset' = [asset EXCEPT ![c] = value[cell[c]]]
    /\ Ends(c, "done")
    /\ UNCHANGED <<map, value, ledger, files>>

\* Mutant: only the call that made the cell fills it.
RunOwn(c) ==
    /\ at[c] = "await" /\ value[cell[c]] = None /\ cell[c] = c
    /\ Goes(c, "fetch")
    /\ UNCHANGED <<url, cell, attempt, asset, map, value, ledger, inFlight, files>>

RunDownload(c) ==
    /\ at[c] = "await" /\ value[cell[c]] = None /\ ~Runs(cell[c])
    /\ Goes(c, "fetch")
    /\ UNCHANGED <<url, cell, attempt, asset, map, value, ledger, inFlight, files>>

-----------------------------------------------------------------------------
(* download_with_retry. *)

RetryTransient(c) ==
    /\ at[c] = "fetch" /\ attempt[c] < MaxRetries
    /\ attempt' = [attempt EXCEPT ![c] = @ + 1]
    /\ UNCHANGED <<at, url, cell, asset, map, value, ledger, inFlight, files>>

\* A permanent error, or the last transient one: nothing is recorded, the next
\* waiter takes over.
DownloadFails(c) ==
    /\ at[c] = "fetch"
    /\ Ends(c, "failed")
    /\ UNCHANGED <<asset, map, value, ledger, files>>

\* final_path, and resolve_collision when a file of that name exists.
FinalPath(name, content) ==
    IF Path(name, None) \in DOMAIN files THEN Path(name, content) ELSE Path(name, None)

\* download_once up to the choice of the path.
Streamed(c) ==
    /\ at[c] = "fetch"
    /\ LET u == url[c]
       IN  asset' = [asset EXCEPT ![c] = [url |-> u, path |-> FinalPath(FileName[u], Content[u]),
                                          content |-> Content[u]]]
    /\ Goes(c, "place")
    /\ UNCHANGED <<url, cell, attempt, map, value, ledger, inFlight, files>>

Renamed(c) ==
    files' = [p \in DOMAIN files \cup {asset[c].path} |->
                 IF p = asset[c].path THEN asset[c].content ELSE files[p]]

\* The rename, which replaces a file that has come meanwhile; the cell is filled.
Place(c) ==
    /\ at[c] = "place"
    /\ Renamed(c)
    /\ value' = [value EXCEPT ![cell[c]] = asset[c]]
    /\ Ends(c, "done")
    /\ UNCHANGED <<asset, map, ledger>>

\* Mutant: what may be half done is cleaned up.
PlaceFailsCleaning(c) ==
    /\ at[c] = "place"
    /\ asset' = [asset EXCEPT ![c] = None]
    /\ files' = [p \in DOMAIN files \ {asset[c].path} |-> files[p]]
    /\ Ends(c, "failed")
    /\ UNCHANGED <<map, value, ledger>>

PlaceFails(c) ==
    /\ at[c] = "place"
    /\ asset' = [asset EXCEPT ![c] = None]
    /\ Ends(c, "failed")
    /\ UNCHANGED <<map, value, ledger, files>>

\* The future is dropped (#509); a rename already handed to the blocking pool may
\* still happen.
Drop(c) ==
    /\ at[c] \in {"await", "fetch", "place"}
    /\ \/ UNCHANGED files
       \/ at[c] = "place" /\ Renamed(c)
    /\ asset' = [asset EXCEPT ![c] = None]
    /\ Ends(c, "failed")
    /\ UNCHANGED <<map, value, ledger>>

Work(c) ==
    \/ Enter(c) \/ PushNew(c)
    \/ CheckCapacity(c) \/ LockLedger(c) \/ Visit(c) \/ Unlock(c)
    \/ Guard(c) \/ GetFilled(c) \/ RunDownload(c)
    \/ RetryTransient(c) \/ DownloadFails(c) \/ Streamed(c) \/ Place(c) \/ PlaceFails(c)

Next == \E c \in Calls : (\E u \in Urls : Begin(c, u)) \/ Work(c) \/ Drop(c)

Spec == Init /\ [][Next]_vars

\* Requests time out, backoffs end, and the ledger's mutex is held for a scan only.
FairSpec == Spec /\ \A c \in Calls : WF_vars(Work(c))

-----------------------------------------------------------------------------
(* Properties. *)

\* The excess is an unsigned difference, taken under the lock by a call that found
\* too many entries before it had the lock: whoever evicted meanwhile, the
\* difference is not negative (mod.rs:367, evict_over_capacity).
ExcessFits == \A c \in Calls : at[c] = "lock" => Cardinality(Cached) >= Capacity

\* Whatever overlaps, an entry of the cache is in the ledger's queue, or being
\* looked at, or its call is about to push it; an entry that is not could never be
\* evicted (download, evict_over_capacity).
EntriesTracked ==
    \A u \in Cached :
        \/ \E i \in DOMAIN queue : queue[i] = u
        \/ \E i \in DOMAIN scan.deferred : scan.deferred[i] = u
        \/ \E c \in Calls : at[c] = "push" /\ url[c] = u

\* A call's asset is on disk with the content that was downloaded for it
\* (download_once: "Disambiguate with a short hash suffix").
FilesIntact ==
    \A c \in Calls : at[c] = "done" =>
        asset[c].path \in DOMAIN files /\ files[asset[c].path] = asset[c].content

\* A URL has one connection: a cell in flight is spared (mod.rs:346-348) and
\* "concurrent arrivals wait on the same cell and never open a second connection"
\* (mod.rs:511-513).
OneConnection ==
    \A u \in Urls : Cardinality({ c \in Calls : url[c] = u /\ at[c] \in {"fetch", "place"} }) <= 1

\* Every call returns: no waiter of a cell or of the ledger is left behind by a
\* download that fails or is dropped.
CallsReturn == \A c \in Calls : at[c] # "idle" ~> at[c] \in {"done", "failed"}

=============================================================================
