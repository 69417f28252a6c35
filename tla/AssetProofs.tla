----------------------------- MODULE AssetProofs -----------------------------
(***************************************************************************)
(* Safety of the asset cache for any number of calls, URLs, retries and any *)
(* capacity: the eviction's excess does not underflow, every entry stays in *)
(* the ledger, and an asset that was returned is on disk.                   *)
(***************************************************************************)
EXTENDS AssetDownloader, FiniteSetTheorems, TLAPS

-----------------------------------------------------------------------------
(* The inductive invariant. *)

Has(s, u) == \E i \in DOMAIN s : s[i] = u

InQueue(u) == Has(queue, u)

InDeferred(u) == Has(scan.deferred, u)

\* A call under way has its URL, and its cell once it has entered.
Holding ==
    \A c \in Calls :
        /\ at[c] \notin {"idle", "done", "failed"} => url[c] \in Urls
        /\ at[c] \notin {"idle", "done", "failed", "missed"} => cell[c] \in Calls

\* Who scans has the ledger, and nobody else scans.
Locked ==
    /\ \A c \in Calls : at[c] = "scan" <=> lock = c
    /\ lock = None => scan = NoScan

\* The membership set says no more than the queue and the deferred keys.
Known == \A u \in seen : InQueue(u) \/ InDeferred(u)

\* While a scan takes its excess away, the cache keeps what it may hold, and who
\* waits for the ledger can rely on that.
Excess ==
    /\ ExcessFits
    /\ lock # None => Cardinality(Cached) >= Capacity + scan.need

Inv == TypeOK /\ Holding /\ Locked /\ Known /\ EntriesTracked /\ Excess

-----------------------------------------------------------------------------
(* Facts about the cache and sequences. *)

LEMMA CachedFinite ==
    /\ IsFiniteSet(Cached) /\ Cardinality(Cached) \in Nat
    /\ Capacity \in Nat \ {0}
  <1>1. Cached \subseteq Urls
    BY DEF Cached
  <1> QED
    BY <1>1, AssetAssumption, FS_Subset, FS_CardinalityType

LEMMA AppendHas ==
    ASSUME NEW S, NEW s \in Seq(S), NEW x \in S
    PROVE  /\ Append(s, x) \in Seq(S)
           /\ \A y : Has(Append(s, x), y) <=> Has(s, y) \/ y = x
  <1>1. Len(s) \in Nat /\ DOMAIN s = 1..Len(s) /\ DOMAIN Append(s, x) = 1..(Len(s) + 1)
    OBVIOUS
  <1>2. (\A i \in 1..Len(s) : Append(s, x)[i] = s[i]) /\ Append(s, x)[Len(s) + 1] = x
    OBVIOUS
  <1> QED
    BY <1>1, <1>2 DEF Has

LEMMA TailHas ==
    ASSUME NEW S, NEW s \in Seq(S), s # <<>>
    PROVE  /\ Head(s) \in S /\ Tail(s) \in Seq(S)
           /\ \A y : Has(s, y) => y = Head(s) \/ Has(Tail(s), y)
  <1>1. Len(s) \in Nat \ {0} /\ DOMAIN s = 1..Len(s) /\ Head(s) = s[1]
    OBVIOUS
  <1>2. DOMAIN Tail(s) = 1..(Len(s) - 1) /\ \A i \in 1..(Len(s) - 1) : Tail(s)[i] = s[i + 1]
    OBVIOUS
  <1>3. ASSUME NEW i \in DOMAIN s, i # 1
        PROVE  i - 1 \in DOMAIN Tail(s) /\ Tail(s)[i - 1] = s[i]
    <2>1. i - 1 \in 1..(Len(s) - 1)
      BY <1>1, <1>3
    <2> QED
      BY <1>2, <2>1
  <1>4. ASSUME NEW y, NEW i \in DOMAIN s, s[i] = y
        PROVE  y = Head(s) \/ \E j \in DOMAIN Tail(s) : Tail(s)[j] = y
    BY <1>1, <1>3, <1>4
  <1>5. Head(s) \in S /\ Tail(s) \in Seq(S)
    BY <1>1
  <1> QED
    BY <1>4, <1>5 DEF Has

LEMMA ConcatHas ==
    ASSUME NEW S, NEW s \in Seq(S), NEW t \in Seq(S)
    PROVE  /\ s \o t \in Seq(S)
           /\ \A y : Has(s, y) \/ Has(t, y) => Has(s \o t, y)
  <1>1. /\ Len(s) \in Nat /\ Len(t) \in Nat /\ DOMAIN s = 1..Len(s) /\ DOMAIN t = 1..Len(t)
        /\ DOMAIN (s \o t) = 1..(Len(s) + Len(t))
    OBVIOUS
  <1>2. \A i \in 1..Len(s) : i \in DOMAIN (s \o t) /\ (s \o t)[i] = s[i]
    BY <1>1
  <1>3. \A i \in 1..Len(t) : i + Len(s) \in DOMAIN (s \o t) /\ (s \o t)[i + Len(s)] = t[i]
    BY <1>1
  <1>4. s \o t \in Seq(S)
    OBVIOUS
  <1> QED
    BY <1>1, <1>2, <1>3, <1>4 DEF Has

-----------------------------------------------------------------------------
(* The steps of a call. *)

\* A step of c that leaves the registry and the ledger alone.
Quiet(c) ==
    /\ UNCHANGED <<map, ledger>>
    /\ at[c] \notin {"push", "scan"} /\ at'[c] \notin {"push", "scan"}
    /\ at'[c] = "lock" => Cardinality(Cached) > Capacity
    /\ \A d \in Calls \ {c} : at'[d] = at[d] /\ url'[d] = url[d]

LEMMA QuietKeeps ==
    ASSUME Inv, NEW c \in Calls, Quiet(c)
    PROVE  Locked' /\ Known' /\ EntriesTracked' /\ Excess'
  <1>1. Cached' = Cached
    BY DEF Quiet, Cached
  <1>2. Locked' /\ Known'
    BY DEF Inv, Quiet, ledger, Locked, Known, InQueue, InDeferred
  <1>3. EntriesTracked'
    BY <1>1 DEF Inv, Quiet, ledger, EntriesTracked
  <1>4. Excess'
    <2>1. Cardinality(Cached) > Capacity => Cardinality(Cached) >= Capacity
      BY CachedFinite
    <2> QED
      BY <1>1, <2>1 DEF Inv, Quiet, ledger, Excess, ExcessFits
  <1> QED
    BY <1>2, <1>3, <1>4

\* A call that ends.
LEMMA EndsTyped ==
    ASSUME Inv, NEW c \in Calls, NEW place \in {"done", "failed"}, Ends(c, place)
    PROVE  /\ at' \in [Calls -> Places] /\ url' \in [Calls -> Urls \cup {None}]
           /\ cell' \in [Calls -> Calls \cup {None}] /\ attempt' \in [Calls -> 0..MaxRetries]
           /\ inFlight' \subseteq Urls /\ Holding'
           /\ at'[c] = place /\ \A d \in Calls \ {c} : at'[d] = at[d] /\ url'[d] = url[d]
  BY AssetAssumption DEF Inv, TypeOK, Holding, Ends, Goes, Places

LEMMA EndingKeeps ==
    ASSUME Inv, NEW c \in Calls,
           GetFilled(c) \/ DownloadFails(c) \/ Place(c) \/ PlaceFails(c) \/ Drop(c)
    PROVE  Inv'
  <1>1. PICK place \in {"done", "failed"} : Ends(c, place)
    BY DEF GetFilled, DownloadFails, Place, PlaceFails, Drop
  <1>2. /\ at' \in [Calls -> Places] /\ url' \in [Calls -> Urls \cup {None}]
        /\ cell' \in [Calls -> Calls \cup {None}] /\ attempt' \in [Calls -> 0..MaxRetries]
        /\ inFlight' \subseteq Urls /\ Holding'
        /\ at'[c] = place /\ \A d \in Calls \ {c} : at'[d] = at[d] /\ url'[d] = url[d]
    BY <1>1, EndsTyped
  <1>3. at[c] \in {"await", "fetch", "place"} /\ UNCHANGED <<map, ledger>>
    BY DEF GetFilled, DownloadFails, Place, PlaceFails, Drop
  <1>4. asset' \in [Calls -> Asset \cup {None}] /\ value' \in [Calls -> Asset \cup {None}]
    <2>1. cell[c] \in Calls
      BY <1>3 DEF Inv, Holding
    <2> QED
      BY <2>1 DEF Inv, TypeOK, GetFilled, DownloadFails, Place, PlaceFails, Drop
  <1>5. TypeOK'
    BY <1>2, <1>3, <1>4 DEF Inv, TypeOK, ledger
  <1>6. Quiet(c)
    BY <1>2, <1>3 DEF Quiet
  <1> QED
    BY <1>2, <1>5, <1>6, QuietKeeps DEF Inv

LEMMA BeginKeeps == ASSUME Inv, NEW c \in Calls, NEW u \in Urls, Begin(c, u) PROVE Inv'
  <1>1. /\ at[c] = "idle" /\ UNCHANGED <<cell, attempt, map, value, ledger, inFlight>>
        /\ \/ at' = [at EXCEPT ![c] = "done"] /\ u \in Cached
               /\ asset' = [asset EXCEPT ![c] = value[map[u]]] /\ url' = url
           \/ at' = [at EXCEPT ![c] = "missed"] /\ url' = [url EXCEPT ![c] = u] /\ asset' = asset
    BY DEF Begin, Goes
  <1>2. u \in Cached => value[map[u]] \in Asset \cup {None}
    BY DEF Inv, TypeOK, Cached
  <1>3. TypeOK'
    <2>1. at' \in [Calls -> Places]
      BY <1>1 DEF Inv, TypeOK, Places
    <2>2. url' \in [Calls -> Urls \cup {None}]
      BY <1>1 DEF Inv, TypeOK
    <2>3. asset' \in [Calls -> Asset \cup {None}]
      BY <1>1, <1>2 DEF Inv, TypeOK
    <2> QED
      BY <1>1, <2>1, <2>2, <2>3 DEF Inv, TypeOK, ledger
  <1>4. Holding'
    <2>1. \A d \in Calls \ {c} : at'[d] = at[d] /\ url'[d] = url[d] /\ cell'[d] = cell[d]
      BY <1>1 DEF Inv, TypeOK
    <2>2. at'[c] = "done" \/ (at'[c] = "missed" /\ url'[c] = u)
      BY <1>1 DEF Inv, TypeOK
    <2> QED
      BY <2>1, <2>2 DEF Inv, Holding
  <1>5. Quiet(c)
    BY <1>1 DEF Quiet, Inv, TypeOK
  <1> QED
    BY <1>3, <1>4, <1>5, QuietKeeps DEF Inv

\* What a URL and its content make an asset of.
LEMMA StreamedAsset ==
    ASSUME NEW u \in Urls
    PROVE  [url |-> u, path |-> FinalPath(FileName[u], Content[u]), content |-> Content[u]] \in Asset
  BY DEF FinalPath, Path, Asset

LEMMA WaitingKeeps ==
    ASSUME Inv, NEW c \in Calls,
           CheckCapacity(c) \/ Guard(c) \/ RunDownload(c) \/ RetryTransient(c) \/ Streamed(c)
    PROVE  Inv'
  <1>1. /\ at[c] \in {"check", "guard", "await", "fetch"}
        /\ UNCHANGED <<url, cell, map, value, ledger>>
        /\ \E to \in {"guard", "lock", "await", "fetch", "place"} : at' = [at EXCEPT ![c] = to]
    BY DEF Inv, TypeOK, CheckCapacity, Guard, RunDownload, RetryTransient, Streamed, Goes
  <1>2. url[c] \in Urls
    BY <1>1 DEF Inv, Holding
  <1>3. asset' \in [Calls -> Asset \cup {None}]
    BY <1>2, StreamedAsset
    DEF Inv, TypeOK, CheckCapacity, Guard, RunDownload, RetryTransient, Streamed
  <1>4. inFlight' \subseteq Urls
    BY <1>2 DEF Inv, TypeOK, CheckCapacity, Guard, RunDownload, RetryTransient, Streamed
  <1>5. attempt' \in [Calls -> 0..MaxRetries]
    BY AssetAssumption DEF Inv, TypeOK, CheckCapacity, Guard, RunDownload, RetryTransient, Streamed
  <1>6. TypeOK'
    BY <1>1, <1>3, <1>4, <1>5 DEF Inv, TypeOK, ledger, Places
  <1>7. Holding'
    BY <1>1 DEF Inv, TypeOK, Holding
  <1>8. at'[c] = "lock" => Cardinality(Cached) > Capacity
    <2>1. CASE CheckCapacity(c)
      BY <2>1, CachedFinite DEF Inv, TypeOK, CheckCapacity, Goes
    <2> QED
      BY <2>1 DEF Inv, TypeOK, Guard, RunDownload, RetryTransient, Streamed, Goes
  <1>9. Quiet(c)
    BY <1>1, <1>8 DEF Quiet, Inv, TypeOK
  <1> QED
    BY <1>6, <1>7, <1>9, QuietKeeps DEF Inv

-----------------------------------------------------------------------------
(* The steps of the registry and the ledger. *)

LEMMA EnterKeeps == ASSUME Inv, NEW c \in Calls, Enter(c) PROVE Inv'
  <1> DEFINE u == url[c]
  <1>1. /\ at[c] = "missed" /\ at' = [at EXCEPT ![c] = "push"]
        /\ map' = IF u \in Cached THEN map ELSE [map EXCEPT ![u] = c]
        /\ cell' = [cell EXCEPT ![c] = map'[u]]
        /\ UNCHANGED <<url, attempt, asset, value, ledger, inFlight>>
    BY DEF Enter, Goes
  <1>2. u \in Urls /\ lock # c
    BY <1>1 DEF Inv, Holding, Locked
  <1>3. map' \in [Urls -> Calls \cup {None}] /\ map'[u] \in Calls
    BY <1>1, <1>2 DEF Inv, TypeOK, Cached
  <1>4. Cached' = Cached \cup {u}
    BY <1>1, <1>2, <1>3, AssetAssumption DEF Inv, TypeOK, Cached
  <1>5. at' \in [Calls -> Places] /\ cell' \in [Calls -> Calls \cup {None}]
    BY <1>1, <1>3 DEF Inv, TypeOK, Places
  <1>6. TypeOK'
    BY <1>1, <1>3, <1>5 DEF Inv, TypeOK, ledger
  <1>7. Holding'
    BY <1>1, <1>2, <1>3 DEF Inv, TypeOK, Holding
  <1>8. Locked' /\ Known'
    BY <1>1, <1>2 DEF Inv, TypeOK, ledger, Locked, Known, InQueue, InDeferred
  <1>9. EntriesTracked'
    <2> SUFFICES ASSUME NEW v \in Cached' PROVE EntriesTracked!(v)'
      BY DEF EntriesTracked
    <2>1. CASE v = u
      BY <1>1, <2>1 DEF Inv, TypeOK
    <2>2. CASE v \in Cached
      BY <1>1, <2>2 DEF Inv, TypeOK, ledger, EntriesTracked
    <2> QED
      BY <1>4, <2>1, <2>2
  <1>10. Excess'
    <2>1. Cardinality(Cached') \in Nat /\ Cardinality(Cached') >= Cardinality(Cached)
      <3>1. /\ IsFiniteSet(Cached) /\ Cardinality(Cached) \in Nat
            /\ Cardinality(Cached \cup {u}) = IF u \in Cached THEN Cardinality(Cached)
                                              ELSE Cardinality(Cached) + 1
        BY CachedFinite, FS_AddElement
      <3> QED
        BY <1>4, <3>1
    <2>2. \A d \in Calls : at'[d] = "lock" => at[d] = "lock"
      BY <1>1 DEF Inv, TypeOK
    <2> QED
      BY <1>1, <2>1, <2>2, CachedFinite DEF Inv, TypeOK, ledger, Excess, ExcessFits
  <1> QED
    BY <1>6, <1>7, <1>8, <1>9, <1>10 DEF Inv

LEMMA PushNewKeeps == ASSUME Inv, NEW c \in Calls, PushNew(c) PROVE Inv'
  <1>0. PICK u \in Urls : u = url[c]
    BY DEF Inv, PushNew, Holding
  <1>1. /\ at[c] = "push" /\ lock = None /\ at' = [at EXCEPT ![c] = "check"]
        /\ \/ u \in seen /\ queue' = queue /\ seen' = seen
           \/ queue' = Append(queue, u) /\ seen' = seen \cup {u}
        /\ UNCHANGED <<url, cell, attempt, asset, map, value, lock, scan, inFlight>>
    BY <1>0 DEF PushNew, Goes
  <1>2. /\ Append(queue, u) \in Seq(Urls)
        /\ \A y : Has(Append(queue, u), y) <=> Has(queue, y) \/ y = u
    <2>1. queue \in Seq(Urls)
      BY DEF Inv, TypeOK
    <2> QED
      BY <2>1, AppendHas
  <1>3. Cached' = Cached
    BY <1>1 DEF Cached
  <1>4. /\ queue' \in Seq(Urls) /\ seen' \subseteq Urls
        /\ \A v : InQueue(v) => InQueue(v)'
        /\ seen' = seen \/ InQueue(u)'
    <2>1. CASE queue' = queue /\ seen' = seen
      BY <2>1 DEF Inv, TypeOK, InQueue
    <2>2. CASE queue' = Append(queue, u) /\ seen' = seen \cup {u}
      <3>1. queue' \in Seq(Urls) /\ seen' \subseteq Urls
        BY <1>2, <2>2 DEF Inv, TypeOK
      <3>2. \A v : InQueue(v)' <=> InQueue(v) \/ v = u
        BY <1>2, <2>2 DEF InQueue
      <3> QED
        BY <3>1, <3>2
    <2> QED
      BY <1>1, <2>1, <2>2
  <1>5. InQueue(u)'
    <2>1. CASE u \in seen /\ queue' = queue
      <3>1. ~InDeferred(u)
        BY <1>1 DEF Inv, Locked, NoScan, InDeferred, Has
      <3> QED
        BY <2>1, <3>1 DEF Inv, Known, InQueue
    <2>2. CASE queue' = Append(queue, u)
      BY <1>2, <2>2 DEF InQueue
    <2> QED
      BY <1>1, <2>1, <2>2
  <1>6. at' \in [Calls -> Places]
    BY <1>1 DEF Inv, TypeOK, Places
  <1>7. TypeOK'
    BY <1>1, <1>4, <1>6 DEF Inv, TypeOK
  <1>8. Holding'
    BY <1>1 DEF Inv, TypeOK, Holding
  <1>9. Locked'
    BY <1>1, AssetAssumption DEF Inv, TypeOK, Locked
  <1>10. Known'
    BY <1>1, <1>4, <1>5 DEF Inv, Known, InDeferred
  <1>11. EntriesTracked'
    <2> SUFFICES ASSUME NEW v \in Cached PROVE EntriesTracked!(v)'
      BY <1>3 DEF EntriesTracked
    <2>1. CASE InQueue(v) \/ v = u
      BY <1>4, <1>5, <2>1 DEF InQueue, Has
    <2>2. CASE ~InQueue(v) /\ v # u
      BY <1>0, <1>1, <2>2 DEF Inv, TypeOK, EntriesTracked, InQueue, Has
    <2> QED
      BY <2>1, <2>2
  <1>12. Excess'
    BY <1>1, <1>3 DEF Inv, TypeOK, Excess, ExcessFits
  <1> QED
    BY <1>7, <1>8, <1>9, <1>10, <1>11, <1>12 DEF Inv

LEMMA LockLedgerKeeps == ASSUME Inv, NEW c \in Calls, LockLedger(c) PROVE Inv'
  <1> DEFINE excess == Cardinality(Cached) - Capacity
  <1>1. /\ at[c] = "lock" /\ lock = None /\ lock' = c /\ at' = [at EXCEPT ![c] = "scan"]
        /\ scan' = [need |-> excess, visits |-> Len(queue), deferred |-> <<>>]
        /\ UNCHANGED <<url, cell, attempt, asset, map, value, queue, seen, inFlight>>
    BY DEF LockLedger, Goes
  <1>2. Cached' = Cached
    BY <1>1 DEF Cached
  <1>3. excess \in Nat /\ Cardinality(Cached) = Capacity + excess
    BY <1>1, CachedFinite DEF Inv, Excess, ExcessFits
  <1>4. scan' \in [need : Nat, visits : Nat, deferred : Seq(Urls)]
    BY <1>1, <1>3 DEF Inv, TypeOK
  <1>5. at' \in [Calls -> Places]
    BY <1>1 DEF Inv, TypeOK, Places
  <1>6. TypeOK'
    BY <1>1, <1>4, <1>5 DEF Inv, TypeOK
  <1>7. Holding'
    BY <1>1 DEF Inv, TypeOK, Holding
  <1>8. Locked'
    <2>1. \A d \in Calls : at[d] # "scan"
      BY <1>1, AssetAssumption DEF Inv, Locked
    <2> QED
      BY <1>1, <2>1, AssetAssumption DEF Inv, TypeOK, Locked
  <1>9. \A v : ~InDeferred(v)
    BY <1>1 DEF Inv, Locked, NoScan, InDeferred, Has
  <1>10. Known'
    BY <1>1, <1>9 DEF Inv, Known, InQueue, InDeferred
  <1>11. EntriesTracked'
    BY <1>1, <1>2, <1>9 DEF Inv, TypeOK, EntriesTracked, InDeferred, Has
  <1>12. Excess'
    BY <1>1, <1>2, <1>3, CachedFinite DEF Inv, TypeOK, Excess, ExcessFits
  <1> QED
    BY <1>6, <1>7, <1>8, <1>10, <1>11, <1>12 DEF Inv

LEMMA VisitKeeps == ASSUME Inv, NEW c \in Calls, Visit(c) PROVE Inv'
  <1>1. PICK u \in Urls : u = Head(queue)
    BY TailHas DEF Inv, TypeOK, Visit, More
  <1>2. /\ at[c] = "scan" /\ scan.need > 0 /\ scan.visits > 0 /\ queue # <<>>
        /\ \/ /\ scan' = [scan EXCEPT !.visits = @ - 1, !.deferred = Append(@, u)]
              /\ map' = map /\ seen' = seen
           \/ /\ map' = [map EXCEPT ![u] = None] /\ seen' = seen \ {u}
              /\ scan' = [scan EXCEPT !.visits = @ - 1, !.need = @ - 1]
        /\ queue' = Tail(queue)
        /\ UNCHANGED <<at, url, cell, attempt, asset, value, lock, inFlight>>
    BY <1>1 DEF Visit, More, Forget
  <1>3. /\ lock = c /\ lock # None
        /\ scan.need \in Nat /\ scan.visits \in Nat /\ scan.deferred \in Seq(Urls)
        /\ queue \in Seq(Urls)
    BY <1>2, AssetAssumption DEF Inv, Locked, TypeOK
  <1>4. queue' \in Seq(Urls) /\ \A v : InQueue(v) => v = u \/ InQueue(v)'
    <2>1. /\ Tail(queue) \in Seq(Urls)
          /\ \A y : Has(queue, y) => y = u \/ Has(Tail(queue), y)
      BY <1>1, <1>2, <1>3, TailHas
    <2> QED
      BY <1>2, <2>1 DEF InQueue
  <1>5. /\ Append(scan.deferred, u) \in Seq(Urls)
        /\ \A y : Has(Append(scan.deferred, u), y) <=> InDeferred(y) \/ y = u
    BY <1>3, AppendHas DEF InDeferred
  <1>6. UNCHANGED <<at, url>>
    BY <1>2
  <1>7. CASE /\ scan' = [scan EXCEPT !.visits = @ - 1, !.deferred = Append(@, u)]
             /\ map' = map /\ seen' = seen
    <2>1. /\ scan'.need = scan.need /\ scan'.deferred = Append(scan.deferred, u)
          /\ scan'.visits = scan.visits - 1
          /\ scan' = [need |-> scan'.need, visits |-> scan'.visits, deferred |-> scan'.deferred]
      BY <1>7 DEF Inv, TypeOK
    <2>2. scan.visits - 1 \in Nat
      BY <1>2, <1>3
    <2>3. scan' \in [need : Nat, visits : Nat, deferred : Seq(Urls)]
      BY <1>3, <1>5, <2>1, <2>2
    <2>4. \A v : InQueue(v) \/ InDeferred(v) => InQueue(v)' \/ InDeferred(v)'
      BY <1>4, <1>5, <2>1 DEF InDeferred
    <2>5. Cached' = Cached
      BY <1>7 DEF Cached
    <2>6. TypeOK'
      BY <1>2, <1>4, <1>7, <2>3 DEF Inv, TypeOK
    <2>7. Holding' /\ Locked'
      BY <1>2, <1>3 DEF Inv, Holding, Locked
    <2>8. Known'
      BY <1>7, <2>4 DEF Inv, Known
    <2>9. EntriesTracked'
      BY <1>6, <2>4, <2>5 DEF Inv, EntriesTracked, InQueue, InDeferred, Has
    <2>10. Excess'
      BY <1>2, <2>1, <2>5 DEF Inv, Excess, ExcessFits
    <2> QED
      BY <2>6, <2>7, <2>8, <2>9, <2>10 DEF Inv
  <1>8. CASE /\ map' = [map EXCEPT ![u] = None] /\ seen' = seen \ {u}
             /\ scan' = [scan EXCEPT !.visits = @ - 1, !.need = @ - 1]
    <2>1. /\ scan'.need = scan.need - 1 /\ scan'.deferred = scan.deferred
          /\ scan'.visits = scan.visits - 1
          /\ scan' = [need |-> scan'.need, visits |-> scan'.visits, deferred |-> scan'.deferred]
      BY <1>8 DEF Inv, TypeOK
    <2>2. scan.visits - 1 \in Nat /\ scan.need - 1 \in Nat
      BY <1>2, <1>3
    <2>3. scan' \in [need : Nat, visits : Nat, deferred : Seq(Urls)]
      BY <1>3, <2>1, <2>2
    <2>4. \A v : v # u /\ (InQueue(v) \/ InDeferred(v)) => InQueue(v)' \/ InDeferred(v)'
      BY <1>4, <2>1 DEF InDeferred
    <2>5. map' \in [Urls -> Calls \cup {None}] /\ Cached' = Cached \ {u}
      BY <1>8 DEF Inv, TypeOK, Cached
    <2>6. TypeOK'
      BY <1>2, <1>4, <1>8, <2>5, <2>3 DEF Inv, TypeOK
    <2>7. Holding' /\ Locked'
      BY <1>2, <1>3 DEF Inv, Holding, Locked
    <2>8. Known'
      BY <1>8, <2>4 DEF Inv, Known
    <2>9. EntriesTracked'
      BY <1>6, <2>4, <2>5 DEF Inv, EntriesTracked, InQueue, InDeferred, Has
    <2>10. Cardinality(Cached') \in Nat /\ Cardinality(Cached') >= Cardinality(Cached) - 1
      <3>1. Cardinality(Cached \ {u}) = IF u \in Cached THEN Cardinality(Cached) - 1
                                        ELSE Cardinality(Cached)
        BY CachedFinite, FS_RemoveElement
      <3>2. Cardinality(Cached \ {u}) \in Nat
        BY CachedFinite, FS_RemoveElement, FS_CardinalityType
      <3> QED
        BY <2>5, <3>1, <3>2, CachedFinite
    <2>11. Cardinality(Cached') >= Capacity + scan'.need
      <3>1. Cardinality(Cached) >= Capacity + scan.need
        BY <1>3 DEF Inv, Excess
      <3> QED
        BY <1>3, <2>1, <2>10, <3>1, CachedFinite
    <2>12. Cardinality(Cached') >= Capacity
      BY <2>1, <2>10, <2>11, <2>2, CachedFinite
    <2>13. Excess'
      BY <1>2, <2>11, <2>12 DEF Excess, ExcessFits
    <2> QED
      BY <2>6, <2>7, <2>8, <2>9, <2>13 DEF Inv
  <1> QED
    BY <1>2, <1>7, <1>8

LEMMA UnlockKeeps == ASSUME Inv, NEW c \in Calls, Unlock(c) PROVE Inv'
  <1>1. /\ at[c] = "scan" /\ queue' = queue \o scan.deferred /\ lock' = None /\ scan' = NoScan
        /\ at' = [at EXCEPT ![c] = "guard"]
        /\ UNCHANGED <<url, cell, attempt, asset, map, value, seen, inFlight>>
    BY DEF Unlock, Goes
  <1>2. lock = c /\ queue \in Seq(Urls) /\ scan.deferred \in Seq(Urls)
    BY <1>1 DEF Inv, Locked, TypeOK
  <1>3. queue' \in Seq(Urls) /\ \A v : InQueue(v) \/ InDeferred(v) => InQueue(v)'
    <2>1. /\ queue \o scan.deferred \in Seq(Urls)
          /\ \A y : InQueue(y) \/ InDeferred(y)
                       => Has(queue \o scan.deferred, y)
      BY <1>2, ConcatHas DEF InQueue, InDeferred
    <2> QED
      BY <1>1, <2>1 DEF InQueue
  <1>4. Cached' = Cached
    BY <1>1 DEF Cached
  <1>5. at' \in [Calls -> Places]
    BY <1>1 DEF Inv, TypeOK, Places
  <1>6. scan' \in [need : Nat, visits : Nat, deferred : Seq(Urls)]
    BY <1>1 DEF NoScan
  <1>7. TypeOK'
    BY <1>1, <1>3, <1>5, <1>6 DEF Inv, TypeOK
  <1>8. Holding'
    BY <1>1 DEF Inv, TypeOK, Holding
  <1>9. Locked'
    <2>1. \A d \in Calls \ {c} : at[d] # "scan"
      BY <1>2 DEF Inv, Locked
    <2> QED
      BY <1>1, <2>1, AssetAssumption DEF Inv, TypeOK, Locked
  <1>10. Known'
    BY <1>1, <1>3 DEF Inv, Known
  <1>11. EntriesTracked'
    <2> SUFFICES ASSUME NEW v \in Cached PROVE EntriesTracked!(v)'
      BY <1>4 DEF EntriesTracked
    <2>1. CASE InQueue(v) \/ InDeferred(v)
      BY <1>3, <2>1 DEF InQueue, Has
    <2>2. CASE ~InQueue(v) /\ ~InDeferred(v)
      BY <1>1, <2>2 DEF Inv, TypeOK, EntriesTracked, InQueue, InDeferred, Has
    <2> QED
      BY <2>1, <2>2
  <1>12. Excess'
    BY <1>1, <1>4 DEF Inv, TypeOK, Excess, ExcessFits
  <1> QED
    BY <1>7, <1>8, <1>9, <1>10, <1>11, <1>12 DEF Inv

-----------------------------------------------------------------------------
(* The invariant. *)

LEMMA InitInv == Init => Inv
  <1> SUFFICES ASSUME Init PROVE Inv
    OBVIOUS
  <1>1. TypeOK
    BY AssetAssumption DEF Init, TypeOK, Places, NoScan
  <1>2. Holding /\ Known /\ EntriesTracked
    BY DEF Init, Holding, Known, EntriesTracked, Cached
  <1>3. Locked /\ Excess
    BY AssetAssumption DEF Init, Locked, Excess, ExcessFits
  <1> QED
    BY <1>1, <1>2, <1>3 DEF Inv

LEMMA StepInv == Inv /\ [Next]_vars => Inv'
  <1> SUFFICES ASSUME Inv, [Next]_vars PROVE Inv'
    OBVIOUS
  <1>1. CASE UNCHANGED vars
    <2>1. Cached' = Cached
      BY <1>1 DEF vars, Cached
    <2>2. TypeOK' /\ Holding' /\ Locked'
      BY <1>1 DEF vars, ledger, Inv, TypeOK, Holding, Locked
    <2>3. Known' /\ EntriesTracked' /\ Excess'
      BY <1>1, <2>1 DEF vars, ledger, Inv, Known, InQueue, InDeferred, EntriesTracked, Excess, ExcessFits
    <2> QED
      BY <2>2, <2>3 DEF Inv
  <1>2. CASE \E c \in Calls, u \in Urls : Begin(c, u)
    BY <1>2, BeginKeeps
  <1>3. CASE \E c \in Calls : Work(c) \/ Drop(c)
    BY <1>3, EndingKeeps, WaitingKeeps, EnterKeeps, PushNewKeeps, LockLedgerKeeps, VisitKeeps, UnlockKeeps
    DEF Work
  <1> QED
    BY <1>1, <1>2, <1>3 DEF Next

THEOREM Invariance == Spec => []Inv
  BY InitInv, StepInv, PTL DEF Spec

\* Every reachable state of the downloader, for any number of calls, URLs and contents, is well typed.
THEOREM TypeCorrect == Spec => []TypeOK
  <1>1. Inv => TypeOK
    BY DEF Inv
  <1> QED
    BY <1>1, Invariance, PTL

\* The difference evict_over_capacity takes under the lock, after a look without
\* it, never underflows: whoever evicts meanwhile stops at the capacity.
THEOREM ExcessNeverUnderflows == Spec => []ExcessFits
  <1>1. Inv => ExcessFits
    BY DEF Inv, Excess
  <1> QED
    BY <1>1, Invariance, PTL

\* No overlap of downloads leaves an entry of the cache out of the ledger.
THEOREM EntriesStayTracked == Spec => []EntriesTracked
  <1>1. Inv => EntriesTracked
    BY DEF Inv
  <1> QED
    BY <1>1, Invariance, PTL

-----------------------------------------------------------------------------
(* Assets on disk. *)

\* Names that tell contents apart, as AssetNamingStrategy::Hash makes them.
NamesTellContents == \A u, v \in Urls : FileName[u] = FileName[v] => Content[u] = Content[v]

\* The path p is named for a URL that serves the content.
Named(p, content) == \E u \in Urls : p.name = FileName[u] /\ content = Content[u]

Stored(a) ==
    /\ Named(a.path, a.content)
    /\ a.path \in DOMAIN files /\ files[a.path] = a.content

Disk ==
    /\ \A p \in DOMAIN files : Named(p, files[p])
    /\ \A c \in Calls : at[c] = "place" => Named(asset[c].path, asset[c].content)
    /\ \A c \in Calls : at[c] = "done" => Stored(asset[c])
    /\ \A c \in Calls : value[c] # None => Stored(value[c])

\* A rename replaces a file by one of the same content.
LEMMA RenamedKeeps ==
    ASSUME NamesTellContents, Disk, NEW c \in Calls, at[c] = "place", Renamed(c)
    PROVE  /\ \A p \in DOMAIN files' : Named(p, files'[p])
           /\ \A a : Stored(a) => Stored(a)'
           /\ Named(asset[c].path, asset[c].content)
           /\ asset[c].path \in DOMAIN files' /\ files'[asset[c].path] = asset[c].content
  <1> DEFINE q == asset[c].path
             b == asset[c].content
  <1>1. Named(q, b)
    BY DEF Disk
  <1>2. /\ DOMAIN files' = DOMAIN files \cup {q} /\ files'[q] = b
        /\ \A p \in DOMAIN files : p # q => files'[p] = files[p]
    BY DEF Renamed
  <1>3. \A p \in DOMAIN files' : Named(p, files'[p])
    BY <1>1, <1>2 DEF Disk
  <1>4. ASSUME NEW a, Stored(a)
        PROVE  Stored(a)'
    <2>1. CASE a.path = q
      <3>1. a.content = b
        BY <1>1, <1>4, <2>1 DEF Stored, Named, NamesTellContents
      <3> QED
        BY <1>2, <1>4, <2>1, <3>1 DEF Stored
    <2>2. CASE a.path # q
      BY <1>2, <1>4, <2>2 DEF Stored
    <2> QED
      BY <2>1, <2>2
  <1> QED
    BY <1>1, <1>2, <1>3, <1>4

\* Where the files stay and no cell is filled, only what c did matters.
LEMMA SameFilesKeep ==
    ASSUME Disk, NEW c \in Calls, UNCHANGED <<value, files>>,
           at'[c] = "place" => Named(asset'[c].path, asset'[c].content),
           at'[c] = "done" => Stored(asset'[c]),
           \A d \in Calls \ {c} : at'[d] = at[d] /\ asset'[d] = asset[d]
    PROVE  Disk'
  <1>1. \A a : Stored(a) => /\ Named(a.path, a.content)
                             /\ a.path \in DOMAIN files' /\ files'[a.path] = a.content
    BY DEF Stored
  <1> QED
    BY <1>1 DEF Disk, Stored

LEMMA DiskStep == ASSUME NamesTellContents, Inv, Disk, [Next]_vars PROVE Disk'
  <1>1. CASE UNCHANGED vars
    BY <1>1 DEF vars, Disk, Stored
  <1>2. ASSUME NEW c \in Calls, NEW u \in Urls, Begin(c, u) PROVE Disk'
    <2>1. u \in Cached => map[u] \in Calls
      BY DEF Inv, TypeOK, Cached
    <2>2. /\ at'[c] \in {"done", "missed"}
          /\ at'[c] = "done" => Stored(asset'[c])
          /\ \A d \in Calls \ {c} : at'[d] = at[d] /\ asset'[d] = asset[d]
      BY <1>2, <2>1 DEF Begin, Goes, Inv, TypeOK, Disk
    <2> QED
      BY <1>2, <2>2, SameFilesKeep DEF Begin
  <1>3. ASSUME NEW c \in Calls,
               \/ Enter(c) \/ PushNew(c) \/ CheckCapacity(c) \/ LockLedger(c) \/ Visit(c) \/ Unlock(c)
               \/ Guard(c) \/ RunDownload(c) \/ RetryTransient(c)
        PROVE  Disk'
    <2>1. /\ UNCHANGED <<asset, value, files>> /\ at'[c] \notin {"place", "done"}
          /\ \A d \in Calls \ {c} : at'[d] = at[d]
      BY <1>3 DEF Inv, TypeOK, Enter, PushNew, CheckCapacity, LockLedger, Visit, Unlock, Guard, RunDownload,
                  RetryTransient, Goes
    <2> QED
      BY <2>1, SameFilesKeep
  <1>4. ASSUME NEW c \in Calls, GetFilled(c) \/ DownloadFails(c) \/ PlaceFails(c) PROVE Disk'
    <2>1. cell[c] \in Calls
      BY <1>4 DEF GetFilled, DownloadFails, PlaceFails, Inv, Holding
    <2>2. /\ UNCHANGED <<value, files>> /\ at'[c] # "place"
          /\ at'[c] = "done" => Stored(asset'[c])
          /\ \A d \in Calls \ {c} : at'[d] = at[d] /\ asset'[d] = asset[d]
      BY <1>4, <2>1 DEF GetFilled, DownloadFails, PlaceFails, Ends, Goes, Inv, TypeOK, Disk
    <2> QED
      BY <2>2, SameFilesKeep
  <1>5. ASSUME NEW c \in Calls, Streamed(c) PROVE Disk'
    <2> DEFINE u == url[c]
               a == [url |-> u, path |-> FinalPath(FileName[u], Content[u]), content |-> Content[u]]
    <2>1. u \in Urls
      BY <1>5 DEF Streamed, Inv, Holding
    <2>2. a \in Asset /\ Named(a.path, a.content)
      BY <2>1, StreamedAsset DEF Named, FinalPath, Path
    <2>3. /\ UNCHANGED <<value, files>> /\ asset'[c] = a /\ at'[c] = "place"
          /\ \A d \in Calls \ {c} : at'[d] = at[d] /\ asset'[d] = asset[d]
      BY <1>5 DEF Streamed, Goes, Inv, TypeOK
    <2>4. Named(asset'[c].path, asset'[c].content)
      BY <2>2, <2>3
    <2>5. at'[c] # "done"
      BY <2>3
    <2> HIDE DEF a, u
    <2> QED
      BY <2>3, <2>4, <2>5, SameFilesKeep
  <1>6. ASSUME NEW c \in Calls, Place(c) PROVE Disk'
    <2>1. /\ at[c] = "place" /\ Renamed(c) /\ cell[c] \in Calls
          /\ asset' = asset /\ value' = [value EXCEPT ![cell[c]] = asset[c]]
          /\ at' = [at EXCEPT ![c] = "done"]
      BY <1>6 DEF Place, Ends, Goes, Inv, Holding
    <2>2. /\ \A p \in DOMAIN files' : Named(p, files'[p])
          /\ \A a : Stored(a) => Stored(a)'
          /\ Named(asset[c].path, asset[c].content)
          /\ asset[c].path \in DOMAIN files' /\ files'[asset[c].path] = asset[c].content
      BY <2>1, RenamedKeeps
    <2>3. /\ \A d \in Calls : at'[d] = "place" => at[d] = "place"
          /\ \A d \in Calls \ {c} : at'[d] = "done" => at[d] = "done"
      BY <2>1 DEF Inv, TypeOK
    <2>4. \A d \in Calls : at'[d] = "done" => Stored(asset[d])'
      BY <2>1, <2>2, <2>3 DEF Disk, Stored
    <2>5. ASSUME NEW d \in Calls, value'[d] # None PROVE Stored(value[d])'
      <3>1. CASE d = cell[c]
        BY <2>1, <2>2, <3>1 DEF Stored, Inv, TypeOK
      <3>2. CASE d # cell[c]
        <4>1. value'[d] = value[d] /\ Stored(value[d])
          BY <2>1, <2>5, <3>2 DEF Inv, TypeOK, Disk
        <4> QED
          BY <2>2, <4>1 DEF Stored
      <3> QED
        BY <3>1, <3>2
    <2> QED
      BY <2>1, <2>2, <2>3, <2>4, <2>5 DEF Disk
  <1>7. ASSUME NEW c \in Calls, Drop(c) PROVE Disk'
    <2>1. /\ \A d \in Calls \ {c} : at'[d] = at[d] /\ asset'[d] = asset[d]
          /\ at'[c] = "failed" /\ value' = value
      BY <1>7 DEF Drop, Ends, Goes, Inv, TypeOK
    <2>2. CASE UNCHANGED files
      BY <2>1, <2>2, SameFilesKeep
    <2>3. CASE at[c] = "place" /\ Renamed(c)
      <3>1. /\ \A p \in DOMAIN files' : Named(p, files'[p])
            /\ \A a : Stored(a) => Stored(a)'
        BY <2>3, RenamedKeeps
      <3>2. \A d \in Calls : at'[d] = "done" => Stored(asset[d]) /\ asset'[d] = asset[d]
        BY <2>1 DEF Disk
      <3>3. \A d \in Calls : at'[d] = "place" => at[d] = "place" /\ asset'[d] = asset[d]
        BY <2>1
      <3>4. \A d \in Calls : at'[d] = "done" => Stored(asset[d])'
        BY <3>1, <3>2 DEF Stored
      <3>5. \A d \in Calls : value'[d] # None => Stored(value[d])'
        BY <2>1, <3>1 DEF Disk, Stored
      <3> QED
        BY <3>1, <3>3, <3>4, <3>5 DEF Disk
    <2> QED
      BY <1>7, <2>2, <2>3 DEF Drop
  <1> QED
    BY <1>1, <1>2, <1>3, <1>4, <1>5, <1>6, <1>7 DEF Next, Work

\* With names that tell contents apart, an asset that was returned is on disk with
\* the content that was downloaded for it, whatever was renamed since.
THEOREM FilesStayIntact == ASSUME NamesTellContents PROVE Spec => []FilesIntact
  <1>1. Init => Disk
    BY DEF Init, Disk
  <1>2. Inv /\ Disk /\ [Next]_vars => Disk'
    BY DiskStep
  <1>3. Disk => FilesIntact
    BY DEF Disk, Stored, FilesIntact
  <1> QED
    BY <1>1, <1>2, <1>3, Invariance, PTL DEF Spec

=============================================================================
