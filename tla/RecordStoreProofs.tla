-------------------------- MODULE RecordStoreProofs --------------------------
(***************************************************************************)
(* Safety of the record store for any number of sessions, keys, stamps and  *)
(* faults: garbage collection never takes the temp file of a live writer,   *)
(* no acknowledged save is lost, loads and updates are atomic, and a stale  *)
(* copy of a record never replaces a newer one.                             *)
(***************************************************************************)
EXTENDS RecordStore, TLAPS

-----------------------------------------------------------------------------
(* The inductive invariant, part by part. *)

Critical == {"locked", "backup", "write", "rename", "unlock"}

Places == {"idle", "ready", "wait"} \cup Critical

Typed ==
    /\ disk \in V1 \cup V2 \cup {None, Unreadable}
    /\ clock \in 0..MaxClock
    /\ pc \in [Sessions -> Places]
    /\ op \in [Sessions -> {"load", "update", "final"}]
    /\ ok \in [Sessions -> BOOLEAN]
    /\ mine \in [Sessions -> Maps] /\ view \in [Sessions -> Maps]

\* Sessions hold and write valid records only, so that a load keeps them all.
Clean(recs) == \A k \in Keys : recs[k] # NoRecord => recs[k].status # "INVALID"

\* Each record is there, and is not older.
Covers(recs, older) ==
    \A k \in Keys : older[k] # NoRecord => recs[k] # NoRecord /\ ~Newer(older[k], recs[k])

\* One session at a time is inside a transaction, and its temp file is there.
Exclusive(s) ==
    /\ pc[s] \in Critical => lock = s
    /\ pc[s] = "rename" => <<s, "live">> \in tmps

\* What is about to be written is the merge over what is still on disk; a
\* migration first writes the v1 records as they are, with the v1 bytes kept.
Prepared(s) ==
    /\ pc[s] = "backup" => disk \in V1
    /\ pc[s] \in {"write", "rename"} =>
          /\ disk # Unreadable
          /\ disk \in V1 => backup
          /\ view[s] = IF disk \in V1 THEN Durable ELSE Merged(mine[s], Durable)

\* Only a call that is over can be a success, and then the file covers what the
\* session holds.
Saved(s) ==
    ok[s] => /\ pc[s] \in {"ready", "unlock"}
             /\ disk # Unreadable /\ Covers(Durable, mine[s])

Good(s) == Clean(mine[s]) /\ Clean(view[s]) /\ Exclusive(s) /\ Prepared(s) /\ Saved(s)

IInv == Typed /\ \A s \in Sessions : Good(s)

-----------------------------------------------------------------------------
(* What the operators on records give. *)

\* The record maps of the store, and which of them hold valid records only.
LEMMA LegacyClean == \A urls \in SUBSET Keys : Legacy(urls) \in Maps /\ Clean(Legacy(urls))
  BY StoreAssumption DEF Legacy, Maps, Stamped, Clean

LEMMA KeptClean ==
  ASSUME NEW recs \in Maps
  PROVE  Kept(recs) \in Maps /\ Clean(Kept(recs)) /\ (Clean(recs) => Kept(recs) = recs)
  BY DEF Kept, Maps, Clean

LEMMA NothingClean == Nothing \in Maps /\ Clean(Nothing)
  BY DEF Nothing, Maps, Clean

\* A merge covers both sides.
LEMMA MergedCovers ==
  ASSUME NEW ours \in Maps, NEW current \in Maps, Clean(ours), Clean(current)
  PROVE  /\ Merged(ours, current) \in Maps /\ Clean(Merged(ours, current))
         /\ Covers(Merged(ours, current), current) /\ Covers(Merged(ours, current), ours)
  <1> DEFINE m == Merged(ours, current)
  <1>1. \A k \in Keys : m[k] = IF ours[k] = NoRecord \/ Newer(current[k], ours[k])
                               THEN current[k] ELSE ours[k]
    BY DEF Merged
  <1>2. m \in Maps
    BY DEF Merged, Maps
  <1>3. Clean(m)
    BY <1>1 DEF Clean
  <1>4. \A k \in Keys : current[k] # NoRecord => m[k] # NoRecord /\ ~Newer(current[k], m[k])
    BY <1>1, StoreAssumption DEF Newer, Maps, Stamped
  <1>5. \A k \in Keys : ours[k] # NoRecord => m[k] # NoRecord /\ ~Newer(ours[k], m[k])
    BY <1>1, StoreAssumption DEF Newer, Maps, Stamped
  <1> QED
    BY <1>2, <1>3, <1>4, <1>5 DEF Covers

LEMMA CoversRefl ==
  ASSUME NEW recs \in Maps PROVE Covers(recs, recs)
  BY StoreAssumption DEF Covers, Newer, Maps, Stamped

LEMMA CoversTrans ==
  ASSUME NEW p \in Maps, NEW q \in Maps, NEW r \in Maps, Covers(p, q), Covers(q, r)
  PROVE  Covers(p, r)
  BY StoreAssumption DEF Covers, Newer, Maps, Stamped

\* What the next load would see, by the kind of file there is.
LEMMA DurableIs ==
  ASSUME Typed
  PROVE  /\ disk \in V2 => /\ Durable = Kept(disk.records) /\ disk.records \in Maps
                           /\ disk \notin V1 /\ disk # Unreadable
         /\ disk \in V1 => /\ Durable = Legacy(disk.urls) /\ disk.urls \in SUBSET Keys
                           /\ disk \notin V2 /\ disk # Unreadable
         /\ disk = None => Durable = Nothing /\ disk # Unreadable
         /\ disk # Unreadable => Durable \in Maps /\ Clean(Durable)
  <1>1. V1 \cap V2 = {}
    BY DEF V1, V2
  <1>2. disk \in V2 => Durable = Kept(disk.records) /\ disk.records \in Maps
    BY <1>1, StoreAssumption DEF Durable, V2
  <1>3. disk \in V1 => Durable = Legacy(disk.urls) /\ disk.urls \in SUBSET Keys
    BY <1>1, StoreAssumption DEF Durable, V1
  <1>4. disk = None => Durable = Nothing
    BY StoreAssumption DEF Durable
  <1> QED
    BY <1>1, <1>2, <1>3, <1>4, StoreAssumption, LegacyClean, KeptClean, NothingClean DEF Typed

-----------------------------------------------------------------------------
(* Steps that leave the file alone.  Sessions other than s see nothing of     *)
(* them, but for the lock and the stray temp files.                           *)

Private(s) ==
    \A t \in Sessions \ {s} : /\ pc'[t] = pc[t] /\ ok'[t] = ok[t]
                              /\ mine'[t] = mine[t] /\ view'[t] = view[t]

LEMMA OthersGood ==
  ASSUME IInv, NEW s \in Sessions, Private(s), disk' = disk, backup => backup',
         \A t \in Sessions \ {s} : lock = t => lock' = t,
         \A t \in Sessions \ {s} : lock = t /\ <<t, "live">> \in tmps => <<t, "live">> \in tmps'
  PROVE  \A t \in Sessions \ {s} : Good(t)'
  <1>1. Durable' = Durable
    BY DEF Durable
  <1> QED
    BY <1>1 DEF IInv, Good, Exclusive, Prepared, Saved, Private, Critical

\* A session between its calls.
LEMMA CallInv ==
  ASSUME IInv, NEW s \in Sessions,
         Open(s) \/ (\E k \in Keys : Advance(s, k)) \/ FinalPersist(s)
  PROVE  IInv'
  <1>1. Private(s) /\ UNCHANGED <<disk, backup, lock, tmps, view>>
    BY DEF Open, Advance, FinalPersist, Call, Goto, Private, IInv, Typed
  <1>2. Typed' /\ Clean(mine'[s])
    <2>1. CASE Open(s) \/ FinalPersist(s)
      BY <2>1 DEF Open, FinalPersist, Call, Goto, IInv, Typed, Places, Good
    <2>2. ASSUME NEW k \in Keys, Advance(s, k) PROVE Typed' /\ Clean(mine'[s])
      <3>1. PICK now \in (IF Ties THEN clock..(clock + 1) ELSE {clock + 1}),
                 status \in Moves(mine[s][k]) :
              /\ now <= MaxClock /\ clock' = now
              /\ mine' = [mine EXCEPT ![s][k] = [status |-> status, at |-> now]]
        BY <2>2 DEF Advance
      <3>2. now \in 0..MaxClock /\ status \in {"DISCOVERED", "EXPORTED", "COMMITTED"}
        BY <3>1, StoreAssumption DEF Moves, IInv, Typed
      <3>3. mine' \in [Sessions -> Maps]
        BY <3>1, <3>2 DEF Maps, Stamped, IInv, Typed
      <3>4. Clean(mine'[s])
        BY <3>1, <3>2 DEF Clean, Good, Maps, IInv, Typed
      <3> QED
        BY <2>2, <3>1, <3>2, <3>3, <3>4 DEF Advance, Call, Goto, IInv, Typed, Places
    <2> QED
      BY <2>1, <2>2
  <1>3. pc'[s] \in {"wait", "ready"} /\ ~ok'[s]
    BY DEF Open, Advance, FinalPersist, Call, Goto, IInv, Typed, Good, Saved
  <1>4. Good(s)'
    BY <1>1, <1>2, <1>3 DEF Good, Exclusive, Prepared, Saved, Critical, IInv
  <1>5. \A t \in Sessions \ {s} : Good(t)'
    BY <1>1, OthersGood
  <1> QED
    BY <1>2, <1>4, <1>5 DEF IInv

\* The lock is taken when nobody is inside.
LEMMA AcquireInv == ASSUME IInv, NEW s \in Sessions, Acquire(s) PROVE IInv'
  <1>1. /\ Private(s) /\ UNCHANGED <<disk, backup, tmps, ok, mine, view>>
        /\ pc[s] = "wait" /\ pc'[s] = "locked" /\ lock = None /\ lock' = s
    BY DEF Acquire, Goto, Private, IInv, Typed
  <1>2. Typed'
    BY DEF Acquire, Goto, IInv, Typed, Places, Critical
  <1>3. Good(s)'
    BY <1>1 DEF IInv, Good, Exclusive, Prepared, Saved
  <1>4. \A t \in Sessions \ {s} : Good(t)'
    BY <1>1, OthersGood, StoreAssumption
  <1> QED
    BY <1>2, <1>3, <1>4 DEF IInv

\* A session that leaves its call or dies: its memory is empty, or untouched.
Left(s) ==
    /\ pc' \in [Sessions -> Places] /\ op' \in [Sessions -> {"load", "update", "final"}]
    /\ ok' \in [Sessions -> BOOLEAN]
    /\ Private(s) /\ UNCHANGED <<disk, backup, clock>>
    /\ mine' \in [Sessions -> Maps] /\ view' = [view EXCEPT ![s] = Nothing]
    /\ \/ pc'[s] = "idle" /\ mine'[s] = Nothing /\ ~ok'[s]
       \/ pc'[s] = "ready" /\ mine'[s] = mine[s] /\ ok'[s] = ok[s]

LEMMA ReturnLeaves == ASSUME IInv, NEW s \in Sessions, Return(s), UNCHANGED <<disk, backup, clock>> PROVE Left(s)
  <1>1. CASE op[s] = "final"
    BY <1>1, NothingClean DEF Return, Gone, Goto, Left, Private, IInv, Typed, Places
  <1>2. CASE op[s] # "final"
    BY <1>2 DEF Return, Goto, Left, Private, IInv, Typed, Places
  <1> QED
    BY <1>1, <1>2

LEMMA ReturnInv ==
  ASSUME IInv, NEW s \in Sessions, AcquireFails(s) \/ Unlock(s) \/ Crash(s)
  PROVE  IInv'
  <1>1. Left(s)
    <2>1. CASE AcquireFails(s) \/ Unlock(s)
      BY <2>1, ReturnLeaves DEF AcquireFails, Unlock
    <2>2. CASE Crash(s)
      BY <2>2, NothingClean DEF Crash, Gone, Goto, Left, Private, IInv, Typed, Places
    <2> QED
      BY <2>1, <2>2
  <1>2. Typed'
    BY <1>1, NothingClean DEF Left, IInv, Typed
  <1>3. Good(s)'
    <2>1. Durable' = Durable
      BY <1>1 DEF Left, Durable
    <2>2. Clean(mine'[s]) /\ Clean(view'[s])
      BY <1>1, NothingClean DEF Left, IInv, Typed, Good
    <2> QED
      BY <1>1, <2>1, <2>2 DEF Left, IInv, Good, Exclusive, Prepared, Saved, Critical
  <1>4. \A t \in Sessions \ {s} : lock = t => lock' = t
    BY DEF AcquireFails, Unlock, Crash, IInv, Good, Exclusive, Critical
  <1>5. \A t \in Sessions \ {s} : <<t, "live">> \in tmps => <<t, "live">> \in tmps'
    BY DEF AcquireFails, Unlock, Crash
  <1>6. \A t \in Sessions \ {s} : Good(t)'
    BY <1>1, <1>4, <1>5, OthersGood DEF Left
  <1> QED
    BY <1>2, <1>3, <1>6 DEF IInv

-----------------------------------------------------------------------------
(* Steps of a transaction. *)

\* What a step inside the transaction leaves of the session's own types.
TypedHere ==
    /\ pc' \in [Sessions -> Places] /\ ok' \in [Sessions -> BOOLEAN]
    /\ mine' \in [Sessions -> Maps] /\ view' \in [Sessions -> Maps]

\* A failed call acknowledges nothing.
LEMMA FailsGood ==
  ASSUME IInv, NEW s \in Sessions, Fails(s), pc[s] \in Critical \ {"unlock"}, UNCHANGED lock
  PROVE  Good(s)' /\ TypedHere /\ Private(s)
  <1>1. pc'[s] = "unlock" /\ ~ok'[s] /\ TypedHere /\ Private(s)
    BY NothingClean
    DEF Fails, Goto, IInv, Typed, Good, Saved, Critical, Places, TypedHere, Private
  <1>2. Clean(mine'[s]) /\ Clean(view'[s])
    BY NothingClean DEF Fails, IInv, Typed, Good
  <1> QED
    BY <1>1, <1>2 DEF Good, Exclusive, Prepared, Saved, IInv, Critical

\* What was read is what a load would see: an open holds it, an update covers it.
LEMMA HasReadGood ==
  ASSUME IInv, NEW s \in Sessions, NEW recs \in Maps, Clean(recs), HasRead(s, recs),
         pc[s] \in {"locked", "rename"}, UNCHANGED lock,
         Durable' = recs, disk' # Unreadable, disk' \notin V1
  PROVE  Good(s)' /\ TypedHere /\ Private(s)
  <1>1. lock = s /\ ~ok[s] /\ Clean(mine[s]) /\ Clean(view[s]) /\ mine[s] \in Maps
    BY DEF IInv, Typed, Good, Exclusive, Saved, Critical
  <1>2. CASE op[s] = "load"
    <2>1. /\ pc'[s] = "unlock" /\ mine'[s] = recs /\ view'[s] = view[s]
          /\ TypedHere /\ Private(s)
      BY <1>2, ZenonT(60) DEF HasRead, Goto, IInv, Typed, Places, Critical, TypedHere, Private
    <2> QED
      BY <1>1, <2>1, CoversRefl DEF Good, Exclusive, Prepared, Saved
  <1>3. CASE op[s] # "load"
    <2>1. /\ pc'[s] = "write" /\ mine'[s] = mine[s] /\ ~ok'[s]
          /\ view' = [view EXCEPT ![s] = Merged(mine[s], recs)]
      BY <1>1, <1>3 DEF HasRead, Goto, IInv, Typed
    <2>2. /\ Merged(mine[s], recs) \in Maps /\ Clean(Merged(mine[s], recs))
          /\ Covers(Merged(mine[s], recs), recs) /\ Covers(Merged(mine[s], recs), mine[s])
      BY <1>1, MergedCovers
    <2>3. TypedHere /\ Private(s) /\ view'[s] = Merged(mine[s], recs)
      BY <1>3, <2>1, <2>2
      DEF HasRead, Goto, IInv, Typed, Places, Critical, TypedHere, Private
    <2> QED
      BY <1>1, <2>1, <2>2, <2>3 DEF Good, Exclusive, Prepared, Saved
  <1> QED
    BY <1>2, <1>3

LEMMA ReadInv == ASSUME IInv, NEW s \in Sessions, Read(s) PROVE IInv'
  <1>1. pc[s] = "locked" /\ lock = s /\ UNCHANGED <<disk, backup, lock, clock, op>>
    BY DEF Read, IInv, Good, Exclusive, Critical
  <1>2. Durable' = Durable
    BY <1>1 DEF Durable
  <1>3. Good(s)' /\ TypedHere /\ Private(s)
    <2>1. CASE disk = None /\ HasRead(s, Nothing)
      BY <1>1, <1>2, <2>1, DurableIs, NothingClean, HasReadGood, StoreAssumption DEF IInv
    <2>2. CASE disk \in V2 /\ HasRead(s, Kept(disk.records))
      <3>1. /\ Durable = Kept(disk.records) /\ Durable \in Maps /\ Clean(Durable)
            /\ disk \notin V1 /\ disk # Unreadable
        BY <2>2, DurableIs DEF IInv
      <3> QED
        BY <1>1, <1>2, <2>2, <3>1, HasReadGood
    <2>3. CASE disk \in V1 /\ Goto(s, "backup") /\ UNCHANGED <<mine, ok, view>>
      <3>1. pc' = [pc EXCEPT ![s] = "backup"]
        BY <2>3 DEF Goto
      <3> QED
        BY <1>1, <2>3, <3>1
        DEF IInv, Typed, Places, Critical, Good, Exclusive, Prepared, Saved, TypedHere, Private
    <2>4. CASE Fails(s)
      BY <1>1, <2>4, FailsGood DEF Critical
    <2> QED
      BY <2>1, <2>2, <2>3, <2>4 DEF Read
  <1>4. Typed'
    BY <1>1, <1>3 DEF TypedHere, IInv, Typed
  <1>5. \A t \in Sessions \ {s} : Good(t)'
    BY <1>1, <1>3, OthersGood
  <1> QED
    BY <1>3, <1>4, <1>5 DEF IInv

\* The backup does not touch the live file, and the v1 records come next.
LEMMA BackupInv == ASSUME IInv, NEW s \in Sessions, Backup(s) PROVE IInv'
  <1>0. backup => backup'
    BY Zenon DEF Backup
  <1>1. pc[s] = "backup" /\ lock = s /\ disk \in V1 /\ UNCHANGED <<disk, tmps, lock, clock, op>>
    BY DEF Backup, IInv, Good, Exclusive, Prepared, Critical
  <1>2. Durable' = Durable
    BY <1>1 DEF Durable
  <1>3. Good(s)' /\ TypedHere /\ Private(s)
    <2>1. CASE /\ backup' = TRUE
               /\ view' = [view EXCEPT ![s] = Legacy(disk.urls)] /\ Goto(s, "write")
               /\ UNCHANGED <<ok, mine>>
      <3>1. /\ Durable = Legacy(disk.urls) /\ Durable \in Maps /\ Clean(Durable)
            /\ disk # Unreadable
        BY <1>1, DurableIs DEF IInv
      <3>2. pc' = [pc EXCEPT ![s] = "write"] /\ view' = [view EXCEPT ![s] = Durable]
        BY <2>1, <3>1 DEF Goto
      <3>3. TypedHere /\ Private(s) /\ pc'[s] = "write" /\ view'[s] = Durable
        BY <2>1, <3>1, <3>2 DEF IInv, Typed, Places, Critical, TypedHere, Private
      <3> QED
        BY <1>1, <1>2, <2>1, <3>1, <3>3, CoversRefl
        DEF IInv, Good, Exclusive, Prepared, Saved, Critical
    <2>2. CASE Fails(s)
      BY <1>1, <2>2, FailsGood DEF Critical
    <2> QED
      BY <2>1, <2>2 DEF Backup
  <1>4. Typed'
    BY <1>1, <1>3 DEF TypedHere, IInv, Typed
  <1>5. \A t \in Sessions \ {s} : Good(t)'
    BY <1>0, <1>1, <1>3, OthersGood
  <1> QED
    BY <1>3, <1>4, <1>5 DEF IInv

LEMMA WriteInv == ASSUME IInv, NEW s \in Sessions, Write(s) PROVE IInv'
  <1>1. pc[s] = "write" /\ lock = s /\ UNCHANGED <<disk, backup, lock, clock, op>> /\ tmps \subseteq tmps'
    BY DEF Write, IInv, Good, Exclusive, Critical
  <1>2. Durable' = Durable
    BY <1>1 DEF Durable
  <1>3. Good(s)' /\ TypedHere /\ Private(s)
    <2>1. CASE /\ tmps' = tmps \cup {<<s, "live">>} /\ Goto(s, "rename")
               /\ UNCHANGED <<ok, mine, view>>
      <3>1. pc' = [pc EXCEPT ![s] = "rename"] /\ <<s, "live">> \in tmps'
        BY <2>1 DEF Goto
      <3> QED
        BY <1>1, <1>2, <2>1, <3>1
        DEF IInv, Typed, Places, Critical, Good, Exclusive, Prepared, Saved, TypedHere, Private
    <2>2. CASE Fails(s)
      BY <1>1, <2>2, FailsGood DEF Critical
    <2> QED
      BY <2>1, <2>2 DEF Write
  <1>4. Typed'
    BY <1>1, <1>3 DEF TypedHere, IInv, Typed
  <1>5. \A t \in Sessions \ {s} : Good(t)'
    BY <1>1, <1>3, OthersGood
  <1> QED
    BY <1>3, <1>4, <1>5 DEF IInv

\* The rename puts a map in place that covers the one it replaces, so whatever
\* another session has acknowledged stays covered.
LEMMA RenameInv == ASSUME IInv, NEW s \in Sessions, Rename(s) PROVE IInv'
  <1>1. pc[s] = "rename" /\ lock = s /\ UNCHANGED <<backup, lock, clock, op>> /\ tmps' = tmps \ {<<s, "live">>}
    BY DEF Rename, IInv, Good, Exclusive, Critical
  <1>2. CASE Fails(s) /\ UNCHANGED disk
    <2>1. Good(s)' /\ TypedHere /\ Private(s)
      BY <1>1, <1>2, FailsGood DEF Critical
    <2>2. Typed'
      BY <1>1, <1>2, <2>1 DEF TypedHere, IInv, Typed
    <2>3. \A t \in Sessions \ {s} : Good(t)'
      BY <1>1, <1>2, <2>1, OthersGood
    <2> QED
      BY <2>1, <2>2, <2>3 DEF IInv
  <1>3. CASE /\ disk' = [version |-> 2, records |-> view[s]]
             /\ IF disk \in V1 THEN HasRead(s, view[s])
                ELSE /\ ok' = [ok EXCEPT ![s] = TRUE]
                     /\ Goto(s, "unlock") /\ UNCHANGED <<mine, view>>
    <2>1. /\ view[s] \in Maps /\ Clean(view[s]) /\ Covers(view[s], Durable) /\ disk # Unreadable
          /\ disk \notin V1 => Covers(view[s], mine[s])
          /\ Durable \in Maps
      <3>1. /\ Durable \in Maps /\ Clean(Durable) /\ mine[s] \in Maps /\ Clean(mine[s])
            /\ view[s] \in Maps /\ Clean(view[s]) /\ disk # Unreadable
            /\ view[s] = IF disk \in V1 THEN Durable ELSE Merged(mine[s], Durable)
        BY <1>1, DurableIs DEF IInv, Typed, Good, Prepared
      <3> QED
        BY <3>1, CoversRefl, MergedCovers
    <2>2. disk' \in V2 /\ disk' \notin V1 /\ disk' # Unreadable /\ disk' # None
      BY <1>3, <2>1, StoreAssumption DEF V1, V2
    <2>3. Durable' = view[s]
      <3>1. Kept(view[s]) = view[s]
        BY <2>1, KeptClean
      <3> QED
        BY <1>3, <2>2, <3>1 DEF Durable
    <2>4. Good(s)' /\ TypedHere /\ Private(s)
      <3>1. CASE disk \in V1
        BY <1>1, <1>3, <2>1, <2>2, <2>3, <3>1, HasReadGood
      <3>2. CASE disk \notin V1
        <4>1. pc' = [pc EXCEPT ![s] = "unlock"] /\ ok' = [ok EXCEPT ![s] = TRUE] /\ UNCHANGED <<mine, view>>
          BY <1>3, <3>2 DEF Goto
        <4> QED
          BY <1>1, <2>1, <2>2, <2>3, <3>2, <4>1
          DEF IInv, Typed, Places, Critical, Good, Exclusive, Prepared, Saved, TypedHere, Private
      <3> QED
        BY <3>1, <3>2
    <2>5. Typed'
      BY <1>1, <2>2, <2>4 DEF TypedHere, IInv, Typed
    <2>6. ASSUME NEW t \in Sessions \ {s} PROVE Good(t)'
      <3>1. pc[t] \notin Critical /\ Good(t) /\ mine[t] \in Maps
        BY <1>1, <2>6 DEF IInv, Typed, Good, Exclusive
      <3>2. ok[t] => Covers(Durable', mine[t])
        <4>1. ok[t] => Covers(Durable, mine[t])
          BY <3>1 DEF Good, Saved
        <4> QED
          BY <2>1, <2>3, <3>1, <4>1, CoversTrans
      <3> QED
        BY <2>2, <2>4, <3>1, <3>2 DEF Good, Exclusive, Prepared, Saved, Private, Critical
    <2> QED
      BY <2>4, <2>5, <2>6 DEF IInv
  <1> QED
    BY <1>2, <1>3 DEF Rename

-----------------------------------------------------------------------------
(* The theorems. *)

LEMMA InitInv == ASSUME Init PROVE IInv
  BY StoreAssumption, NothingClean
  DEF Init, IInv, Typed, Places, Critical, Good, Exclusive, Prepared, Saved

LEMMA NextInv == ASSUME IInv, [Next]_vars PROVE IInv'
  <1>1. ASSUME NEW s \in Sessions,
               Open(s) \/ (\E k \in Keys : Advance(s, k)) \/ FinalPersist(s) \/ Step(s) \/ Crash(s)
        PROVE  IInv'
    BY <1>1, CallInv, AcquireInv, ReturnInv, ReadInv, BackupInv, WriteInv, RenameInv DEF Step
  <1>2. CASE UNCHANGED vars
    <2>1. Durable' = Durable
      BY <1>2 DEF vars, Durable
    <2> QED
      BY <1>2, <2>1 DEF vars, IInv, Typed, Good, Exclusive, Prepared, Saved
  <1> QED
    BY <1>1, <1>2 DEF Next

\* Whatever sessions share the file and whatever fails, garbage collection
\* never takes the temp file a live writer is about to rename (gc_tmp_files
\* runs under the lock only).
THEOREM LiveTempFilesStay == Spec => []RenameFinds
  <1>1. IInv /\ [Next]_vars => IInv'
    BY NextInv
  <1>2. IInv => RenameFinds
    BY DEF IInv, Good, Exclusive, RenameFinds
  <1> QED
    BY InitInv, <1>1, <1>2, PTL DEF Spec

\* A save that was reported as done stays on disk, or is superseded by records
\* at least as new, for any number of sessions, migrations, crashes and failed
\* calls, with stamps that tie or not (update and merge_persist).
THEOREM AcknowledgedSavesStay == Spec => []Acknowledged
  <1>1. IInv /\ [Next]_vars => IInv'
    BY NextInv
  <1>2. IInv => Acknowledged
    BY DEF IInv, Good, Saved, Covers, Acknowledged
  <1> QED
    BY InitInv, <1>1, <1>2, PTL DEF Spec

\* A v1 file is replaced only after its bytes were copied aside, in whichever
\* session and after whatever failed migrations (migrate_v1).
THEOREM BackupComesFirst == Spec => BackupFirst
  <1>1. IInv /\ [Next]_vars => IInv'
    BY NextInv
  <1>2. IInv /\ [Next]_vars => [(disk \in V1) => backup]_disk
    <2>1. ASSUME IInv, NEW s \in Sessions, Rename(s), disk \in V1 PROVE backup
      BY <2>1 DEF Rename, IInv, Good, Prepared
    <2> QED
      BY <2>1 DEF Next, Step, vars, Open, Advance, FinalPersist, Acquire, AcquireFails, Read,
                  Backup, Write, Unlock, Crash
  <1> QED
    BY InitInv, <1>1, <1>2, PTL DEF Spec, BackupFirst

-----------------------------------------------------------------------------
(* The store implements AtomicStore. *)

\* A session that forgets what it holds, or goes on.
LEMMA ForgetSimulates ==
  ASSUME NEW s \in Sessions, Durable' = Durable,
         UNCHANGED mine \/ mine' = [mine EXCEPT ![s] = Nothing]
  PROVE  [Atomic!Next]_<<Durable, mine>>
  BY DEF Atomic!Next, Atomic!Forget, Atomic!Nothing, Nothing

LEMMA FailsSimulates ==
  ASSUME NEW s \in Sessions, Fails(s), UNCHANGED disk
  PROVE  [Atomic!Next]_<<Durable, mine>>
  <1>1. Durable' = Durable
    BY DEF Durable
  <1> QED
    BY <1>1, ForgetSimulates DEF Fails

\* A file that can be read is not taken for one that cannot.
LEMMA DurableReadable == ASSUME Typed, disk # Unreadable PROVE Durable # Unreadable
  BY DurableIs, StoreAssumption

\* A rename publishes a merge, or takes the place of the v1 file it equals.
LEMMA RenameSimulates ==
  ASSUME IInv, NEW s \in Sessions, Rename(s)
  PROVE  [Atomic!Next]_<<Durable, mine>>
  <1>1. pc[s] = "rename" /\ disk # Unreadable
        /\ view[s] = (IF disk \in V1 THEN Durable ELSE Merged(mine[s], Durable))
        /\ view[s] \in Maps /\ Clean(view[s])
    BY DEF Rename, IInv, Typed, Good, Prepared
  <1>2. Durable # Unreadable
    BY <1>1, DurableReadable DEF IInv
  <1>3. CASE Fails(s) /\ UNCHANGED disk
    BY <1>3, <1>2, FailsSimulates
  <1>4. CASE /\ disk' = [version |-> 2, records |-> view[s]]
             /\ IF disk \in V1 THEN HasRead(s, view[s])
                ELSE /\ ok' = [ok EXCEPT ![s] = TRUE]
                     /\ Goto(s, "unlock") /\ UNCHANGED <<mine, view>>
    <2>1. Durable' = view[s]
      <3>1. Kept(view[s]) = view[s]
        BY <1>1, KeptClean
      <3>2. disk' \in V2 /\ disk' \notin V1 /\ disk' # Unreadable /\ disk' # None
        BY <1>1, <1>4, StoreAssumption DEF V1, V2
      <3> QED
        BY <1>4, <3>1, <3>2 DEF Durable
    <2>2. CASE disk \in V1
      <3>1. UNCHANGED mine \/ mine' = [mine EXCEPT ![s] = Durable]
        BY <1>1, <1>4, <2>2 DEF HasRead
      <3> QED
        BY <1>1, <1>2, <2>1, <2>2, <3>1 DEF Atomic!Next, Atomic!Begin
    <2>3. CASE disk \notin V1
      <3>1. UNCHANGED mine /\ Durable' = Atomic!Merged(mine[s], Durable)
        BY <1>1, <1>4, <2>1, <2>3 DEF Merged, Atomic!Merged, Newer, Atomic!Newer
      <3> QED
        BY <1>2, <3>1 DEF Atomic!Next, Atomic!Publish
    <2> QED
      BY <2>2, <2>3
  <1> QED
    BY <1>3, <1>4 DEF Rename

LEMMA StepSimulates ==
  ASSUME IInv, [Next]_vars
  PROVE  [Atomic!Next]_<<Durable, mine>>
  <1>1. ASSUME NEW s \in Sessions, Open(s) \/ FinalPersist(s) \/ Acquire(s)
        PROVE  UNCHANGED <<Durable, mine>>
    BY <1>1 DEF Open, FinalPersist, Acquire, Durable
  <1>2. ASSUME NEW s \in Sessions, NEW k \in Keys, Advance(s, k)
        PROVE  [Atomic!Next]_<<Durable, mine>>
    <2>1. PICK now \in (IF Ties THEN clock..(clock + 1) ELSE {clock + 1}),
               status \in Moves(mine[s][k]) :
            /\ now <= MaxClock
            /\ mine' = [mine EXCEPT ![s][k] = [status |-> status, at |-> now]]
      BY <1>2 DEF Advance
    <2>2. [status |-> status, at |-> now] \in Atomic!Stamped
      BY <2>1, StoreAssumption DEF Moves, Atomic!Stamped, IInv, Typed
    <2>3. Durable' = Durable
      BY <1>2 DEF Advance, Durable
    <2> QED
      BY <2>1, <2>2, <2>3 DEF Atomic!Next, Atomic!Touch
  <1>3. ASSUME NEW s \in Sessions, AcquireFails(s) \/ Unlock(s) \/ Crash(s)
        PROVE  [Atomic!Next]_<<Durable, mine>>
    <2>1. Durable' = Durable
      BY <1>3 DEF AcquireFails, Unlock, Crash, Durable
    <2>2. UNCHANGED mine \/ mine' = [mine EXCEPT ![s] = Nothing]
      BY <1>3 DEF AcquireFails, Unlock, Crash, Return, Gone
    <2> QED
      BY <2>1, <2>2, ForgetSimulates
  <1>4. ASSUME NEW s \in Sessions, Read(s) PROVE [Atomic!Next]_<<Durable, mine>>
    <2>1. Durable' = Durable
      BY <1>4 DEF Read, Durable
    <2>2. CASE \E recs : HasRead(s, recs) /\ recs = Durable /\ disk # Unreadable
      <3>1. UNCHANGED mine \/ mine' = [mine EXCEPT ![s] = Durable]
        BY <2>2 DEF HasRead
      <3>2. Durable # Unreadable
        BY <2>2, DurableReadable DEF IInv
      <3> QED
        BY <2>1, <3>1, <3>2 DEF Atomic!Next, Atomic!Begin
    <2>3. CASE Fails(s)
      BY <2>1, <2>3, ForgetSimulates DEF Fails
    <2>4. CASE UNCHANGED mine
      BY <2>1, <2>4
    <2> QED
      BY <1>4, <2>2, <2>3, <2>4, DurableIs DEF Read, IInv
  <1>5. ASSUME NEW s \in Sessions, Backup(s) \/ Write(s) PROVE [Atomic!Next]_<<Durable, mine>>
    <2>1. Durable' = Durable /\ (UNCHANGED mine \/ Fails(s))
      BY <1>5 DEF Backup, Write, Durable
    <2> QED
      BY <2>1, ForgetSimulates DEF Fails
  <1>6. CASE UNCHANGED vars
    BY <1>6 DEF vars, Durable
  <1> QED
    BY <1>1, <1>2, <1>3, <1>4, <1>5, <1>6, RenameSimulates DEF Next, Step

\* Load and update are atomic for any number of sessions: whatever they do,
\* fail at or die in, the durable records and what each session holds evolve as
\* if every load and every merge were one step (load, update, migrate_v1).
THEOREM StoreIsAtomic == Spec => AtomicTransactions
  <1>1. Init => IInv /\ Atomic!Init
    <2>1. ASSUME Init PROVE Durable \in Maps \cup {Unreadable}
      BY <2>1, InitInv, DurableIs DEF IInv, Durable
    <2> QED
      BY <2>1, InitInv DEF Init, Atomic!Init, Atomic!Maps, Maps, Atomic!Stamped, Stamped,
                           Atomic!Nothing, Nothing
  <1>2. IInv /\ [Next]_vars => IInv'
    BY NextInv
  <1>3. IInv /\ [Next]_vars => [Atomic!Next]_<<Durable, mine>>
    BY StepSimulates
  <1> QED
    BY <1>1, <1>2, <1>3, PTL DEF Spec, AtomicTransactions, Atomic!Spec

-----------------------------------------------------------------------------
(* Types. *)

\* What TypeOK says beyond Typed.
Bookkept ==
    /\ backup \in BOOLEAN /\ tmps \subseteq Sessions \X {"live", "stale"}
    /\ lock \in Sessions \cup {None} /\ faults \in 0..MaxFaults
    /\ touched \in [Sessions -> SUBSET Keys]

LEMMA ReturnKeeps ==
  ASSUME Bookkept, NEW s \in Sessions, Return(s) PROVE touched' \in [Sessions -> SUBSET Keys]
  BY DEF Return, Gone, Bookkept

LEMMA FaultKeeps == ASSUME Bookkept, Fault \/ UNCHANGED faults PROVE faults' \in 0..MaxFaults
  BY StoreAssumption DEF Fault, Bookkept

LEMMA BookkeptStep == ASSUME Bookkept, [Next]_vars PROVE Bookkept'
  <1>1. ASSUME NEW s \in Sessions, Open(s) \/ FinalPersist(s) \/ Acquire(s) PROVE Bookkept'
    BY <1>1 DEF Open, FinalPersist, Acquire, Bookkept
  <1>2. ASSUME NEW s \in Sessions, NEW k \in Keys, Advance(s, k) PROVE Bookkept'
    BY <1>2 DEF Advance, Bookkept
  <1>3. ASSUME NEW s \in Sessions, AcquireFails(s) \/ Unlock(s) PROVE Bookkept'
    BY <1>3, ReturnKeeps, FaultKeeps DEF AcquireFails, Unlock, Bookkept
  <1>4. ASSUME NEW s \in Sessions, Read(s) PROVE Bookkept'
    <2>1. UNCHANGED <<backup, lock, touched>> /\ (tmps' = tmps \/ tmps' = {})
      BY <1>4 DEF Read
    <2>2. Fault \/ UNCHANGED faults
      BY <1>4 DEF Read
    <2> QED
      BY <2>1, <2>2, FaultKeeps DEF Bookkept
  <1>5. ASSUME NEW s \in Sessions, Backup(s) PROVE Bookkept'
    <2>1. UNCHANGED <<tmps, lock, touched>> /\ (backup' = TRUE \/ backup' = backup)
      BY <1>5 DEF Backup
    <2>2. Fault \/ UNCHANGED faults
      BY <1>5 DEF Backup
    <2>3. backup' \in BOOLEAN
      BY <2>1 DEF Bookkept
    <2> QED
      BY <2>1, <2>2, <2>3, FaultKeeps DEF Bookkept
  <1>6. ASSUME NEW s \in Sessions, Write(s) \/ Rename(s) PROVE Bookkept'
    <2>1. /\ UNCHANGED <<backup, lock, touched>>
          /\ tmps' \in {tmps, tmps \cup {<<s, "live">>}, tmps \cup {<<s, "stale">>}, tmps \ {<<s, "live">>}}
      BY <1>6 DEF Write, Rename
    <2>2. Fault \/ UNCHANGED faults
      BY <1>6 DEF Write, Rename
    <2> QED
      BY <2>1, <2>2, FaultKeeps DEF Bookkept
  <1>7. ASSUME NEW s \in Sessions, Crash(s) PROVE Bookkept'
    <2>1. tmps' \subseteq tmps \cup {<<s, "stale">>}
      BY <1>7 DEF Crash
    <2>2. UNCHANGED backup /\ lock' \in {lock, None} /\ Fault /\ touched' = [touched EXCEPT ![s] = {}]
      BY <1>7 DEF Crash, Gone
    <2> QED
      BY <2>1, <2>2, FaultKeeps DEF Bookkept
  <1>8. CASE UNCHANGED vars
    BY <1>8 DEF vars, Bookkept
  <1> QED
    BY <1>1, <1>2, <1>3, <1>4, <1>5, <1>6, <1>7, <1>8 DEF Next, Step

\* Every reachable state of the store is well typed, for any number of sessions,
\* keys, stamps and faults.
THEOREM TypeCorrect == Spec => []TypeOK
  <1>1. Init => IInv /\ Bookkept
    <2>1. Init => Bookkept
      <3>1. 0 \in 0..MaxFaults
        BY StoreAssumption
      <3> QED
        BY <3>1 DEF Init, Bookkept
    <2> QED
      BY <2>1, InitInv
  <1>2. IInv /\ [Next]_vars => IInv'
    BY NextInv
  <1>3. Bookkept /\ [Next]_vars => Bookkept'
    BY BookkeptStep
  <1>4. IInv /\ Bookkept => TypeOK
    BY DEF IInv, Typed, Places, Critical, Bookkept, TypeOK
  <1> QED
    BY <1>1, <1>2, <1>3, <1>4, PTL DEF Spec

-----------------------------------------------------------------------------
(* Stale copies yield.  When no two stamps tie, a page's record is known by   *)
(* its stamp, so that who holds an old copy can tell that it is old.          *)

Alike(r, q) == r # NoRecord /\ q # NoRecord /\ r.at = q.at => r = q

\* A copy is what is on disk, or older.
Behind(r, q) == r # NoRecord => q # NoRecord /\ (q = r \/ Newer(q, r))

\* Nothing was stamped in the future, and stamps tell the copies of a page's
\* record apart.
Apart(recs) ==
    \A k \in Keys : /\ recs[k] # NoRecord => recs[k].at <= clock
                    /\ \A s \in Sessions : Alike(mine[s][k], recs[k])

Untouched(s) == \A k \in Keys \ touched[s] : Behind(mine[s][k], Durable[k])

SInv ==
    /\ \A s \in Sessions : Apart(mine[s])
    /\ disk # Unreadable => Apart(Durable) /\ \A s \in Sessions : Untouched(s)

\* What a step may do to the file, and to the session that takes it.
Reads(s) ==
    /\ UNCHANGED <<Durable, clock>>
    /\ \/ UNCHANGED <<mine, touched>>
       \/ mine' = [mine EXCEPT ![s] = Nothing] /\ touched' \in {touched, [touched EXCEPT ![s] = {}]}
       \/ disk # Unreadable /\ mine' = [mine EXCEPT ![s] = Durable] /\ UNCHANGED touched

Publishes(s) ==
    /\ disk # Unreadable
    /\ Durable' = Merged(mine[s], Durable)
    /\ UNCHANGED <<clock, mine, touched>>

Stamps(s) ==
    /\ UNCHANGED Durable
    /\ \E k \in Keys, status \in {"DISCOVERED", "EXPORTED", "COMMITTED"} :
          mine' = [mine EXCEPT ![s][k] = [status |-> status, at |-> clock + 1]]
             /\ touched' = [touched EXCEPT ![s] = @ \cup {k}]
    /\ clock' = clock + 1

Readable == disk' = Unreadable <=> disk = Unreadable

LEMMA RenameEffect ==
  ASSUME IInv, Bookkept, NEW s \in Sessions, Rename(s)
  PROVE  Readable /\ (Reads(s) \/ Publishes(s))
  <1>1. pc[s] = "rename" /\ disk # Unreadable /\ UNCHANGED <<clock, touched>>
        /\ view[s] = (IF disk \in V1 THEN Durable ELSE Merged(mine[s], Durable))
        /\ view[s] \in Maps /\ Clean(view[s])
    BY DEF Rename, IInv, Typed, Good, Prepared
  <1>2. CASE Fails(s) /\ UNCHANGED disk
    BY <1>1, <1>2 DEF Fails, Reads, Readable, Durable
  <1>3. CASE /\ disk' = [version |-> 2, records |-> view[s]]
             /\ IF disk \in V1 THEN HasRead(s, view[s])
                ELSE /\ ok' = [ok EXCEPT ![s] = TRUE]
                     /\ Goto(s, "unlock") /\ UNCHANGED <<mine, view>>
    <2>1. disk' \in V2 /\ disk' \notin V1 /\ disk' # Unreadable /\ disk' # None
      BY <1>1, <1>3, StoreAssumption DEF V1, V2
    <2>2. Durable' = view[s]
      <3>1. Kept(view[s]) = view[s]
        BY <1>1, KeptClean
      <3> QED
        BY <1>3, <2>1, <3>1 DEF Durable
    <2>3. CASE disk \in V1
      BY <1>1, <1>3, <2>1, <2>2, <2>3 DEF HasRead, Reads, Readable
    <2>4. CASE disk \notin V1
      BY <1>1, <1>3, <2>1, <2>2, <2>4 DEF Publishes, Readable
    <2> QED
      BY <2>3, <2>4
  <1> QED
    BY <1>2, <1>3 DEF Rename

LEMMA Effects ==
  ASSUME IInv, Bookkept, Ties = FALSE, NEW s \in Sessions,
         Open(s) \/ (\E k \in Keys : Advance(s, k)) \/ FinalPersist(s) \/ Step(s) \/ Crash(s)
  PROVE  Readable /\ (Reads(s) \/ Publishes(s) \/ Stamps(s))
  <1>1. UNCHANGED disk => Readable /\ Durable' = Durable
    BY DEF Readable, Durable
  <1>2. CASE Open(s) \/ FinalPersist(s) \/ Acquire(s)
    BY <1>1, <1>2 DEF Open, FinalPersist, Acquire, Reads
  <1>3. ASSUME NEW k \in Keys, Advance(s, k) PROVE Readable /\ Stamps(s)
    <2>1. PICK status \in Moves(mine[s][k]) :
              mine' = [mine EXCEPT ![s][k] = [status |-> status, at |-> clock + 1]] /\ clock' = clock + 1
      BY <1>3 DEF Advance
    <2>2. status \in {"DISCOVERED", "EXPORTED", "COMMITTED"}
      BY DEF Moves
    <2>3. touched' = [touched EXCEPT ![s] = @ \cup {k}] /\ UNCHANGED disk
      BY <1>3 DEF Advance
    <2> QED
      BY <1>1, <2>1, <2>2, <2>3 DEF Stamps
  <1>4. CASE AcquireFails(s) \/ Unlock(s)
    <2>1. UNCHANGED <<disk, clock>> /\ Return(s)
      BY <1>4 DEF AcquireFails, Unlock
    <2>2. \/ UNCHANGED <<mine, touched>>
          \/ mine' = [mine EXCEPT ![s] = Nothing] /\ touched' = [touched EXCEPT ![s] = {}]
      BY <2>1 DEF Return, Gone
    <2> QED
      BY <1>1, <2>1, <2>2 DEF Reads
  <1>5. CASE Crash(s)
    BY <1>1, <1>5 DEF Crash, Gone, Reads
  <1>6. CASE Read(s)
    <2>1. UNCHANGED <<disk, clock, touched>>
      BY <1>6 DEF Read
    <2>2. ASSUME NEW recs, HasRead(s, recs), recs = Durable, disk # Unreadable PROVE Reads(s)
      BY <1>1, <2>1, <2>2 DEF HasRead, Reads
    <2>3. CASE Fails(s)
      BY <1>1, <2>1, <2>3 DEF Fails, Reads
    <2>4. CASE UNCHANGED mine
      BY <1>1, <2>1, <2>4 DEF Reads
    <2> QED
      BY <1>1, <1>6, <2>1, <2>2, <2>3, <2>4, DurableIs DEF Read, IInv
  <1>7. CASE Backup(s) \/ Write(s)
    <2>1. UNCHANGED <<disk, clock, touched>> /\ (UNCHANGED mine \/ Fails(s))
      BY <1>7 DEF Backup, Write
    <2> QED
      BY <1>1, <2>1 DEF Fails, Reads
  <1> QED
    BY <1>2, <1>3, <1>4, <1>5, <1>6, <1>7, RenameEffect DEF Step

LEMMA ReadsKeep ==
  ASSUME IInv, Bookkept, SInv, NEW s \in Sessions, Reads(s), Readable
  PROVE  SInv'
  <1>1. mine \in [Sessions -> Maps] /\ touched \in [Sessions -> SUBSET Keys] /\ clock \in Nat
    BY StoreAssumption DEF IInv, Typed, Bookkept
  <1>2. CASE UNCHANGED <<mine, touched>>
    BY <1>2 DEF Reads, Readable, SInv, Apart, Untouched
  <1>3. CASE mine' = [mine EXCEPT ![s] = Nothing] /\ touched' \in {touched, [touched EXCEPT ![s] = {}]}
    <2>1. \A t \in Sessions, k \in Keys : mine'[t][k] = NoRecord \/ (t # s /\ mine'[t] = mine[t])
      BY <1>1, <1>3 DEF Nothing
    <2>2. \A t \in Sessions \ {s} : touched'[t] = touched[t]
      BY <1>1, <1>3
    <2>3. \A t \in Sessions : Apart(mine[t])'
      BY <2>1 DEF Reads, SInv, Apart, Alike
    <2>4. disk # Unreadable => Apart(Durable)'
      BY <2>1 DEF Reads, SInv, Apart, Alike
    <2>5. disk # Unreadable => \A t \in Sessions : Untouched(t)'
      BY <2>1, <2>2 DEF Reads, SInv, Untouched, Behind
    <2> QED
      BY <2>3, <2>4, <2>5 DEF SInv, Readable
  <1>4. CASE disk # Unreadable /\ mine' = [mine EXCEPT ![s] = Durable] /\ UNCHANGED touched
    <2>1. \A t \in Sessions : mine'[t] = IF t = s THEN Durable ELSE mine[t]
      BY <1>1, <1>4
    <2>2. \A t \in Sessions, k \in Keys : Alike(Durable[k], mine[t][k]) /\ Alike(Durable[k], Durable[k])
      BY <1>4 DEF SInv, Apart, Alike
    <2>3. \A t \in Sessions : Apart(mine[t])'
      BY <1>4, <2>1, <2>2 DEF Reads, SInv, Apart
    <2>4. Apart(Durable)'
      BY <1>4, <2>1, <2>2 DEF Reads, SInv, Apart
    <2>5. \A t \in Sessions : Untouched(t)'
      BY <1>4, <2>1 DEF Reads, SInv, Untouched, Behind
    <2> QED
      BY <2>3, <2>4, <2>5 DEF SInv
  <1> QED
    BY <1>2, <1>3, <1>4 DEF Reads

LEMMA PublishesKeep ==
  ASSUME IInv, SInv, NEW s \in Sessions, Publishes(s), Readable
  PROVE  SInv'
  <1> DEFINE m == Merged(mine[s], Durable)
  <1>1. /\ mine \in [Sessions -> Maps] /\ Durable \in Maps /\ disk # Unreadable
        /\ Durable' = m /\ UNCHANGED <<clock, mine, touched>>
    BY DurableIs DEF IInv, Typed, Publishes
  <1>2. \A k \in Keys : m[k] = IF mine[s][k] = NoRecord \/ Newer(Durable[k], mine[s][k])
                               THEN Durable[k] ELSE mine[s][k]
    BY DEF Merged
  <1>3. \A t \in Sessions : Apart(mine[t])'
    BY <1>1 DEF SInv, Apart
  <1>4. Apart(Durable)'
    BY <1>1, <1>2 DEF SInv, Apart
  <1>5. ASSUME NEW t \in Sessions, NEW k \in Keys \ touched[t] PROVE Behind(mine[t][k], m[k])
    <2>1. Behind(mine[t][k], Durable[k]) /\ Alike(mine[t][k], mine[s][k])
      BY <1>1 DEF SInv, Apart, Untouched
    <2>2. {mine[t][k], mine[s][k], Durable[k]} \subseteq Stamped \cup {NoRecord}
      BY <1>1 DEF Maps
    <2> QED
      BY <1>2, <2>1, <2>2, StoreAssumption DEF Behind, Alike, Newer, Stamped
  <1> QED
    BY <1>1, <1>3, <1>4, <1>5 DEF SInv, Untouched

\* A new stamp is above every other.
LEMMA StampsKeep ==
  ASSUME IInv, Bookkept, SInv, NEW s \in Sessions, Stamps(s), Readable
  PROVE  SInv'
  <1>1. PICK k \in Keys, status \in {"DISCOVERED", "EXPORTED", "COMMITTED"} :
            /\ mine' = [mine EXCEPT ![s][k] = [status |-> status, at |-> clock + 1]]
            /\ touched' = [touched EXCEPT ![s] = @ \cup {k}]
    BY DEF Stamps
  <1>2. /\ mine \in [Sessions -> Maps] /\ touched \in [Sessions -> SUBSET Keys]
        /\ clock \in Nat /\ clock' = clock + 1 /\ Durable' = Durable
    BY StoreAssumption DEF IInv, Typed, Bookkept, Stamps
  <1> DEFINE r == [status |-> status, at |-> clock + 1]
  <1>3. \A t \in Sessions, l \in Keys : mine'[t][l] = IF t = s /\ l = k THEN r ELSE mine[t][l]
    BY <1>1, <1>2 DEF Maps
  <1>4. \A t \in Sessions : touched'[t] = IF t = s THEN touched[t] \cup {k} ELSE touched[t]
    BY <1>1, <1>2
  <1>5. \A t \in Sessions, l \in Keys :
            mine[t][l] # NoRecord => mine[t][l].at \in Nat /\ mine[t][l].at <= clock
    BY <1>2, StoreAssumption DEF SInv, Apart, Maps, Stamped
  <1>6. r # NoRecord => r.at = clock + 1
    OBVIOUS
  <1>7. \A t \in Sessions, l \in Keys :
            mine'[t][l] # NoRecord => mine'[t][l].at <= clock'
    BY <1>2, <1>3, <1>5
  <1>8. \A t, u \in Sessions, l \in Keys : Alike(mine'[t][l], mine'[u][l])
    BY <1>2, <1>3, <1>5 DEF SInv, Apart, Alike
  <1>9. disk # Unreadable => Apart(Durable)' /\ \A t \in Sessions : Untouched(t)'
    <2>1. SUFFICES ASSUME disk # Unreadable PROVE Apart(Durable)' /\ \A t \in Sessions : Untouched(t)'
      OBVIOUS
    <2>2. \A l \in Keys : Durable[l] # NoRecord => Durable[l].at \in Nat /\ Durable[l].at <= clock
      BY <1>2, <2>1, StoreAssumption, DurableIs DEF SInv, Apart, Maps, Stamped, IInv
    <2>3. \A l \in Keys : Durable'[l] # NoRecord => Durable'[l].at <= clock'
      BY <1>2, <2>2
    <2>4. \A t \in Sessions, l \in Keys : Alike(mine'[t][l], Durable'[l])
      BY <1>2, <1>3, <2>1, <2>2 DEF SInv, Apart, Alike
    <2>5. \A t \in Sessions : Untouched(t)'
      BY <1>2, <1>3, <1>4, <2>1 DEF SInv, Untouched
    <2> QED
      BY <2>3, <2>4, <2>5 DEF Apart
  <1> QED
    BY <1>7, <1>8, <1>9 DEF SInv, Apart, Readable

LEMMA SInvStep ==
  ASSUME IInv, Bookkept, SInv, Ties = FALSE, [Next]_vars PROVE SInv'
  <1>1. CASE UNCHANGED vars
    <2>1. Durable' = Durable
      BY <1>1 DEF vars, Durable
    <2> QED
      BY <1>1, <2>1 DEF vars, SInv, Apart, Untouched
  <1> QED
    BY <1>1, Effects, ReadsKeep, PublishesKeep, StampsKeep DEF Next

LEMMA SInvInit ==
  ASSUME Init, \A f \in FirstFiles \cap V2, k \in Keys : f.records[k] # NoRecord => f.records[k].at = 0
  PROVE  SInv
  <1>1. \A s \in Sessions, k \in Keys : mine[s][k] = NoRecord
    BY DEF Init, Nothing
  <1>2. disk # Unreadable => \A k \in Keys : Durable[k] # NoRecord => Durable[k].at = 0
    <2>1. CASE disk \in V2
      <3>1. \A k \in Keys : disk.records[k] # NoRecord => disk.records[k].at = 0
        BY <2>1 DEF Init
      <3> QED
        BY <2>1, <3>1, DurableIs, InitInv DEF IInv, Kept
    <2>2. CASE disk \in V1
      BY <2>2, DurableIs, InitInv DEF IInv, Legacy
    <2>3. CASE disk = None
      BY <2>3, DurableIs, InitInv DEF IInv, Nothing
    <2> QED
      BY <2>1, <2>2, <2>3, InitInv DEF IInv, Typed
  <1>3. clock = 0
    BY DEF Init
  <1> QED
    BY <1>1, <1>2, <1>3 DEF SInv, Apart, Untouched, Alike, Behind

\* A session's copy of a page it did not touch never replaces what another
\* session wrote for that page since, for any number of sessions, whatever fails
\* and migrates in between, provided no two transitions fall in one millisecond
\* and no first file bears a stamp from the future (merge_persist, ties to ours).
THEOREM StaleCopiesYield ==
    ASSUME Ties = FALSE,
           \A f \in FirstFiles \cap V2, k \in Keys : f.records[k] # NoRecord => f.records[k].at = 0
    PROVE  Spec => StaleCopyYields
  <1>1. Init => IInv /\ Bookkept /\ SInv
    <2>1. 0 \in 0..MaxFaults
      BY StoreAssumption
    <2>2. Init => Bookkept
      BY <2>1 DEF Init, Bookkept
    <2> QED
      BY <2>2, InitInv, SInvInit
  <1>2. IInv /\ [Next]_vars => IInv'
    BY NextInv
  <1>3. Bookkept /\ [Next]_vars => Bookkept'
    BY BookkeptStep
  <1>4. IInv /\ Bookkept /\ SInv /\ [Next]_vars => SInv'
    BY SInvStep
  <1>5. IInv /\ Bookkept /\ SInv /\ [Next]_vars =>
            [\A s \in Sessions, k \in Keys :
                pc[s] = "rename" /\ pc'[s] = "unlock" /\ k \notin touched[s] =>
                    Durable'[k] = Durable[k]]_disk
    <2>1. SUFFICES ASSUME IInv, Bookkept, SInv, Next,
                          NEW s \in Sessions, NEW k \in Keys \ touched[s],
                          pc[s] = "rename", pc'[s] = "unlock", disk' # disk
                   PROVE  Durable'[k] = Durable[k]
      BY DEF vars
    <2>2. Rename(s)
      <3>1. PICK t \in Sessions : Rename(t)
        BY <2>1 DEF Next, Step, Open, Advance, FinalPersist, Acquire, AcquireFails, Read, Backup,
                    Write, Unlock, Crash
      <3>2. t \in Sessions /\ pc[t] = "rename"
        BY <3>1 DEF Rename
      <3>3. t = s
        BY <2>1, <3>2 DEF IInv, Good, Exclusive, Critical
      <3> QED
        BY <3>1, <3>3
    <2>3. CASE Reads(s)
      BY <2>3 DEF Reads
    <2>4. CASE Publishes(s)
      <3>1. disk # Unreadable /\ Behind(mine[s][k], Durable[k])
        BY <2>1, <2>4 DEF SInv, Publishes, Untouched
      <3>2. Durable'[k] = IF mine[s][k] = NoRecord \/ Newer(Durable[k], mine[s][k])
                          THEN Durable[k] ELSE mine[s][k]
        BY <2>4 DEF Publishes, Merged
      <3> QED
        BY <3>1, <3>2 DEF Behind
    <2> QED
      BY <2>1, <2>2, <2>3, <2>4, RenameEffect
  <1> QED
    BY <1>1, <1>2, <1>3, <1>4, <1>5, PTL DEF Spec, StaleCopyYields

=============================================================================
