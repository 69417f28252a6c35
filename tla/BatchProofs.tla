----------------------------- MODULE BatchProofs -----------------------------
(***************************************************************************)
(* The chunk export for any set of URLs, contents, batches, modes and       *)
(* faults: it is well typed, what it saves can be loaded, and when every    *)
(* chunk passes validate its commit loop runs only over chunks that are in  *)
(* the output.  For pages that every run splits into the same chunks, the   *)
(* records of exported pages have their lines, and no chunk gets two.       *)
(***************************************************************************)
EXTENDS ExportBatch, TLAPS

\* Where the loop looks at the first item left.
Handling == {"promote", "checkpoint", "commit"}

HandlesAChunk == pc \in Handling => todo # <<>>

\* The loop over the batch begins at the first chunk.
Scanning == pc = "decide" => pos = 1

\* What was appended in this run is in the file.
DrivenFiled == \A p \in driven : p[2] \in FileHashes

\* The chunks export_batch has passed.
Passed ==
    pc = "append" =>
        \A i \in DOMAIN todo : i < pos /\ todo[i].act = "drive" => todo[i].hash \in FileHashes

TInv == BatchTypeOK /\ HandlesAChunk /\ pc \notin {"export", "fail"}

FInv == Scanning /\ DrivenFiled /\ Passed /\ BatchFlushed

-----------------------------------------------------------------------------
(* What the operators give. *)

LEMMA DriveType == \A r \in Record : DriveToProcessed(r) \in Record
  BY DEF DriveToProcessed, Discovered, Record, Status, Terminal

LEMMA PartitionType == \A recs \in Records : PartitionValid(recs) \in Records
  BY DEF PartitionValid, Records

LEMMA SaveType ==
    ASSUME TypeOK, NEW recs \in Records, Save(recs)
    PROVE  store' \in Records /\ faults' \in 0..MaxFaults
  <1>1. store \in Records /\ faults \in 0..MaxFaults
    BY DEF TypeOK
  <1>2. faults' \in 0..MaxFaults
    BY <1>1, SessionAssumption DEF Save, Fault
  <1>3. CASE store' = store
    BY <1>1, <1>2, <1>3
  <1>4. CASE store' = Overlay(recs, PartitionValid(store))
    <2>1. PartitionValid(store) \in Records
      BY <1>1, PartitionType
    <2> QED
      BY <1>2, <1>4, <2>1 DEF Overlay, Records
  <1> QED
    BY <1>3, <1>4 DEF Save

LEMMA CurType ==
    ASSUME TypeOK, todo # <<>>
    PROVE  /\ Cur \in Item /\ Cur.hash \in Hashes /\ Cur.url \in Urls /\ Key \in Keys
           /\ Tail(todo) \in Seq(Item)
  <1>1. Cur \in Item /\ Tail(todo) \in Seq(Item)
    BY DEF TypeOK, Cur
  <1> QED
    BY <1>1, SessionAssumption DEF Item, Key

\* What is left of the batch is a part of it.
LEMMA TailIs ==
    ASSUME todo \in Seq(Item), todo # <<>>
    PROVE  \A i \in DOMAIN Tail(todo) : i + 1 \in DOMAIN todo /\ Tail(todo)[i] = todo[i + 1]
  OBVIOUS

LEMMA AppendGrows ==
    ASSUME file \in Seq(Line), NEW l \in Line, file' = Append(file, l)
    PROVE  file' \in Seq(Line) /\ FileHashes \subseteq FileHashes' /\ l.hash \in FileHashes'
  <1>1. /\ Len(file') = Len(file) + 1
        /\ \A i \in 1..Len(file) : file'[i] = file[i]
        /\ file'[Len(file) + 1] = l
        /\ file' \in Seq(Line)
    OBVIOUS
  <1>2. DOMAIN file = 1..Len(file) /\ DOMAIN file' = 1..Len(file')
    BY <1>1
  <1>3. Len(file) + 1 \in DOMAIN file'
    BY <1>1, <1>2
  <1> QED
    BY <1>1, <1>2, <1>3 DEF FileHashes

LEMMA ChunkType ==
    ASSUME TypeOK, pos \in Nat \ {0}, Appending
    PROVE  /\ pos \in DOMAIN todo /\ Chunk = todo[pos] /\ Chunk \in Item
           /\ Chunk.url \in Urls /\ Chunk.hash \in Hashes
  <1>1. todo \in Seq(Item) /\ pos <= Len(todo)
    BY DEF TypeOK, Appending
  <1>2. pos \in DOMAIN todo
    BY <1>1
  <1>3. Chunk \in Item /\ Chunk = todo[pos]
    BY <1>1, <1>2 DEF Chunk
  <1> QED
    BY <1>2, <1>3 DEF Item

LEMMA FileHashesType == ASSUME TypeOK PROVE FileHashes \subseteq Hashes
  <1>1. \A i \in DOMAIN file : file[i] \in Line
    BY DEF TypeOK
  <1> QED
    BY <1>1 DEF FileHashes, Line

LEMMA IndexType == ASSUME TypeOK PROVE IndexOf \subseteq Hashes
  <1>1. FileHashes \subseteq Hashes
    BY FileHashesType
  <1>2. tail.kind = "unterminated" => tail.hash \in Hashes
    BY DEF TypeOK, NoTail
  <1> QED
    BY <1>1, <1>2 DEF IndexOf

LEMMA PromotedType ==
    ASSUME NEW recs \in Records, NEW k \in Keys, NEW h \in Hashes
    PROVE  PromotedRecord(recs, k, h) \in Record
  <1> DEFINE base == IF recs[k] = NoRecord THEN Discovered ELSE recs[k]
             driving == DriveToProcessed(base)
  <1>1. base \in Record
    BY DEF Records, Discovered, Record, Status
  <1>2. driving \in Record
    BY <1>1, DriveType
  <1> HIDE DEF base, driving
  <1>3. /\ [driving EXCEPT !.hash = h] \in Record
        /\ [driving EXCEPT !.tried = TRUE, !.failed = FALSE, !.hash = h, !.located = TRUE] \in Record
    BY <1>2 DEF Record
  <1>4. \A r \in Record : ExportFlushed(r) \in Record
    BY DEF ExportFlushed, Record, Status, Terminal
  <1> QED
    BY <1>1, <1>3, <1>4 DEF PromotedRecord, base, driving

LEMMA ExportedType ==
    ASSUME NEW recs \in Records, NEW k \in Keys, NEW h \in Hashes
    PROVE  ExportedRecord(recs, k, h) \in Record
  <1> DEFINE base == IF recs[k] = NoRecord \/ recs[k].status \in Terminal THEN Discovered ELSE recs[k]
             driving == DriveToProcessed(base)
  <1>1. base \in Record
    BY DEF Records, Discovered, Record, Status
  <1>2. driving \in Record
    BY <1>1, DriveType
  <1> HIDE DEF base, driving
  <1>3. [driving EXCEPT !.migrated = FALSE, !.hash = h, !.located = TRUE, !.tried = TRUE, !.failed = FALSE]
            \in Record
    BY <1>2 DEF Record
  <1>4. \A r \in Record : ExportFlushed(r) \in Record
    BY DEF ExportFlushed, Record, Status, Terminal
  <1> QED
    BY <1>3, <1>4 DEF ExportedRecord, base, driving

LEMMA SwapType ==
    ASSUME NEW recs \in Records, NEW k \in Keys PROVE SwapToCommitted(recs, k) \in Records
  <1>1. \A r \in Record : Commit(r) \in Record
    BY DEF Commit, Record, Status, Terminal
  <1> QED
    BY <1>1 DEF SwapToCommitted, CanCommit, Records

-----------------------------------------------------------------------------
(* Types. *)

LEMMA TInvInit == BatchInit => TInv
  <1> SUFFICES ASSUME BatchInit PROVE TInv
    OBVIOUS
  <1>1. Migrated \in Record
    BY DEF Discovered, Migrated, Record, Status, Terminal
  <1>2. store \in Records /\ records \in Records
    BY <1>1 DEF BatchInit, Init, Records, NoRecords
  <1>3. file \in Seq(Line) /\ todo \in Seq(Item)
    BY DEF BatchInit, Init
  <1>4. reruns \in 0..MaxReruns /\ faults \in 0..MaxFaults
    BY SessionAssumption DEF BatchInit, Init
  <1>5. /\ tail = NoTail /\ pc = "idle" /\ mode = "resume" /\ cancelled = FALSE /\ index = {}
        /\ driven = {} /\ writer = "closed" /\ pos = 1
    BY DEF BatchInit, Init
  <1>6. TypeOK
    BY <1>2, <1>3, <1>4, <1>5 DEF TypeOK, AllModes
  <1> QED
    BY <1>5, <1>6 DEF TInv, BatchTypeOK, HandlesAChunk, Handling

LEMMA OpenType == ASSUME TInv, StartRun PROVE TInv'
  <1> PICK m \in Modes, batch \in Batches : Open(m, batch, "decide") /\ pos' = 1
    BY DEF StartRun
  <1>1. records' \in Records
    <2>1. NoRecords \in Records
      BY DEF NoRecords, Records
    <2> QED
      BY <2>1, PartitionType DEF Open, TInv, BatchTypeOK, TypeOK
  <1>2. index' \subseteq Hashes
    BY IndexType DEF Open, TInv, BatchTypeOK
  <1>3. reruns' \in 0..MaxReruns /\ faults' \in 0..MaxFaults
    BY SessionAssumption DEF Open, Fault, TInv, BatchTypeOK, TypeOK
  <1>4. mode' \in AllModes /\ todo' \in Seq(Item)
    BY SessionAssumption DEF Open
  <1>5. /\ UNCHANGED <<file, tail, store>> /\ driven' = {} /\ writer' = "closed" /\ cancelled' = FALSE
        /\ pc' = "decide"
    BY DEF Open, durable
  <1>6. TypeOK'
    BY <1>1, <1>2, <1>3, <1>4, <1>5 DEF TInv, BatchTypeOK, TypeOK
  <1> QED
    BY <1>5, <1>6 DEF TInv, BatchTypeOK, HandlesAChunk, Handling

LEMMA DecideType == ASSUME TInv, DecideAll PROVE TInv'
  <1> DEFINE decided == [i \in DOMAIN todo |->
                           [todo[i] EXCEPT !.act = Decide(records, Canon[todo[i].url], todo[i].hash)]]
  <1>1. todo' = decided /\ todo \in Seq(Item)
    BY DEF DecideAll, TInv, BatchTypeOK, TypeOK
  <1>2. \A k, h : Decide(records, k, h) \in {"skip", "promote", "drive"}
    BY DEF Decide
  <1>3. \A i \in DOMAIN todo : decided[i] \in Item
    <2> SUFFICES ASSUME NEW i \in DOMAIN todo PROVE decided[i] \in Item
      OBVIOUS
    <2>1. todo[i] \in Item
      BY <1>1
    <2>2. PICK act \in {"skip", "promote", "drive"} : decided[i] = [todo[i] EXCEPT !.act = act]
      BY <1>2
    <2> QED
      BY <2>1, <2>2 DEF Item
  <1>4. decided \in Seq(Item)
    <2>1. decided \in [1..Len(todo) -> Item] /\ Len(todo) \in Nat
      BY <1>1, <1>3
    <2> HIDE DEF decided
    <2> QED
      BY <2>1
  <1> HIDE DEF decided
  <1> QED
    BY <1>1, <1>4 DEF DecideAll, durable, bounds, TInv, BatchTypeOK, TypeOK, HandlesAChunk, Handling

LEMMA AppendingType ==
    ASSUME TInv, Pass \/ OpenWriter \/ AppendChunk \/ FlushBatch \/ ExportFails PROVE TInv'
  <1>1. TypeOK /\ pos \in Nat \ {0} /\ HandlesAChunk
    BY DEF TInv, BatchTypeOK
  <1>2. Appending => Chunk \in Item /\ Chunk.url \in Urls /\ Chunk.hash \in Hashes
    BY <1>1, ChunkType
  <1>3. CASE Pass
    BY <1>1, <1>3 DEF Pass, durable, bounds, TInv, BatchTypeOK, TypeOK, HandlesAChunk, Handling
  <1>4. CASE OpenWriter
    BY <1>1, <1>4 DEF OpenWriter, bounds, TInv, BatchTypeOK, TypeOK, HandlesAChunk, Handling
  <1>5. CASE AppendChunk
    <2>1. [url |-> Chunk.url, hash |-> Chunk.hash] \in Line /\ Pair \in Urls \X Hashes
      BY <1>2, <1>5 DEF AppendChunk, Line, Pair
    <2>2. file' \in Seq(Line) /\ driven' \subseteq Urls \X Hashes
      BY <1>1, <1>5, <2>1, AppendGrows DEF AppendChunk, TypeOK
    <2>3. pos' \in Nat \ {0}
      BY <1>1, <1>5 DEF AppendChunk
    <2> QED
      BY <1>1, <1>5, <2>2, <2>3 DEF AppendChunk, bounds, TInv, BatchTypeOK, TypeOK, HandlesAChunk, Handling
  <1>6. CASE FlushBatch
    BY <1>1, <1>6 DEF FlushBatch, durable, bounds, TInv, BatchTypeOK, TypeOK, HandlesAChunk, Handling
  <1>7. CASE ExportFails
    <2>1. tail' \in {NoTail} \cup [kind : TornKinds, hash : Hashes]
      BY <1>1, <1>2, <1>7 DEF ExportFails, Tail_, TypeOK
    <2>2. faults' \in 0..MaxFaults /\ todo' \in Seq(Item)
      BY <1>1, <1>7, SessionAssumption DEF ExportFails, Fault, TypeOK
    <2> QED
      BY <1>1, <1>7, <2>1, <2>2 DEF ExportFails, TInv, BatchTypeOK, TypeOK, HandlesAChunk, Handling
  <1> QED
    BY <1>3, <1>4, <1>5, <1>6, <1>7

LEMMA ChoosingType ==
    ASSUME TInv, SkipCommitted \/ BeginPromote \/ BeginCommit \/ (Cancel /\ UNCHANGED pos) PROVE TInv'
  <1>1. todo # <<>> => Tail(todo) \in Seq(Item)
    BY CurType DEF TInv, BatchTypeOK
  <1>2. CASE SkipCommitted
    BY <1>1, <1>2 DEF SkipCommitted, Working, durable, bounds, TInv, BatchTypeOK, TypeOK,
                      HandlesAChunk, Handling
  <1>3. CASE BeginPromote \/ BeginCommit
    BY <1>3 DEF BeginPromote, BeginCommit, Working, durable, bounds, TInv, BatchTypeOK, TypeOK,
                HandlesAChunk, Handling
  <1>4. CASE Cancel /\ UNCHANGED pos
    BY <1>4 DEF Cancel, durable, bounds, TInv, BatchTypeOK, TypeOK, HandlesAChunk
  <1> QED
    BY <1>2, <1>3, <1>4

\* The record of the current chunk is advanced and saved.
LEMMA AdvanceType ==
    ASSUME TInv, pc \in Handling, (Promote \/ Checkpoint) /\ UNCHANGED pos PROVE TInv'
  <1>1. Key \in Keys /\ Cur.hash \in Hashes /\ records \in Records /\ todo # <<>> /\ TypeOK
    BY CurType DEF TInv, BatchTypeOK, TypeOK, HandlesAChunk
  <1>2. PICK r \in Record : records' = [records EXCEPT ![Key] = r]
    BY <1>1, PromotedType, ExportedType DEF Promote, Checkpoint
  <1>3. records' \in Records
    BY <1>1, <1>2 DEF Records
  <1>4. Save(records')
    BY DEF Promote, Checkpoint
  <1>5. store' \in Records /\ faults' \in 0..MaxFaults
    BY <1>1, <1>3, <1>4, SaveType
  <1> QED
    BY <1>1, <1>3, <1>5 DEF Promote, Checkpoint, TInv, BatchTypeOK, TypeOK, HandlesAChunk

LEMMA CommitType == ASSUME TInv, CommitPoint /\ UNCHANGED pos PROVE TInv'
  <1>1. /\ Key \in Keys /\ records \in Records /\ TypeOK /\ Tail(todo) \in Seq(Item)
        /\ faults \in 0..MaxFaults /\ store \in Records
    BY CurType DEF CommitPoint, TInv, BatchTypeOK, TypeOK, HandlesAChunk, Handling
  <1>2. records' \in Records
    BY <1>1, SwapType DEF CommitPoint
  <1>3. store' \in Records /\ faults' \in 0..MaxFaults
    <2>1. CASE Save(records')
      BY <1>1, <1>2, <2>1, SaveType
    <2>2. CASE ~Save(records')
      BY <1>1, <2>2 DEF CommitPoint
    <2> QED
      BY <2>1, <2>2
  <1> QED
    BY <1>1, <1>2, <1>3 DEF CommitPoint, ItemDone, TInv, BatchTypeOK, TypeOK, HandlesAChunk, Handling

LEMMA FinishType == ASSUME TInv, Finish /\ UNCHANGED pos PROVE TInv'
  <1>1. store' \in Records /\ faults' \in 0..MaxFaults
    BY SaveType DEF Finish, TInv, BatchTypeOK, TypeOK
  <1>2. todo' \in Seq(Item)
    BY DEF Finish
  <1> QED
    BY <1>1, <1>2 DEF Finish, TInv, BatchTypeOK, TypeOK, HandlesAChunk, Handling

LEMMA CrashType == ASSUME TInv, Crash PROVE TInv'
  <1>1. Appending => Chunk.hash \in Hashes
    BY ChunkType DEF TInv, BatchTypeOK
  <1>2. tail' \in {NoTail} \cup [kind : TornKinds, hash : Hashes]
    BY <1>1 DEF Crash, Die, Tail_, TInv, BatchTypeOK, TypeOK
  <1>3. records' \in Records
    BY DEF Crash, Die, NoRecords, Records
  <1>4. faults' \in 0..MaxFaults /\ todo' \in Seq(Item)
    BY SessionAssumption DEF Crash, Die, Fault, TInv, BatchTypeOK, TypeOK
  <1> QED
    BY <1>2, <1>3, <1>4 DEF Crash, Die, TInv, BatchTypeOK, TypeOK, HandlesAChunk, Handling, AllModes

LEMMA TInvStep == ASSUME TInv, [Next]_vars PROVE TInv'
  <1>1. CASE SharedStep
    BY <1>1, AdvanceType, CommitType, FinishType DEF SharedStep, Promote, Checkpoint, Handling
  <1>2. CASE UNCHANGED vars
    BY <1>2 DEF vars, TInv, BatchTypeOK, TypeOK, HandlesAChunk
  <1> QED
    BY <1>1, <1>2, OpenType, DecideType, AppendingType, ChoosingType, CrashType DEF Next, Work

\* Every reachable state of the chunk export is well typed, in every mode and under
\* every fault.
THEOREM BatchTypeCorrect == Spec => []BatchTypeOK
  <1>1. TInv /\ [Next]_vars => TInv'
    BY TInvStep
  <1>2. TInv => BatchTypeOK
    BY DEF TInv
  <1> QED
    BY <1>1, <1>2, TInvInit, PTL DEF Spec

-----------------------------------------------------------------------------
(* The flush barrier. *)

LEMMA FInvInit == BatchInit => FInv
  BY DEF BatchInit, Init, FInv, Scanning, DrivenFiled, Passed, BatchFlushed

\* Steps that leave the file alone and forget what was appended, or keep it.
LEMMA QuietFlushed ==
    ASSUME FInv, file' = file, driven' \in {driven, {}},
           \/ pc' \in {"idle", "drain"}
           \/ pc' = "decide" /\ pos' = 1
           \/ pc \in {"item"} \cup Handling /\ pc' \in {"item"} \cup Handling /\ todo' = todo
           \/ pc' = pc /\ todo' = todo /\ pos' = pos
    PROVE  FInv'
  <1>1. FileHashes' = FileHashes
    BY DEF FileHashes
  <1>2. Scanning' /\ DrivenFiled'
    BY <1>1 DEF FInv, Scanning, DrivenFiled, Handling
  <1>3. Passed' /\ BatchFlushed'
    BY <1>1 DEF FInv, Passed, BatchFlushed, Handling
  <1> QED
    BY <1>2, <1>3 DEF FInv

LEMMA FInvStep == ASSUME BadHashes = {}, TInv, TInv', FInv, [Next]_vars PROVE FInv'
  <1>0. TypeOK /\ pos \in Nat \ {0} /\ HandlesAChunk
    BY DEF TInv, BatchTypeOK
  <1>1. CASE StartRun
    BY <1>1, QuietFlushed DEF StartRun, Open, durable
  <1>2. CASE DecideAll
    <2>1. /\ pos' = 1 /\ pc' = "append" /\ UNCHANGED <<file, driven>> /\ DOMAIN todo' \subseteq Nat \ {0}
      BY <1>0, <1>2 DEF DecideAll, FInv, Scanning, durable, TypeOK
    <2> QED
      BY <1>2, <2>1 DEF FInv, Scanning, DrivenFiled, Passed, BatchFlushed, FileHashes
  <1>3. CASE Pass
    <2>1. /\ pc = "append" /\ UNCHANGED <<pc, file, driven, todo>> /\ pos' = pos + 1
          /\ pos \in DOMAIN todo /\ ~Exportable(todo[pos]) /\ todo[pos] \in Item
      BY <1>0, <1>3, ChunkType DEF Pass, Appending, durable
    <2>2. todo[pos].act = "drive" => todo[pos].hash \in FileHashes
      BY <2>1 DEF Exportable, FInv, DrivenFiled
    <2>3. Passed'
      <3> SUFFICES ASSUME NEW i \in DOMAIN todo, i < pos + 1, todo[i].act = "drive"
                   PROVE  todo[i].hash \in FileHashes
        BY <2>1 DEF Passed, FileHashes
      <3>1. i < pos \/ i = pos
        BY <1>0 DEF TypeOK
      <3> QED
        BY <2>1, <2>2, <3>1 DEF FInv, Passed
    <2> QED
      BY <2>1, <2>3 DEF FInv, Scanning, DrivenFiled, BatchFlushed, FileHashes
  <1>4. CASE OpenWriter
    BY <1>4, QuietFlushed DEF OpenWriter
  <1>5. CASE AppendChunk
    <2>1. /\ pc = "append" /\ UNCHANGED <<pc, todo>> /\ pos' = pos + 1 /\ pos \in DOMAIN todo
          /\ todo[pos].hash \in Hashes /\ todo[pos].url \in Urls
          /\ file' = Append(file, [url |-> todo[pos].url, hash |-> todo[pos].hash])
          /\ driven' = driven \cup {<<todo[pos].url, todo[pos].hash>>}
      BY <1>0, <1>5, ChunkType DEF AppendChunk, Appending, Pair
    <2>2. FileHashes \subseteq FileHashes' /\ todo[pos].hash \in FileHashes'
      <3>1. [url |-> todo[pos].url, hash |-> todo[pos].hash] \in Line
        BY <2>1 DEF Line
      <3> QED
        BY <1>0, <2>1, <3>1, AppendGrows DEF TypeOK
    <2>3. DrivenFiled'
      BY <2>1, <2>2 DEF FInv, DrivenFiled
    <2>4. Passed'
      <3> SUFFICES ASSUME NEW i \in DOMAIN todo, i < pos + 1, todo[i].act = "drive"
                   PROVE  todo[i].hash \in FileHashes'
        BY <2>1 DEF Passed
      <3>1. i < pos \/ i = pos
        BY <1>0 DEF TypeOK
      <3> QED
        BY <2>1, <2>2, <3>1 DEF FInv, Passed
    <2> QED
      BY <2>1, <2>3, <2>4 DEF FInv, Scanning, BatchFlushed
  <1>6. CASE FlushBatch
    <2>1. /\ pc = "append" /\ pc' = "item" /\ pos > Len(todo) /\ UNCHANGED <<file, todo, driven>>
          /\ todo \in Seq(Item)
      BY <1>0, <1>6 DEF FlushBatch, durable, TypeOK
    <2>2. \A i \in DOMAIN todo : i < pos
      BY <1>0, <2>1
    <2> QED
      BY <2>1, <2>2 DEF FInv, Scanning, DrivenFiled, Passed, BatchFlushed, FileHashes
  <1>7. CASE ExportFails
    BY <1>7, QuietFlushed DEF ExportFails
  <1>8. CASE BeginPromote \/ BeginCommit \/ Promote \/ Checkpoint
    BY <1>8, QuietFlushed DEF BeginPromote, BeginCommit, Working, Promote, Checkpoint, durable, Handling
  <1>9. CASE SkipCommitted \/ CommitPoint
    <2>1. /\ UNCHANGED <<file, driven>> /\ todo' = Tail(todo) /\ todo # <<>> /\ todo \in Seq(Item)
          /\ pc \in {"item", "commit"} /\ pc' \in {"item", "drain"}
      BY <1>0, <1>9 DEF SkipCommitted, Working, CommitPoint, ItemDone, durable, TypeOK, HandlesAChunk, Handling
    <2>2. \A i \in DOMAIN todo' : i + 1 \in DOMAIN todo /\ todo'[i] = todo[i + 1]
      BY <2>1, TailIs
    <2> QED
      BY <2>1, <2>2 DEF FInv, Scanning, DrivenFiled, Passed, BatchFlushed, FileHashes
  <1>10. CASE Finish
    BY <1>10, QuietFlushed DEF Finish
  <1>11. CASE Crash
    BY <1>11, QuietFlushed DEF Crash, Die
  <1>12. CASE UNCHANGED vars
    BY <1>12, QuietFlushed DEF vars
  <1>13. CASE Cancel /\ UNCHANGED pos
    BY <1>13, QuietFlushed DEF Cancel, durable
  <1>14. CASE Work
    BY <1>2, <1>3, <1>4, <1>5, <1>6, <1>7, <1>8, <1>9, <1>10, <1>14 DEF Work, SharedStep
  <1> QED
    BY <1>1, <1>11, <1>12, <1>13, <1>14 DEF Next

\* When every chunk passes validate, the commit loop has only chunks that are in the
\* output to commit, for any batch, mode and faults.
THEOREM CommitsFollowTheFlush ==
    ASSUME BadHashes = {} PROVE Spec => []BatchFlushed
  <1>1. TInv /\ [Next]_vars => TInv'
    BY TInvStep
  <1>2. TInv /\ TInv' /\ FInv /\ [Next]_vars => FInv'
    BY FInvStep
  <1>3. FInv => BatchFlushed
    BY DEF FInv
  <1> QED
    BY <1>1, <1>2, <1>3, TInvInit, FInvInit, PTL DEF Spec

-----------------------------------------------------------------------------
(* The records of the chunk loop.  It never records a failure: whatever it    *)
(* holds or saves is an exported page, and valid.                             *)

SoundChunkRecord(r) ==
    r.status \in Terminal /\ Valid(r) /\ (r.status = "EXPORTED" => ~r.migrated)

Sound(recs) == \A k \in Keys : recs[k] # NoRecord => SoundChunkRecord(recs[k])

VInv == Sound(store) /\ Sound(records)

-----------------------------------------------------------------------------
(* What a step does to the records. *)

\* What a checkpoint writes ...
LEMMA ExportedIs ==
    ASSUME NEW recs \in Records, NEW k \in Keys, NEW h \in Hashes
    PROVE  LET r == ExportedRecord(recs, k, h)
           IN  /\ r \in Record /\ r.status = "EXPORTED" /\ r.hash = h
               /\ r.located /\ r.tried /\ ~r.failed /\ ~r.migrated
  <1> DEFINE base == IF recs[k] = NoRecord \/ recs[k].status \in Terminal THEN Discovered ELSE recs[k]
             d == DriveToProcessed(base)
             x == [d EXCEPT !.migrated = FALSE, !.hash = h, !.located = TRUE,
                            !.tried = TRUE, !.failed = FALSE]
  <1>1. base \in Record
    BY DEF Records, Discovered, Record, Status, Terminal
  <1>2. d \in Record
    BY <1>1, DriveType
  <1>3. x \in Record /\ x.hash = h /\ x.located /\ x.tried /\ ~x.failed /\ ~x.migrated
    <2> HIDE DEF d
    <2> QED BY <1>2 DEF Record
  <1>4. ExportedRecord(recs, k, h) = ExportFlushed(x)
    BY DEF ExportedRecord
  <1> HIDE DEF x
  <1> QED
    BY <1>3, <1>4 DEF ExportFlushed, Record, Status, Terminal

\* ... and a promotion, of a page without a record or with a sound one: a record
\* that is EXPORTED stays, one that is COMMITTED by now is driven anew.
LEMMA PromotedIs ==
    ASSUME NEW recs \in Records, NEW k \in Keys, NEW h \in Hashes,
           recs[k] # NoRecord => SoundChunkRecord(recs[k])
    PROVE  LET r == PromotedRecord(recs, k, h)
           IN  \/ recs[k] # NoRecord /\ r = recs[k] /\ r.status = "EXPORTED"
               \/ /\ r \in Record /\ r.status = "EXPORTED" /\ r.hash = h
                  /\ r.located /\ r.tried /\ ~r.failed /\ ~r.migrated
  <1> DEFINE base == IF recs[k] = NoRecord THEN Discovered ELSE recs[k]
             d == DriveToProcessed(base)
             y == [d EXCEPT !.tried = TRUE, !.failed = FALSE, !.hash = h, !.located = TRUE]
             r == PromotedRecord(recs, k, h)
  <1>1. /\ base \in Record
        /\ base = Discovered \/ (recs[k] # NoRecord /\ base = recs[k] /\ base.status \in Terminal)
    BY DEF Records, Discovered, Record, Status, Terminal, SoundChunkRecord
  <1>2. d \in Record
    BY <1>1, DriveType
  <1>3. ~d.migrated
    BY <1>1 DEF DriveToProcessed, Discovered
  <1>4. y \in Record /\ y.hash = h /\ y.located /\ y.tried /\ ~y.failed /\ ~y.migrated
    <2> HIDE DEF d
    <2> QED BY <1>2, <1>3 DEF Record
  <1>5. CASE Reconciles(base, "EXPORTED")
    <2>1. r = base
      BY <1>5 DEF PromotedRecord, Reconciles
    <2> QED
      BY <1>1, <1>5, <2>1 DEF Reconciles, Discovered
  <1>6. CASE ~Reconciles(base, "EXPORTED")
    <2>1. base.status # "EXPORTED"
      BY <1>1, <1>6 DEF Reconciles, Discovered, SoundChunkRecord
    <2>2. r = ExportFlushed(y)
      BY <1>6, <2>1 DEF PromotedRecord
    <2>3. /\ r \in Record /\ r.status = "EXPORTED" /\ r.hash = h
          /\ r.located /\ r.tried /\ ~r.failed /\ ~r.migrated
      <3> HIDE DEF y, r
      <3> QED
        BY <1>4, <2>2 DEF ExportFlushed, Record, Status, Terminal
    <2> QED
      BY <2>3
  <1> QED
    BY <1>5, <1>6

\* The commit point takes an EXPORTED page to COMMITTED, or leaves it.
LEMMA SwapIs ==
    ASSUME NEW recs \in Records, NEW k \in Keys
    PROVE  \/ SwapToCommitted(recs, k) = recs
           \/ /\ recs[k] # NoRecord /\ Commit(recs[k]) \in Record /\ Valid(Commit(recs[k]))
              /\ Commit(recs[k]).status = "COMMITTED"
              /\ Commit(recs[k]).hash = recs[k].hash /\ Commit(recs[k]).migrated = recs[k].migrated
              /\ SwapToCommitted(recs, k) = [recs EXCEPT ![k] = Commit(recs[k])]
  <1>1. CASE CanCommit(recs[k])
    <2>1. recs[k] \in Record /\ recs[k] # NoRecord /\ Valid(Commit(recs[k]))
      BY <1>1 DEF CanCommit, Records
    <2>2. /\ Commit(recs[k]) \in Record /\ Commit(recs[k]).status = "COMMITTED"
          /\ Commit(recs[k]).hash = recs[k].hash /\ Commit(recs[k]).migrated = recs[k].migrated
      BY <2>1 DEF Commit, Record, Status, Terminal
    <2>3. SwapToCommitted(recs, k) = [recs EXCEPT ![k] = Commit(recs[k])]
      BY <1>1 DEF SwapToCommitted
    <2> QED
      BY <2>1, <2>2, <2>3
  <1> QED
    BY <1>1 DEF SwapToCommitted

\* Promote, Checkpoint and CommitPoint give the current page a sound record: with
\* the hash of the chunk, or with what its record said.
LEMMA ChunkRecorded ==
    ASSUME TInv, VInv, Promote \/ Checkpoint \/ CommitPoint
    PROVE  /\ todo # <<>> /\ Key \in Keys /\ Cur \in Item
           /\ \/ records' = records
              \/ \E r \in Record :
                    /\ SoundChunkRecord(r) /\ records' = [records EXCEPT ![Key] = r]
                    /\ \/ pc \in {"promote", "checkpoint"} /\ r.hash = Cur.hash
                       \/ /\ records[Key] # NoRecord /\ r.hash = records[Key].hash
                          /\ r.migrated = records[Key].migrated
  <1>1. /\ todo # <<>> /\ Key \in Keys /\ Cur \in Item /\ Cur.hash \in Hashes
        /\ records \in Records
    BY CurType DEF Promote, Checkpoint, CommitPoint, TInv, BatchTypeOK, TypeOK, HandlesAChunk, Handling
  <1>2. records[Key] # NoRecord => SoundChunkRecord(records[Key]) /\ records[Key] \in Record
    BY <1>1 DEF VInv, Sound, Records
  <1>3. ASSUME NEW r \in Record, r.status = "EXPORTED", r.hash = Cur.hash,
               r.located, r.tried, ~r.failed, ~r.migrated
        PROVE  SoundChunkRecord(r)
    BY <1>1, <1>3, RecordAssumption DEF SoundChunkRecord, Valid, Terminal
  <1>4. CASE Checkpoint
    <2> DEFINE r == ExportedRecord(records, Key, Cur.hash)
    <2>1. /\ r \in Record /\ r.status = "EXPORTED" /\ r.hash = Cur.hash
          /\ r.located /\ r.tried /\ ~r.failed /\ ~r.migrated
      BY <1>1, ExportedIs
    <2>2. records' = [records EXCEPT ![Key] = r] /\ pc = "checkpoint"
      BY <1>4 DEF Checkpoint
    <2> HIDE DEF r
    <2> QED
      BY <1>1, <1>3, <2>1, <2>2
  <1>5. CASE Promote
    <2> DEFINE r == PromotedRecord(records, Key, Cur.hash)
    <2>1. \/ records[Key] # NoRecord /\ r = records[Key]
          \/ /\ r \in Record /\ r.status = "EXPORTED" /\ r.hash = Cur.hash
             /\ r.located /\ r.tried /\ ~r.failed /\ ~r.migrated
      BY <1>1, <1>2, PromotedIs
    <2>2. records' = [records EXCEPT ![Key] = r] /\ pc = "promote"
      BY <1>5 DEF Promote
    <2> HIDE DEF r
    <2> QED
      BY <1>1, <1>2, <1>3, <2>1, <2>2
  <1>6. CASE CommitPoint
    <2>1. records' = SwapToCommitted(records, Key)
      BY <1>6 DEF CommitPoint
    <2>2. Commit(records[Key]).status = "COMMITTED" /\ Valid(Commit(records[Key]))
             => SoundChunkRecord(Commit(records[Key]))
      BY DEF SoundChunkRecord, Terminal
    <2> QED
      BY <1>1, <2>1, <2>2, SwapIs
  <1> QED
    BY <1>4, <1>5, <1>6

\* Every other step keeps the records, reads them from disk or forgets them.
LEMMA RecordsMove ==
    ASSUME [Next]_vars
    PROVE  \/ Promote \/ Checkpoint \/ CommitPoint
           \/ records' \in {records, NoRecords, PartitionValid(store)}
  BY DEF Next, Work, SharedStep, vars, StartRun, Open, DecideAll, Pass, OpenWriter, AppendChunk,
         FlushBatch, ExportFails, SkipCommitted, BeginPromote, BeginCommit, Finish, Cancel, Crash, Die

LEMMA StoreMoves ==
    ASSUME [Next]_vars
    PROVE  store' = store \/ store' = Overlay(records', PartitionValid(store))
  <1>1. CASE SharedStep
    BY <1>1 DEF SharedStep, Promote, Checkpoint, CommitPoint, Finish, Save
  <1> QED
    BY <1>1 DEF Next, Work, vars, StartRun, Open, DecideAll, Pass, OpenWriter, AppendChunk, FlushBatch,
                ExportFails, SkipCommitted, BeginPromote, BeginCommit, Cancel, Crash, Die, durable

LEMMA Loaded ==
    ASSUME NEW k \in Keys
    PROVE  /\ NoRecords[k] = NoRecord
           /\ PartitionValid(store)[k] # NoRecord =>
                 PartitionValid(store)[k] = store[k] /\ store[k] # NoRecord
  BY DEF NoRecords, PartitionValid

LEMMA VInvStep == ASSUME TInv, VInv, [Next]_vars PROVE VInv'
  <1>1. records \in Records
    BY DEF TInv, BatchTypeOK, TypeOK
  <1>2. Sound(records')
    <2>1. CASE Promote \/ Checkpoint \/ CommitPoint
      BY <1>1, <2>1, ChunkRecorded DEF VInv, Sound, Records
    <2>2. CASE records' \in {records, NoRecords, PartitionValid(store)}
      BY <2>2, Loaded DEF VInv, Sound
    <2> QED
      BY <2>1, <2>2, RecordsMove
  <1>3. Sound(store')
    <2>1. CASE store' = Overlay(records', PartitionValid(store))
      <3> SUFFICES ASSUME NEW k \in Keys, store'[k] # NoRecord PROVE SoundChunkRecord(store'[k])
        BY DEF Sound
      <3>1. store'[k] = IF records'[k] = NoRecord THEN PartitionValid(store)[k] ELSE records'[k]
        BY <2>1 DEF Overlay
      <3> QED
        BY <1>2, <3>1, Loaded DEF VInv, Sound
    <2> QED
      BY <2>1, StoreMoves DEF VInv
  <1> QED
    BY <1>2, <1>3 DEF VInv, Sound, SoundChunkRecord

LEMMA VInvInit == BatchInit => VInv
  <1>1. SoundChunkRecord(Migrated)
    BY DEF SoundChunkRecord, Migrated, Discovered, Valid, Terminal
  <1> QED
    BY <1>1 DEF BatchInit, Init, VInv, Sound, NoRecords

\* Whatever fails, is killed or is rerun in any mode, no save of the chunk loop
\* persists a record that the next load would refuse: the loop records no failures
\* (process_results_with_chunks, merge_persist).
THEOREM ChunkRecordsValid == Spec => []StoreValid
  <1>1. TInv /\ [Next]_vars => TInv'
    BY TInvStep
  <1>2. TInv /\ VInv /\ [Next]_vars => VInv'
    BY VInvStep
  <1>3. VInv => StoreValid
    BY DEF VInv, Sound, SoundChunkRecord, StoreValid
  <1> QED
    BY <1>1, <1>2, <1>3, TInvInit, VInvInit, PTL DEF Spec

-----------------------------------------------------------------------------
(* Pages that are chunked the same way in every run: chunks names the contents *)
(* of each.                                                                   *)

ChunkedAlike(chunks) ==
    /\ chunks \in [Keys -> SUBSET Hashes]
    /\ \A batch \in Batches : \A i \in DOMAIN batch :
          chunks[Canon[batch[i].url]]
              = { batch[j].hash : j \in { n \in DOMAIN batch : Canon[batch[n].url] = Canon[batch[i].url] } }

\* All of a page is in the output.
Whole(chunks, k) == chunks[k] \subseteq FileHashes

\* A record that carries a hash is that of a page all of which is in the output.
BackedRecords(chunks, recs) ==
    \A k \in Keys :
        recs[k] # NoRecord =>
            /\ ~recs[k].migrated => recs[k].hash # NoHash
            /\ recs[k].hash # NoHash => recs[k].hash \in FileHashes /\ Whole(chunks, k)

\* The batch holds all chunks of each of its pages.
WholePages(chunks) ==
    \A i \in DOMAIN todo :
        /\ todo[i].hash \in chunks[Canon[todo[i].url]]
        /\ \A h \in chunks[Canon[todo[i].url]] :
              \E j \in DOMAIN todo : Canon[todo[j].url] = Canon[todo[i].url] /\ todo[j].hash = h

\* The decisions: a promoted chunk is in the output, a page is skipped as a whole.
Decisions ==
    /\ \A i \in DOMAIN todo : /\ todo[i].act \in {"skip", "promote", "drive"}
                              /\ todo[i].act = "promote" => todo[i].hash \in FileHashes
    /\ \A i, j \in DOMAIN todo :
          Canon[todo[i].url] = Canon[todo[j].url] => (todo[i].act = "skip" <=> todo[j].act = "skip")

\* What the commit loop has left to record is in the output, with all of its page.
LeftIsWhole(chunks) ==
    \A i \in DOMAIN todo :
        todo[i].act \in {"promote", "drive"} =>
            todo[i].hash \in FileHashes /\ Whole(chunks, Canon[todo[i].url])

BInv(chunks) ==
    /\ BackedRecords(chunks, store) /\ BackedRecords(chunks, records)
    /\ index \subseteq FileHashes
    /\ pc \in {"decide", "append"} => WholePages(chunks)
    /\ pc = "append" => Decisions
    /\ pc \in {"item"} \cup Handling => LeftIsWhole(chunks)
    /\ pc \in {"promote", "checkpoint"} => Cur.act \in {"promote", "drive"}

LEMMA AlikeOnOpen ==
    ASSUME NEW chunks, ChunkedAlike(chunks), NEW batch \in Batches, todo' = batch
    PROVE  WholePages(chunks)'
  <1> SUFFICES ASSUME NEW i \in DOMAIN batch
               PROVE  /\ batch[i].hash \in chunks[Canon[batch[i].url]]
                      /\ \A h \in chunks[Canon[batch[i].url]] :
                            \E j \in DOMAIN batch :
                                Canon[batch[j].url] = Canon[batch[i].url] /\ batch[j].hash = h
    BY DEF WholePages
  <1>1. chunks[Canon[batch[i].url]]
            = { batch[j].hash : j \in { n \in DOMAIN batch : Canon[batch[n].url] = Canon[batch[i].url] } }
    BY DEF ChunkedAlike
  <1> QED
    BY <1>1

\* The decisions rest on the file as the run found it.
LEMMA DecidesSoundly ==
    ASSUME NEW chunks, TInv, VInv, BInv(chunks), DecideAll
    PROVE  /\ WholePages(chunks)' /\ Decisions'
           /\ index = FileHashes /\ mode = "resume" => 
                \A i \in DOMAIN todo' : todo'[i].act = "drive" => todo'[i].hash \notin index
  <1>1. /\ todo' = [i \in DOMAIN todo |->
                      [todo[i] EXCEPT !.act = Decide(records, Canon[todo[i].url], todo[i].hash)]]
        /\ todo \in Seq(Item) /\ UNCHANGED file /\ pc = "decide"
    BY DEF DecideAll, durable, TInv, BatchTypeOK, TypeOK
  <1>2. DOMAIN todo' = DOMAIN todo /\ FileHashes' = FileHashes /\ WholePages(chunks)
    BY <1>1 DEF FileHashes, BInv
  <1>3. ASSUME NEW i \in DOMAIN todo
        PROVE  /\ todo'[i].url = todo[i].url /\ todo'[i].hash = todo[i].hash
               /\ todo'[i].act = Decide(records, Canon[todo[i].url], todo[i].hash)
               /\ Canon[todo[i].url] \in Keys /\ todo[i].hash \in Hashes
    <2>1. todo[i] \in Item
      BY <1>1
    <2> QED
      BY <1>1, <2>1, SessionAssumption DEF Item
  <1>4. WholePages(chunks)'
    BY <1>2, <1>3 DEF WholePages
  <1>5. ASSUME NEW i \in DOMAIN todo
        PROVE  /\ todo'[i].act \in {"skip", "promote", "drive"}
               /\ todo'[i].act = "promote" => todo'[i].hash \in FileHashes
    <2> DEFINE k == Canon[todo[i].url]
               h == todo[i].hash
    <2>1. k \in Keys /\ h \in Hashes /\ h \in chunks[k]
      BY <1>2, <1>3 DEF WholePages
    <2>2. CASE Decide(records, k, h) = "promote"
      <3>1. (IF records[k] = NoRecord THEN h ELSE records[k].hash) \in FileHashes
        BY <2>2 DEF Decide, BInv
      <3>2. CASE records[k] # NoRecord
        <4>1. records[k].hash \in FileHashes
          BY <3>1, <3>2
        <4>2. records[k].hash # NoHash
          BY <4>1, FileHashesType, RecordAssumption DEF TInv, BatchTypeOK
        <4>3. h \in FileHashes
          BY <2>1, <3>2, <4>2 DEF BInv, BackedRecords, Whole
        <4> QED
          BY <1>3, <2>2, <4>3
      <3> QED
        BY <1>3, <2>2, <3>1, <3>2
    <2>3. Decide(records, k, h) \in {"skip", "promote", "drive"}
      BY DEF Decide
    <2> QED
      BY <1>3, <2>2, <2>3
  <1>6. ASSUME NEW i \in DOMAIN todo
        PROVE  todo'[i].act = "skip" <=> mode = "resume" /\ CommittedProven(records, Canon[todo[i].url])
    BY <1>3 DEF Decide
  <1>7. Decisions'
    BY <1>2, <1>3, <1>5, <1>6 DEF Decisions
  <1>8. ASSUME index = FileHashes, mode = "resume", NEW i \in DOMAIN todo, todo'[i].act = "drive"
        PROVE  todo'[i].hash \notin index
    <2> DEFINE k == Canon[todo[i].url]
               h == todo[i].hash
    <2>1. /\ k \in Keys /\ ~CommittedProven(records, k)
          /\ (IF records[k] = NoRecord THEN h ELSE records[k].hash) \notin index
      BY <1>3, <1>8 DEF Decide
    <2>2. records[k] = NoRecord
      <3> SUFFICES ASSUME records[k] # NoRecord PROVE FALSE
        OBVIOUS
      <3>1. SoundChunkRecord(records[k])
        BY <2>1 DEF VInv, Sound
      <3>2. records[k].status = "EXPORTED" /\ ~records[k].migrated
        BY <2>1, <3>1 DEF SoundChunkRecord, Terminal, CommittedProven, Reconciles
      <3> QED
        BY <1>8, <2>1, <3>2 DEF BInv, BackedRecords
    <2> QED
      BY <1>3, <2>1, <2>2
  <1> QED
    BY <1>2, <1>4, <1>7, <1>8

\* Behind the flush every page that is not skipped is in the output as a whole.
LEMMA FlushIsWhole ==
    ASSUME NEW chunks, TInv, FInv', BInv(chunks), FlushBatch
    PROVE  LeftIsWhole(chunks)'
  <1>1. /\ pc = "append" /\ pc' = "item" /\ UNCHANGED <<file, todo>> /\ FileHashes' = FileHashes
        /\ WholePages(chunks) /\ Decisions
    BY DEF FlushBatch, durable, BInv, FileHashes
  <1>2. \A i \in DOMAIN todo : todo[i].act # "skip" => todo[i].hash \in FileHashes
    BY <1>1 DEF FInv, BatchFlushed, Decisions
  <1>3. ASSUME NEW i \in DOMAIN todo, todo[i].act # "skip",
               NEW h \in chunks[Canon[todo[i].url]]
        PROVE  h \in FileHashes
    <2>1. PICK j \in DOMAIN todo : Canon[todo[j].url] = Canon[todo[i].url] /\ todo[j].hash = h
      BY <1>1 DEF WholePages
    <2>2. todo[j].act # "skip"
      BY <1>1, <1>3, <2>1 DEF Decisions
    <2> QED
      BY <1>2, <2>1, <2>2
  <1> QED
    BY <1>1, <1>2, <1>3 DEF LeftIsWhole, Whole

LEMMA RecordsStayBacked ==
    ASSUME NEW chunks, TInv, VInv, BInv(chunks), FileHashes \subseteq FileHashes', [Next]_vars
    PROVE  BackedRecords(chunks, records)' /\ BackedRecords(chunks, store)'
  <1>1. /\ records \in Records /\ BackedRecords(chunks, records) /\ BackedRecords(chunks, store)
    BY DEF TInv, BatchTypeOK, TypeOK, BInv
  <1> DEFINE Good(r, k) == /\ ~r.migrated => r.hash # NoHash
                           /\ r.hash # NoHash => r.hash \in FileHashes' /\ chunks[k] \subseteq FileHashes'
  <1>2. \A k \in Keys : /\ records[k] # NoRecord => Good(records[k], k)
                        /\ store[k] # NoRecord => Good(store[k], k)
    BY <1>1 DEF BackedRecords, Whole
  <1>3. \A k \in Keys : records'[k] # NoRecord => Good(records'[k], k)
    <2>1. CASE Promote \/ Checkpoint \/ CommitPoint
      <3>1. todo # <<>> /\ Key \in Keys /\ Cur \in Item
        BY <2>1, ChunkRecorded
      <3>2. CASE records' = records
        BY <1>2, <3>2
      <3>3. ASSUME NEW r \in Record, records' = [records EXCEPT ![Key] = r],
                   \/ pc \in {"promote", "checkpoint"} /\ r.hash = Cur.hash
                   \/ /\ records[Key] # NoRecord /\ r.hash = records[Key].hash
                      /\ r.migrated = records[Key].migrated
            PROVE  \A k \in Keys : records'[k] # NoRecord => Good(records'[k], k)
        <4>1. Good(r, Key)
          <5>1. CASE pc \in {"promote", "checkpoint"} /\ r.hash = Cur.hash
            <6>1. 1 \in DOMAIN todo /\ Cur = todo[1]
              BY <3>1 DEF Cur, TInv, BatchTypeOK, TypeOK
            <6>2. Cur.hash \in FileHashes /\ Whole(chunks, Key) /\ Cur.hash \in Hashes
              BY <3>1, <5>1, <6>1 DEF BInv, LeftIsWhole, Handling, Key, Item
            <6> QED
              BY <5>1, <6>2, RecordAssumption DEF Whole
          <5>2. CASE /\ records[Key] # NoRecord /\ r.hash = records[Key].hash
                     /\ r.migrated = records[Key].migrated
            BY <1>2, <3>1, <5>2
          <5> QED
            BY <3>3, <5>1, <5>2
        <4> QED
          BY <1>1, <1>2, <3>1, <3>3, <4>1 DEF Records
      <3> QED
        BY <2>1, <3>2, <3>3, ChunkRecorded
    <2>2. CASE records' \in {records, NoRecords, PartitionValid(store)}
      BY <1>2, <2>2, Loaded
    <2> QED
      BY <2>1, <2>2, RecordsMove
  <1>4. \A k \in Keys : store'[k] # NoRecord => Good(store'[k], k)
    <2>1. CASE store' = Overlay(records', PartitionValid(store))
      <3>1. \A k \in Keys : store'[k] = IF records'[k] = NoRecord THEN PartitionValid(store)[k]
                                                                  ELSE records'[k]
        BY <2>1 DEF Overlay
      <3> QED
        BY <1>2, <1>3, <3>1, Loaded
    <2> QED
      BY <1>2, <2>1, StoreMoves
  <1> QED
    BY <1>3, <1>4 DEF BackedRecords, Whole

\* A run's index holds no more than the file's complete lines.
LEMMA IndexFromLines ==
    ASSUME TypeOK, "unterminated" \notin TornKinds
    PROVE  IndexOf \subseteq FileHashes /\ ("codepoint" \notin TornKinds => IndexOf = FileHashes)
  BY DEF TypeOK, NoTail, IndexOf

LEMMA FileGrows == ASSUME TInv, [Next]_vars PROVE FileHashes \subseteq FileHashes'
  <1>1. CASE file' = file
    BY <1>1 DEF FileHashes
  <1>2. CASE AppendChunk
    <2>1. [url |-> Chunk.url, hash |-> Chunk.hash] \in Line
      BY <1>2, ChunkType DEF AppendChunk, Line, TInv, BatchTypeOK
    <2> QED
      BY <1>2, <2>1, AppendGrows DEF AppendChunk, TInv, BatchTypeOK, TypeOK
  <1> QED
    BY <1>1, <1>2 DEF Next, Work, SharedStep, vars, StartRun, Open, DecideAll, Pass, OpenWriter,
            FlushBatch, ExportFails, SkipCommitted, BeginPromote, BeginCommit, Promote, Checkpoint,
            CommitPoint, Finish, Cancel, Crash, Die, durable

LEMMA BInvStep ==
    ASSUME NEW chunks, ChunkedAlike(chunks), "unterminated" \notin TornKinds,
           TInv, VInv, FInv', BInv(chunks), [Next]_vars
    PROVE  BInv(chunks)'
  <1>1. /\ FileHashes \subseteq FileHashes' /\ TypeOK /\ HandlesAChunk /\ todo \in Seq(Item)
        /\ index \subseteq FileHashes
    BY FileGrows DEF TInv, BatchTypeOK, TypeOK, BInv
  <1>2. BackedRecords(chunks, records)' /\ BackedRecords(chunks, store)'
    BY <1>1, RecordsStayBacked
  <1> DEFINE Rest == /\ index' \subseteq FileHashes'
                     /\ pc' \in {"decide", "append"} => WholePages(chunks)'
                     /\ pc' = "append" => Decisions'
                     /\ pc' \in {"item"} \cup Handling => LeftIsWhole(chunks)'
                     /\ pc' \in {"promote", "checkpoint"} => Cur'.act \in {"promote", "drive"}
  <1>3. ASSUME StartRun PROVE Rest
    <2>1. /\ pc' = "decide" /\ index' = IndexOf /\ \E batch \in Batches : todo' = batch
      BY <1>3 DEF StartRun, Open
    <2> QED
      BY <1>1, <2>1, AlikeOnOpen, IndexFromLines DEF Handling
  <1>4. ASSUME DecideAll PROVE Rest
    <2>1. pc' = "append" /\ index' = index
      BY <1>4 DEF DecideAll
    <2> QED
      BY <1>1, <1>4, <2>1, DecidesSoundly DEF Handling
  <1>5. ASSUME Pass \/ OpenWriter \/ AppendChunk PROVE Rest
    <2>1. pc = "append" /\ UNCHANGED <<pc, index, todo>>
      BY <1>5 DEF Pass, OpenWriter, AppendChunk, Appending
    <2> QED
      BY <1>1, <2>1 DEF BInv, WholePages, Decisions, Handling
  <1>6. ASSUME FlushBatch PROVE Rest
    <2>1. pc' = "item" /\ index' = index
      BY <1>6 DEF FlushBatch
    <2> QED
      BY <1>1, <1>6, <2>1, FlushIsWhole
  <1>7. ASSUME ExportFails \/ Finish \/ Crash PROVE Rest
    <2>1. pc' = "idle" /\ index' \in {index, {}}
      BY <1>7 DEF ExportFails, Finish, Crash, Die
    <2> QED
      BY <1>1, <2>1 DEF Handling
  <1>8. ASSUME BeginPromote \/ BeginCommit \/ Promote \/ Checkpoint PROVE Rest
    <2>1. /\ pc \in {"item"} \cup Handling /\ UNCHANGED <<index, todo>>
          /\ \/ pc' = "commit"
             \/ pc' \in {"promote", "checkpoint"} /\ Cur.act \in {"promote", "drive"}
      BY <1>8 DEF BeginPromote, BeginCommit, Working, Promote, Checkpoint, Handling
    <2> QED
      BY <1>1, <2>1 DEF BInv, LeftIsWhole, Whole, Handling, Cur
  <1>9. ASSUME SkipCommitted \/ CommitPoint PROVE Rest
    <2>1. /\ pc \in {"item", "commit"} /\ pc' \in {"item", "drain"} /\ index' = index
          /\ todo # <<>> /\ todo' = Tail(todo)
      BY <1>1, <1>9 DEF SkipCommitted, Working, CommitPoint, ItemDone, HandlesAChunk, Handling
    <2>2. \A i \in DOMAIN Tail(todo) : i + 1 \in DOMAIN todo /\ Tail(todo)[i] = todo[i + 1]
      BY <1>1, <2>1, TailIs
    <2>3. LeftIsWhole(chunks)
      BY <2>1 DEF BInv, Handling
    <2>4. LeftIsWhole(chunks)'
      BY <1>1, <2>1, <2>2, <2>3 DEF LeftIsWhole, Whole
    <2> QED
      BY <1>1, <2>1, <2>4
  <1>10. ASSUME Cancel \/ UNCHANGED vars PROVE Rest
    <2>1. UNCHANGED <<pc, index, todo, file>>
      BY <1>10 DEF Cancel, vars, durable
    <2> QED
      BY <1>1, <2>1 DEF BInv, WholePages, Decisions, LeftIsWhole, Whole, FileHashes, Cur, Handling
  <1>11. Rest
    BY <1>3, <1>4, <1>5, <1>6, <1>7, <1>8, <1>9, <1>10 DEF Next, Work, SharedStep
  <1> QED
    BY <1>2, <1>11 DEF BInv

LEMMA BInvInit == ASSUME NEW chunks, BatchInit PROVE BInv(chunks)
  <1>1. \A k \in Keys : store[k] # NoRecord => store[k].hash = NoHash /\ store[k].migrated
    BY DEF BatchInit, Init, Migrated, Discovered
  <1> QED
    BY <1>1 DEF BatchInit, Init, BInv, BackedRecords, NoRecords, Handling

\* When every page is chunked the same way in every run and its chunks pass validate,
\* every durable record of an exported page is backed by a line of the output: in
\* every mode, whatever fails or is killed, for pages of several chunks too
\* (process_results_with_chunks, promote_from_flush_proof).
THEOREM ChunkRecordsBacked ==
    ASSUME BadHashes = {}, "unterminated" \notin TornKinds, NEW chunks, ChunkedAlike(chunks)
    PROVE  Spec => []ExportedBacked
  <1>1. TInv /\ [Next]_vars => TInv'
    BY TInvStep
  <1>2. TInv /\ VInv /\ [Next]_vars => VInv'
    BY VInvStep
  <1>3. TInv /\ TInv' /\ FInv /\ [Next]_vars => FInv'
    BY FInvStep
  <1>4. TInv /\ VInv /\ FInv' /\ BInv(chunks) /\ [Next]_vars => BInv(chunks)'
    BY BInvStep
  <1>5. BInv(chunks) => ExportedBacked
    BY DEF BInv, BackedRecords, ExportedBacked
  <1>6. BatchInit => BInv(chunks)
    BY BInvInit
  <1> QED
    BY <1>1, <1>2, <1>3, <1>4, <1>5, <1>6, TInvInit, VInvInit, FInvInit, PTL DEF Spec

-----------------------------------------------------------------------------
(* Exactly once: what the file held when the run opened is in the index, what *)
(* it holds since then was appended by the run.                               *)

DInv ==
    /\ mode = "resume"
    /\ pc = "decide" => index = FileHashes
    /\ pc = "append" =>
          /\ \A i \in DOMAIN file : file[i].hash \in index \/ <<file[i].url, file[i].hash>> \in driven
          /\ \A i \in DOMAIN todo : todo[i].act = "drive" => todo[i].hash \notin index
    /\ NoDuplicateLine

LEMMA DInvStep ==
    ASSUME NEW chunks, "unterminated" \notin TornKinds, "codepoint" \notin TornKinds,
           Modes = {"resume"}, TInv, VInv, BInv(chunks), DInv, [Next]_vars
    PROVE  DInv'
  <1>1. TypeOK /\ pos \in Nat \ {0} /\ file \in Seq(Line)
    BY DEF TInv, BatchTypeOK, TypeOK
  <1>2. CASE StartRun
    <2>1. /\ pc' = "decide" /\ index' = IndexOf /\ file' = file /\ mode' = "resume"
      BY <1>2 DEF StartRun, Open, durable
    <2>2. index' = FileHashes'
      BY <1>1, <2>1, IndexFromLines DEF FileHashes
    <2> QED
      BY <2>1, <2>2 DEF DInv, NoDuplicateLine
  <1>3. CASE DecideAll
    <2>1. /\ pc = "decide" /\ pc' = "append" /\ UNCHANGED <<file, index, mode, driven>>
      BY <1>3 DEF DecideAll, durable
    <2>2. \A i \in DOMAIN todo' : todo'[i].act = "drive" => todo'[i].hash \notin index
      BY <1>3, <2>1, DecidesSoundly DEF DInv
    <2> QED
      BY <2>1, <2>2 DEF DInv, NoDuplicateLine, FileHashes
  <1>4. CASE AppendChunk
    <2>1. /\ pc = "append" /\ pos \in DOMAIN todo /\ Exportable(todo[pos])
          /\ file' = Append(file, [url |-> todo[pos].url, hash |-> todo[pos].hash])
          /\ driven' = driven \cup {<<todo[pos].url, todo[pos].hash>>}
          /\ UNCHANGED <<pc, todo, mode, index>>
      BY <1>1, <1>4, ChunkType DEF AppendChunk, Appending, Pair
    <2> DEFINE line == [url |-> todo[pos].url, hash |-> todo[pos].hash]
    <2>2. /\ DOMAIN file' = 1..(Len(file) + 1) /\ DOMAIN file = 1..Len(file) /\ Len(file) \in Nat
          /\ \A i \in 1..Len(file) : file'[i] = file[i]
          /\ file'[Len(file) + 1] = line
      BY <1>1, <2>1
    <2>3. \A i \in DOMAIN file : file[i] # line
      BY <2>1 DEF DInv, Exportable
    <2>4. \A i \in DOMAIN file' : file'[i].hash \in index \/ <<file'[i].url, file'[i].hash>> \in driven'
      BY <2>1, <2>2 DEF DInv
    <2> HIDE DEF line
    <2>5. NoDuplicateLine'
      BY <2>2, <2>3 DEF DInv, NoDuplicateLine
    <2> QED
      BY <2>1, <2>4, <2>5 DEF DInv
  <1>5. CASE Pass \/ OpenWriter \/ Cancel \/ UNCHANGED vars
    <2>1. UNCHANGED <<file, pc, todo, mode, index, driven>>
      BY <1>5 DEF Pass, OpenWriter, Cancel, vars, durable
    <2> QED
      BY <2>1 DEF DInv, NoDuplicateLine, FileHashes
  <1>6. CASE FlushBatch \/ ExportFails \/ SkipCommitted \/ BeginPromote \/ BeginCommit \/ SharedStep \/ Crash
    <2>1. file' = file /\ mode' \in {mode, "resume"} /\ pc' \notin {"decide", "append"}
      BY <1>6 DEF FlushBatch, ExportFails, SkipCommitted, BeginPromote, BeginCommit, Working, SharedStep,
                  Promote, Checkpoint, CommitPoint, ItemDone, Finish, Crash, Die, durable
    <2> QED
      BY <2>1 DEF DInv, NoDuplicateLine
  <1> QED
    BY <1>2, <1>3, <1>4, <1>5, <1>6 DEF Next, Work

\* No (url, content) pair is appended twice, by one run or by a resumed one, also
\* when export_batch fails half way: with --resume, pages chunked the same way in
\* every run, and interrupted writes that leave the file readable.
THEOREM NoChunkTwice ==
    ASSUME BadHashes = {}, "unterminated" \notin TornKinds, "codepoint" \notin TornKinds,
           Modes = {"resume"}, NEW chunks, ChunkedAlike(chunks)
    PROVE  Spec => []NoDuplicateLine
  <1>1. TInv /\ [Next]_vars => TInv'
    BY TInvStep
  <1>2. TInv /\ VInv /\ [Next]_vars => VInv'
    BY VInvStep
  <1>3. TInv /\ TInv' /\ FInv /\ [Next]_vars => FInv'
    BY FInvStep
  <1>4. TInv /\ VInv /\ FInv' /\ BInv(chunks) /\ [Next]_vars => BInv(chunks)'
    BY BInvStep
  <1>5. TInv /\ VInv /\ BInv(chunks) /\ DInv /\ [Next]_vars => DInv'
    BY DInvStep
  <1>6. DInv => NoDuplicateLine
    BY DEF DInv
  <1>7. BatchInit => DInv
    BY DEF BatchInit, Init, DInv, NoDuplicateLine
  <1>8. BatchInit => BInv(chunks)
    BY BInvInit
  <1> QED
    BY <1>1, <1>2, <1>3, <1>4, <1>5, <1>6, <1>7, <1>8, TInvInit, VInvInit, FInvInit, PTL DEF Spec

=============================================================================
