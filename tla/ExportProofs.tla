----------------------------- MODULE ExportProofs -----------------------------
(***************************************************************************)
(* Safety of the item loop for every set of keys, URLs and contents, every  *)
(* batch and any number of runs and faults: type correctness, that every    *)
(* durable EXPORTED or COMMITTED record is backed by a line of the file,    *)
(* that resumed runs leave a committed record alone, that what is saved can  *)
(* be loaded, and, where no item fails, that no line is appended twice and   *)
(* that the loop implements ExactlyOnce.                                    *)
(***************************************************************************)
EXTENDS ExportItems, TLAPS

-----------------------------------------------------------------------------
(* The inductive invariant, part by part. *)

\* The hash of an exported page is among those of the file, hs.  Only such a
\* record carries a hash, so only it can prove a flush by its own record; and
\* one that says EXPORTED passes the table.
SoundRecord(r, hs) ==
    r # NoRecord => /\ r.status \in Terminal /\ ~r.migrated => r.hash \in hs
                    /\ r.status \notin Terminal => r.hash = NoHash
                    /\ r.status = "EXPORTED" => Valid(r)

Sound(recs, hs) == \A k \in Keys : SoundRecord(recs[k], hs)

\* While an item is being handled it is at the head of the list.
HandlesAnItem == pc \in {"promote", "export", "checkpoint", "commit", "fail"} => todo # <<>>

\* The flush-proof index and the checkpoint rest on lines of the file.
IndexBacked == index \subseteq FileHashes

CheckpointBacked == pc = "checkpoint" => Cur.hash \in FileHashes

\* What a resumed run holds as COMMITTED passes the table, and it works on no
\* such page.
CommittedValid(recs) ==
    \A k \in Keys : recs[k] # NoRecord /\ recs[k].status = "COMMITTED" => Valid(recs[k])

NotCommitted(recs, k) == recs[k] # NoRecord => recs[k].status # "COMMITTED"

ResumeSkips ==
    mode = "resume" =>
        /\ CommittedValid(records)
        /\ pc \in {"promote", "export", "checkpoint", "fail"} => NotCommitted(records, Key)

PromotionProven ==
    pc = "promote" =>
        /\ mode = "resume"
        /\ (IF records[Key] = NoRecord THEN Cur.hash ELSE records[Key].hash) \in index

IInv == /\ TypeOK /\ HandlesAnItem
        /\ Sound(store, FileHashes) /\ Sound(records, FileHashes)
        /\ IndexBacked /\ CheckpointBacked
        /\ ResumeSkips /\ PromotionProven

-----------------------------------------------------------------------------
(* What the operators on records preserve. *)

\* Driving and flushing give records again.
LEMMA DriveType == \A r \in Record : DriveToProcessed(r) \in Record
  BY DEF DriveToProcessed, Discovered, Record, Status, Terminal

\* Only valid records are loaded, and loading invents none.
LEMMA PartitionSound ==
  ASSUME NEW recs \in Records, NEW hs, Sound(recs, hs)
  PROVE  /\ PartitionValid(recs) \in Records
         /\ Sound(PartitionValid(recs), hs)
         /\ CommittedValid(PartitionValid(recs))
         /\ \A k \in Keys : PartitionValid(recs)[k] \in {recs[k], NoRecord}
         /\ \A k \in Keys : CommittedProven(recs, k) => PartitionValid(recs)[k] = recs[k]
  <1> DEFINE loaded == PartitionValid(recs)
  <1>1. loaded \in Records
    BY DEF PartitionValid, Records
  <1>2. \A k \in Keys : /\ loaded[k] \in {recs[k], NoRecord}
                        /\ recs[k] # NoRecord /\ Valid(recs[k]) => loaded[k] = recs[k]
                        /\ loaded[k] # NoRecord => Valid(loaded[k])
    BY DEF PartitionValid
  <1>3. \A k \in Keys : SoundRecord(loaded[k], hs)
    BY <1>2 DEF Sound, SoundRecord
  <1> QED
    BY <1>1, <1>2, <1>3 DEF Sound, CommittedValid, CommittedProven, Reconciles

\* A record written behind the flush of its line is sound.
LEMMA ExportedSound ==
  ASSUME NEW recs \in Records, NEW k \in Keys, NEW hs, NEW h \in Hashes, h \in hs
  PROVE  /\ ExportedRecord(recs, k, h) \in Record
         /\ SoundRecord(ExportedRecord(recs, k, h), hs)
         /\ ExportedRecord(recs, k, h).status = "EXPORTED"
  <1> DEFINE base == IF recs[k] = NoRecord \/ recs[k].status \in Terminal
                     THEN Discovered ELSE recs[k]
             d == DriveToProcessed(base)
  <1>1. base \in Record
    BY DEF Records, Discovered, Record, Status, Terminal
  <1>2. d \in Record
    BY <1>1, DriveType
  <1> DEFINE x == [d EXCEPT !.migrated = FALSE, !.hash = h, !.located = TRUE,
                            !.tried = TRUE, !.failed = FALSE]
  <1>3. x \in Record /\ x.hash = h /\ x.located
    <2> HIDE DEF d
    <2> QED BY <1>2 DEF Record
  <1>4. ExportedRecord(recs, k, h) = ExportFlushed(x)
    BY DEF ExportedRecord
  <1> HIDE DEF x
  <1>5. /\ ExportFlushed(x) \in Record
        /\ ExportFlushed(x).status = "EXPORTED" /\ ExportFlushed(x).hash = h
        /\ ExportFlushed(x).located
    BY <1>3 DEF ExportFlushed, Record, Status, Terminal
  <1> QED
    BY <1>4, <1>5, RecordAssumption DEF SoundRecord, Valid, Terminal

\* Promotion keeps the record's own hash, or takes the fresh one when there was
\* no record: in either case the one its proof was about.
LEMMA PromotedSound ==
  ASSUME NEW recs \in Records, NEW k \in Keys, NEW hs, NEW h \in Hashes,
         hs \subseteq Hashes, Sound(recs, hs), NotCommitted(recs, k),
         (IF recs[k] = NoRecord THEN h ELSE recs[k].hash) \in hs
  PROVE  /\ PromotedRecord(recs, k, h) \in Record
         /\ SoundRecord(PromotedRecord(recs, k, h), hs)
         /\ PromotedRecord(recs, k, h).status = "EXPORTED"
  <1>1. CASE recs[k] = NoRecord
    <2> DEFINE d == DriveToProcessed(Discovered)
    <2>1. Discovered \in Record /\ Discovered.status = "DISCOVERED"
      BY DEF Discovered, Record, Status, Terminal
    <2>2. d \in Record
      BY <2>1, DriveType
    <2> DEFINE x == [d EXCEPT !.tried = TRUE, !.failed = FALSE, !.hash = h, !.located = TRUE]
    <2>3. x \in Record /\ x.hash = h /\ x.located
      <3> HIDE DEF d
      <3> QED BY <2>2 DEF Record
    <2>4. PromotedRecord(recs, k, h) = ExportFlushed(x)
      BY <1>1, <2>1 DEF PromotedRecord, Reconciles
    <2> HIDE DEF x
    <2>5. /\ ExportFlushed(x) \in Record
          /\ ExportFlushed(x).status = "EXPORTED" /\ ExportFlushed(x).hash = h
          /\ ExportFlushed(x).located
      BY <2>3 DEF ExportFlushed, Record, Status, Terminal
    <2> QED
      BY <1>1, <2>4, <2>5, RecordAssumption DEF SoundRecord, Valid, Terminal
  <1>2. CASE recs[k] # NoRecord
    <2>1. recs[k] \in Record /\ recs[k].hash \in Hashes /\ SoundRecord(recs[k], hs)
      BY <1>2 DEF Records, Sound
    <2>2. recs[k].status = "EXPORTED" /\ Valid(recs[k])
      BY <1>2, <2>1, RecordAssumption DEF SoundRecord, NotCommitted, Terminal
    <2>3. PromotedRecord(recs, k, h) = recs[k]
      BY <1>2, <2>2 DEF PromotedRecord, Reconciles
    <2> QED
      BY <2>1, <2>2, <2>3
  <1> QED
    BY <1>1, <1>2

\* A failure advances nothing and keeps the hash.
LEMMA FailedSound ==
  ASSUME NEW recs \in Records, NEW k \in Keys, NEW hs, Sound(recs, hs)
  PROVE  /\ FailedRecord(recs, k) \in Record
         /\ SoundRecord(FailedRecord(recs, k), hs)
         /\ NotCommitted(recs, k) => FailedRecord(recs, k).status # "COMMITTED"
  <1> DEFINE base == IF recs[k] = NoRecord THEN Discovered ELSE recs[k]
             f == FailedRecord(recs, k)
  <1>1. base \in Record /\ SoundRecord(base, hs)
    BY DEF Records, Sound, SoundRecord, Discovered, Record, Status, Terminal
  <1>2. NotCommitted(recs, k) => base.status # "COMMITTED"
    BY DEF NotCommitted, Discovered
  <1>3. /\ f \in Record
        /\ f.status = base.status /\ f.hash = base.hash
        /\ f.located = base.located /\ f.migrated = base.migrated
    <2>1. f = [base EXCEPT !.tried = TRUE, !.failed = TRUE]
      BY DEF FailedRecord
    <2> HIDE DEF base, f
    <2> QED BY <1>1, <2>1 DEF Record
  <1> HIDE DEF base, f
  <1>4. SoundRecord(f, hs)
    BY <1>1, <1>3, RecordAssumption DEF SoundRecord, Valid
  <1> QED
    BY <1>2, <1>3, <1>4 DEF f

\* The swap commits a sound record or changes nothing.
LEMMA CommitSound ==
  ASSUME NEW recs \in Records, NEW k \in Keys, NEW hs, Sound(recs, hs)
  PROVE  /\ SwapToCommitted(recs, k) \in Records
         /\ Sound(SwapToCommitted(recs, k), hs)
         /\ CommittedValid(recs) => CommittedValid(SwapToCommitted(recs, k))
  <1>1. CASE CanCommit(recs[k])
    <2> DEFINE r == recs[k]
               c == Commit(r)
    <2>1. /\ r \in Record /\ r # NoRecord /\ r.status = "EXPORTED" /\ Valid(c)
          /\ SoundRecord(r, hs)
      BY <1>1 DEF CanCommit, Reconciles, Records, Sound
    <2>2. /\ c \in Record /\ c.status = "COMMITTED"
          /\ c.hash = r.hash /\ c.migrated = r.migrated
      <3> HIDE DEF r
      <3> QED BY <2>1 DEF Commit, Record, Status, Terminal
    <2>3. SwapToCommitted(recs, k) = [recs EXCEPT ![k] = c]
      BY <1>1 DEF SwapToCommitted
    <2> HIDE DEF c
    <2>4. SoundRecord(c, hs)
      BY <2>1, <2>2, RecordAssumption DEF SoundRecord, Terminal
    <2> QED
      BY <2>1, <2>2, <2>3, <2>4 DEF Records, Sound, CommittedValid
  <1>2. CASE ~CanCommit(recs[k])
    BY <1>2 DEF SwapToCommitted
  <1> QED
    BY <1>1, <1>2

-----------------------------------------------------------------------------
(* What the shared steps do to the file, the store and the session. *)

\* Soundness with respect to more lines, of one changed record, and of a map
\* put together from two sound ones.
LEMMA SoundMonotone ==
  ASSUME NEW recs, NEW hs, NEW more, hs \subseteq more, Sound(recs, hs)
  PROVE  Sound(recs, more)
  BY DEF Sound, SoundRecord

LEMMA SoundUpdate ==
  ASSUME NEW recs \in Records, NEW hs, NEW k \in Keys, NEW r \in Record,
         Sound(recs, hs), SoundRecord(r, hs)
  PROVE  [recs EXCEPT ![k] = r] \in Records /\ Sound([recs EXCEPT ![k] = r], hs)
  BY DEF Records, Sound

\* A save that goes through puts each of the session's records over the durable
\* one; a durable record is lost only if it was invalid.
LEMMA SaveSound ==
  ASSUME TypeOK, NEW recs \in Records, NEW hs, Sound(store, hs), Sound(recs, hs), Save(recs)
  PROVE  /\ store' \in Records
         /\ Sound(store', hs)
         /\ faults' \in 0..MaxFaults
         /\ \/ store' = store
            \/ store' = Overlay(recs, PartitionValid(store))
  <1> USE SessionAssumption
  <1>1. store \in Records /\ faults \in 0..MaxFaults
    BY DEF TypeOK
  <1>2. faults' \in 0..MaxFaults
    BY <1>1 DEF Save, Fault
  <1>3. CASE store' = store
    BY <1>1, <1>2, <1>3
  <1>4. CASE store' = Overlay(recs, PartitionValid(store))
    <2>1. PartitionValid(store) \in Records /\ Sound(PartitionValid(store), hs)
      BY <1>1, PartitionSound
    <2> QED
      BY <1>2, <1>4, <2>1 DEF Overlay, Records, Sound
  <1> QED
    BY <1>3, <1>4 DEF Save

\* An append adds its hash and keeps the others.
LEMMA AppendGrows ==
  ASSUME file \in Seq(Line), NEW l \in Line, file' = Append(file, l)
  PROVE  /\ file' \in Seq(Line)
         /\ FileHashes \subseteq FileHashes'
         /\ l.hash \in FileHashes'
  <1>1. /\ Len(file') = Len(file) + 1
        /\ \A i \in 1..Len(file) : file'[i] = file[i]
        /\ file'[Len(file) + 1] = l
        /\ file' \in Seq(Line)
    OBVIOUS
  <1>2. DOMAIN file = 1..Len(file) /\ DOMAIN file' = 1..Len(file')
    BY <1>1
  <1>3. FileHashes \subseteq FileHashes'
    BY <1>1, <1>2 DEF FileHashes
  <1>4. l.hash \in FileHashes'
    <2>1. Len(file) + 1 \in DOMAIN file'
      BY <1>1, <1>2
    <2> QED BY <1>1, <2>1 DEF FileHashes
  <1> QED
    BY <1>1, <1>3, <1>4

\* The item being handled names a page and a content.
LEMMA CurType ==
  ASSUME TypeOK, todo # <<>>
  PROVE  /\ Cur \in Item /\ Cur.hash \in Hashes /\ Cur.url \in Urls /\ Key \in Keys
         /\ Tail(todo) \in Seq(Item)
  <1>1. Cur \in Item /\ Tail(todo) \in Seq(Item)
    BY DEF TypeOK, Cur
  <1> QED
    BY <1>1, SessionAssumption DEF Item, Key

\* What is left of the list is a part of it.
LEMMA TailIs ==
  ASSUME todo \in Seq(Item), todo # <<>>
  PROVE  \A i \in DOMAIN Tail(todo) : i + 1 \in DOMAIN todo /\ Tail(todo)[i] = todo[i + 1]
  OBVIOUS

\* Lines of the file carry hashes.
LEMMA FileHashesType ==
  ASSUME TypeOK
  PROVE  FileHashes \subseteq Hashes
  <1>1. \A i \in DOMAIN file : file[i] \in Line
    BY DEF TypeOK
  <1> QED
    BY <1>1 DEF FileHashes, Line

-----------------------------------------------------------------------------
(* The invariant holds initially and is kept by every step. *)

\* The first run finds no output, and at most what the v1 migration wrote.
LEMMA InitInv == Init => IInv
  <1> SUFFICES ASSUME Init PROVE IInv
    OBVIOUS
  <1>1. Discovered \in Record /\ Migrated \in Record
    BY DEF Discovered, Migrated, Record, Status, Terminal
  <1>2. store \in Records /\ records \in Records
    BY <1>1 DEF Init, Records, NoRecords
  <1>3. TypeOK
    <2>1. file \in Seq(Line) /\ todo \in Seq(Item)
      BY DEF Init
    <2>2. reruns \in 0..MaxReruns /\ faults \in 0..MaxFaults
      BY SessionAssumption DEF Init
    <2> QED
      BY <1>2, <2>1, <2>2 DEF Init, TypeOK, AllModes
  <1>4. Migrated.status = "COMMITTED" /\ Migrated.migrated
    BY DEF Migrated, Discovered
  <1>5. \A hs : SoundRecord(Migrated, hs)
    BY <1>4 DEF SoundRecord, Terminal
  <1>6. Sound(store, FileHashes) /\ Sound(records, FileHashes) /\ CommittedValid(records)
    BY <1>5 DEF Init, Sound, SoundRecord, NoRecords, CommittedValid
  <1> QED
    BY <1>3, <1>6 DEF Init, IInv, HandlesAnItem, IndexBacked, CheckpointBacked, ResumeSkips,
                      PromotionProven

\* Opening a session: the records and the index are read from the disk.
LEMMA OpenInv ==
  ASSUME IInv, "unterminated" \notin TornKinds, StartRun
  PROVE  IInv'
  <1> PICK m \in Modes, batch \in Batches : Open(m, batch, "item")
    BY DEF StartRun
  <1>1. UNCHANGED durable /\ pc' = "item" /\ todo' = batch /\ mode' = m /\ index' = IndexOf
    BY DEF Open
  <1>2. FileHashes' = FileHashes
    BY <1>1 DEF FileHashes, durable
  <1>3. index' \subseteq FileHashes'
    BY <1>1, <1>2 DEF IInv, TypeOK, NoTail, IndexOf
  <1>4. store \in Records /\ Sound(store, FileHashes)
    BY DEF IInv, TypeOK
  <1>5. /\ records' \in Records /\ Sound(records', FileHashes) /\ CommittedValid(records')
    <2>1. CASE records' = PartitionValid(store)
      BY <1>4, <2>1, PartitionSound
    <2>2. CASE records' = NoRecords
      BY <2>2 DEF NoRecords, Records, Sound, SoundRecord, CommittedValid
    <2> QED
      BY <2>1, <2>2 DEF Open
  <1>6. TypeOK'
    <2>1. index' \subseteq Hashes
      BY <1>2, <1>3, FileHashesType DEF IInv
    <2>2. reruns' \in 0..MaxReruns /\ faults' \in 0..MaxFaults
      BY SessionAssumption DEF Open, Fault, IInv, TypeOK
    <2>3. mode' \in AllModes /\ todo' \in Seq(Item)
      BY <1>1, SessionAssumption
    <2>4. UNCHANGED <<file, tail, store>> /\ driven' = {} /\ writer' = "closed" /\ cancelled' = FALSE
      BY DEF Open, durable
    <2> QED
      BY <1>1, <1>5, <2>1, <2>2, <2>3, <2>4 DEF IInv, TypeOK
  <1> QED
    BY <1>1, <1>2, <1>3, <1>4, <1>5, <1>6
    DEF IInv, HandlesAnItem, IndexBacked, CheckpointBacked, ResumeSkips, PromotionProven, durable

\* Steps that only move the run on: what is stored and held stays the same.
LEMMA ControlInv ==
  ASSUME IInv,
         SkipClaimed \/ SkipCommitted \/ BeginPromote \/ BeginExport \/ OpenWriter
           \/ ExportFails \/ Cancel
  PROVE  IInv'
  <1>1. CASE SkipClaimed \/ SkipCommitted
    <2>1. todo # <<>> /\ pc = "item" /\ pc' = "item" /\ todo' = Tail(todo)
      BY <1>1 DEF SkipClaimed, SkipCommitted, Decided, Working
    <2>2. UNCHANGED <<file, tail, store, reruns, faults, mode, records, index, writer, cancelled>>
      BY <1>1 DEF SkipClaimed, SkipCommitted, Decided, durable, bounds
    <2>3. driven' \subseteq Urls \X Hashes
      BY <1>1, <2>1, CurType DEF SkipClaimed, SkipCommitted, Decided, Claim, IInv, TypeOK
    <2>4. TypeOK'
      BY <2>1, <2>2, <2>3, CurType DEF IInv, TypeOK
    <2> QED
      BY <2>1, <2>2, <2>4 DEF IInv, HandlesAnItem, FileHashes, IndexBacked, CheckpointBacked,
                              ResumeSkips, PromotionProven
  <1>2. CASE BeginPromote \/ BeginExport
    <2>1. todo # <<>> /\ pc = "item" /\ pc' \in {"promote", "export"}
      BY <1>2 DEF BeginPromote, BeginExport, Decided, Working
    <2>2. UNCHANGED <<file, tail, store, reruns, faults, todo, mode, records, index, writer, cancelled>>
      BY <1>2 DEF BeginPromote, BeginExport, Decided, durable, bounds
    <2>3. driven' \subseteq Urls \X Hashes
      BY <1>2, <2>1, CurType DEF BeginPromote, BeginExport, Decided, Claim, IInv, TypeOK
    <2>4. TypeOK'
      BY <2>1, <2>2, <2>3 DEF IInv, TypeOK
    <2>5. mode = "resume" => NotCommitted(records, Key)
      <3> SUFFICES ASSUME mode = "resume" PROVE NotCommitted(records, Key)
        OBVIOUS
      <3>1. ~CommittedProven(records, Key)
        BY <1>2 DEF BeginPromote, BeginExport, Decided, Decide
      <3>2. Key \in Keys /\ CommittedValid(records)
        BY <2>1, CurType DEF IInv, ResumeSkips
      <3> QED
        BY <3>1, <3>2 DEF CommittedProven, Reconciles, CommittedValid, NotCommitted
    <2>6. pc' = "promote" =>
            /\ mode = "resume"
            /\ (IF records[Key] = NoRecord THEN Cur.hash ELSE records[Key].hash) \in index
      BY <1>2 DEF BeginPromote, BeginExport, Decided, Decide
    <2>7. Cur' = Cur /\ Key' = Key
      BY <2>2 DEF Cur, Key
    <2> QED
      BY <2>1, <2>2, <2>4, <2>5, <2>6, <2>7
      DEF IInv, HandlesAnItem, FileHashes, IndexBacked, CheckpointBacked, ResumeSkips,
          PromotionProven
  <1>3. CASE OpenWriter \/ ExportFails
    <2>1. pc = "export" /\ pc' \in {"export", "fail"}
      BY <1>3 DEF OpenWriter, ExportFails
    <2>2. UNCHANGED <<file, store, reruns, todo, mode, records, index, driven, cancelled>>
      BY <1>3 DEF OpenWriter, ExportFails, bounds
    <2>3. todo # <<>> /\ Cur.hash \in Hashes
      BY <2>1, CurType DEF IInv, HandlesAnItem
    <2>4. TypeOK'
      <3>1. tail' \in {NoTail} \cup [kind : TornKinds, hash : Hashes]
        BY <1>3, <2>3 DEF OpenWriter, ExportFails, Tail_, IInv, TypeOK
      <3>2. writer' \in {"closed", "open", "dead"}
        BY <1>3 DEF OpenWriter, ExportFails, IInv, TypeOK
      <3>3. faults' \in 0..MaxFaults
        BY <1>3, SessionAssumption DEF OpenWriter, ExportFails, Fault, bounds, IInv, TypeOK
      <3> QED
        BY <2>1, <2>2, <3>1, <3>2, <3>3 DEF IInv, TypeOK
    <2>5. Cur' = Cur /\ Key' = Key
      BY <2>2 DEF Cur, Key
    <2> QED
      BY <2>1, <2>2, <2>3, <2>4, <2>5
      DEF IInv, HandlesAnItem, FileHashes, IndexBacked, CheckpointBacked, ResumeSkips,
          PromotionProven
  <1>4. CASE Cancel
    <2>1. UNCHANGED <<file, tail, store, reruns, faults, pc, todo, mode, records, index, driven, writer>>
      BY <1>4 DEF Cancel, durable, bounds
    <2>2. cancelled' \in BOOLEAN
      BY <1>4 DEF Cancel
    <2>3. Cur' = Cur /\ Key' = Key
      BY <2>1 DEF Cur, Key
    <2> QED
      BY <2>1, <2>2, <2>3
      DEF IInv, TypeOK, HandlesAnItem, FileHashes, IndexBacked, CheckpointBacked, ResumeSkips,
          PromotionProven
  <1> QED
    BY <1>1, <1>2, <1>3, <1>4

\* The append is what backs the checkpoint that follows it.
LEMMA AppendInv ==
  ASSUME IInv, AppendLine
  PROVE  IInv'
  <1> DEFINE l == [url |-> Cur.url, hash |-> Cur.hash]
  <1>1. pc = "export" /\ pc' = "checkpoint" /\ file' = Append(file, l)
    BY DEF AppendLine
  <1>2. UNCHANGED <<tail, store, reruns, faults, todo, mode, records, index, driven, writer, cancelled>>
    BY DEF AppendLine, bounds
  <1>3. todo # <<>>
    BY <1>1 DEF IInv, HandlesAnItem
  <1>4. l \in Line /\ l.hash = Cur.hash
    BY <1>3, CurType DEF IInv, Line
  <1>5. file' \in Seq(Line) /\ FileHashes \subseteq FileHashes' /\ Cur.hash \in FileHashes'
    BY <1>1, <1>4, AppendGrows DEF IInv, TypeOK
  <1>6. Sound(store, FileHashes') /\ Sound(records, FileHashes')
    BY <1>5, SoundMonotone DEF IInv
  <1>7. TypeOK'
    BY <1>1, <1>2, <1>5 DEF IInv, TypeOK
  <1>8. Cur' = Cur /\ Key' = Key
    BY <1>2 DEF Cur, Key
  <1> QED
    BY <1>1, <1>2, <1>3, <1>5, <1>6, <1>7, <1>8
    DEF IInv, HandlesAnItem, IndexBacked, CheckpointBacked, ResumeSkips, PromotionProven

\* What the steps that record something have in common.
LEMMA RecordingInv ==
  ASSUME IInv,
         pc' \in {"idle", "item", "drain", "commit"}, pc' = "commit" => todo' # <<>>,
         todo' \in Seq(Item), writer' \in {"closed", "open", "dead"},
         UNCHANGED <<file, tail, mode, index, driven, cancelled, reruns>>,
         records' \in Records, Sound(records', FileHashes),
         mode = "resume" => CommittedValid(records'),
         Save(records') \/ UNCHANGED <<store, faults>>
  PROVE  IInv'
  <1>1. store' \in Records /\ Sound(store', FileHashes) /\ faults' \in 0..MaxFaults
    <2>1. CASE Save(records')
      BY <2>1, SaveSound DEF IInv
    <2>2. CASE UNCHANGED <<store, faults>>
      BY <2>2 DEF IInv, TypeOK
    <2> QED
      BY <2>1, <2>2
  <1>2. FileHashes' = FileHashes
    BY DEF FileHashes
  <1>3. TypeOK'
    BY <1>1 DEF IInv, TypeOK
  <1> QED
    BY <1>1, <1>2, <1>3
    DEF IInv, HandlesAnItem, IndexBacked, CheckpointBacked, ResumeSkips, PromotionProven

\* A rejected or failed item: with a context its record is marked.
LEMMA FailureInv ==
  ASSUME IInv, RejectItem \/ FailItem
  PROVE  IInv'
  <1>1. /\ todo # <<>> /\ todo' = Tail(todo) /\ pc' \in {"item", "drain"}
        /\ records' = Recorded /\ Save(records')
        /\ UNCHANGED <<file, tail, mode, index, writer, cancelled, reruns>>
    BY DEF RejectItem, FailItem, ItemDone, Decided, Working, IInv, HandlesAnItem
  <1>2. Key \in Keys /\ Cur.hash \in Hashes /\ Cur.url \in Urls /\ todo' \in Seq(Item)
    BY <1>1, CurType DEF IInv
  <1>3. records \in Records /\ Sound(records, FileHashes)
    BY DEF IInv, TypeOK
  <1> DEFINE f == FailedRecord(records, Key)
  <1>4. f \in Record /\ SoundRecord(f, FileHashes)
    BY <1>2, <1>3, FailedSound
  <1>5. mode = "resume" => f.status # "COMMITTED"
    <2> SUFFICES ASSUME mode = "resume" PROVE NotCommitted(records, Key)
      BY <1>2, <1>3, FailedSound
    <2>1. CASE FailItem
      BY <2>1 DEF FailItem, IInv, ResumeSkips
    <2>2. CASE RejectItem
      <3>1. ~CommittedProven(records, Key)
        BY <2>2 DEF RejectItem, Decided, Decide
      <3> QED
        BY <1>2, <3>1 DEF CommittedProven, Reconciles, CommittedValid, NotCommitted, IInv, ResumeSkips
    <2> QED
      BY <2>1, <2>2
  <1> HIDE DEF f
  <1>6. /\ records' \in Records /\ Sound(records', FileHashes)
        /\ mode = "resume" => CommittedValid(records')
    <2>1. CASE mode = "plain"
      BY <1>1, <1>3, <2>1 DEF Recorded
    <2>2. CASE mode # "plain"
      <3>1. records' = [records EXCEPT ![Key] = f]
        BY <1>1, <2>2 DEF Recorded, f
      <3>2. records' \in Records /\ Sound(records', FileHashes)
        BY <1>2, <1>3, <1>4, <3>1, SoundUpdate
      <3>3. mode = "resume" => CommittedValid(records')
        BY <1>2, <1>3, <1>5, <3>1 DEF CommittedValid, Records, IInv, ResumeSkips
      <3> QED
        BY <3>2, <3>3
    <2> QED
      BY <2>1, <2>2
  <1>7. TypeOK' /\ FileHashes' = FileHashes /\ store' \in Records /\ Sound(store', FileHashes)
    <2>1. store' \in Records /\ Sound(store', FileHashes) /\ faults' \in 0..MaxFaults
      BY <1>1, <1>6, SaveSound DEF IInv
    <2>2. driven' \subseteq Urls \X Hashes
      BY <1>2 DEF RejectItem, FailItem, Decided, Claim, IInv, TypeOK
    <2> QED
      BY <1>1, <1>2, <1>6, <2>1, <2>2 DEF IInv, TypeOK, FileHashes
  <1> QED
    BY <1>1, <1>6, <1>7
    DEF IInv, HandlesAnItem, IndexBacked, CheckpointBacked, ResumeSkips, PromotionProven

\* Promotion writes a record its proof backs.
LEMMA PromoteInv ==
  ASSUME IInv, Promote
  PROVE  IInv'
  <1>1. todo # <<>> /\ pc = "promote"
    BY DEF Promote, IInv, HandlesAnItem
  <1>2. Key \in Keys /\ Cur.hash \in Hashes
    BY <1>1, CurType DEF IInv
  <1> DEFINE r == PromotedRecord(records, Key, Cur.hash)
  <1>3. r \in Record /\ SoundRecord(r, FileHashes) /\ r.status = "EXPORTED"
    <2>1. /\ records \in Records /\ Sound(records, FileHashes) /\ NotCommitted(records, Key)
          /\ FileHashes \subseteq Hashes
      BY <1>1, FileHashesType DEF IInv, TypeOK, PromotionProven, ResumeSkips
    <2>2. (IF records[Key] = NoRecord THEN Cur.hash ELSE records[Key].hash) \in FileHashes
      BY <1>1 DEF IInv, PromotionProven, IndexBacked
    <2> QED
      BY <1>2, <2>1, <2>2, PromotedSound
  <1> HIDE DEF r
  <1>4. records' = [records EXCEPT ![Key] = r] /\ Save(records')
    BY DEF Promote, r
  <1>5. records' \in Records /\ Sound(records', FileHashes)
    BY <1>2, <1>3, <1>4, SoundUpdate DEF IInv, TypeOK
  <1>6. mode = "resume" => CommittedValid(records')
    BY <1>2, <1>3, <1>4 DEF CommittedValid, Records, IInv, TypeOK, ResumeSkips
  <1> QED
    BY <1>1, <1>4, <1>5, <1>6, RecordingInv DEF Promote, IInv, TypeOK

\* The checkpoint writes a record the flushed line backs.
LEMMA CheckpointInv ==
  ASSUME IInv, Checkpoint
  PROVE  IInv'
  <1>1. todo # <<>> /\ pc = "checkpoint" /\ Cur.hash \in FileHashes
    BY DEF Checkpoint, IInv, HandlesAnItem, CheckpointBacked
  <1>2. Key \in Keys /\ Cur.hash \in Hashes
    BY <1>1, CurType DEF IInv
  <1> DEFINE r == ExportedRecord(records, Key, Cur.hash)
  <1>3. r \in Record /\ SoundRecord(r, FileHashes) /\ r.status = "EXPORTED"
    BY <1>1, <1>2, ExportedSound DEF IInv, TypeOK
  <1> HIDE DEF r
  <1>4. records' = [records EXCEPT ![Key] = r] /\ Save(records')
    BY DEF Checkpoint, r
  <1>5. records' \in Records /\ Sound(records', FileHashes)
    BY <1>2, <1>3, <1>4, SoundUpdate DEF IInv, TypeOK
  <1>6. mode = "resume" => CommittedValid(records')
    BY <1>2, <1>3, <1>4 DEF CommittedValid, Records, IInv, TypeOK, ResumeSkips
  <1> QED
    BY <1>1, <1>4, <1>5, <1>6, RecordingInv DEF Checkpoint, IInv, TypeOK

\* The commit point, and the end of a run.
LEMMA CommitInv ==
  ASSUME IInv, CommitPoint \/ Finish
  PROVE  IInv'
  <1>1. CASE CommitPoint
    <2>1. todo # <<>>
      BY <1>1 DEF CommitPoint, IInv, HandlesAnItem
    <2>2. Key \in Keys /\ Tail(todo) \in Seq(Item)
      BY <2>1, CurType DEF IInv
    <2>3. /\ records' \in Records /\ Sound(records', FileHashes)
          /\ mode = "resume" => CommittedValid(records')
      BY <1>1, <2>2, CommitSound DEF CommitPoint, IInv, TypeOK, ResumeSkips
    <2>4. Save(records') \/ UNCHANGED <<store, faults>>
      BY <1>1 DEF CommitPoint
    <2> QED
      BY <1>1, <2>2, <2>3, <2>4, RecordingInv DEF CommitPoint, ItemDone, IInv, TypeOK
  <1>2. CASE Finish
    <2>1. records' = records /\ Save(records')
      BY <1>2 DEF Finish
    <2>2. records \in Records /\ Sound(records, FileHashes)
      BY DEF IInv, TypeOK
    <2>3. mode = "resume" => CommittedValid(records)
      BY DEF IInv, ResumeSkips
    <2>4. todo' = <<>> /\ todo' \in Seq(Item) /\ pc' = "idle" /\ writer' = "closed"
      BY <1>2 DEF Finish
    <2> QED
      BY <1>2, <2>1, <2>2, <2>3, <2>4, RecordingInv DEF Finish
  <1> QED
    BY <1>1, <1>2

\* A crash keeps what is on disk and may tear the line being written.
LEMMA CrashInv ==
  ASSUME IInv, Crash
  PROVE  IInv'
  <1>1. /\ pc' = "idle" /\ todo' = <<>> /\ writer' = "closed" /\ cancelled' = FALSE
        /\ records' = NoRecords /\ index' = {} /\ driven' = {} /\ mode' = "resume"
        /\ UNCHANGED <<file, store, reruns>>
    BY DEF Crash, Die
  <1>2. tail' \in {NoTail} \cup [kind : TornKinds, hash : Hashes]
    <2>1. CASE pc = "export"
      <3>1. Cur.hash \in Hashes
        BY <2>1, CurType DEF IInv, HandlesAnItem
      <3> QED
        BY <3>1 DEF Crash, Die, Tail_, IInv, TypeOK
    <2>2. CASE pc # "export"
      BY <2>2 DEF Crash, Die, IInv, TypeOK
    <2> QED
      BY <2>1, <2>2
  <1>3. faults' \in 0..MaxFaults
    BY SessionAssumption DEF Crash, Die, Fault, IInv, TypeOK
  <1>4. records' \in Records /\ Sound(records', FileHashes) /\ CommittedValid(records')
    BY <1>1 DEF NoRecords, Records, Sound, SoundRecord, CommittedValid
  <1>5. todo' \in Seq(Item)
    BY <1>1
  <1>6. TypeOK'
    BY <1>1, <1>2, <1>3, <1>4, <1>5 DEF IInv, TypeOK, AllModes
  <1> QED
    BY <1>1, <1>4, <1>6
    DEF IInv, HandlesAnItem, FileHashes, IndexBacked, CheckpointBacked, ResumeSkips,
        PromotionProven

\* Every step, and stuttering, keeps the invariant.
LEMMA NextInv ==
  ASSUME IInv, "unterminated" \notin TornKinds, [Next]_vars
  PROVE  IInv'
  <1>1. CASE StartRun
    BY <1>1, OpenInv
  <1>2. CASE SkipClaimed \/ SkipCommitted \/ BeginPromote \/ BeginExport \/ OpenWriter
               \/ ExportFails \/ Cancel
    BY <1>2, ControlInv
  <1>3. CASE AppendLine
    BY <1>3, AppendInv
  <1>4. CASE RejectItem \/ FailItem
    BY <1>4, FailureInv
  <1>5. CASE Promote
    BY <1>5, PromoteInv
  <1>6. CASE Checkpoint
    BY <1>6, CheckpointInv
  <1>7. CASE CommitPoint \/ Finish
    BY <1>7, CommitInv
  <1>8. CASE Crash
    BY <1>8, CrashInv
  <1>9. CASE UNCHANGED vars
    BY <1>9
    DEF vars, IInv, TypeOK, HandlesAnItem, FileHashes, IndexBacked, CheckpointBacked,
        ResumeSkips, PromotionProven, Cur, Key
  <1> QED
    BY <1>1, <1>2, <1>3, <1>4, <1>5, <1>6, <1>7, <1>8, <1>9 DEF Next, Work

-----------------------------------------------------------------------------
(* The theorems. *)

\* Type correctness of the item loop over every batch, mode and fault (the
\* exporter reads a line count, a record or the head of the list only where
\* there is one), as long as an interrupted write leaves no complete object.
THEOREM TypeCorrect ==
  ASSUME "unterminated" \notin TornKinds
  PROVE  Spec => []TypeOK
  <1>1. IInv /\ [Next]_vars => IInv'
    BY NextInv
  <1>2. IInv => TypeOK
    BY DEF IInv
  <1> QED
    BY InitInv, <1>1, <1>2, PTL DEF Spec

\* Every durable record of an exported page is backed by a line of the output,
\* in every mode and whatever fails or is killed (commit_item's order: flush
\* ack, then the EXPORTED checkpoint; decide's flush proof).
THEOREM DurableRecordsBacked ==
  ASSUME "unterminated" \notin TornKinds
  PROVE  Spec => []ExportedBacked
  <1>1. IInv /\ [Next]_vars => IInv'
    BY NextInv
  <1>2. IInv => ExportedBacked
    BY DEF IInv, ExportedBacked, Sound, SoundRecord
  <1> QED
    BY InitInv, <1>1, <1>2, PTL DEF Spec

-----------------------------------------------------------------------------
(* Resumed runs that read their records leave a committed page alone: what is *)
(* committed on disk is what the running session holds.                       *)

Stays(k) == CommittedProven(store, k) => store'[k] = store[k]

Agrees(k) == CommittedProven(store, k) => records[k] = store[k]

Synced == mode = "resume" /\ (pc # "idle" => \A k \in Keys : Agrees(k))

\* A save of a session that changed no committed page.
LEMMA SaveSynced ==
  ASSUME IInv, Synced, pc # "idle", records' \in Records,
         \A k \in Keys : CommittedProven(store, k) => records'[k] = records[k],
         Save(records') \/ UNCHANGED store
  PROVE  \A k \in Keys : Stays(k) /\ Agrees(k)'
  <1> SUFFICES ASSUME NEW k \in Keys PROVE Stays(k) /\ Agrees(k)'
    OBVIOUS
  <1>1. CommittedProven(store, k) => records'[k] = store[k] /\ store[k] # NoRecord
    BY DEF Synced, Agrees, CommittedProven
  <1>2. CASE UNCHANGED store
    BY <1>1, <1>2 DEF Stays, Agrees, CommittedProven
  <1>3. CASE store' = Overlay(records', PartitionValid(store))
    <2>1. store'[k] = IF records'[k] = NoRecord THEN PartitionValid(store)[k] ELSE records'[k]
      BY <1>3 DEF Overlay
    <2>2. PartitionValid(store)[k] \in {store[k], NoRecord}
      BY PartitionSound DEF IInv, TypeOK
    <2> QED
      BY <1>1, <2>1, <2>2 DEF Stays, Agrees, CommittedProven
  <1> QED
    BY <1>2, <1>3 DEF Save

\* Each step keeps the session in step with the store and the committed pages.
LEMMA SyncedStep ==
  ASSUME IInv, Synced, Modes = {"resume"}, "load" \notin Faults, [Next]_vars
  PROVE  Synced' /\ \A k \in Keys : Stays(k)
  <1>1. CASE StartRun
    <2> PICK m \in Modes, batch \in Batches : Open(m, batch, "item")
      BY <1>1 DEF StartRun
    <2>1. mode' = "resume" /\ store' = store /\ records' = PartitionValid(store)
      BY DEF Open, Fault, durable
    <2>2. \A k \in Keys : CommittedProven(store, k) => PartitionValid(store)[k] = store[k]
      BY PartitionSound DEF IInv, TypeOK
    <2> QED
      BY <2>1, <2>2 DEF Synced, Agrees, Stays, CommittedProven
  <1>2. CASE SkipClaimed \/ SkipCommitted \/ BeginPromote \/ BeginExport \/ OpenWriter
               \/ ExportFails \/ Cancel \/ AppendLine
    <2>1. pc # "idle" /\ UNCHANGED <<store, records, mode>>
      BY <1>2 DEF SkipClaimed, SkipCommitted, BeginPromote, BeginExport, OpenWriter, ExportFails,
                  Cancel, AppendLine, Decided, Working, durable
    <2> QED
      BY <2>1 DEF Synced, Agrees, Stays, CommittedProven
  <1>3. CASE RejectItem \/ FailItem \/ Promote \/ Checkpoint
    <2>1. pc # "idle" /\ UNCHANGED mode /\ Save(records') /\ records' \in Records
      <3>1. IInv'
        BY <1>3, FailureInv, PromoteInv, CheckpointInv
      <3> QED
        BY <1>3, <3>1 DEF RejectItem, FailItem, Promote, Checkpoint, Decided, Working, IInv, TypeOK
    <2>2. NotCommitted(records, Key)
      <3>1. CASE RejectItem
        <4>1. ~CommittedProven(records, Key) /\ Key \in Keys
          BY <3>1, CurType DEF RejectItem, Decided, Decide, Working, Synced, IInv
        <4> QED
          BY <4>1 DEF CommittedProven, Reconciles, CommittedValid, NotCommitted, IInv,
                      ResumeSkips, Synced
      <3>2. CASE FailItem \/ Promote \/ Checkpoint
        BY <3>2 DEF FailItem, Promote, Checkpoint, IInv, ResumeSkips, Synced
      <3> QED
        BY <1>3, <3>1, <3>2
    <2>3. \A k \in Keys : CommittedProven(store, k) => records'[k] = records[k]
      <3>1. \A k \in Keys : k # Key => records'[k] = records[k]
        BY <1>3 DEF RejectItem, FailItem, Promote, Checkpoint, Recorded, Records, IInv, TypeOK
      <3>2. \A k \in Keys : CommittedProven(store, k) => k # Key
        BY <2>1, <2>2 DEF Synced, Agrees, CommittedProven, Reconciles, NotCommitted
      <3> QED
        BY <3>1, <3>2
    <2> QED
      BY <2>1, <2>3, SaveSynced DEF Synced
  <1>4. CASE CommitPoint \/ Finish
    <2>1. /\ pc # "idle" /\ UNCHANGED mode /\ records' \in Records
          /\ Save(records') \/ UNCHANGED store
      <3>1. IInv'
        BY <1>4, CommitInv
      <3> QED
        BY <1>4, <3>1 DEF CommitPoint, Finish, IInv, TypeOK
    <2>2. \A k \in Keys : CommittedProven(store, k) => records'[k] = records[k]
      BY <1>4, <2>1
      DEF CommitPoint, Finish, SwapToCommitted, CanCommit, Records, IInv, TypeOK, Synced, Agrees,
          CommittedProven, Reconciles
    <2> QED
      BY <2>1, <2>2, SaveSynced DEF Synced
  <1>5. CASE Crash
    BY <1>5 DEF Crash, Die, Synced, Stays
  <1>6. CASE UNCHANGED vars
    BY <1>6 DEF vars, Synced, Agrees, Stays, CommittedProven
  <1> QED
    BY <1>1, <1>2, <1>3, <1>4, <1>5, <1>6 DEF Next, Work

\* With --resume no step of any run, no save and no crash changes the record of
\* a page that is durably COMMITTED (decide, AlreadyCommitted).
THEOREM CommittedPagesStay ==
  ASSUME "unterminated" \notin TornKinds, Modes = {"resume"}, "load" \notin Faults
  PROVE  Spec => CommittedStays
  <1>1. Init => IInv /\ Synced
    BY InitInv DEF Init, Synced
  <1>2. (IInv /\ Synced) /\ [Next]_vars => (IInv /\ Synced)'
    BY NextInv, SyncedStep
  <1>3. (IInv /\ Synced) /\ [Next]_vars
          => [\A k \in Keys : CommittedProven(store, k) => store'[k] = store[k]]_store
    BY SyncedStep DEF Stays
  <1> QED
    BY <1>1, <1>2, <1>3, PTL DEF Spec, CommittedStays

-----------------------------------------------------------------------------
(* More about records and steps. *)

\* What a checkpoint and a promotion write, field by field.
LEMMA ExportedIs ==
  ASSUME NEW recs \in Records, NEW k \in Keys, NEW h \in Hashes
  PROVE  LET r == ExportedRecord(recs, k, h)
         IN  /\ r \in Record /\ r.status = "EXPORTED" /\ r.hash = h
             /\ r.located /\ r.tried /\ ~r.failed /\ ~r.migrated
  <1> DEFINE base == IF recs[k] = NoRecord \/ recs[k].status \in Terminal
                     THEN Discovered ELSE recs[k]
             d == DriveToProcessed(base)
             x == [d EXCEPT !.migrated = FALSE, !.hash = h, !.located = TRUE,
                            !.tried = TRUE, !.failed = FALSE]
  <1>1. base \in Record
    BY DEF Records, Discovered, Record, Status, Terminal
  <1>2. d \in Record
    BY <1>1, DriveType
  <1>3. /\ x \in Record /\ x.hash = h
        /\ x.located /\ x.tried /\ ~x.failed /\ ~x.migrated
    <2> HIDE DEF d
    <2> QED BY <1>2 DEF Record
  <1>4. ExportedRecord(recs, k, h) = ExportFlushed(x)
    BY DEF ExportedRecord
  <1> HIDE DEF x
  <1> QED
    BY <1>3, <1>4 DEF ExportFlushed, Record, Status, Terminal

LEMMA PromotedIs ==
  ASSUME NEW recs \in Records, NEW k \in Keys, NEW h \in Hashes
  PROVE  LET r == PromotedRecord(recs, k, h)
         IN  /\ r \in Record /\ r.status = "EXPORTED"
             /\ r.hash = h \/ (recs[k] # NoRecord /\ r = recs[k])
             /\ recs[k] = NoRecord => r.located /\ r.tried /\ ~r.failed /\ ~r.migrated
             /\ recs[k] # NoRecord /\ Reconciles(recs[k], "EXPORTED") => r = recs[k]
  <1> DEFINE base == IF recs[k] = NoRecord THEN Discovered ELSE recs[k]
             d == DriveToProcessed(base)
             x == [d EXCEPT !.hash = h]
             y == [d EXCEPT !.tried = TRUE, !.failed = FALSE, !.hash = h, !.located = TRUE]
             r == PromotedRecord(recs, k, h)
  <1>1. base \in Record /\ (recs[k] = NoRecord => base = Discovered)
    BY DEF Records, Discovered, Record, Status, Terminal
  <1>2. d \in Record /\ (recs[k] = NoRecord => ~d.migrated)
    <2>1. ~DriveToProcessed(Discovered).migrated
      BY DEF DriveToProcessed, Discovered
    <2> HIDE DEF base
    <2> QED
      BY <1>1, <2>1, DriveType
  <1>3. /\ x \in Record /\ x.hash = h
        /\ y \in Record /\ y.hash = h /\ y.located /\ y.tried /\ ~y.failed
        /\ y.migrated = d.migrated
    <2> HIDE DEF d
    <2> QED BY <1>2 DEF Record
  <1>4. \/ Reconciles(base, "EXPORTED") /\ r = base
        \/ base.status = "EXPORTED" /\ ~Valid(base) /\ r = ExportFlushed(x)
        \/ ~Reconciles(base, "EXPORTED") /\ r = ExportFlushed(y)
    BY DEF PromotedRecord, Reconciles
  <1>5. recs[k] = NoRecord => base.status # "EXPORTED"
    BY <1>1 DEF Discovered
  <1> HIDE DEF x, y, d
  <1>6. /\ ExportFlushed(x) \in Record /\ ExportFlushed(x).status = "EXPORTED"
        /\ ExportFlushed(x).hash = h
        /\ ExportFlushed(y) \in Record /\ ExportFlushed(y).status = "EXPORTED"
        /\ ExportFlushed(y).hash = h /\ ExportFlushed(y).located /\ ExportFlushed(y).tried
        /\ ~ExportFlushed(y).failed /\ ExportFlushed(y).migrated = d.migrated
    BY <1>3 DEF ExportFlushed, Record, Status, Terminal
  <1>7. CASE Reconciles(base, "EXPORTED")
    BY <1>1, <1>4, <1>5, <1>7 DEF Reconciles
  <1>8. CASE ~Reconciles(base, "EXPORTED")
    BY <1>1, <1>2, <1>4, <1>5, <1>6, <1>8 DEF Reconciles
  <1> QED
    BY <1>7, <1>8

\* A failure keeps the hash, the swap everything but the status.
LEMMA FailedIs ==
  ASSUME NEW recs \in Records, NEW k \in Keys
  PROVE  /\ FailedRecord(recs, k) \in Record
         /\ FailedRecord(recs, k).hash = IF recs[k] = NoRecord THEN NoHash ELSE recs[k].hash
  <1> DEFINE base == IF recs[k] = NoRecord THEN Discovered ELSE recs[k]
  <1>1. base \in Record /\ base.hash = IF recs[k] = NoRecord THEN NoHash ELSE recs[k].hash
    BY DEF Records, Discovered, Record, Status, Terminal
  <1>2. FailedRecord(recs, k) = [base EXCEPT !.tried = TRUE, !.failed = TRUE]
    BY DEF FailedRecord
  <1> HIDE DEF base
  <1> QED
    BY <1>1, <1>2 DEF Record

LEMMA SwapIs ==
  ASSUME NEW recs \in Records, NEW k \in Keys
  PROVE  /\ SwapToCommitted(recs, k) \in Records
         /\ ~CanCommit(recs[k]) => SwapToCommitted(recs, k) = recs
         /\ CanCommit(recs[k]) =>
              /\ Commit(recs[k]) \in Record /\ Commit(recs[k]).status = "COMMITTED"
              /\ Commit(recs[k]).hash = recs[k].hash /\ Commit(recs[k]).migrated = recs[k].migrated
              /\ SwapToCommitted(recs, k) = [recs EXCEPT ![k] = Commit(recs[k])]
  <1>1. CASE CanCommit(recs[k])
    <2>1. recs[k] \in Record
      BY <1>1 DEF CanCommit, Records
    <2>2. /\ Commit(recs[k]) \in Record /\ Commit(recs[k]).status = "COMMITTED"
          /\ Commit(recs[k]).hash = recs[k].hash /\ Commit(recs[k]).migrated = recs[k].migrated
      BY <2>1 DEF Commit, Record, Status, Terminal
    <2>3. SwapToCommitted(recs, k) = [recs EXCEPT ![k] = Commit(recs[k])]
      BY <1>1 DEF SwapToCommitted
    <2> QED
      BY <1>1, <2>2, <2>3 DEF Records
  <1>2. CASE ~CanCommit(recs[k])
    BY <1>2 DEF SwapToCommitted
  <1> QED
    BY <1>1, <1>2

-----------------------------------------------------------------------------
(* How a step changes what is held and what is stored. *)

\* Either nothing, or the records the session then holds go over the durable ones.
LEMMA StoreMoves ==
  ASSUME IInv, [Next]_vars
  PROVE  \/ store' = store
         \/ /\ mode # "plain" /\ mode' = mode /\ pc # "idle" /\ file' = file
            /\ store' = Overlay(records', PartitionValid(store))
  <1>1. CASE StartRun \/ Crash \/ Cancel \/ UNCHANGED vars \/ SkipClaimed \/ SkipCommitted
              \/ BeginPromote \/ BeginExport \/ OpenWriter \/ AppendLine \/ ExportFails
    BY <1>1 DEF StartRun, Open, Crash, Die, Cancel, vars, SkipClaimed, SkipCommitted, BeginPromote,
                BeginExport, OpenWriter, AppendLine, ExportFails, durable
  <1>2. CASE RejectItem \/ FailItem \/ Promote \/ Checkpoint \/ CommitPoint \/ Finish
    <2>1. /\ Save(records') \/ UNCHANGED store
          /\ mode' = mode /\ pc # "idle" /\ file' = file
      BY <1>2 DEF RejectItem, FailItem, Promote, Checkpoint, CommitPoint, Finish, Decided, Working
    <2> QED
      BY <2>1 DEF Save
  <1> QED
    BY <1>1, <1>2 DEF Next, Work

-----------------------------------------------------------------------------
(* No save persists a record that the next load refuses.  A COMMITTED record  *)
(* fails only in a run that keeps its records without consulting them.        *)

VInv == mode # "fresh" /\ CommittedValid(store)

LEMMA VInvStep ==
  ASSUME IInv, IInv', VInv, "fresh" \notin Modes, [Next]_vars
  PROVE  VInv'
  <1>1. mode' # "fresh"
    BY DEF VInv, Next, Work, vars, StartRun, Open, Crash, Die, Cancel, SkipClaimed, SkipCommitted,
           BeginPromote, BeginExport, OpenWriter, AppendLine, ExportFails, RejectItem, FailItem,
           Promote, Checkpoint, CommitPoint, Finish
  <1>2. CASE store' = store
    BY <1>1, <1>2 DEF VInv, CommittedValid
  <1>3. CASE /\ mode # "plain" /\ mode' = mode
             /\ store' = Overlay(records', PartitionValid(store))
    <2>1. mode' = "resume"
      BY <1>1, <1>3 DEF IInv, TypeOK, AllModes
    <2>2. CommittedValid(records') /\ CommittedValid(PartitionValid(store))
      BY <2>1, PartitionSound DEF IInv, TypeOK, ResumeSkips
    <2> QED
      BY <1>1, <1>3, <2>2 DEF VInv, CommittedValid, Overlay
  <1> QED
    BY <1>2, <1>3, StoreMoves

\* In runs with --resume or without any context, whatever fails or is killed, no
\* save persists a record that the next load would refuse (merge_persist writes
\* what the typed transitions made; the D2 table reads it).
THEOREM SavedRecordsValid ==
  ASSUME "unterminated" \notin TornKinds, "fresh" \notin Modes
  PROVE  Spec => []StoreValid
  <1>1. Init => VInv
    <2> SUFFICES ASSUME Init PROVE VInv
      OBVIOUS
    <2>1. Valid(Migrated)
      BY DEF Migrated, Discovered, Valid, Terminal
    <2> QED
      BY <2>1 DEF Init, VInv, CommittedValid
  <1>2. IInv /\ [Next]_vars => IInv'
    BY NextInv
  <1>3. IInv /\ IInv' /\ VInv /\ [Next]_vars => VInv'
    BY VInvStep
  <1>4. IInv /\ VInv => StoreValid
    <2> SUFFICES ASSUME IInv, VInv, NEW k \in Keys, store[k] # NoRecord
                 PROVE  Valid(store[k])
      BY DEF StoreValid
    <2>1. CASE store[k].status \in Terminal
      BY <2>1 DEF IInv, VInv, Sound, SoundRecord, CommittedValid, Terminal
    <2>2. CASE store[k].status \notin Terminal
      BY <2>2 DEF Valid, Terminal
    <2> QED
      BY <2>1, <2>2
  <1> QED
    BY InitInv, <1>1, <1>2, <1>3, <1>4, PTL DEF Spec

-----------------------------------------------------------------------------
(* Contents that belong to one page each: owner names it. *)

OnePageEach(owner) ==
    /\ owner \in [Hashes -> Keys]
    /\ \A batch \in Batches : \A i \in DOMAIN batch : owner[batch[i].hash] = Canon[batch[i].url]

Owns(owner, recs) == \A k \in Keys : recs[k] # NoRecord /\ recs[k].hash \in Hashes => owner[recs[k].hash] = k

\* What a run is given, what it appends and what it records is the owner's.
OInv(owner) ==
    /\ \A i \in DOMAIN todo : owner[todo[i].hash] = Canon[todo[i].url]
    /\ \A i \in DOMAIN file : owner[file[i].hash] = Canon[file[i].url]
    /\ Owns(owner, store) /\ Owns(owner, records)

LEMMA OwnsUpdate ==
  ASSUME NEW owner, NEW recs \in Records, Owns(owner, recs), NEW k \in Keys, NEW r \in Record,
         r.hash \in Hashes => owner[r.hash] = k
  PROVE  Owns(owner, [recs EXCEPT ![k] = r])
  BY DEF Owns, Records

LEMMA OwnsLoaded ==
  ASSUME NEW owner, NEW recs \in Records, Owns(owner, recs)
  PROVE  Owns(owner, PartitionValid(recs)) /\ Owns(owner, NoRecords)
  BY DEF Owns, PartitionValid, NoRecords

\* What an item makes of its page's record has the item's hash, or the record's.
LEMMA RecordsOwned ==
  ASSUME NEW owner, OnePageEach(owner), IInv, OInv(owner),
         RejectItem \/ FailItem \/ Promote \/ Checkpoint \/ CommitPoint \/ Finish
  PROVE  Owns(owner, records')
  <1>1. records \in Records /\ Owns(owner, records)
    BY DEF IInv, TypeOK, OInv
  <1>2. CASE Finish
    BY <1>1, <1>2 DEF Finish
  <1>3. CASE RejectItem \/ FailItem \/ Promote \/ Checkpoint \/ CommitPoint
    <2>1. todo # <<>> /\ todo \in Seq(Item)
      BY <1>3 DEF RejectItem, Decided, Working, FailItem, Promote, Checkpoint, CommitPoint,
                  IInv, TypeOK, HandlesAnItem
    <2>2. /\ Key \in Keys /\ Cur.hash \in Hashes /\ owner[Cur.hash] = Key
      <3>1. 1 \in DOMAIN todo /\ Cur = todo[1]
        BY <2>1 DEF Cur
      <3> QED
        BY <2>1, <3>1, CurType DEF IInv, OInv, Key
    <2>3. CASE RejectItem \/ FailItem
      <3>1. records' = records \/ records' = [records EXCEPT ![Key] = FailedRecord(records, Key)]
        BY <2>3 DEF RejectItem, FailItem, Recorded
      <3>2. /\ FailedRecord(records, Key) \in Record
            /\ FailedRecord(records, Key).hash \in Hashes => owner[FailedRecord(records, Key).hash] = Key
        BY <1>1, <2>2, FailedIs, RecordAssumption DEF Owns
      <3> QED
        BY <1>1, <2>2, <3>1, <3>2, OwnsUpdate
    <2>4. CASE Promote
      <3> DEFINE r == PromotedRecord(records, Key, Cur.hash)
      <3>1. r \in Record /\ (r.hash \in Hashes => owner[r.hash] = Key)
        BY <1>1, <2>2, PromotedIs DEF Owns
      <3> HIDE DEF r
      <3>2. records' = [records EXCEPT ![Key] = r]
        BY <2>4 DEF Promote, r
      <3> QED
        BY <1>1, <2>2, <3>1, <3>2, OwnsUpdate
    <2>5. CASE Checkpoint
      <3> DEFINE r == ExportedRecord(records, Key, Cur.hash)
      <3>1. r \in Record /\ (r.hash \in Hashes => owner[r.hash] = Key)
        BY <1>1, <2>2, ExportedIs
      <3> HIDE DEF r
      <3>2. records' = [records EXCEPT ![Key] = r]
        BY <2>5 DEF Checkpoint, r
      <3> QED
        BY <1>1, <2>2, <3>1, <3>2, OwnsUpdate
    <2>6. CASE CommitPoint
      <3>1. records' = SwapToCommitted(records, Key)
        BY <2>6 DEF CommitPoint
      <3>2. CASE CanCommit(records[Key])
        <4> DEFINE r == Commit(records[Key])
        <4>1. /\ records[Key] # NoRecord /\ r \in Record /\ r.hash = records[Key].hash
              /\ records' = [records EXCEPT ![Key] = r]
          BY <1>1, <2>2, <3>1, <3>2, SwapIs DEF CanCommit
        <4> HIDE DEF r
        <4>2. r.hash \in Hashes => owner[r.hash] = Key
          BY <1>1, <2>2, <4>1 DEF Owns
        <4> QED
          BY <1>1, <2>2, <4>1, <4>2, OwnsUpdate
      <3>3. CASE ~CanCommit(records[Key])
        BY <1>1, <2>2, <3>1, <3>3, SwapIs
      <3> QED
        BY <3>2, <3>3
    <2> QED
      BY <1>3, <2>3, <2>4, <2>5, <2>6
  <1> QED
    BY <1>2, <1>3

LEMMA OInvStep ==
  ASSUME NEW owner, OnePageEach(owner), IInv, OInv(owner), [Next]_vars
  PROVE  OInv(owner)'
  <1>1. store \in Records /\ records \in Records /\ Owns(owner, store) /\ Owns(owner, records)
    BY DEF IInv, TypeOK, OInv
  <1>2. Owns(owner, records')
    <2>1. CASE StartRun \/ Crash
      <3>1. records' = PartitionValid(store) \/ records' = NoRecords
        BY <2>1 DEF StartRun, Open, Crash, Die
      <3> QED
        BY <1>1, <3>1, OwnsLoaded
    <2>2. CASE RejectItem \/ FailItem \/ Promote \/ Checkpoint \/ CommitPoint \/ Finish
      BY <2>2, RecordsOwned
    <2>3. CASE Cancel \/ UNCHANGED vars \/ SkipClaimed \/ SkipCommitted
                \/ BeginPromote \/ BeginExport \/ OpenWriter \/ AppendLine \/ ExportFails
      BY <1>1, <2>3 DEF Cancel, vars, SkipClaimed, SkipCommitted, BeginPromote,
                        BeginExport, OpenWriter, AppendLine, ExportFails
    <2> QED
      BY <2>1, <2>2, <2>3 DEF Next, Work
  <1>3. Owns(owner, store')
    <2>1. CASE store' = Overlay(records', PartitionValid(store))
      BY <1>1, <1>2, <2>1, OwnsLoaded DEF Owns, Overlay
    <2> QED
      BY <1>1, <2>1, StoreMoves
  <1>4. \A i \in DOMAIN todo' : owner[todo'[i].hash] = Canon[todo'[i].url]
    <2>1. \/ todo' = todo \/ todo' = <<>> \/ (todo # <<>> /\ todo' = Tail(todo))
          \/ todo' \in Batches
      BY DEF Next, Work, vars, StartRun, Open, Crash, Die, Cancel, SkipClaimed, SkipCommitted,
             BeginPromote, BeginExport, OpenWriter, AppendLine, ExportFails, RejectItem, FailItem,
             Promote, Checkpoint, CommitPoint, Finish, ItemDone, Decided, Working, IInv, HandlesAnItem
    <2>2. CASE todo # <<>> /\ todo' = Tail(todo)
      <3>1. \A i \in DOMAIN todo' : i + 1 \in DOMAIN todo /\ todo'[i] = todo[i + 1]
        <4>1. todo \in Seq(Item)
          BY DEF IInv, TypeOK
        <4>2. \A i \in DOMAIN Tail(todo) : i + 1 \in DOMAIN todo /\ Tail(todo)[i] = todo[i + 1]
          BY <2>2, <4>1, TailIs
        <4> QED
          BY <2>2, <4>2
      <3> QED
        BY <3>1 DEF OInv
    <2> QED
      BY <2>1, <2>2 DEF OInv, OnePageEach
  <1>5. \A i \in DOMAIN file' : owner[file'[i].hash] = Canon[file'[i].url]
    <2>1. CASE file' = file
      BY <2>1 DEF OInv
    <2>2. CASE AppendLine
      <3>1. todo # <<>> /\ todo \in Seq(Item) /\ file \in Seq(Line)
        BY <2>2 DEF AppendLine, IInv, TypeOK, HandlesAnItem
      <3>2. 1 \in DOMAIN todo /\ Cur = todo[1]
        BY <3>1 DEF Cur
      <3>3. /\ DOMAIN file' = 1..(Len(file) + 1) /\ DOMAIN file = 1..Len(file) /\ Len(file) \in Nat
            /\ \A i \in 1..Len(file) : file'[i] = file[i]
            /\ file'[Len(file) + 1] = [url |-> Cur.url, hash |-> Cur.hash]
        BY <2>2, <3>1 DEF AppendLine
      <3> QED
        BY <3>2, <3>3 DEF OInv
    <2>3. file' = file \/ AppendLine
      BY DEF Next, Work, vars, StartRun, Open, Crash, Die, Cancel, SkipClaimed, SkipCommitted,
             BeginPromote, BeginExport, OpenWriter, AppendLine, ExportFails, RejectItem, FailItem,
             Promote, Checkpoint, CommitPoint, Finish, durable
    <2> QED
      BY <2>1, <2>2, <2>3
  <1> QED
    BY <1>2, <1>3, <1>4, <1>5 DEF OInv

LEMMA OInvInit == ASSUME NEW owner, Init PROVE OInv(owner)
  <1>1. \A k \in Keys : store[k] # NoRecord => store[k].hash = NoHash
    BY DEF Init, Migrated, Discovered
  <1> QED
    BY <1>1, RecordAssumption DEF Init, OInv, Owns, NoRecords

LEMMA OwnLine ==
  ASSUME NEW owner, IInv, OInv(owner)
  PROVE  CommittedHasOwnLine
  <1> SUFFICES ASSUME NEW k \in Keys, CommittedProven(store, k), ~store[k].migrated
               PROVE  \E i \in DOMAIN file : Canon[file[i].url] = k /\ file[i].hash = store[k].hash
    BY DEF CommittedHasOwnLine
  <1>1. store[k] # NoRecord /\ store[k].hash \in FileHashes
    BY DEF CommittedProven, Reconciles, IInv, Sound, SoundRecord, Terminal
  <1>2. PICK i \in DOMAIN file : file[i].hash = store[k].hash
    BY <1>1 DEF FileHashes
  <1>3. owner[store[k].hash] = k
    BY <1>1, FileHashesType DEF IInv, OInv, Owns
  <1> QED
    BY <1>2, <1>3 DEF OInv

\* When no two pages share a content, a committed page has a line of its own: in
\* every mode, whatever fails or is killed (commit_item, promote_from_flush_proof).
THEOREM CommittedPagesHaveTheirLine ==
  ASSUME "unterminated" \notin TornKinds, NEW owner, OnePageEach(owner)
  PROVE  Spec => []CommittedHasOwnLine
  <1>1. IInv /\ [Next]_vars => IInv'
    BY NextInv
  <1>2. IInv /\ OInv(owner) /\ [Next]_vars => OInv(owner)'
    BY OInvStep
  <1>3. IInv /\ OInv(owner) => CommittedHasOwnLine
    BY OwnLine
  <1>4. Init => OInv(owner)
    BY OInvInit
  <1> QED
    BY InitInv, <1>1, <1>2, <1>3, <1>4, PTL DEF Spec

-----------------------------------------------------------------------------
(* Resumed runs in which no item fails: all that is recorded are exported     *)
(* pages, and each of them can be committed.                                  *)

NoItemFails == Modes = {"resume"} /\ "write" \notin Faults /\ BadHashes = {}

CleanRecord(r) ==
    /\ r.status \in Terminal /\ Valid(r)
    /\ r.status = "EXPORTED" => ~r.migrated /\ r.tried /\ ~r.failed

Clean(recs) == \A k \in Keys : recs[k] # NoRecord => CleanRecord(recs[k])

Handling == {"promote", "export", "checkpoint", "commit"}

IsCommitted(recs, k) == recs[k] # NoRecord /\ recs[k].status = "COMMITTED"

\* What the run claimed it has committed, except for the item in its hands.
Taken ==
    \A u \in Urls, h \in Hashes :
        <<u, h>> \in driven =>
            IsCommitted(records, Canon[u]) \/ (pc \in Handling /\ Canon[u] = Key)

RunClean ==
    /\ mode = "resume" /\ writer # "dead" /\ pc # "fail"
    /\ Clean(records)
    /\ pc = "commit" => records[Key] # NoRecord /\ records[Key].status = "EXPORTED"
    /\ pc # "idle" => Taken

CInv == RunClean /\ Clean(store)

LEMMA CleanOperators ==
  ASSUME NEW recs \in Records, Clean(recs)
  PROVE  /\ Clean(PartitionValid(recs)) /\ Clean(NoRecords)
         /\ \A k \in Keys, r \in Record : CleanRecord(r) => Clean([recs EXCEPT ![k] = r])
  BY DEF Clean, Records, PartitionValid, NoRecords

\* An exported page can be committed.
LEMMA CleanCommits ==
  ASSUME NEW r \in Record, CleanRecord(r), r.status = "EXPORTED"
  PROVE  CanCommit(r) /\ CleanRecord(Commit(r))
  <1>1. /\ Commit(r).status = "COMMITTED" /\ Commit(r).hash = r.hash /\ Commit(r).located = r.located
        /\ Commit(r).tried = r.tried /\ Commit(r).failed = r.failed /\ Commit(r).migrated = r.migrated
    BY DEF Commit, Record, Status, Terminal
  <1>2. Valid(Commit(r))
    BY <1>1 DEF CleanRecord, Valid, Terminal
  <1> QED
    BY <1>1, <1>2, RecordAssumption DEF CleanRecord, CanCommit, Reconciles, Terminal

LEMMA NothingFails ==
  ASSUME NoItemFails, CInv
  PROVE  ~RejectItem /\ ~ExportFails /\ ~FailItem
  BY DEF NoItemFails, CInv, RunClean, RejectItem, ExportFails, Fault, FailItem

\* The record a promotion or a checkpoint writes.
LEMMA AdvanceClean ==
  ASSUME IInv, CInv, Promote \/ Checkpoint
  PROVE  /\ Key \in Keys /\ todo # <<>>
         /\ \E r \in Record : /\ CleanRecord(r) /\ r.status = "EXPORTED"
                              /\ records' = [records EXCEPT ![Key] = r]
  <1>1. todo # <<>> /\ Key \in Keys /\ Cur.hash \in Hashes /\ records \in Records
    BY CurType DEF Promote, Checkpoint, IInv, TypeOK, HandlesAnItem
  <1>2. CASE Checkpoint
    <2> DEFINE r == ExportedRecord(records, Key, Cur.hash)
    <2>1. /\ r \in Record /\ r.status = "EXPORTED" /\ r.hash = Cur.hash
          /\ r.located /\ r.tried /\ ~r.failed /\ ~r.migrated
      BY <1>1, ExportedIs
    <2> HIDE DEF r
    <2>2. CleanRecord(r)
      BY <1>1, <2>1, RecordAssumption DEF CleanRecord, Valid, Terminal
    <2>3. records' = [records EXCEPT ![Key] = r]
      BY <1>2 DEF Checkpoint, r
    <2> QED
      BY <1>1, <2>1, <2>2, <2>3
  <1>3. CASE Promote
    <2> DEFINE r == PromotedRecord(records, Key, Cur.hash)
    <2>1. NotCommitted(records, Key) /\ (records[Key] # NoRecord => CleanRecord(records[Key]))
      BY <1>1, <1>3 DEF Promote, IInv, ResumeSkips, CInv, RunClean, Clean
    <2>2. records[Key] # NoRecord => Reconciles(records[Key], "EXPORTED")
      BY <2>1 DEF NotCommitted, CleanRecord, Reconciles, Terminal
    <2>3. /\ r \in Record /\ r.status = "EXPORTED"
          /\ records[Key] = NoRecord =>
                r.hash = Cur.hash /\ r.located /\ r.tried /\ ~r.failed /\ ~r.migrated
          /\ records[Key] # NoRecord => r = records[Key]
      BY <1>1, <2>2, PromotedIs
    <2> HIDE DEF r
    <2>4. CleanRecord(r)
      BY <1>1, <2>1, <2>3, RecordAssumption DEF CleanRecord, Valid, Terminal
    <2>5. records' = [records EXCEPT ![Key] = r]
      BY <1>3 DEF Promote, r
    <2> QED
      BY <1>1, <2>3, <2>4, <2>5
  <1> QED
    BY <1>2, <1>3

\* Nothing keeps a page in hand from its commit point.
LEMMA CommitClean ==
  ASSUME IInv, CInv, CommitPoint
  PROVE  /\ Key \in Keys /\ todo # <<>> /\ CanCommit(records[Key])
         /\ Commit(records[Key]) \in Record /\ CleanRecord(Commit(records[Key]))
         /\ Commit(records[Key]).status = "COMMITTED"
         /\ records' = [records EXCEPT ![Key] = Commit(records[Key])]
  <1>1. todo # <<>> /\ Key \in Keys /\ records \in Records
    BY CurType DEF CommitPoint, IInv, TypeOK, HandlesAnItem
  <1>2. /\ records[Key] \in Record /\ CleanRecord(records[Key]) /\ records[Key].status = "EXPORTED"
    BY <1>1 DEF CommitPoint, CInv, RunClean, Clean, Records
  <1> QED
    BY <1>1, <1>2, CleanCommits, SwapIs DEF CommitPoint

LEMMA RunCleanStep ==
  ASSUME NoItemFails, IInv, CInv, [Next]_vars
  PROVE  RunClean'
  <1>1. /\ store \in Records /\ records \in Records /\ mode = "resume"
        /\ Clean(store) /\ Clean(records)
    BY DEF IInv, TypeOK, CInv, RunClean
  <1>2. CASE StartRun
    <2>1. /\ mode' = "resume" /\ writer' = "closed" /\ pc' = "item" /\ driven' = {}
          /\ records' = PartitionValid(store) \/ records' = NoRecords
      BY <1>2 DEF StartRun, Open, NoItemFails
    <2> QED
      BY <1>1, <2>1, CleanOperators DEF RunClean, Taken
  <1>3. CASE SkipClaimed \/ Cancel \/ OpenWriter \/ AppendLine \/ UNCHANGED vars
    <2>1. /\ UNCHANGED <<records, mode, driven>> /\ writer' \in {writer, "open"}
          /\ \/ pc' = pc /\ todo' = todo
             \/ pc = "item" /\ pc' = "item"
             \/ pc = "export" /\ pc' = "checkpoint" /\ todo' = todo
      BY <1>3 DEF SkipClaimed, Working, Cancel, OpenWriter, AppendLine, vars, bounds
    <2> QED
      BY <1>1, <2>1 DEF CInv, RunClean, Taken, Handling, Key, Cur, IsCommitted
  <1>4. CASE SkipCommitted \/ BeginPromote \/ BeginExport
    <2>1. /\ UNCHANGED <<records, mode, writer>> /\ driven' = driven \cup {<<Cur.url, Cur.hash>>}
          /\ pc = "item" /\ todo # <<>>
          /\ \/ pc' = "item" /\ Decide(records, Key, Cur.hash) = "skip"
             \/ pc' \in {"promote", "export"} /\ todo' = todo
      BY <1>4 DEF SkipCommitted, BeginPromote, BeginExport, Decided, Working, Claim
    <2>2. CASE pc' = "item" /\ Decide(records, Key, Cur.hash) = "skip"
      <3>1. IsCommitted(records, Key)
        BY <2>2 DEF Decide, CommittedProven, Reconciles, IsCommitted
      <3> QED
        BY <1>1, <2>1, <2>2, <3>1 DEF CInv, RunClean, Taken, Handling, Key, IsCommitted
    <2>3. CASE pc' \in {"promote", "export"} /\ todo' = todo
      BY <1>1, <2>1, <2>3 DEF CInv, RunClean, Taken, Handling, Key, Cur, IsCommitted
    <2> QED
      BY <2>1, <2>2, <2>3
  <1>5. CASE Promote \/ Checkpoint
    <2>1. PICK r \in Record : /\ CleanRecord(r) /\ r.status = "EXPORTED"
                              /\ records' = [records EXCEPT ![Key] = r]
      BY <1>5, AdvanceClean
    <2>2. Key \in Keys
      BY <1>5, AdvanceClean
    <2>3. /\ pc' = "commit" /\ pc \in Handling
          /\ UNCHANGED <<todo, mode, driven, writer>>
      BY <1>5 DEF Promote, Checkpoint, Handling
    <2>4. Key' = Key
      BY <2>3 DEF Key, Cur
    <2>5. records'[Key] = r /\ \A k \in Keys : k # Key => records'[k] = records[k]
      BY <1>1, <2>1, <2>2 DEF Records
    <2>6. Clean(records')
      BY <1>1, <2>1, <2>2, CleanOperators
    <2>7. Taken'
      <3>1. \A u \in Urls : Canon[u] \in Keys
        BY SessionAssumption
      <3> QED
        BY <2>3, <2>4, <2>5, <3>1 DEF CInv, RunClean, Taken, Handling, IsCommitted
    <2> QED
      BY <1>1, <2>1, <2>3, <2>4, <2>5, <2>6, <2>7, RecordAssumption DEF CInv, RunClean
  <1>6. CASE CommitPoint
    <2> DEFINE c == Commit(records[Key])
    <2>1. /\ Key \in Keys /\ c \in Record /\ CleanRecord(c) /\ c.status = "COMMITTED"
          /\ records' = [records EXCEPT ![Key] = c]
      BY <1>6, CommitClean
    <2> HIDE DEF c
    <2>2. /\ pc = "commit" /\ pc' \in {"item", "drain"} /\ UNCHANGED <<mode, driven, writer>>
      BY <1>6 DEF CommitPoint, ItemDone
    <2>3. records'[Key] = c /\ \A k \in Keys : k # Key => records'[k] = records[k]
      BY <1>1, <2>1 DEF Records
    <2>4. Clean(records')
      BY <1>1, <2>1, CleanOperators
    <2>5. Taken'
      <3>1. \A u \in Urls : Canon[u] \in Keys
        BY SessionAssumption
      <3> QED
        BY <2>1, <2>2, <2>3, <3>1, RecordAssumption DEF CInv, RunClean, Taken, Handling, IsCommitted
    <2> QED
      BY <1>1, <2>2, <2>4, <2>5 DEF CInv, RunClean
  <1>7. CASE Finish \/ Crash
    <2>1. /\ pc' = "idle" /\ mode' = "resume" /\ writer' = "closed"
          /\ records' = records \/ records' = NoRecords
      BY <1>1, <1>7 DEF Finish, Crash, Die
    <2> QED
      BY <1>1, <2>1, CleanOperators DEF RunClean
  <1> QED
    BY <1>2, <1>3, <1>4, <1>5, <1>6, <1>7, NothingFails DEF Next, Work

LEMMA CInvStep ==
  ASSUME NoItemFails, IInv, CInv, [Next]_vars
  PROVE  CInv'
  <1>1. store \in Records /\ Clean(store) /\ RunClean' 
    BY RunCleanStep DEF IInv, TypeOK, CInv
  <1>2. Clean(store')
    <2>1. CASE store' = Overlay(records', PartitionValid(store))
      <3>1. Clean(PartitionValid(store)) /\ Clean(records')
        BY <1>1, CleanOperators DEF RunClean
      <3> QED
        BY <2>1, <3>1 DEF Clean, Overlay
    <2> QED
      BY <1>1, <2>1, StoreMoves
  <1> QED
    BY <1>1, <1>2 DEF CInv

LEMMA CInvInit == NoItemFails /\ Init => CInv
  <1> SUFFICES ASSUME NoItemFails, Init PROVE CInv
    OBVIOUS
  <1>1. CleanRecord(Migrated)
    BY DEF CleanRecord, Migrated, Discovered, Valid, Terminal
  <1> QED
    BY <1>1 DEF Init, CInv, RunClean, Clean, NoRecords

\* When no item of any run fails, then whenever a run is between items or drains
\* after cancellation, every line it appended has been taken through its commit
\* point (process_single_item is not interrupted between append and commit).
THEOREM DrainIsHonest ==
  ASSUME "unterminated" \notin TornKinds, NoItemFails
  PROVE  Spec => []DrainHonest
  <1>1. IInv /\ [Next]_vars => IInv'
    BY NextInv
  <1>2. IInv /\ CInv /\ [Next]_vars => CInv'
    BY CInvStep
  <1>3. IInv /\ CInv => DrainHonest
    <2> SUFFICES ASSUME IInv, CInv, pc \in {"item", "drain"}, NEW i \in DOMAIN file,
                        <<file[i].url, file[i].hash>> \in driven
                 PROVE  IsCommitted(records, Canon[file[i].url])
      BY DEF DrainHonest, IsCommitted
    <2>1. file[i].url \in Urls /\ file[i].hash \in Hashes
      <3>1. file \in Seq(Line)
        BY DEF IInv, TypeOK
      <3>2. file[i] \in Line
        BY <3>1
      <3> QED
        BY <3>2 DEF Line
    <2> QED
      BY <2>1 DEF CInv, RunClean, Taken, Handling
  <1>4. Init => CInv
    BY CInvInit
  <1> QED
    BY InitInv, <1>1, <1>2, <1>3, <1>4, PTL DEF Spec

-----------------------------------------------------------------------------
(* Exactly once: what the file held when the run opened is in the index, what *)
(* it holds since then was claimed.                                           *)

LineOf(u, h) == [url |-> u, hash |-> h]

Accounted ==
    \A i \in DOMAIN file : file[i].hash \in index \/ <<file[i].url, file[i].hash>> \in driven

\* What a run finds exported is in the index.
ExportsIndexed ==
    \A k \in Keys :
        records[k] # NoRecord /\ records[k].status = "EXPORTED" =>
            records[k].hash \in index \/ (pc = "commit" /\ k = Key)

DInv ==
    /\ pc # "idle" => Accounted /\ ExportsIndexed
    /\ pc = "export" => /\ \A i \in DOMAIN file : file[i] # LineOf(Cur.url, Cur.hash)
                        /\ <<Cur.url, Cur.hash>> \in driven
    /\ NoDuplicateLine

\* Only a page without a record is driven, and its content is not in the index.
LEMMA DrivenIsNew ==
  ASSUME IInv, CInv, DInv, BeginExport
  PROVE  \A i \in DOMAIN file : file[i] # LineOf(Cur.url, Cur.hash)
  <1>1. /\ pc = "item" /\ todo # <<>> /\ <<Cur.url, Cur.hash>> \notin driven
        /\ Decide(records, Key, Cur.hash) = "drive"
    BY DEF BeginExport, Decided, Working, Claim
  <1>2. Key \in Keys /\ mode = "resume" /\ CommittedValid(records)
    BY <1>1, CurType DEF IInv, CInv, RunClean, ResumeSkips
  <1>3. /\ ~CommittedProven(records, Key)
        /\ (IF records[Key] = NoRecord THEN Cur.hash ELSE records[Key].hash) \notin index
    BY <1>1, <1>2 DEF Decide
  <1>4. records[Key] = NoRecord
    <2> SUFFICES ASSUME records[Key] # NoRecord PROVE FALSE
      OBVIOUS
    <2>1. records[Key].status \in {"EXPORTED", "COMMITTED"}
      BY <1>2 DEF CInv, RunClean, Clean, CleanRecord, Terminal
    <2>2. records[Key].status # "COMMITTED"
      BY <1>2, <1>3 DEF CommittedProven, Reconciles, CommittedValid
    <2> QED
      BY <1>1, <1>2, <1>3, <2>1, <2>2 DEF DInv, ExportsIndexed
  <1> QED
    BY <1>1, <1>3, <1>4 DEF DInv, Accounted, LineOf

LEMMA DInvStep ==
  ASSUME "unterminated" \notin TornKinds, "codepoint" \notin TornKinds, NoItemFails,
         IInv, CInv, DInv, [Next]_vars
  PROVE  DInv'
  <1>1. /\ store \in Records /\ records \in Records /\ file \in Seq(Line)
        /\ Clean(store) /\ Clean(records) /\ Sound(store, FileHashes)
    BY DEF IInv, TypeOK, CInv, RunClean
  <1>2. CASE StartRun
    <2>1. /\ file' = file /\ pc' = "item" /\ index' = IndexOf
          /\ records' = PartitionValid(store) \/ records' = NoRecords
      BY <1>2 DEF StartRun, Open, durable, NoItemFails
    <2>2. index' = FileHashes
      BY <2>1 DEF IInv, TypeOK, NoTail, IndexOf
    <2>3. Accounted'
      BY <2>1, <2>2 DEF Accounted, FileHashes
    <2>4. \A k \in Keys : records'[k] # NoRecord => SoundRecord(records'[k], FileHashes)
                                                   /\ CleanRecord(records'[k])
      <3>1. CASE records' = PartitionValid(store)
        BY <1>1, <3>1, PartitionSound, CleanOperators DEF Sound, Clean
      <3>2. CASE records' = NoRecords
        BY <3>2 DEF NoRecords
      <3> QED
        BY <2>1, <3>1, <3>2
    <2>5. ExportsIndexed'
      BY <2>2, <2>4 DEF ExportsIndexed, SoundRecord, CleanRecord, Terminal
    <2> QED
      BY <2>1, <2>3, <2>5 DEF DInv, NoDuplicateLine
  <1>3. CASE SkipClaimed \/ Cancel \/ OpenWriter \/ UNCHANGED vars
    <2>1. /\ UNCHANGED <<file, records, index, driven>> /\ pc' = pc
          /\ todo' = todo \/ pc = "item"
      BY <1>3 DEF SkipClaimed, Working, Cancel, OpenWriter, vars, durable, bounds
    <2> QED
      BY <2>1 DEF DInv, Accounted, ExportsIndexed, NoDuplicateLine, Key, Cur
  <1>4. CASE SkipCommitted \/ BeginPromote \/ BeginExport
    <2>1. /\ UNCHANGED <<file, records, index>> /\ driven' = driven \cup {<<Cur.url, Cur.hash>>}
          /\ pc = "item" /\ pc' \in {"item", "promote", "export"}
          /\ pc' = "export" => BeginExport
          /\ pc' # "item" => todo' = todo
      BY <1>4 DEF SkipCommitted, BeginPromote, BeginExport, Decided, Working, Claim, durable
    <2>2. pc' = "export" => /\ \A i \in DOMAIN file' : file'[i] # LineOf(Cur'.url, Cur'.hash)
                            /\ <<Cur'.url, Cur'.hash>> \in driven'
      BY <2>1, DrivenIsNew DEF Cur
    <2>3. Accounted' /\ ExportsIndexed'
      BY <2>1 DEF DInv, Accounted, ExportsIndexed
    <2> QED
      BY <2>1, <2>2, <2>3 DEF DInv, NoDuplicateLine
  <1>5. CASE AppendLine
    <2>1. /\ pc = "export" /\ pc' = "checkpoint" /\ UNCHANGED <<records, index, driven>>
          /\ file' = Append(file, LineOf(Cur.url, Cur.hash))
      BY <1>5 DEF AppendLine, LineOf
    <2>2. /\ DOMAIN file' = 1..(Len(file) + 1) /\ DOMAIN file = 1..Len(file) /\ Len(file) \in Nat
          /\ \A i \in 1..Len(file) : file'[i] = file[i]
          /\ file'[Len(file) + 1] = LineOf(Cur.url, Cur.hash)
      BY <1>1, <2>1
    <2>3. Accounted'
      BY <2>1, <2>2 DEF DInv, Accounted, LineOf
    <2>4. ExportsIndexed'
      BY <2>1 DEF DInv, ExportsIndexed
    <2>5. NoDuplicateLine'
      BY <2>1, <2>2 DEF DInv, NoDuplicateLine
    <2> QED
      BY <2>1, <2>3, <2>4, <2>5 DEF DInv
  <1>6. CASE Promote \/ Checkpoint
    <2>1. /\ UNCHANGED <<file, index, driven, todo>> /\ pc' = "commit"
          /\ pc \in {"promote", "checkpoint"}
      BY <1>6 DEF Promote, Checkpoint
    <2>2. PICK r \in Record : records' = [records EXCEPT ![Key] = r]
      BY <1>6, AdvanceClean
    <2>3. \A k \in Keys : k # Key => records'[k] = records[k]
      BY <1>1, <2>2 DEF Records
    <2>4. Key' = Key
      BY <2>1 DEF Key, Cur
    <2>5. ExportsIndexed'
      BY <2>1, <2>3, <2>4 DEF DInv, ExportsIndexed
    <2> QED
      BY <2>1, <2>5 DEF DInv, Accounted, NoDuplicateLine
  <1>7. CASE CommitPoint
    <2>1. /\ UNCHANGED <<file, index, driven>> /\ pc = "commit" /\ pc' \in {"item", "drain"}
      BY <1>7 DEF CommitPoint, ItemDone
    <2>2. /\ Key \in Keys /\ records'[Key].status = "COMMITTED"
          /\ \A k \in Keys : k # Key => records'[k] = records[k]
      BY <1>1, <1>7, CommitClean DEF Records
    <2>3. ExportsIndexed'
      BY <2>1, <2>2 DEF DInv, ExportsIndexed
    <2> QED
      BY <2>1, <2>3 DEF DInv, Accounted, NoDuplicateLine
  <1>8. CASE Finish \/ Crash
    <2>1. pc' = "idle" /\ file' = file
      BY <1>8 DEF Finish, Crash, Die
    <2> QED
      BY <2>1 DEF DInv, NoDuplicateLine
  <1> QED
    BY <1>2, <1>3, <1>4, <1>5, <1>6, <1>7, <1>8, NothingFails DEF Next, Work

LEMMA DInvInit == Init => DInv
  BY DEF Init, DInv, NoDuplicateLine

\* No (url, content) pair is appended twice, by one run or by a resumed one, when
\* no item fails and an interrupted write leaves the file readable (claim_append,
\* decide, build_content_hash_index).
THEOREM NoLineTwice ==
  ASSUME "unterminated" \notin TornKinds, "codepoint" \notin TornKinds, NoItemFails
  PROVE  Spec => []NoDuplicateLine
  <1>1. IInv /\ [Next]_vars => IInv'
    BY NextInv
  <1>2. IInv /\ CInv /\ [Next]_vars => CInv'
    BY CInvStep
  <1>3. IInv /\ CInv /\ DInv /\ [Next]_vars => DInv'
    BY DInvStep
  <1>4. DInv => NoDuplicateLine
    BY DEF DInv
  <1>5. Init => CInv
    BY CInvInit
  <1> QED
    BY InitInv, DInvInit, <1>1, <1>2, <1>3, <1>4, <1>5, PTL DEF Spec

-----------------------------------------------------------------------------
(* Resumed runs keep the promise of ExactlyOnce.                              *)

\* What the session holds from a v1 file is committed on disk.
MigratedDone ==
    \A k \in Keys : records[k] # NoRecord /\ records[k].migrated => CommittedProven(store, k)

Done == {k \in Keys : CommittedProven(store, k)}

\* No step makes a record of a v1 file: it is loaded, and then left alone.
LEMMA MigratedKept ==
  ASSUME NoItemFails, IInv, CInv, MigratedDone, [Next]_vars
  PROVE  \A k \in Keys : records'[k] # NoRecord /\ records'[k].migrated => CommittedProven(store, k)
  <1>1. /\ store \in Records /\ records \in Records
        /\ Clean(store) /\ Clean(records)
    BY DEF IInv, TypeOK, CInv, RunClean
  <1>2. CASE StartRun \/ Crash
    <2>1. records' = PartitionValid(store) \/ records' = NoRecords
      BY <1>2 DEF StartRun, Open, Crash, Die
    <2>2. \A k \in Keys : records'[k] # NoRecord => records'[k] = store[k] /\ Valid(store[k])
      BY <2>1 DEF PartitionValid, NoRecords
    <2> QED
      BY <1>1, <2>2 DEF Clean, CleanRecord, CommittedProven, Reconciles, Terminal
  <1>3. CASE Cancel \/ UNCHANGED vars \/ SkipClaimed \/ SkipCommitted \/ BeginPromote
               \/ BeginExport \/ OpenWriter \/ AppendLine \/ Finish
    <2>1. records' = records
      BY <1>3 DEF Cancel, vars, SkipClaimed, SkipCommitted, BeginPromote, BeginExport, OpenWriter,
                  AppendLine, Finish
    <2> QED
      BY <2>1 DEF MigratedDone
  <1>4. CASE Promote \/ Checkpoint
    <2>1. PICK r \in Record : /\ CleanRecord(r) /\ r.status = "EXPORTED"
                              /\ records' = [records EXCEPT ![Key] = r]
      BY <1>4, AdvanceClean
    <2>2. ~r.migrated
      BY <2>1 DEF CleanRecord
    <2> QED
      BY <1>1, <2>1, <2>2 DEF MigratedDone, Records
  <1>5. CASE CommitPoint
    <2>1. /\ Key \in Keys /\ CanCommit(records[Key])
          /\ records' = [records EXCEPT ![Key] = Commit(records[Key])]
      BY <1>5, CommitClean
    <2>2. ~records[Key].migrated /\ Commit(records[Key]).migrated = records[Key].migrated
      BY <1>1, <2>1, SwapIs DEF CanCommit, Reconciles, Clean, CleanRecord
    <2> QED
      BY <1>1, <2>1, <2>2 DEF MigratedDone, Records
  <1> QED
    BY <1>2, <1>3, <1>4, <1>5, NothingFails DEF Next, Work

\* A page whose commit becomes durable has its line by then.
LEMMA NewlyDone ==
  ASSUME NoItemFails, IInv, CInv, MigratedDone, CommittedHasOwnLine', [Next]_vars,
         NEW k \in Done', k \notin Done
  PROVE  file' = file /\ \E i \in DOMAIN file : Canon[file[i].url] = k
  <1>1. k \in Keys /\ CommittedProven(store', k) /\ ~CommittedProven(store, k)
    BY DEF Done, CommittedProven
  <1>2. file' = file /\ store' = Overlay(records', PartitionValid(store))
    BY <1>1, StoreMoves
  <1>3. records'[k] # NoRecord /\ store'[k] = records'[k]
    <2>1. records'[k] = NoRecord => store'[k] \in {NoRecord, store[k]}
      BY <1>1, <1>2 DEF Overlay, PartitionValid
    <2>2. store'[k] # NoRecord /\ store'[k] # store[k]
      BY <1>1 DEF CommittedProven
    <2> QED
      BY <1>1, <1>2, <2>1, <2>2 DEF Overlay
  <1>4. ~store'[k].migrated
    BY <1>1, <1>3, MigratedKept
  <1> QED
    BY <1>1, <1>2, <1>4 DEF CommittedHasOwnLine, CommittedProven

\* Every step is an export, a commit of some pages, or nothing the promise sees.
LEMMA PromiseStep ==
  ASSUME NoItemFails, "load" \notin Faults, IInv, CInv, DInv, Synced, MigratedDone,
         CommittedHasOwnLine', [Next]_vars
  PROVE  [Promise!Next]_<<file, Done>>
  <1>1. \A k \in Keys : CommittedProven(store, k) => CommittedProven(store', k)
    BY SyncedStep DEF NoItemFails, Stays, CommittedProven
  <1>2. Done \subseteq Done'
    BY <1>1 DEF Done, CommittedProven
  <1>3. CASE Done' # Done
    <2> DEFINE pages == Done' \ Done
    <2>1. /\ pages \in SUBSET Keys /\ pages # {} /\ Done' = Done \cup pages
          /\ \A k \in pages : k \notin Done /\ k \in Done'
      BY <1>2, <1>3 DEF Done
    <2>2. file' = file /\ \A k \in pages : \E i \in DOMAIN file : Canon[file[i].url] = k
      BY <1>3, <2>1, NewlyDone
    <2> HIDE DEF pages
    <2>3. Promise!Commit(pages)
      BY <2>1, <2>2 DEF Promise!Commit, Done
    <2> QED
      BY <2>1, <2>3 DEF Promise!Next
  <1>4. CASE Done' = Done /\ AppendLine
    <2>1. /\ pc = "export" /\ todo # <<>> /\ mode = "resume"
          /\ file' = Append(file, [url |-> Cur.url, hash |-> Cur.hash])
      BY <1>4 DEF AppendLine, IInv, HandlesAnItem, Synced
    <2>2. Cur.url \in Urls /\ Cur.hash \in Hashes /\ Key \in Keys
      BY <2>1, CurType DEF IInv
    <2>3. Canon[Cur.url] \notin Done
      <3>1. NotCommitted(records, Key) /\ Agrees(Key)
        BY <2>1, <2>2 DEF IInv, ResumeSkips, Synced
      <3> QED
        BY <3>1 DEF NotCommitted, Agrees, CommittedProven, Reconciles, Done, Key
    <2>4. ~Promise!Exported(Cur.url, Cur.hash)
      <3>1. \A i \in DOMAIN file : file[i] \in Line
        BY DEF IInv, TypeOK
      <3>2. \A i \in DOMAIN file : file[i].url = Cur.url /\ file[i].hash = Cur.hash
                                     => file[i] = LineOf(Cur.url, Cur.hash)
        BY <3>1 DEF Line, LineOf
      <3> QED
        BY <2>1, <3>2 DEF DInv, Promise!Exported
    <2> QED
      BY <1>4, <2>1, <2>2, <2>3, <2>4 DEF Promise!Next, Promise!Export, Done
  <1>5. CASE Done' = Done /\ file' = file
    BY <1>5
  <1>6. file' = file \/ AppendLine
    BY DEF Next, Work, vars, StartRun, Open, Crash, Die, Cancel, SkipClaimed, SkipCommitted,
           BeginPromote, BeginExport, OpenWriter, AppendLine, ExportFails, RejectItem, FailItem,
           Promote, Checkpoint, CommitPoint, Finish, durable
  <1> QED
    BY <1>3, <1>4, <1>5, <1>6

\* The item loop implements ExactlyOnce: with --resume, over a state file that
\* can be read and with no item failing, every page is appended at most once,
\* committed for good only with a line of its own, and never exported again.
THEOREM ItemsExportOnce ==
  ASSUME "unterminated" \notin TornKinds, "codepoint" \notin TornKinds, "load" \notin Faults,
         NoItemFails, NEW owner, OnePageEach(owner)
  PROVE  Spec => ExportsOnce
  <1>1. Init => Synced /\ MigratedDone /\ Promise!Init
    BY DEF Init, Synced, MigratedDone, NoRecords, Promise!Init
  <1>2. IInv /\ [Next]_vars => IInv'
    BY NextInv
  <1>3. IInv /\ CInv /\ [Next]_vars => CInv'
    BY CInvStep
  <1>4. IInv /\ CInv /\ DInv /\ [Next]_vars => DInv'
    BY DInvStep
  <1>5. IInv /\ OInv(owner) /\ [Next]_vars => OInv(owner)'
    BY OInvStep
  <1>6. IInv /\ Synced /\ [Next]_vars => Synced' /\ \A k \in Keys : Stays(k)
    BY SyncedStep DEF NoItemFails
  <1>7. IInv /\ CInv /\ MigratedDone /\ Synced /\ [Next]_vars => MigratedDone'
    BY <1>6, MigratedKept DEF MigratedDone, Stays, CommittedProven
  <1>8. IInv /\ OInv(owner) => CommittedHasOwnLine
    BY OwnLine
  <1>9. /\ IInv /\ CInv /\ DInv /\ Synced /\ MigratedDone
        /\ CommittedHasOwnLine' /\ [Next]_vars
        => [Promise!Next]_<<file, {k \in Keys : CommittedProven(store, k)}>>
    BY PromiseStep DEF Done
  <1>10. Init => CInv /\ DInv /\ OInv(owner) /\ IInv
    BY InitInv, CInvInit, DInvInit, OInvInit
  <1> QED
    BY <1>1, <1>2, <1>3, <1>4, <1>5, <1>6, <1>7, <1>8, <1>9, <1>10, PTL
    DEF Spec, ExportsOnce, Promise!Spec

=============================================================================
