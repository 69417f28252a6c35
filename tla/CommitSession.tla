---------------------------- MODULE CommitSession ----------------------------
(***************************************************************************)
(* One export run over a JSONL file and a record store: what the two drive  *)
(* loops of application/export_factory.rs share.  ExportItems and           *)
(* ExportBatch extend this module with their loops.                         *)
(*                                                                          *)
(* The process opens a session (records and hash index are read ONCE),      *)
(* handles its scraped results one by one, persists, and ends; it may be    *)
(* killed between any two of its steps, and a later run starts from what    *)
(* is on disk.  One process runs at a time; a store transaction is one      *)
(* step here, and RecordStore.tla takes it apart.                           *)
(***************************************************************************)
EXTENDS PageRecord, Naturals, Sequences

CONSTANTS Urls,       \* URLs as scraped; several may share one canonical key
          Canon,      \* resume::canonical_key, a function from Urls to Keys
          BadHashes,  \* contents that fail DocumentChunk::validate
          Batches,    \* the lists of results a run may be given
          Modes,      \* how runs are started, see below
          TornKinds,  \* what an interrupted write may leave after the last newline
          Faults,     \* subset of {"load", "save", "write", "crash", "cancel"}
          MaxReruns,  \* bound: runs that do not resume
          MaxFaults   \* bound: failures of the environment, over all runs

(* "resume": --resume, a ResumeContext that skips; "plain": no --resume, so  *)
(* no ResumeContext and no store; "fresh": a ResumeContext that keeps the    *)
(* records but never consults them (with_resume(false)).                     *)
AllModes == {"resume", "plain", "fresh"}

Item == [url : Urls, hash : Hashes, act : {"undecided", "skip", "promote", "drive"}]

(* "cut": bytes that are no JSON object; "codepoint": bytes that end inside a *)
(* UTF-8 sequence; "unterminated": a whole object that lacks its newline.     *)
ASSUME SessionAssumption ==
    /\ Canon \in [Urls -> Keys]
    /\ BadHashes \subseteq Hashes
    /\ Batches \subseteq Seq(Item)
    /\ Modes \subseteq AllModes
    /\ TornKinds \subseteq {"cut", "codepoint", "unterminated"}
    /\ MaxReruns \in Nat /\ MaxFaults \in Nat

VARIABLES
    \* on disk
    file,       \* the complete lines of the JSONL output
    tail,       \* the bytes after its last newline
    store,      \* the records of the state file
    \* in the process
    pc,         \* "idle" between runs
    todo,       \* results not handled yet
    mode,       \* the run's mode
    records,    \* CommitSession.records
    index,      \* CommitSession.hash_index
    driven,     \* CommitSession.driven
    writer,     \* the lazily opened JsonlSession: "closed", "open", "dead"
    cancelled,  \* the CancellationToken
    \* bounds
    reruns,     \* runs that did not resume so far
    faults      \* failures so far

durable == <<file, tail, store>>
bounds  == <<reruns, faults>>

Line == [url : Urls, hash : Hashes]
NoTail == [kind |-> "none", hash |-> NoHash]
Tail_(h) == {NoTail} \cup [kind : TornKinds, hash : {h}]

Cur == Head(todo)
Key == Canon[Cur.url]

FileHashes == {file[i].hash : i \in DOMAIN file}

TypeOK ==
    /\ file \in Seq(Line)
    /\ tail \in {NoTail} \cup [kind : TornKinds, hash : Hashes]
    /\ store \in Records /\ records \in Records
    /\ pc \in {"idle", "decide", "append", "item", "promote", "export",
               "checkpoint", "commit", "fail", "drain"}
    /\ todo \in Seq(Item)
    /\ mode \in AllModes /\ cancelled \in BOOLEAN
    /\ index \subseteq Hashes
    /\ driven \subseteq Urls \X Hashes
    /\ writer \in {"closed", "open", "dead"}
    /\ reruns \in 0..MaxReruns /\ faults \in 0..MaxFaults

Init ==
    /\ file = <<>> /\ tail = NoTail
    /\ store \in [Keys -> {NoRecord, Migrated}]
    /\ pc = "idle" /\ todo = <<>> /\ mode = "resume"
    /\ records = NoRecords /\ index = {} /\ driven = {}
    /\ writer = "closed" /\ cancelled = FALSE
    /\ reruns = 0 /\ faults = 0

Fault(kind) == kind \in Faults /\ faults < MaxFaults /\ faults' = faults + 1

-----------------------------------------------------------------------------
(* The store transaction of merge_persist: what this session holds, over the *)
(* valid records the file holds.  With one process and a clock that does not *)
(* go back no durable record is newer than the session's own, so ours wins.  *)

Overlay(mine, current) == [k \in Keys |-> IF mine[k] = NoRecord THEN current[k] ELSE mine[k]]

Save(recs) == \/ /\ mode # "plain"
                 /\ store' = Overlay(recs, PartitionValid(store))
                 /\ UNCHANGED faults
              \/ /\ mode # "plain" /\ Fault("save")
                 /\ UNCHANGED store
              \/ /\ mode = "plain"
                 /\ UNCHANGED <<store, faults>>

\* Mutant: whatever follows the last newline is counted.
IndexOfAnyTail == FileHashes \cup {tail.hash}

(* build_content_hash_index: every line that parses, the unterminated one    *)
(* too; nothing at all when the file is not UTF-8.                           *)
IndexOf == CASE tail.kind = "codepoint"    -> {}
             [] tail.kind = "unterminated" -> FileHashes \cup {tail.hash}
             [] OTHER                      -> FileHashes

-----------------------------------------------------------------------------
(* Records written by the session. *)

\* Mutant: the table's type-level gate becomes a test of the status alone.
DecideByStatus(recs, k, h) ==
    CASE mode = "resume" /\ recs[k] # NoRecord /\ recs[k].status \in Terminal -> "skip"
      [] mode = "resume" /\ recs[k] = NoRecord /\ h \in index                 -> "promote"
      [] OTHER                                                       -> "drive"

\* Mutant: only a record can prove a flush.
DecideNoRecordless(recs, k, h) ==
    CASE mode = "resume" /\ CommittedProven(recs, k) -> "skip"
      [] mode = "resume" /\ recs[k] # NoRecord /\ recs[k].hash \in index -> "promote"
      [] OTHER -> "drive"

\* Mutant: --resume is ignored by the gate.
DecideAlwaysDrive(recs, k, h) == "drive"

Decide(recs, k, h) ==
    LET proof == IF recs[k] = NoRecord THEN h ELSE recs[k].hash
    IN  CASE mode = "resume" /\ CommittedProven(recs, k) -> "skip"
          [] mode = "resume" /\ ~CommittedProven(recs, k) /\ proof \in index -> "promote"
          [] OTHER -> "drive"

\* Mutant: the promoted record is not told where its line is.
PromotedUnlocated(recs, k, h) ==
    LET base == IF recs[k] = NoRecord THEN Discovered ELSE recs[k]
    IN  IF Reconciles(base, "EXPORTED") THEN base
        ELSE ExportFlushed([DriveToProcessed(base) EXCEPT
                !.tried = TRUE, !.failed = FALSE, !.hash = h])

\* EXPORTED keeps its own hash; a lower state is driven under the fresh hash.
PromotedRecord(recs, k, h) ==
    LET base == IF recs[k] = NoRecord THEN Discovered ELSE recs[k]
    IN  CASE Reconciles(base, "EXPORTED") -> base
          [] base.status = "EXPORTED" /\ ~Valid(base) ->
                ExportFlushed([DriveToProcessed(base) EXCEPT !.hash = h])
          [] OTHER ->
                ExportFlushed([DriveToProcessed(base) EXCEPT
                    !.tried = TRUE, !.failed = FALSE, !.hash = h, !.located = TRUE])

ExportedRecord(recs, k, h) ==
    LET base == IF recs[k] = NoRecord \/ recs[k].status \in Terminal
                THEN Discovered ELSE recs[k]
    IN  ExportFlushed([DriveToProcessed(base) EXCEPT
            !.migrated = FALSE, !.hash = h, !.located = TRUE, !.tried = TRUE, !.failed = FALSE])

FailedRecord(recs, k) ==
    [(IF recs[k] = NoRecord THEN Discovered ELSE recs[k]) EXCEPT
        !.tried = TRUE, !.failed = TRUE]

-----------------------------------------------------------------------------
(* Steps shared by both loops. *)

\* CommitSession::open: records, then index, before the exporter touches the file.
Open(m, batch, at) ==
    /\ pc = "idle" /\ m \in Modes
    /\ m # "resume" => reruns < MaxReruns
    /\ reruns' = IF m = "resume" THEN reruns ELSE reruns + 1
    /\ mode' = m
    /\ \/ m # "plain" /\ records' = PartitionValid(store) /\ UNCHANGED faults
       \/ m # "plain" /\ Fault("load") /\ records' = NoRecords
       \/ m = "plain" /\ records' = NoRecords /\ UNCHANGED faults
    /\ index' = IndexOf
    /\ driven' = {} /\ writer' = "closed" /\ cancelled' = FALSE
    /\ todo' = batch /\ pc' = at
    /\ UNCHANGED durable

ItemDone ==
    /\ todo' = Tail(todo)
    /\ pc' = IF cancelled THEN "drain" ELSE "item"

\* promote_from_flush_proof up to the EXPORTED save: no append.
Promote ==
    /\ pc = "promote"
    /\ records' = [records EXCEPT ![Key] = PromotedRecord(records, Key, Cur.hash)]
    /\ Save(records')
    /\ pc' = "commit"
    /\ UNCHANGED <<file, tail, todo, mode, index, driven, writer, cancelled, reruns>>

\* commit_item up to the EXPORTED save.
Checkpoint ==
    /\ pc = "checkpoint"
    /\ records' = [records EXCEPT ![Key] = ExportedRecord(records, Key, Cur.hash)]
    /\ Save(records')
    /\ pc' = "commit"
    /\ UNCHANGED <<file, tail, todo, mode, index, driven, writer, cancelled, reruns>>

\* The commit point; a rejected swap saves nothing and leaves EXPORTED.
CommitPoint ==
    /\ pc = "commit"
    /\ records' = SwapToCommitted(records, Key)
    /\ IF CanCommit(records[Key]) THEN Save(records') ELSE UNCHANGED <<store, faults>>
    /\ ItemDone
    /\ UNCHANGED <<file, tail, mode, index, driven, writer, cancelled, reruns>>

\* final_persist, then the exporter's drop closes the writer.
Finish ==
    /\ pc = "drain" \/ (pc = "item" /\ todo = <<>>)
    /\ Save(records)
    /\ pc' = "idle" /\ writer' = "closed" /\ todo' = <<>>
    /\ UNCHANGED <<file, tail, mode, records, index, driven, cancelled, reruns>>

Cancel ==
    /\ "cancel" \in Faults /\ mode # "plain" /\ pc # "idle" /\ ~cancelled
    /\ cancelled' = TRUE
    /\ UNCHANGED <<durable, bounds, pc, todo, mode, records, index, driven, writer>>

\* The process dies: memory is lost, and the line being written may be torn.
Die(torn) ==
    /\ pc # "idle" /\ Fault("crash")
    /\ tail' \in torn
    /\ pc' = "idle" /\ todo' = <<>> /\ writer' = "closed" /\ cancelled' = FALSE
    /\ records' = NoRecords /\ index' = {} /\ driven' = {} /\ mode' = "resume"
    /\ UNCHANGED <<file, store, reruns>>

-----------------------------------------------------------------------------
(* Properties of both loops. *)

\* Every durable record of an exported page has its bytes in the output: the
\* EXPORTED checkpoint follows the flush ack (commit_item), and promotion takes
\* a record for flushed only on the evidence of the file (decide).
ExportedBacked ==
    \A k \in Keys :
        store[k] # NoRecord /\ store[k].status \in Terminal /\ ~store[k].migrated =>
            \/ store[k].hash \in FileHashes
            \/ tail.kind = "unterminated" /\ tail.hash = store[k].hash

\* The same, told per page: the content of a committed page was appended under
\* a URL of that page (the dedup key is (url, content_hash), claim_append).
CommittedHasOwnLine ==
    \A k \in Keys :
        CommittedProven(store, k) /\ ~store[k].migrated =>
            \E i \in DOMAIN file : Canon[file[i].url] = k /\ file[i].hash = store[k].hash

\* No (url, content_hash) pair is ever appended twice, by one run or by a
\* resumed one (claim_append, decide).
NoDuplicateLine ==
    \A i, j \in DOMAIN file : file[i] = file[j] => i = j

\* Every persisted record passes the D2 table, so that no later load drops it.
StoreValid == \A k \in Keys : store[k] # NoRecord => Valid(store[k])

\* Nothing a v1 file lists as processed is exported by a resumed run: migration
\* keeps history under THE key every record is looked up under (migrate_v1,
\* canonical_key).  Keys that are URLs are the legacy entries.
LegacySkipped ==
    \A i \in DOMAIN file :
        file[i].url \in Keys =>
            store[file[i].url] = NoRecord \/ ~store[file[i].url].migrated

\* When the loop is between items or draining after cancellation, each line
\* this run appended has been taken through its commit point: cancellation
\* never separates an append from its commit (process_single_item).
DrainHonest ==
    pc \in {"item", "drain"} =>
        \A i \in DOMAIN file :
            <<file[i].url, file[i].hash>> \in driven /\ mode # "fresh" =>
                LET r == records[Canon[file[i].url]]
                IN  r # NoRecord /\ r.status = "COMMITTED"

=============================================================================
