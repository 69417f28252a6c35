----------------------------- MODULE ExportItems -----------------------------
(***************************************************************************)
(* export_factory::process_results: results are decided, appended, flushed  *)
(* and committed one at a time.  The exporter's writer opens lazily, at the *)
(* first append of the run, and only then truncates a torn tail.            *)
(***************************************************************************)
EXTENDS CommitSession

vars == <<file, tail, store, pc, todo, mode, records, index, driven, writer,
          cancelled, reruns, faults>>

StartRun == \E m \in Modes, batch \in Batches : Open(m, batch, "item")

-----------------------------------------------------------------------------
(* process_single_item up to its decision. *)

Claim == <<Cur.url, Cur.hash>>

Working == pc = "item" /\ todo # <<>>

\* The pair was already appended in this run.
SkipClaimed ==
    /\ Working /\ Claim \in driven
    /\ todo' = Tail(todo)
    /\ UNCHANGED <<durable, bounds, pc, mode, records, index, driven, writer, cancelled>>

Decided(act) ==
    /\ Working /\ Claim \notin driven
    /\ Decide(records, Key, Cur.hash) = act
    /\ driven' = driven \cup {Claim}

SkipCommitted ==
    /\ Decided("skip")
    /\ todo' = Tail(todo)
    /\ UNCHANGED <<durable, bounds, pc, mode, records, index, writer, cancelled>>

BeginPromote ==
    /\ Decided("promote")
    /\ pc' = "promote"
    /\ UNCHANGED <<durable, bounds, todo, mode, records, index, writer, cancelled>>

\* Mutant: the checkpoint comes before the export.
BeginCheckpoint ==
    /\ Decided("drive") /\ Cur.hash \notin BadHashes
    /\ pc' = "checkpoint"
    /\ UNCHANGED <<durable, bounds, todo, mode, records, index, writer, cancelled>>

BeginExport ==
    /\ Decided("drive") /\ Cur.hash \notin BadHashes
    /\ pc' = "export"
    /\ UNCHANGED <<durable, bounds, todo, mode, records, index, writer, cancelled>>

Recorded == IF mode = "plain" THEN records
            ELSE [records EXCEPT ![Key] = FailedRecord(records, Key)]

\* The content fails validation: recorded, and the loop goes on without asking
\* whether the run is cancelled.
RejectItem ==
    /\ Decided("drive") /\ Cur.hash \in BadHashes
    /\ records' = Recorded
    /\ Save(records')
    /\ todo' = Tail(todo)
    /\ UNCHANGED <<file, tail, pc, mode, index, writer, cancelled, reruns>>

-----------------------------------------------------------------------------
(* JsonlExporter::export. *)

\* JsonlSession::open: cut the file back to its last newline.
OpenWriter ==
    /\ pc = "export" /\ writer = "closed"
    /\ writer' = "open" /\ tail' = NoTail
    /\ UNCHANGED <<file, store, bounds, pc, todo, mode, records, index, driven, cancelled>>

\* Mutant: cancellation is looked at between the append and its commit.
AppendLineThenCancel ==
    /\ pc = "export" /\ writer = "open"
    /\ file' = Append(file, [url |-> Cur.url, hash |-> Cur.hash])
    /\ pc' = IF cancelled THEN "drain" ELSE "checkpoint"
    /\ UNCHANGED <<tail, store, bounds, todo, mode, records, index, driven, writer, cancelled>>

\* Append and flush ack.
AppendLine ==
    /\ pc = "export" /\ writer = "open"
    /\ file' = Append(file, [url |-> Cur.url, hash |-> Cur.hash])
    /\ pc' = "checkpoint"
    /\ UNCHANGED <<tail, store, bounds, todo, mode, records, index, driven, writer, cancelled>>

\* Mutant: the export error is swallowed and the item committed.
ExportFailsSwallowed ==
    /\ pc = "export"
    /\ writer = "open" /\ Fault("write") /\ tail' \in Tail_(Cur.hash) /\ writer' = "dead"
    /\ pc' = "checkpoint"
    /\ UNCHANGED <<file, store, todo, mode, records, index, driven, cancelled, reruns>>

\* The open fails, or the write does: then the writer thread is gone, what it
\* wrote stays, and every later export of this run fails at once.
ExportFails ==
    /\ pc = "export"
    /\ \/ writer = "closed" /\ Fault("write") /\ UNCHANGED <<tail, writer>>
       \/ writer = "open" /\ Fault("write") /\ tail' \in Tail_(Cur.hash) /\ writer' = "dead"
       \/ writer = "dead" /\ UNCHANGED <<tail, writer, faults>>
    /\ pc' = "fail"
    /\ UNCHANGED <<file, store, todo, mode, records, index, driven, cancelled, reruns>>

\* fail_item: the status does not advance.
FailItem ==
    /\ pc = "fail"
    /\ records' = Recorded
    /\ Save(records')
    /\ ItemDone
    /\ UNCHANGED <<file, tail, mode, index, driven, writer, cancelled, reruns>>

Crash == Die(IF pc = "export" /\ writer = "open" THEN Tail_(Cur.hash) ELSE {tail})

-----------------------------------------------------------------------------

Work == \/ SkipClaimed \/ SkipCommitted \/ BeginPromote \/ BeginExport \/ RejectItem
        \/ OpenWriter \/ AppendLine \/ ExportFails \/ FailItem
        \/ Promote \/ Checkpoint \/ CommitPoint \/ Finish

Next == StartRun \/ Work \/ Cancel \/ Crash

Spec == Init /\ [][Next]_vars

\* A run that was started makes progress unless it is killed, and whoever
\* uses --resume runs the command again.
FairSpec == Spec /\ WF_vars(Work) /\ WF_vars(StartRun)

-----------------------------------------------------------------------------
(* Properties. *)

\* A page that is durably COMMITTED stays exactly as it is: with --resume no
\* step of any run touches its record again (decide, AlreadyCommitted).
CommittedStays ==
    [][\A k \in Keys : CommittedProven(store, k) => store'[k] = store[k]]_store

\* Resumed runs implement the promise of ExactlyOnce.
Promise == INSTANCE ExactlyOnce
    WITH out <- file, done <- {k \in Keys : CommittedProven(store, k)}

ExportsOnce == Promise!Spec

\* What docs/persistence-resume.md promises of a rerun: it commits every page the
\* batch names, for good (every EXPORTED record "recovered by flush-proof
\* promotion").
EventuallyCommitted == <>[](\A k \in Keys : CommittedProven(store, k))

\* The record of an exported page that fail_item has marked: each run promotes
\* the page with the error kept, and its commit point refuses it.
Stuck(k) ==
    /\ store[k] # NoRecord /\ Reconciles(store[k], "EXPORTED")
    /\ store[k].failed /\ store[k].hash \in FileHashes

\* What reruns achieve, whatever failed on the way.  Once no run is cancelled any
\* more, every page ends up committed for good or, with its line in the output,
\* stuck.  And none gets stuck, even if every run is cancelled, unless the hash
\* index was once lost to a tail inside a UTF-8 sequence (decide, fail_item,
\* drive_to_export_flushed).
EventuallySettled ==
    /\ <>[](~cancelled) => <>[](\A k \in Keys : CommittedProven(store, k) \/ Stuck(k))
    /\ [](tail.kind # "codepoint") => EventuallyCommitted

=============================================================================
