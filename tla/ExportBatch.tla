----------------------------- MODULE ExportBatch -----------------------------
(***************************************************************************)
(* export_factory::process_results_with_chunks (--clean-ai): every chunk is *)
(* decided first, then the whole batch is appended behind ONE flush         *)
(* barrier, then the chunks are committed one by one.  An export error ends *)
(* the run before any commit, and nothing is recorded.                      *)
(***************************************************************************)
EXTENDS CommitSession

VARIABLE pos   \* the chunk export_batch has come to

vars == <<file, tail, store, pc, todo, mode, records, index, driven, writer,
          cancelled, reruns, faults, pos>>

BatchInit == Init /\ pos = 1

StartRun == \E m \in Modes, batch \in Batches : Open(m, batch, "decide") /\ pos' = 1

\* decide() for all chunks, before the first append.
DecideAll ==
    /\ pc = "decide"
    /\ todo' = [i \in DOMAIN todo |->
                  [todo[i] EXCEPT !.act = Decide(records, Canon[todo[i].url], todo[i].hash)]]
    /\ pc' = "append"
    /\ UNCHANGED <<durable, bounds, mode, records, index, driven, writer, cancelled, pos>>

-----------------------------------------------------------------------------
(* export_batch.  driven holds the pairs of driven_keys. *)

Chunk == todo[pos]
Pair  == <<Chunk.url, Chunk.hash>>

\* Mutant: within-run duplicates reach the exporter.
ExportableDuplicates(c) == c.act = "drive" /\ c.hash \notin BadHashes

\* What the filters leave for the exporter: decided to drive, valid, and the
\* first of its (url, hash) pair.
Exportable(c) ==
    /\ c.act = "drive" /\ c.hash \notin BadHashes
    /\ <<c.url, c.hash>> \notin driven

Appending == pc = "append" /\ pos <= Len(todo)

Pass ==
    /\ Appending /\ ~Exportable(Chunk)
    /\ pos' = pos + 1
    /\ UNCHANGED <<durable, bounds, pc, todo, mode, records, index, driven, writer, cancelled>>

OpenWriter ==
    /\ Appending /\ Exportable(Chunk) /\ writer = "closed"
    /\ writer' = "open" /\ tail' = NoTail
    /\ UNCHANGED <<file, store, bounds, pc, todo, mode, records, index, driven, cancelled, pos>>

AppendChunk ==
    /\ Appending /\ Exportable(Chunk) /\ writer = "open"
    /\ file' = Append(file, [url |-> Chunk.url, hash |-> Chunk.hash])
    /\ driven' = driven \cup {Pair}
    /\ pos' = pos + 1
    /\ UNCHANGED <<tail, store, bounds, pc, todo, mode, records, index, writer, cancelled>>

\* Every queued byte is flushed: the commit loop starts.
FlushBatch ==
    /\ pc = "append" /\ pos > Len(todo)
    /\ pc' = "item"
    /\ UNCHANGED <<durable, bounds, todo, mode, records, index, driven, writer, cancelled, pos>>

\* Mutant: a failed export_batch is logged and the commit loop runs anyway.
ExportFailsSwallowed ==
    /\ Appending /\ Exportable(Chunk) /\ Fault("write")
    /\ tail' \in IF writer = "open" THEN Tail_(Chunk.hash) ELSE {tail}
    /\ pc' = "item" /\ writer' = "dead"
    /\ UNCHANGED <<file, store, todo, mode, records, index, driven, cancelled, reruns, pos>>

\* The error leaves process_results_with_chunks at once; no final_persist.
ExportFails ==
    /\ Appending /\ Exportable(Chunk) /\ Fault("write")
    /\ tail' \in IF writer = "open" THEN Tail_(Chunk.hash) ELSE {tail}
    /\ pc' = "idle" /\ todo' = <<>> /\ writer' = "closed"
    /\ UNCHANGED <<file, store, mode, records, index, driven, cancelled, reruns, pos>>

-----------------------------------------------------------------------------
(* The commit loop. *)

Working == pc = "item" /\ todo # <<>>

SkipCommitted ==
    /\ Working /\ Cur.act = "skip"
    /\ todo' = Tail(todo)
    /\ UNCHANGED <<durable, bounds, pc, mode, records, index, driven, writer, cancelled, pos>>

BeginPromote ==
    /\ Working /\ Cur.act = "promote"
    /\ pc' = "promote"
    /\ UNCHANGED <<durable, bounds, todo, mode, records, index, driven, writer, cancelled, pos>>

\* Also for a chunk that was not valid and so was never exported.
BeginCommit ==
    /\ Working /\ Cur.act = "drive"
    /\ pc' = "checkpoint"
    /\ UNCHANGED <<durable, bounds, todo, mode, records, index, driven, writer, cancelled, pos>>

Crash == /\ Die(IF Appending /\ writer = "open" THEN Tail_(Chunk.hash) ELSE {tail})
         /\ UNCHANGED pos

-----------------------------------------------------------------------------

SharedStep == (Promote \/ Checkpoint \/ CommitPoint \/ Finish) /\ UNCHANGED pos

Work == \/ DecideAll \/ Pass \/ OpenWriter \/ AppendChunk \/ FlushBatch \/ ExportFails
        \/ SkipCommitted \/ BeginPromote \/ BeginCommit \/ SharedStep

Next == StartRun \/ Work \/ (Cancel /\ UNCHANGED pos) \/ Crash

Spec == BatchInit /\ [][Next]_vars

FairSpec == Spec /\ WF_vars(Work) /\ WF_vars(StartRun)

-----------------------------------------------------------------------------
(* Properties. *)

\* Type correctness of the batch run.
BatchTypeOK == TypeOK /\ pos \in Nat \ {0}

\* The commit loop starts only behind the flush of the whole batch: each chunk
\* it still has to commit as exported is in the output, so a death at any point
\* of the loop leaves nothing to append again (process_results_with_chunks).
BatchFlushed ==
    pc \in {"item", "promote", "checkpoint", "commit"} =>
        \A i \in DOMAIN todo : todo[i].act = "drive" => todo[i].hash \in FileHashes

\* Whatever was lost on the way, rerunning with --resume gets every page of the
\* batch committed for good, pages of several chunks too.
EventuallyCommitted == <>[](\A k \in Keys : CommittedProven(store, k))

=============================================================================
