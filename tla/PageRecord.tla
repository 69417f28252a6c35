----------------------------- MODULE PageRecord -----------------------------
(***************************************************************************)
(* The persisted page record (domain/persistence.rs RawRecord), its eight   *)
(* lifecycle states (domain/page_state), the D2 table of records that may   *)
(* not exist, and the state machine's own transitions                       *)
(* (domain/record_transition.rs).  Constant-level: no state of its own.     *)
(*                                                                          *)
(* A record keeps what those rules read: the status; the content hash or    *)
(* NoHash; whether an output location is recorded; whether attempts >= 1;   *)
(* whether last_error is set; whether the v1 migration stamped it.  URLs    *)
(* reach this code as ValidUrl, so the empty-identity row of the table      *)
(* cannot apply and is left out.                                            *)
(***************************************************************************)
CONSTANTS Keys,      \* canonical URLs: what records are stored under
          Hashes,    \* content hashes of scraped pages
          NoHash,    \* content_hash = None
          NoRecord   \* a key the record map does not hold

Terminal == {"EXPORTED", "COMMITTED"}

Status == {"DISCOVERED", "QUEUED", "FETCHING", "FETCHED", "EXTRACTED",
           "PROCESSED"} \cup Terminal

Record == [status   : Status,
           hash     : Hashes \cup {NoHash},
           located  : BOOLEAN,
           tried    : BOOLEAN,
           failed   : BOOLEAN,
           migrated : BOOLEAN]

ASSUME RecordAssumption == /\ NoHash \notin Hashes
                           /\ NoRecord \notin Record

Records == [Keys -> Record \cup {NoRecord}]

NoRecords == [k \in Keys |-> NoRecord]

-----------------------------------------------------------------------------
(* The D2 table, and reconciliation of a record into one typed state. *)

Valid(r) ==
    /\ r.status \in Terminal /\ ~r.migrated => r.located /\ r.hash # NoHash
    /\ r.status = "COMMITTED" => r.tried /\ ~r.failed

Reconciles(r, s) == r.status = s /\ Valid(r)

PartitionValid(recs) ==
    [k \in Keys |-> IF recs[k] # NoRecord /\ Valid(recs[k]) THEN recs[k] ELSE NoRecord]

CommittedProven(recs, k) == recs[k] # NoRecord /\ Reconciles(recs[k], "COMMITTED")

-----------------------------------------------------------------------------
(* Lifecycles. *)

Discovered == [status |-> "DISCOVERED", hash |-> NoHash, located |-> FALSE,
               tried |-> FALSE, failed |-> FALSE, migrated |-> FALSE]

\* What v1 migration makes of a legacy processed URL.
Migrated == [Discovered EXCEPT !.status = "COMMITTED", !.tried = TRUE, !.migrated = TRUE]

DriveToProcessed(r) ==
    IF r.status \notin Terminal /\ Valid(r)
    THEN [r EXCEPT !.status = "PROCESSED"]
    ELSE [Discovered EXCEPT !.status = "PROCESSED"]

ExportFlushed(r) == [r EXCEPT !.status = "EXPORTED"]

Commit(r) == [r EXCEPT !.status = "COMMITTED"]

CanCommit(r) == r # NoRecord /\ Reconciles(r, "EXPORTED") /\ Valid(Commit(r))

SwapToCommitted(recs, k) ==
    IF CanCommit(recs[k]) THEN [recs EXCEPT ![k] = Commit(@)] ELSE recs

=============================================================================
