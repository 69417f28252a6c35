----------------------------- MODULE RecordStore -----------------------------
(***************************************************************************)
(* The JSON record store shared by several sessions                         *)
(* (infrastructure/export/record_store.rs), step by step: the flock on a    *)
(* permanent sentinel, GC of stray temp files, the read, the backup-first   *)
(* migration of a v1 file, the temp write and the rename.  A session is one *)
(* --resume process or one task of a server; it may die between any two     *)
(* steps, which frees the lock and leaves its temp file behind.             *)
(***************************************************************************)
EXTENDS StampedRecords

CONSTANTS Sessions,
          Unreadable,  \* a file that is corrupt or of an unknown version
          None,        \* no file; nobody
          FirstFiles,  \* what may be on disk before the first session
          Ties,        \* whether two transitions may fall in one millisecond
          MaxFaults    \* bound: crashes and failed system calls

V1 == [version : {1}, urls : SUBSET Keys]
V2 == [version : {2}, records : Maps]

ASSUME StoreAssumption ==
    /\ MaxClock \in Nat /\ Ties \in BOOLEAN /\ MaxFaults \in Nat
    /\ FirstFiles \subseteq V1 \cup V2 \cup {None, Unreadable}
    /\ None \notin Sessions /\ None # Unreadable
    /\ {None, Unreadable} \cap (V1 \cup V2) = {} /\ Unreadable \notin Maps

VARIABLES
    disk,    \* the state file
    backup,  \* the v1 bytes have been copied aside
    tmps,    \* temp files: <<owner, "live">>, then <<owner, "stale">> once abandoned
    lock,    \* who holds the flock
    clock,   \* now_millis
    pc,      \* where each session is
    op,      \* the call it is in: "load", "update", or "final" (the last update)
    ok,      \* how that call ended
    mine,    \* CommitSession.records
    view,    \* what the call is about to write
    faults,
    touched  \* history: keys the session advanced itself since it opened

vars == <<disk, backup, tmps, lock, clock, pc, op, ok, mine, view, faults, touched>>

TypeOK ==
    /\ disk \in V1 \cup V2 \cup {None, Unreadable}
    /\ backup \in BOOLEAN
    /\ tmps \subseteq Sessions \X {"live", "stale"}
    /\ lock \in Sessions \cup {None}
    /\ clock \in 0..MaxClock
    /\ pc \in [Sessions -> {"idle", "ready", "wait", "locked", "backup", "write", "rename", "unlock"}]
    /\ op \in [Sessions -> {"load", "update", "final"}]
    /\ ok \in [Sessions -> BOOLEAN]
    /\ mine \in [Sessions -> Maps] /\ view \in [Sessions -> Maps]
    /\ faults \in 0..MaxFaults
    /\ touched \in [Sessions -> SUBSET Keys]

Init ==
    /\ disk \in FirstFiles /\ backup = FALSE /\ tmps = {} /\ lock = None /\ clock = 0
    /\ pc = [s \in Sessions |-> "idle"] /\ op = [s \in Sessions |-> "load"]
    /\ ok = [s \in Sessions |-> FALSE]
    /\ mine = [s \in Sessions |-> Nothing] /\ view = [s \in Sessions |-> Nothing]
    /\ faults = 0 /\ touched = [s \in Sessions |-> {}]

Goto(s, where) == pc' = [pc EXCEPT ![s] = where]
Fault == faults < MaxFaults /\ faults' = faults + 1

\* validate_and_quarantine; migrate_v1, stamped with the old file's mtime.
Kept(recs) == [k \in Keys |-> IF recs[k] # NoRecord /\ recs[k].status = "INVALID"
                              THEN NoRecord ELSE recs[k]]
Legacy(urls) == [k \in Keys |-> IF k \in urls THEN [status |-> "COMMITTED", at |-> 0]
                                ELSE NoRecord]

-----------------------------------------------------------------------------
(* The session. *)

Call(s, what) == op' = [op EXCEPT ![s] = what] /\ Goto(s, "wait")

\* CommitSession::open; load() looks for the file before it locks.
Open(s) ==
    /\ pc[s] = "idle"
    /\ Goto(s, IF disk = None THEN "ready" ELSE "wait")
    /\ UNCHANGED <<disk, backup, tmps, lock, clock, op, ok, mine, view, faults, touched>>

\* What the session may make of a page: it leaves committed pages alone.
Moves(r) == CASE r = NoRecord             -> {"DISCOVERED", "EXPORTED"}
              [] r.status = "DISCOVERED"  -> {"DISCOVERED", "EXPORTED"}
              [] r.status = "EXPORTED"    -> {"EXPORTED", "COMMITTED"}
              [] OTHER                    -> {}

\* One transition of one page, stamped now, and the save that follows it.
Advance(s, k) ==
    /\ pc[s] = "ready"
    /\ \E now \in (IF Ties THEN clock..(clock + 1) ELSE {clock + 1}), status \in Moves(mine[s][k]) :
          /\ now <= MaxClock /\ clock' = now
          /\ mine' = [mine EXCEPT ![s][k] = [status |-> status, at |-> now]]
    /\ touched' = [touched EXCEPT ![s] = @ \cup {k}]
    /\ Call(s, "update")
    /\ ok' = [ok EXCEPT ![s] = FALSE]
    /\ UNCHANGED <<disk, backup, tmps, lock, view, faults>>

FinalPersist(s) ==
    /\ pc[s] = "ready"
    /\ Call(s, "final")
    /\ ok' = [ok EXCEPT ![s] = FALSE]
    /\ UNCHANGED <<disk, backup, tmps, lock, clock, mine, view, faults, touched>>

-----------------------------------------------------------------------------
(* RecordStore::load and update. *)

\* Mutant: the sentinel was unlinked, so a second session locks a new inode.
AcquireUnlinked(s) ==
    /\ pc[s] = "wait"
    /\ lock' = s /\ Goto(s, "locked")
    /\ UNCHANGED <<disk, backup, tmps, clock, op, ok, mine, view, faults, touched>>

\* StoreLock::acquire waits; the lock file is never removed.
Acquire(s) ==
    /\ pc[s] = "wait" /\ lock = None
    /\ lock' = s /\ Goto(s, "locked")
    /\ UNCHANGED <<disk, backup, tmps, clock, op, ok, mine, view, faults, touched>>

\* The call returns an error: an open goes on with an empty map (load_or_init),
\* a save is logged.
Fails(s) ==
    /\ Goto(s, "unlock")
    /\ mine' = IF op[s] = "load" THEN [mine EXCEPT ![s] = Nothing] ELSE mine
    /\ UNCHANGED <<ok, view>>

\* Everything read: an open keeps it, an update merges into it.
HasRead(s, recs) ==
    IF op[s] = "load"
    THEN /\ mine' = [mine EXCEPT ![s] = recs] /\ ok' = [ok EXCEPT ![s] = TRUE]
         /\ Goto(s, "unlock") /\ UNCHANGED view
    ELSE /\ view' = [view EXCEPT ![s] = Merged(mine[s], recs)]
         /\ Goto(s, "write") /\ UNCHANGED <<mine, ok>>

\* Mutant: an unreadable file is taken for an empty one inside a transaction.
ReadDegrading(s) ==
    /\ pc[s] = "locked"
    /\ HasRead(s, CASE disk \in V2 -> Kept(disk.records)
                    [] disk \in V1 -> Legacy(disk.urls)
                    [] OTHER       -> Nothing)
    /\ tmps' = {}
    /\ UNCHANGED <<disk, backup, lock, clock, op, faults, touched>>

\* load_under_lock, GC first; without a file an update starts from nothing.
Read(s) ==
    /\ pc[s] = "locked"
    /\ tmps' = IF disk = None THEN tmps ELSE {}
    /\ \/ disk = None /\ HasRead(s, Nothing) /\ UNCHANGED faults
       \/ disk \in V2 /\ HasRead(s, Kept(disk.records)) /\ UNCHANGED faults
       \/ disk \in V1 /\ Goto(s, "backup") /\ UNCHANGED <<mine, ok, view, faults>>
       \/ disk = Unreadable /\ Fails(s) /\ UNCHANGED faults
       \/ disk # None /\ Fault /\ Fails(s)
    /\ UNCHANGED <<disk, backup, lock, clock, op, touched>>

\* Mutant: the migration writes first.
BackupSkipped(s) ==
    /\ pc[s] = "backup"
    /\ view' = [view EXCEPT ![s] = Legacy(disk.urls)]
    /\ Goto(s, "write")
    /\ UNCHANGED <<disk, backup, tmps, lock, clock, op, ok, mine, faults, touched>>

\* migrate_v1: the backup comes before anything touches the live file.
Backup(s) ==
    /\ pc[s] = "backup"
    /\ \/ /\ backup' = TRUE
          /\ view' = [view EXCEPT ![s] = Legacy(disk.urls)]
          /\ Goto(s, "write")
          /\ UNCHANGED <<ok, mine, faults>>
       \/ Fault /\ Fails(s) /\ UNCHANGED backup
    /\ UNCHANGED <<disk, tmps, lock, clock, op, touched>>

\* save_locked: a failed write leaves its temp file for a later GC.
Write(s) ==
    /\ pc[s] = "write"
    /\ \/ /\ tmps' = tmps \cup {<<s, "live">>}
          /\ Goto(s, "rename")
          /\ UNCHANGED <<ok, mine, view, faults>>
       \/ Fault /\ Fails(s) /\ tmps' \in {tmps, tmps \cup {<<s, "stale">>}}
    /\ UNCHANGED <<disk, backup, lock, clock, op, touched>>

\* The commit point of a save; a migration goes on with what it was for.
Rename(s) ==
    /\ pc[s] = "rename"
    /\ tmps' = tmps \ {<<s, "live">>}
    /\ \/ /\ <<s, "live">> \in tmps
          /\ disk' = [version |-> 2, records |-> view[s]]
          /\ IF disk \in V1 THEN HasRead(s, view[s])
             ELSE /\ ok' = [ok EXCEPT ![s] = TRUE]
                  /\ Goto(s, "unlock") /\ UNCHANGED <<mine, view>>
          /\ UNCHANGED faults
       \/ <<s, "live">> \notin tmps /\ Fails(s) /\ UNCHANGED <<disk, faults>>
       \/ Fault /\ Fails(s) /\ UNCHANGED disk
    /\ UNCHANGED <<backup, lock, clock, op, touched>>

\* The session is over and its memory with it.
Gone(s) ==
    /\ mine' = [mine EXCEPT ![s] = Nothing] /\ touched' = [touched EXCEPT ![s] = {}]
    /\ op' = [op EXCEPT ![s] = "load"] /\ ok' = [ok EXCEPT ![s] = FALSE]

\* The call returns; the last one ends the session.
Return(s) ==
    /\ Goto(s, IF op[s] = "final" THEN "idle" ELSE "ready")
    /\ view' = [view EXCEPT ![s] = Nothing]
    /\ IF op[s] = "final" THEN Gone(s) ELSE UNCHANGED <<op, ok, mine, touched>>

\* The directory, the sentinel or the flock is refused.
AcquireFails(s) ==
    /\ pc[s] = "wait" /\ Fault
    /\ Return(s)
    /\ UNCHANGED <<disk, backup, tmps, lock, clock>>

\* The guard is dropped.
Unlock(s) ==
    /\ pc[s] = "unlock"
    /\ lock' = None
    /\ Return(s)
    /\ UNCHANGED <<disk, backup, tmps, clock, faults>>

\* Mutant: the lock is a file that outlives its owner.
CrashKeepsLock(s) ==
    /\ pc[s] # "idle" /\ Fault
    /\ Goto(s, "idle")
    /\ view' = [view EXCEPT ![s] = Nothing] /\ Gone(s)
    /\ UNCHANGED <<disk, backup, tmps, lock, clock>>

\* SIGKILL closes the descriptors, which frees the lock; nobody cleans up.
Crash(s) ==
    /\ pc[s] # "idle" /\ Fault
    /\ lock' = IF lock = s THEN None ELSE lock
    /\ LET left == IF <<s, "live">> \in tmps
                   THEN (tmps \ {<<s, "live">>}) \cup {<<s, "stale">>} ELSE tmps
       IN  tmps' \in {left} \cup (IF pc[s] = "write" THEN {left \cup {<<s, "stale">>}} ELSE {})
    /\ Goto(s, "idle")
    /\ view' = [view EXCEPT ![s] = Nothing] /\ Gone(s)
    /\ UNCHANGED <<disk, backup, clock>>

-----------------------------------------------------------------------------

Step(s) == Acquire(s) \/ AcquireFails(s) \/ Read(s) \/ Backup(s) \/ Write(s) \/ Rename(s) \/ Unlock(s)

Next == \E s \in Sessions :
           Open(s) \/ (\E k \in Keys : Advance(s, k)) \/ FinalPersist(s) \/ Step(s) \/ Crash(s)

Spec == Init /\ [][Next]_vars

\* A call that was made goes on; the kernel hands the lock to whoever waits for
\* it again and again.
FairSpec == Spec /\ \A s \in Sessions : WF_vars(Step(s)) /\ SF_vars(Acquire(s))

-----------------------------------------------------------------------------
(* Properties. *)

Durable == CASE disk = None       -> Nothing
             [] disk = Unreadable -> Unreadable
             [] disk \in V1       -> Legacy(disk.urls)
             [] OTHER             -> Kept(disk.records)

\* GC of stray temp files never takes the one a live writer is about to rename
\* (tmp_path, gc_tmp_files: both run only under the lock).
RenameFinds == \A s \in Sessions : pc[s] = "rename" => <<s, "live">> \in tmps

\* What a save reported as done is on disk, or superseded by a record at least
\* as new, for as long as the session goes on without another call.
Acknowledged ==
    \A s \in Sessions, k \in Keys :
        pc[s] = "ready" /\ ok[s] /\ mine[s][k] # NoRecord =>
            Durable[k] # NoRecord /\ ~Newer(mine[s][k], Durable[k])

\* A v1 file is replaced only after its bytes were copied aside (migrate_v1).
BackupFirst == [][(disk \in V1) => backup]_disk

\* A session's copy of a page it did not touch never replaces what another
\* session wrote for that page since (merge_persist, "survives").
StaleCopyYields ==
    [][\A s \in Sessions, k \in Keys :
          pc[s] = "rename" /\ pc'[s] = "unlock" /\ k \notin touched[s] =>
              Durable'[k] = Durable[k]]_disk

\* Load and update are atomic for the sessions: every behaviour is one of
\* AtomicStore, so no session starts from a stale view and overwrites what
\* another one committed in between (update, #1230).
Atomic == INSTANCE AtomicStore WITH recs <- Durable
AtomicTransactions == Atomic!Spec

\* A call into the store comes back, and nobody waits for the lock for ever,
\* also when its holder fails or is killed.
CallsReturn == \A s \in Sessions : pc[s] = "wait" ~> pc[s] \in {"ready", "idle"}

=============================================================================
