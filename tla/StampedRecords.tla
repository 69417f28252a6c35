---------------------------- MODULE StampedRecords ----------------------------
(* Records as a merge of two sessions sees them: a status and an updated_at. *)
EXTENDS Naturals

CONSTANTS Keys,
          MaxClock,  \* bound: the last millisecond
          NoRecord   \* a key without a record

\* An INVALID record is one the D2 table refuses (PageRecord!Valid).
Stamped == [status : {"DISCOVERED", "EXPORTED", "COMMITTED", "INVALID"}, at : 0..MaxClock]

Maps == [Keys -> Stamped \cup {NoRecord}]

Nothing == [k \in Keys |-> NoRecord]

Newer(r, s) == r # NoRecord /\ s # NoRecord /\ r.at > s.at

\* Mutant: ours is inserted without looking at what is there.
MergedBlindly(ours, current) ==
    [k \in Keys |-> IF ours[k] = NoRecord THEN current[k] ELSE ours[k]]

\* merge_persist: per-URL last-writer-wins, ties go to ours.
Merged(ours, current) ==
    [k \in Keys |-> IF ours[k] = NoRecord \/ Newer(current[k], ours[k])
                    THEN current[k] ELSE ours[k]]

=============================================================================
