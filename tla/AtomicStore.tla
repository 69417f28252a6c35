----------------------------- MODULE AtomicStore -----------------------------
(***************************************************************************)
(* What the record store promises the sessions that share it                *)
(* (RecordStorePort): a session sees the durable records of one instant,    *)
(* and publishes its own in one indivisible merge.                          *)
(***************************************************************************)
EXTENDS StampedRecords

CONSTANTS Sessions,
          Unreadable  \* a state file the store refuses to interpret

VARIABLES recs,  \* the durable records, or Unreadable
          mine   \* the records each session holds

Init == recs \in Maps \cup {Unreadable} /\ mine = [s \in Sessions |-> Nothing]

\* A session starts from the durable records, or empty-handed when there are
\* none it can read.
Begin(s) ==
    /\ recs # Unreadable
    /\ mine' = [mine EXCEPT ![s] = recs]
    /\ UNCHANGED recs

Forget(s) == mine' = [mine EXCEPT ![s] = Nothing] /\ UNCHANGED recs

Touch(s, k, r) == mine' = [mine EXCEPT ![s][k] = r] /\ UNCHANGED recs

Publish(s) ==
    /\ recs # Unreadable
    /\ recs' = Merged(mine[s], recs)
    /\ UNCHANGED mine

Next == \E s \in Sessions :
           \/ Begin(s) \/ Forget(s) \/ Publish(s)
           \/ \E k \in Keys, r \in Stamped : Touch(s, k, r)

Spec == Init /\ [][Next]_<<recs, mine>>

=============================================================================
