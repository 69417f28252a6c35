---------------------------- MODULE MCRecordStore ----------------------------
(* Two sessions on one state file. *)
EXTENDS RecordStore

CONSTANTS k1, k2, s1, s2

Rec(status) == [status |-> status, at |-> 0]

Only(status) == [version |-> 2, records |-> [k \in Keys |-> IF k = k1 THEN Rec(status)
                                                            ELSE NoRecord]]

\* No file, a v1 file, one that cannot be read, one with a refused record.
MCFiles == { None, [version |-> 1, urls |-> {k1}], Unreadable, Only("INVALID") }

\* A page another session has exported.
MCExported == { Only("EXPORTED") }

\* Any of these.
MCAnyFile == MCFiles \cup MCExported

=============================================================================
