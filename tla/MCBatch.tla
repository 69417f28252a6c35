------------------------------- MODULE MCBatch -------------------------------
(* Instances of ExportBatch: chunks of two pages, one page in two chunks. *)
EXTENDS ExportBatch

CONSTANTS a, b, ka, kb, h1, h2, h3

MCCanon == [u \in {a, b} |-> IF u = b THEN kb ELSE ka]

It(u, h) == [url |-> u, hash |-> h, act |-> "undecided"]

\* Page a in two chunks, the first of them twice, and page b in one.
MCBatches == { <<It(a, h1), It(a, h2), It(a, h1), It(b, h3)>> }

=============================================================================
