------------------------------ MODULE MCBatchRun ------------------------------
(* A batch of Count URLs. *)
EXTENDS BatchRun

MCPages == 1..Count

=============================================================================
