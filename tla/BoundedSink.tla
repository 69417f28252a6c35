----------------------------- MODULE BoundedSink -----------------------------
(***************************************************************************)
(* The disk-backed sink of a batch: captures go through a bounded channel  *)
(* to a writer task that appends them to the spool file.  A capture that   *)
(* finds the channel full leaves its page to a task of its own, which      *)
(* holds a sender of the channel until the page is in it.                  *)
(***************************************************************************)
EXTENDS Sequences, SequencesExt, FiniteSets, Integers

CONSTANTS Pages,        \* the pages that may be captured
          Buffer        \* places in the channel, clamped to one by the code

ASSUME SinkAssumption == IsFiniteSet(Pages) /\ Buffer \in Nat \ {0}

VARIABLES open,         \* the sink still has its sender
          chan,         \* the channel
          deferred,     \* pages whose own task waits for a place
          captured,     \* pages counted as captured (a count in the code)
          writer,       \* the writer task: "runs", "done" or "failed"
          spool         \* the lines of the spool file

sinkVars == <<open, chan, deferred, captured, writer, spool>>

SinkInit ==
    /\ open = TRUE /\ chan = <<>> /\ deferred = {} /\ captured = {}
    /\ writer = "runs" /\ spool = <<>>

-----------------------------------------------------------------------------

\* capture.  try_send queues behind the senders that wait already, so with some
\* of these a place may be free and still be promised to one of them.
Sent(p) ==
    /\ open /\ writer = "runs" /\ Len(chan) < Buffer
    /\ chan' = Append(chan, p)
    /\ captured' = captured \cup {p}
    /\ UNCHANGED <<open, deferred, writer, spool>>

\* Mutant: a full channel drops the page.
DeferredNot(p) ==
    /\ open /\ writer = "runs" /\ Len(chan) = Buffer
    /\ captured' = captured \cup {p}
    /\ UNCHANGED <<open, chan, deferred, writer, spool>>

Deferred(p) ==
    /\ open /\ writer = "runs" /\ (Len(chan) = Buffer \/ deferred # {})
    /\ deferred' = deferred \cup {p}
    /\ captured' = captured \cup {p}
    /\ UNCHANGED <<open, chan, writer, spool>>

\* The sink was finished, or the writer has died: the page is discarded.
Discarded == (~open \/ writer # "runs") /\ UNCHANGED sinkVars

Capture(p) == Sent(p) \/ Deferred(p) \/ Discarded

DeferredSends(p) ==
    /\ p \in deferred /\ writer = "runs" /\ Len(chan) < Buffer
    /\ chan' = Append(chan, p) /\ deferred' = deferred \ {p}
    /\ UNCHANGED <<open, captured, writer, spool>>

DeferredLost(p) ==
    /\ p \in deferred /\ writer # "runs"
    /\ deferred' = deferred \ {p}
    /\ UNCHANGED <<open, chan, captured, writer, spool>>

Write ==
    /\ writer = "runs" /\ chan # <<>>
    /\ spool' = Append(spool, Head(chan)) /\ chan' = Tail(chan)
    /\ UNCHANGED <<open, deferred, captured, writer>>

\* A write, or the flush at the end, fails; the receiver goes with the task.
WriterFails ==
    /\ writer = "runs" /\ (chan # <<>> \/ (~open /\ deferred = {}))
    /\ writer' = "failed" /\ chan' = <<>>
    /\ UNCHANGED <<open, deferred, captured, spool>>

\* Every sender is gone and the channel is empty: flush, sync, return.
WriterDone ==
    /\ writer = "runs" /\ ~open /\ deferred = {} /\ chan = <<>>
    /\ writer' = "done"
    /\ UNCHANGED <<open, chan, deferred, captured, spool>>

\* Mutant: finish awaits the writer with the sender still in its place.
CloseNot == open /\ UNCHANGED sinkVars

\* The first half of finish: the sink's own sender is dropped.
Close == open /\ open' = FALSE /\ UNCHANGED <<chan, deferred, captured, writer, spool>>

SinkStep ==
    \/ \E p \in deferred : DeferredSends(p) \/ DeferredLost(p)
    \/ Write \/ WriterFails \/ WriterDone

-----------------------------------------------------------------------------

\* When the writer reports success, the spool holds what was captured and each
\* page once, whichever way it went (bounded_sink.rs: finish, capture).
SpoolComplete ==
    writer = "done" => ToSet(spool) = captured /\ IsInjective(spool)

\* Refuted: pages held in memory stay within the buffer (bounded_sink.rs: header).
MemoryBounded == Len(chan) + Cardinality(deferred) <= Buffer

=============================================================================
