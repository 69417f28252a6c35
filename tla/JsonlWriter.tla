----------------------------- MODULE JsonlWriter -----------------------------
(***************************************************************************)
(* The single-writer JSONL session (infrastructure/export/jsonl_writer.rs): *)
(* clones of one handle send lines, flush requests and one shutdown through *)
(* a bounded channel to the thread that owns the file.  Opening the file    *)
(* and cutting its torn tail is modelled in CommitSession.                  *)
(***************************************************************************)
EXTENDS Naturals, Sequences, SequencesExt

CONSTANTS Clones,    \* holders of a clone of the JsonlSession
          Capacity,  \* CHANNEL_CAPACITY
          MaxLines,  \* bound: lines a clone appends
          CanFail    \* whether a write may fail

ASSUME WriterAssumption ==
    /\ Capacity \in Nat \ {0} /\ MaxLines \in Nat /\ CanFail \in BOOLEAN

VARIABLES
    queue,     \* the channel: messages in the order they were sent
    alive,     \* the writer has not dropped its receiver
    disk,      \* lines written, in order
    exit,      \* what the writer sent on exit_tx: "none", "ok", "err"
    taken,     \* a close() has taken exit_rx out of the shared slot
    pc,        \* where each clone is
    sent,      \* lines each clone has handed to append()
    \* history
    accepted,  \* lines whose append() returned Ok, in channel order
    barrier,   \* per clone: how many lines were accepted when its flush or
               \* shutdown entered the channel
    verdict    \* per clone: how its last flush() or close() ended

vars == <<queue, alive, disk, exit, taken, pc, sent, accepted, barrier, verdict>>

Lines == Clones \X (1..MaxLines)

Message == [kind : {"append"}, line : Lines] \cup [kind : {"flush", "shutdown"}, from : Clones]

TypeOK ==
    /\ queue \in Seq(Message) /\ Len(queue) <= Capacity
    /\ alive \in BOOLEAN /\ taken \in BOOLEAN
    /\ disk \in Seq(Lines) /\ accepted \in Seq(Lines)
    /\ exit \in {"none", "ok", "err"}
    /\ pc \in [Clones -> {"ready", "append", "flush", "ack", "close", "join", "done"}]
    /\ sent \in [Clones -> 0..MaxLines]
    /\ barrier \in [Clones -> Nat]
    /\ verdict \in [Clones -> {"none", "ok", "err"}]

Init ==
    /\ queue = <<>> /\ alive = TRUE /\ disk = <<>> /\ exit = "none" /\ taken = FALSE
    /\ pc = [c \in Clones |-> "ready"] /\ sent = [c \in Clones |-> 0]
    /\ accepted = <<>> /\ barrier = [c \in Clones |-> 0]
    /\ verdict = [c \in Clones |-> "none"]

-----------------------------------------------------------------------------
(* The clones.  A send waits for a free slot, and fails once the receiver is *)
(* gone.                                                                     *)

Goto(c, where) == pc' = [pc EXCEPT ![c] = where]

Room == alive /\ Len(queue) < Capacity

CallAppend(c) ==
    /\ pc[c] = "ready" /\ sent[c] < MaxLines
    /\ sent' = [sent EXCEPT ![c] = @ + 1]
    /\ Goto(c, "append")
    /\ UNCHANGED <<queue, alive, disk, exit, taken, accepted, barrier, verdict>>

SendAppend(c) ==
    /\ pc[c] = "append" /\ Goto(c, "ready")
    /\ LET line == <<c, sent[c]>>
       IN  \/ /\ Room
              /\ queue' = Append(queue, [kind |-> "append", line |-> line])
              /\ accepted' = Append(accepted, line)
           \/ ~alive /\ UNCHANGED <<queue, accepted>>
    /\ UNCHANGED <<alive, disk, exit, taken, sent, barrier, verdict>>

CallFlush(c) ==
    /\ pc[c] = "ready" /\ Goto(c, "flush")
    /\ verdict' = [verdict EXCEPT ![c] = "none"]
    /\ UNCHANGED <<queue, alive, disk, exit, taken, sent, accepted, barrier>>

SendFlush(c) ==
    /\ pc[c] = "flush"
    /\ \/ /\ Room
          /\ queue' = Append(queue, [kind |-> "flush", from |-> c])
          /\ barrier' = [barrier EXCEPT ![c] = Len(accepted)]
          /\ Goto(c, "ack")
          /\ UNCHANGED verdict
       \/ /\ ~alive
          /\ verdict' = [verdict EXCEPT ![c] = "err"]
          /\ Goto(c, "ready")
          /\ UNCHANGED <<queue, barrier>>
    /\ UNCHANGED <<alive, disk, exit, taken, sent, accepted>>

\* The ack sender was dropped with the channel: the writer died first.
AckLost(c) ==
    /\ pc[c] = "ack" /\ ~alive
    /\ verdict' = [verdict EXCEPT ![c] = "err"]
    /\ Goto(c, "ready")
    /\ UNCHANGED <<queue, alive, disk, exit, taken, sent, accepted, barrier>>

\* Only the first close() finds exit_rx; any other returns at once.
CallClose(c) ==
    /\ pc[c] = "ready"
    /\ taken' = TRUE
    /\ verdict' = [verdict EXCEPT ![c] = "none"]
    /\ Goto(c, IF taken THEN "done" ELSE "close")
    /\ UNCHANGED <<queue, alive, disk, exit, sent, accepted, barrier>>

\* A handle goes out of scope without a close().
Release(c) ==
    /\ pc[c] = "ready" /\ Goto(c, "done")
    /\ UNCHANGED <<queue, alive, disk, exit, taken, sent, accepted, barrier, verdict>>

\* The shutdown is sent; its failure is ignored.
SendShutdown(c) ==
    /\ pc[c] = "close" /\ Goto(c, "join")
    /\ \/ Room /\ queue' = Append(queue, [kind |-> "shutdown", from |-> c])
       \/ ~alive /\ UNCHANGED queue
    /\ barrier' = [barrier EXCEPT ![c] = Len(accepted)]
    /\ UNCHANGED <<alive, disk, exit, taken, sent, accepted, verdict>>

Join(c) ==
    /\ pc[c] = "join" /\ exit # "none"
    /\ verdict' = [verdict EXCEPT ![c] = exit]
    /\ Goto(c, "done")
    /\ UNCHANGED <<queue, alive, disk, exit, taken, sent, accepted, barrier>>

-----------------------------------------------------------------------------
(* The writer thread. *)

Running == alive /\ exit = "none"

Receives(kind) == Running /\ queue # <<>> /\ Head(queue).kind = kind

\* The loop is left and the outcome sent; nothing more is received.
Exit(outcome) == exit' = outcome /\ UNCHANGED <<alive, queue>>

\* The receiver goes out of scope, and with it whatever is still queued.
DropReceiver ==
    /\ alive /\ exit # "none"
    /\ alive' = FALSE /\ queue' = <<>>
    /\ UNCHANGED <<exit, disk, taken, pc, sent, accepted, barrier, verdict>>

\* Mutant: a failed write is logged and the loop goes on.
WriteFailsUnnoticed ==
    /\ CanFail /\ Receives("append")
    /\ queue' = Tail(queue)
    /\ UNCHANGED <<alive, exit, disk, taken, pc, sent, accepted, barrier, verdict>>

Write ==
    /\ Receives("append")
    /\ queue' = Tail(queue) /\ disk' = Append(disk, Head(queue).line)
    /\ UNCHANGED <<alive, exit, taken, pc, sent, accepted, barrier, verdict>>

WriteFails ==
    /\ CanFail /\ Receives("append")
    /\ Exit("err")
    /\ UNCHANGED <<disk, taken, pc, sent, accepted, barrier, verdict>>

\* Mutant: acks are kept until the writer exits.
FlushAckKept ==
    /\ Receives("flush")
    /\ queue' = Tail(queue)
    /\ UNCHANGED <<alive, disk, exit, taken, pc, sent, accepted, barrier, verdict>>

Flush ==
    /\ Receives("flush")
    /\ queue' = Tail(queue)
    /\ LET c == Head(queue).from
       IN  Goto(c, "ready") /\ verdict' = [verdict EXCEPT ![c] = "ok"]
    /\ UNCHANGED <<alive, disk, exit, taken, sent, accepted, barrier>>

\* Mutant: the shutdown overtakes what was queued before it.
ShutdownOvertakes ==
    /\ Running /\ \E i \in DOMAIN queue : queue[i].kind = "shutdown"
    /\ Exit("ok")
    /\ UNCHANGED <<disk, taken, pc, sent, accepted, barrier, verdict>>

Shutdown ==
    /\ Receives("shutdown")
    /\ Exit("ok")
    /\ UNCHANGED <<disk, taken, pc, sent, accepted, barrier, verdict>>

\* recv returns None: every sender is gone and the queue is drained.
SendersGone ==
    /\ Running /\ queue = <<>> /\ \A c \in Clones : pc[c] = "done"
    /\ Exit("ok")
    /\ UNCHANGED <<disk, taken, pc, sent, accepted, barrier, verdict>>

-----------------------------------------------------------------------------

Clone(c) == \/ CallAppend(c) \/ SendAppend(c) \/ CallFlush(c) \/ SendFlush(c) \/ AckLost(c)
            \/ CallClose(c) \/ Release(c) \/ SendShutdown(c) \/ Join(c)

Writer == Write \/ WriteFails \/ Flush \/ Shutdown \/ SendersGone \/ DropReceiver

Next == Writer \/ \E c \in Clones : Clone(c)

Spec == Init /\ [][Next]_vars

\* The thread runs, and a task that can go on is polled; nobody is bound to
\* make a further call.  The channel serves waiting senders in turn, so a
\* sender that finds room again and again gets its slot.
FairSpec ==
    /\ Spec /\ WF_vars(Writer)
    /\ \A c \in Clones :
         /\ SF_vars(SendAppend(c)) /\ SF_vars(SendFlush(c)) /\ SF_vars(SendShutdown(c))
         /\ WF_vars(AckLost(c)) /\ WF_vars(Join(c))

-----------------------------------------------------------------------------
(* Properties. *)

\* The file is what was accepted, in channel order, without gaps: clones keep
\* one global line order (JsonlSession, "preserving global line order").
OrderKept == IsPrefix(disk, accepted)

\* A flush() that returned Ok, and the close() that shut the writer down, prove
\* that every line accepted from ANY clone before the request is in the file
\* (flush, "every previously appended byte"; writer_loop, the drain).
FlushBarrier ==
    \A c \in Clones : verdict[c] = "ok" => Len(disk) >= barrier[c]

\* Every call comes back: nobody waits for a slot, an ack or the writer's exit
\* for ever, whether the writer fails or is shut down under the callers.
CallsReturn ==
    \A c \in Clones :
        pc[c] \in {"append", "flush", "ack", "close", "join"} ~> pc[c] \in {"ready", "done"}

=============================================================================
