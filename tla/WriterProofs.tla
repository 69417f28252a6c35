---------------------------- MODULE WriterProofs -----------------------------
(***************************************************************************)
(* Order and durability of the JSONL session for any number of clones, any   *)
(* channel capacity and with or without failing writes.                     *)
(***************************************************************************)
EXTENDS JsonlWriter, TLAPS

-----------------------------------------------------------------------------
(* The inductive invariant. *)

Adds(m) == IF m.kind = "append" THEN 1 ELSE 0

\* How far the file is once each queued message is handled: f[i] lines after the
\* first i messages.  An append brings the line that was accepted at that place, a
\* flush or a shutdown finds no fewer lines than its barrier.
Chain(f) ==
    /\ f \in [0..Len(queue) -> Nat]
    /\ f[0] = Len(disk)
    /\ alive => f[Len(queue)] = Len(accepted)
    /\ \A i \in 1..Len(queue) :
          /\ f[i] = f[i - 1] + Adds(queue[i])
          /\ queue[i].kind = "append" => f[i] \in DOMAIN accepted /\ accepted[f[i]] = queue[i].line
          /\ queue[i].kind # "append" => barrier[queue[i].from] <= f[i]

Chained == \E f \in [0..Len(queue) -> Nat] : Chain(f)

\* The file holds what was accepted first.
Ordered ==
    /\ Len(disk) <= Len(accepted)
    /\ \A i \in 1..Len(disk) : disk[i] = accepted[i]

\* A request in the channel has its sender waiting, for one answer.
Waiting ==
    /\ ~alive => queue = <<>> /\ exit # "none"
    /\ \A i \in 1..Len(queue) :
          /\ queue[i].kind = "flush" => pc[queue[i].from] = "ack"
          /\ queue[i].kind = "shutdown" => \/ pc[queue[i].from] = "join"
                                           \/ exit # "none" /\ pc[queue[i].from] = "done"
    /\ \A i, j \in 1..Len(queue) :
          queue[i].kind = "flush" /\ queue[j].kind = "flush" /\ queue[i].from = queue[j].from => i = j

\* One close() goes through; the others return at once.
Closing ==
    /\ \A c \in Clones : pc[c] \in {"close", "join"} => taken
    /\ \A c, d \in Clones : pc[c] \in {"close", "join"} /\ pc[d] \in {"close", "join"} => c = d

\* A writer that ended well did so for the only close(), or for nobody.
Ended ==
    exit = "ok" =>
        /\ taken \/ \A c \in Clones : pc[c] = "done"
        /\ \A c \in Clones : pc[c] # "close" /\ (pc[c] = "join" => barrier[c] <= Len(disk))

Answered ==
    \A c \in Clones :
        verdict[c] = "ok" => pc[c] \notin {"flush", "ack", "close", "join"} /\ barrier[c] <= Len(disk)

Numbered == \A c \in Clones : pc[c] = "append" => sent[c] \in 1..MaxLines

Inv == TypeOK /\ Chained /\ Ordered /\ Waiting /\ Closing /\ Ended /\ Answered /\ Numbered

-----------------------------------------------------------------------------
(* Sequences, and the chain. *)

LEMMA AppendIs ==
    ASSUME NEW S, NEW s \in Seq(S), NEW x \in S
    PROVE  /\ Append(s, x) \in Seq(S) /\ Len(s) \in Nat /\ Len(Append(s, x)) = Len(s) + 1
           /\ \A i \in 1..Len(s) : Append(s, x)[i] = s[i]
           /\ Append(s, x)[Len(s) + 1] = x
  OBVIOUS

LEMMA TailIs ==
    ASSUME NEW S, NEW s \in Seq(S), s # <<>>
    PROVE  /\ Head(s) \in S /\ Head(s) = s[1] /\ Tail(s) \in Seq(S)
           /\ Len(s) \in Nat \ {0} /\ Len(Tail(s)) = Len(s) - 1
           /\ \A i \in 1..(Len(s) - 1) : Tail(s)[i] = s[i + 1]
  OBVIOUS

LEMMA MessageIs ==
    ASSUME NEW m \in Message
    PROVE  /\ m.kind \in {"append", "flush", "shutdown"}
           /\ m.kind = "append" => m.line \in Lines
           /\ m.kind # "append" => m.from \in Clones
  BY DEF Message

\* A message enters the channel.
LEMMA PushChain ==
    ASSUME Inv, NEW m \in Message, alive,
           queue' = Append(queue, m), UNCHANGED <<disk, alive>>,
           \/ m.kind = "append" /\ accepted' = Append(accepted, m.line)
           \/ m.kind # "append" /\ accepted' = accepted /\ barrier'[m.from] = Len(accepted),
           \A i \in 1..Len(queue) :
               queue[i].kind # "append" => barrier'[queue[i].from] = barrier[queue[i].from]
    PROVE  Chained'
  <1>1. PICK f \in [0..Len(queue) -> Nat] : Chain(f)
    BY DEF Inv, Chained
  <1>n. PICK n \in Nat : n = Len(queue)
    BY DEF Inv, TypeOK
  <1>g. PICK g : g = [i \in 0..(n + 1) |-> IF i <= n THEN f[i] ELSE f[n] + Adds(m)]
    OBVIOUS
  <1>2. /\ queue \in Seq(Message) /\ n \in Nat /\ Len(queue') = n + 1
        /\ \A i \in 1..n : queue'[i] = queue[i]
        /\ queue'[n + 1] = m
    BY <1>n, AppendIs DEF Inv, TypeOK
  <1>3. /\ accepted \in Seq(Lines) /\ Len(accepted) \in Nat
        /\ Len(accepted') = Len(accepted) + Adds(m)
        /\ \A i \in 1..Len(accepted) : i \in DOMAIN accepted' /\ accepted'[i] = accepted[i]
        /\ m.kind = "append" => /\ Len(accepted) + 1 \in DOMAIN accepted'
                                /\ accepted'[Len(accepted) + 1] = m.line
    <2>1. accepted \in Seq(Lines) /\ (m.kind = "append" => m.line \in Lines)
      BY MessageIs DEF Inv, TypeOK
    <2>2. CASE m.kind = "append" /\ accepted' = Append(accepted, m.line)
      BY <2>1, <2>2, AppendIs DEF Adds
    <2>3. CASE m.kind # "append" /\ accepted' = accepted
      BY <2>1, <2>3 DEF Adds
    <2> QED
      BY <2>2, <2>3
  <1>4. /\ f[n] = Len(accepted) /\ f[0] = Len(disk)
        /\ \A i \in 1..n :
              /\ f[i] = f[i - 1] + Adds(queue[i])
              /\ queue[i].kind = "append" => f[i] \in DOMAIN accepted /\ accepted[f[i]] = queue[i].line
              /\ queue[i].kind # "append" => barrier[queue[i].from] <= f[i]
    BY <1>1, <1>n DEF Chain
  <1>5. g \in [0..Len(queue') -> Nat]
    <2>1. f \in [0..n -> Nat] /\ Adds(m) \in Nat
      BY <1>n DEF Adds
    <2>2. \A i \in 0..(n + 1) : (IF i <= n THEN f[i] ELSE f[n] + Adds(m)) \in Nat
      BY <2>1
    <2> QED
      BY <1>2, <1>g, <2>2
  <1>6. g[0] = Len(disk') /\ g[n + 1] = Len(accepted')
    BY <1>2, <1>3, <1>4, <1>g
  <1>7. ASSUME NEW i \in 1..n
        PROVE  /\ g[i] = g[i - 1] + Adds(queue'[i])
               /\ queue'[i].kind = "append" => g[i] \in DOMAIN accepted' /\ accepted'[g[i]] = queue'[i].line
               /\ queue'[i].kind # "append" => barrier'[queue'[i].from] <= g[i]
    <2>1. g[i] = f[i] /\ g[i - 1] = f[i - 1] /\ queue'[i] = queue[i]
      BY <1>2, <1>g
    <2> QED
      BY <1>3, <1>4, <1>n, <2>1
  <1>8. /\ g[n + 1] = g[n] + Adds(queue'[n + 1])
        /\ queue'[n + 1].kind = "append" =>
              g[n + 1] \in DOMAIN accepted' /\ accepted'[g[n + 1]] = queue'[n + 1].line
        /\ queue'[n + 1].kind # "append" => barrier'[queue'[n + 1].from] <= g[n + 1]
    BY <1>2, <1>3, <1>4, <1>6, <1>g DEF Adds
  <1>9. Chain(g)'
    BY <1>2, <1>5, <1>6, <1>7, <1>8, SMTT(30) DEF Chain
  <1> QED
    BY <1>5, <1>9 DEF Chained

\* The writer has handled the first message.
LEMMA PopChain ==
    ASSUME Inv, queue # <<>>, queue' = Tail(queue), UNCHANGED <<accepted, barrier>>,
           alive' => alive, Len(disk') = Len(disk) + Adds(Head(queue))
    PROVE  Chained'
  <1>1. PICK f \in [0..Len(queue) -> Nat] : Chain(f)
    BY DEF Inv, Chained
  <1>n. PICK n \in Nat : n = Len(queue)
    BY DEF Inv, TypeOK
  <1>g. PICK g : g = [i \in 0..(n - 1) |-> f[i + 1]]
    OBVIOUS
  <1>2. /\ n \in Nat \ {0} /\ Len(queue') = n - 1 /\ Head(queue) = queue[1]
        /\ \A i \in 1..(n - 1) : queue'[i] = queue[i + 1]
    BY <1>n, TailIs DEF Inv, TypeOK
  <1>3. g \in [0..Len(queue') -> Nat]
    BY <1>2, <1>n, <1>g
  <1>4. g[0] = Len(disk') /\ (alive' => g[n - 1] = Len(accepted'))
    <2>1. f[1] = f[0] + Adds(queue[1])
      BY <1>1, <1>2, <1>n DEF Chain
    <2> QED
      BY <1>1, <1>2, <1>n, <1>g, <2>1 DEF Chain
  <1>5. ASSUME NEW i \in 1..(n - 1)
        PROVE  /\ g[i] = g[i - 1] + Adds(queue'[i])
               /\ queue'[i].kind = "append" => g[i] \in DOMAIN accepted' /\ accepted'[g[i]] = queue'[i].line
               /\ queue'[i].kind # "append" => barrier'[queue'[i].from] <= g[i]
    <2>1. /\ i + 1 \in 1..n /\ (i + 1) - 1 = i /\ g[i] = f[i + 1] /\ g[i - 1] = f[i]
          /\ queue'[i] = queue[i + 1]
      BY <1>2, <1>g
    <2> QED
      BY <1>1, <1>n, <2>1 DEF Chain
  <1>6. Chain(g)'
    BY <1>2, <1>3, <1>4, <1>5 DEF Chain
  <1> QED
    BY <1>3, <1>6 DEF Chained

\* The channel is left alone, or dropped.
LEMMA SameChain ==
    ASSUME Inv, UNCHANGED <<disk, accepted>>,
           \/ queue' = queue /\ alive' = alive /\ \A i \in 1..Len(queue) :
                 queue[i].kind # "append" => barrier'[queue[i].from] = barrier[queue[i].from]
           \/ queue' = <<>> /\ ~alive'
    PROVE  Chained'
  <1>1. PICK f \in [0..Len(queue) -> Nat] : Chain(f)
    BY DEF Inv, Chained
  <1>2. CASE queue' = queue /\ alive' = alive /\ \A i \in 1..Len(queue) :
                queue[i].kind # "append" => barrier'[queue[i].from] = barrier[queue[i].from]
    <2>1. Chain(f)'
      BY <1>1, <1>2 DEF Chain
    <2> QED
      BY <1>2, <2>1 DEF Chained
  <1>3. CASE queue' = <<>> /\ ~alive'
    <2> DEFINE g == [i \in 0..0 |-> Len(disk)]
    <2>1. Len(disk) \in Nat
      BY DEF Inv, TypeOK
    <2>2. g \in [0..Len(queue') -> Nat] /\ Chain(g)'
      BY <1>3, <2>1 DEF Chain
    <2> QED
      BY <2>2 DEF Chained
  <1> QED
    BY <1>2, <1>3

-----------------------------------------------------------------------------
(* The steps. *)

\* Calls and returns of a clone, which leave the channel alone.
LEMMA CallKeeps ==
    ASSUME Inv, NEW c \in Clones,
           \/ CallAppend(c) \/ CallFlush(c) \/ AckLost(c) \/ CallClose(c) \/ Release(c) \/ Join(c)
    PROVE  Inv'
  <1>1. /\ UNCHANGED <<queue, alive, disk, exit, accepted, barrier>>
        /\ \E to \in {"ready", "append", "flush", "close", "done"} : pc' = [pc EXCEPT ![c] = to]
        /\ pc[c] \in {"ready", "ack", "join"}
    BY DEF CallAppend, CallFlush, AckLost, CallClose, Release, Join, Goto
  <1>2. pc' \in [Clones -> {"ready", "append", "flush", "ack", "close", "join", "done"}]
    BY <1>1 DEF Inv, TypeOK
  <1>3. verdict' \in [Clones -> {"none", "ok", "err"}]
    BY DEF Inv, TypeOK, CallAppend, CallFlush, AckLost, CallClose, Release, Join
  <1>4. sent' \in [Clones -> 0..MaxLines]
    <2>1. CASE CallAppend(c)
      <3>1. sent[c] + 1 \in 0..MaxLines
        BY <2>1, WriterAssumption DEF Inv, TypeOK, CallAppend
      <3> QED
        BY <2>1, <3>1 DEF Inv, TypeOK, CallAppend
    <2>2. CASE sent' = sent
      BY <2>2 DEF Inv, TypeOK
    <2> QED
      BY <2>1, <2>2 DEF CallFlush, AckLost, CallClose, Release, Join
  <1>5. taken' \in BOOLEAN /\ (taken => taken')
    BY DEF Inv, TypeOK, CallAppend, CallFlush, AckLost, CallClose, Release, Join
  <1>6. TypeOK'
    BY <1>1, <1>2, <1>3, <1>4, <1>5 DEF Inv, TypeOK
  <1>7. Chained' /\ Ordered'
    BY <1>1, SameChain DEF Inv, Ordered
  <1>8. Waiting'
    <2>1. pc[c] = "ack" => ~alive
      BY <1>1 DEF CallAppend, CallFlush, AckLost, CallClose, Release, Join
    <2>2. pc[c] = "join" => exit # "none" /\ pc'[c] = "done"
      BY DEF Inv, TypeOK, CallAppend, CallFlush, AckLost, CallClose, Release, Join, Goto
    <2>3. ASSUME NEW d \in Clones, d # c PROVE pc'[d] = pc[d]
      BY <1>1, <2>3 DEF Inv, TypeOK
    <2>4. ASSUME NEW i \in 1..Len(queue), queue[i].kind = "flush"
          PROVE  pc'[queue[i].from] = "ack"
      <3>1. alive /\ pc[queue[i].from] = "ack" /\ queue[i].from \in Clones
        BY <2>4, MessageIs DEF Inv, TypeOK, Waiting
      <3> QED
        BY <2>1, <2>3, <3>1
    <2>5. ASSUME NEW i \in 1..Len(queue), queue[i].kind = "shutdown"
          PROVE  \/ pc'[queue[i].from] = "join"
                 \/ exit # "none" /\ pc'[queue[i].from] = "done"
      <3>1. /\ queue[i].from \in Clones
            /\ \/ pc[queue[i].from] = "join"
               \/ exit # "none" /\ pc[queue[i].from] = "done"
        BY <2>5, MessageIs DEF Inv, TypeOK, Waiting
      <3> QED
        BY <1>1, <2>2, <2>3, <3>1
    <2> QED
      BY <1>1, <2>4, <2>5 DEF Inv, Waiting
  <1>9. Closing'
    <2>1. CASE pc'[c] \notin {"close", "join"}
      BY <1>1, <1>5, <2>1 DEF Inv, TypeOK, Closing
    <2>2. CASE ~taken /\ taken'
      BY <1>1, <2>2 DEF Inv, TypeOK, Closing
    <2> QED
      BY <2>1, <2>2 DEF Inv, TypeOK, CallAppend, CallFlush, AckLost, CallClose, Release, Join, Goto
  <1>10. Ended'
    BY <1>1, <1>5 DEF Inv, TypeOK, Ended, CallAppend, CallFlush, AckLost, CallClose, Release, Join, Goto
  <1>11. Answered'
    BY DEF Inv, TypeOK, Ended, Answered, CallAppend, CallFlush, AckLost, CallClose, Release, Join, Goto
  <1>12. Numbered'
    <2>1. CASE CallAppend(c)
      <3>1. sent[c] + 1 \in 1..MaxLines
        BY <2>1, WriterAssumption DEF Inv, TypeOK, CallAppend
      <3> QED
        BY <2>1, <3>1 DEF Inv, TypeOK, Numbered, CallAppend, Goto
    <2>2. CASE sent' = sent /\ pc'[c] # "append"
      BY <1>1, <2>2 DEF Inv, TypeOK, Numbered
    <2> QED
      BY <2>1, <2>2 DEF CallFlush, AckLost, CallClose, Release, Join, Goto, Inv, TypeOK
  <1> QED
    BY <1>6, <1>7, <1>8, <1>9, <1>10, <1>11, <1>12 DEF Inv

\* The request of c is not in the channel before c sends it.
LEMMA Unsent ==
    ASSUME Inv, NEW c \in Clones, pc[c] \in {"flush", "close"}, NEW i \in 1..Len(queue),
           queue[i].kind # "append"
    PROVE  queue[i].from \in Clones /\ queue[i].from # c
  <1>1. queue[i] \in Message
    BY DEF Inv, TypeOK
  <1> QED
    BY <1>1, MessageIs DEF Inv, Waiting

LEMMA PushTyped ==
    ASSUME Inv, NEW m \in Message, Room, queue' = Append(queue, m)
    PROVE  /\ queue' \in Seq(Message) /\ Len(queue') <= Capacity /\ Len(queue) \in Nat
           /\ Len(queue') = Len(queue) + 1 /\ queue'[Len(queue) + 1] = m
           /\ \A i \in 1..Len(queue) : queue'[i] = queue[i]
  BY AppendIs, WriterAssumption DEF Inv, TypeOK, Room

LEMMA SendAppendKeeps == ASSUME Inv, NEW c \in Clones, SendAppend(c) PROVE Inv'
  <1>m. PICK m : m = [kind |-> "append", line |-> <<c, sent[c]>>]
    OBVIOUS
  <1>1. /\ pc[c] = "append" /\ pc' = [pc EXCEPT ![c] = "ready"]
        /\ UNCHANGED <<alive, disk, exit, taken, sent, barrier, verdict>>
        /\ \/ Room /\ queue' = Append(queue, m) /\ accepted' = Append(accepted, m.line)
           \/ ~alive /\ UNCHANGED <<queue, accepted>>
    BY <1>m DEF SendAppend, Goto
  <1>2. Closing' /\ Ended' /\ Answered' /\ Numbered'
    BY <1>1 DEF Inv, TypeOK, Closing, Ended, Answered, Numbered
  <1>3. pc' \in [Clones -> {"ready", "append", "flush", "ack", "close", "join", "done"}]
    BY <1>1 DEF Inv, TypeOK
  <1>4. CASE ~alive /\ UNCHANGED <<queue, accepted>>
    <2>1. TypeOK'
      BY <1>1, <1>3, <1>4 DEF Inv, TypeOK
    <2>2. Chained' /\ Ordered'
      BY <1>1, <1>4, SameChain DEF Inv, Ordered
    <2>3. Waiting'
      BY <1>1, <1>4 DEF Inv, TypeOK, Waiting
    <2> QED
      BY <1>2, <2>1, <2>2, <2>3 DEF Inv
  <1>5. CASE Room /\ queue' = Append(queue, m) /\ accepted' = Append(accepted, m.line)
    <2>1. m \in Message /\ m.kind = "append" /\ m.line \in Lines
      BY <1>1, <1>m DEF Inv, Numbered, Message, Lines
    <2>2. accepted' \in Seq(Lines) /\ Len(accepted') = Len(accepted) + 1 /\ Len(accepted) \in Nat
          /\ \A i \in 1..Len(accepted) : accepted'[i] = accepted[i]
      BY <1>5, <2>1, AppendIs DEF Inv, TypeOK
    <2>3. /\ queue' \in Seq(Message) /\ Len(queue') <= Capacity /\ Len(queue) \in Nat
          /\ Len(queue') = Len(queue) + 1 /\ queue'[Len(queue) + 1] = m
          /\ \A i \in 1..Len(queue) : queue'[i] = queue[i]
      BY <1>5, <2>1, PushTyped
    <2>4. TypeOK'
      BY <1>1, <1>3, <2>2, <2>3 DEF Inv, TypeOK
    <2>5. Chained'
      BY <1>1, <1>5, <2>1, PushChain DEF Room
    <2>6. Ordered'
      BY <1>1, <2>2 DEF Inv, TypeOK, Ordered
    <2>7. Waiting'
      <3>1. \A i \in 1..Len(queue') : queue'[i].kind # "append" => i \in 1..Len(queue) /\ queue'[i] = queue[i]
        BY <2>1, <2>3
      <3>2. \A d \in Clones : pc[d] # "append" => pc'[d] = pc[d]
        BY <1>1 DEF Inv, TypeOK
      <3>3. \A i \in 1..Len(queue) : queue[i].kind # "append" => queue[i].from \in Clones
        BY MessageIs DEF Inv, TypeOK
      <3>4. alive'
        BY <1>1, <1>5 DEF Room
      <3> QED
        BY <1>1, <3>1, <3>2, <3>3, <3>4, SMTT(30) DEF Inv, Waiting
    <2> QED
      BY <1>2, <2>4, <2>5, <2>6, <2>7 DEF Inv
  <1> QED
    BY <1>1, <1>4, <1>5

\* A flush and a shutdown enter alike, with a barrier.
LEMMA RequestKeeps ==
    ASSUME Inv, NEW c \in Clones, pc[c] \in {"flush", "close"}, NEW m \in Message, m.from = c,
           \/ pc[c] = "flush" /\ m.kind = "flush" /\ pc' = [pc EXCEPT ![c] = "ack"]
           \/ pc[c] = "close" /\ m.kind = "shutdown" /\ pc' = [pc EXCEPT ![c] = "join"],
           Room, queue' = Append(queue, m), barrier' = [barrier EXCEPT ![c] = Len(accepted)],
           UNCHANGED <<alive, disk, exit, taken, sent, accepted, verdict>>
    PROVE  Inv'
  <1>1. /\ queue' \in Seq(Message) /\ Len(queue') <= Capacity /\ Len(queue) \in Nat
        /\ Len(queue') = Len(queue) + 1 /\ queue'[Len(queue) + 1] = m
        /\ \A i \in 1..Len(queue) : queue'[i] = queue[i]
    BY PushTyped
  <1>2. pc' \in [Clones -> {"ready", "append", "flush", "ack", "close", "join", "done"}]
    BY DEF Inv, TypeOK
  <1>3. barrier' \in [Clones -> Nat] /\ barrier'[c] = Len(accepted)
    BY DEF Inv, TypeOK
  <1>4. TypeOK'
    BY <1>1, <1>2, <1>3 DEF Inv, TypeOK
  <1>5. \A i \in 1..Len(queue) :
           queue[i].kind # "append" => queue[i].from \in Clones /\ queue[i].from # c
    BY Unsent
  <1>6. \A d \in Clones \ {c} : pc'[d] = pc[d] /\ barrier'[d] = barrier[d]
    BY DEF Inv, TypeOK
  <1>7. Chained'
    BY <1>3, <1>5, <1>6, PushChain DEF Room
  <1>8. Ordered'
    BY DEF Inv, Ordered
  <1>9. Waiting'
    <2>1. alive'
      BY DEF Room
    <2>2. \A i \in 1..Len(queue) : queue'[i] = queue[i] /\ (queue[i].kind # "append" =>
              queue[i].from # c /\ pc'[queue[i].from] = pc[queue[i].from])
      BY <1>1, <1>5, <1>6
    <2>3. ASSUME NEW i \in 1..Len(queue')
          PROVE  /\ queue'[i].kind = "flush" => pc'[queue'[i].from] = "ack"
                 /\ queue'[i].kind = "shutdown" => \/ pc'[queue'[i].from] = "join"
                                                   \/ exit' # "none" /\ pc'[queue'[i].from] = "done"
      <3>1. CASE i \in 1..Len(queue)
        BY <2>2, <3>1 DEF Inv, Waiting
      <3>2. CASE i = Len(queue) + 1
        BY <1>1, <3>2 DEF Inv, TypeOK
      <3> QED
        BY <1>1, <3>1, <3>2
    <2>4. ASSUME NEW i \in 1..Len(queue'), NEW j \in 1..Len(queue'),
                 queue'[i].kind = "flush", queue'[j].kind = "flush", queue'[i].from = queue'[j].from
          PROVE  i = j
      <3>1. CASE i \in 1..Len(queue) /\ j \in 1..Len(queue)
        BY <2>2, <2>4, <3>1 DEF Inv, Waiting
      <3>2. CASE i = Len(queue) + 1 \/ j = Len(queue) + 1
        BY <1>1, <2>2, <2>4, <3>2
      <3> QED
        BY <1>1, <3>1, <3>2
    <2> QED
      BY <2>1, <2>3, <2>4 DEF Waiting
  <1>10. Closing'
    <2>1. \A d \in Clones : pc'[d] \in {"close", "join"} => pc[d] \in {"close", "join"}
      BY <1>6 DEF Inv, TypeOK
    <2> QED
      BY <2>1 DEF Inv, Closing
  <1>11. Ended'
    <2>1. exit = "ok" => taken /\ pc[c] # "close"
      BY DEF Inv, Ended
    <2> QED
      BY <1>6, <2>1 DEF Inv, TypeOK, Ended
  <1>12. Answered'
    <2>1. verdict[c] # "ok"
      BY DEF Inv, Answered
    <2> QED
      BY <1>6, <2>1 DEF Inv, Answered
  <1>13. Numbered'
    BY <1>6 DEF Inv, TypeOK, Numbered
  <1> QED
    BY <1>4, <1>7, <1>8, <1>9, <1>10, <1>11, <1>12, <1>13 DEF Inv

\* ... or fail when the writer is gone.
LEMMA RequestFailsKeeps ==
    ASSUME Inv, NEW c \in Clones, ~alive, UNCHANGED <<queue, alive, disk, exit, taken, sent, accepted>>,
           \/ /\ pc[c] = "flush" /\ pc' = [pc EXCEPT ![c] = "ready"]
              /\ verdict' = [verdict EXCEPT ![c] = "err"] /\ barrier' = barrier
           \/ /\ pc[c] = "close" /\ pc' = [pc EXCEPT ![c] = "join"]
              /\ barrier' = [barrier EXCEPT ![c] = Len(accepted)] /\ verdict' = verdict
    PROVE  Inv'
  <1>1. queue = <<>> /\ exit # "none"
    BY DEF Inv, Waiting
  <1>2. \A d \in Clones \ {c} : pc'[d] = pc[d] /\ barrier'[d] = barrier[d] /\ verdict'[d] = verdict[d]
    BY DEF Inv, TypeOK
  <1>3. pc' \in [Clones -> {"ready", "append", "flush", "ack", "close", "join", "done"}]
    BY DEF Inv, TypeOK
  <1>4. barrier' \in [Clones -> Nat] /\ verdict' \in [Clones -> {"none", "ok", "err"}]
    <2>1. Len(accepted) \in Nat
      BY DEF Inv, TypeOK
    <2>2. barrier' \in [Clones -> Nat]
      BY <2>1 DEF Inv, TypeOK
    <2>3. verdict' \in [Clones -> {"none", "ok", "err"}]
      BY DEF Inv, TypeOK
    <2> QED
      BY <2>2, <2>3
  <1>5. TypeOK'
    BY <1>3, <1>4 DEF Inv, TypeOK
  <1>6. Chained' /\ Ordered' /\ Waiting'
    BY <1>1, SameChain DEF Inv, Ordered, Waiting
  <1>7. Closing'
    <2>1. \A d \in Clones : pc'[d] \in {"close", "join"} => pc[d] \in {"close", "join"}
      BY <1>2 DEF Inv, TypeOK
    <2> QED
      BY <2>1 DEF Inv, Closing
  <1>8. Ended'
    <2>1. CASE pc[c] = "close"
      BY <2>1 DEF Inv, Ended
    <2>2. CASE pc[c] = "flush" /\ pc' = [pc EXCEPT ![c] = "ready"] /\ barrier' = barrier
      BY <1>2, <2>2 DEF Inv, TypeOK, Ended
    <2> QED
      BY <2>1, <2>2
  <1>9. Answered'
    <2>1. verdict'[c] # "ok"
      BY DEF Inv, TypeOK, Answered
    <2> QED
      BY <1>2, <2>1 DEF Inv, Answered
  <1>10. Numbered'
    BY <1>2 DEF Inv, TypeOK, Numbered
  <1> QED
    BY <1>5, <1>6, <1>7, <1>8, <1>9, <1>10 DEF Inv

LEMMA SendKeeps == ASSUME Inv, NEW c \in Clones, SendFlush(c) \/ SendShutdown(c) PROVE Inv'
  <1>1. CASE ~alive /\ UNCHANGED queue
    BY <1>1, RequestFailsKeeps DEF SendFlush, SendShutdown, Goto, Room
  <1>2. CASE SendFlush(c) /\ Room
    <2>1. [kind |-> "flush", from |-> c] \in Message
      BY DEF Message
    <2> QED
      BY <1>2, <2>1, RequestKeeps DEF SendFlush, Goto, Room
  <1>3. CASE SendShutdown(c) /\ Room
    <2>1. [kind |-> "shutdown", from |-> c] \in Message
      BY DEF Message
    <2>2. CASE queue' = Append(queue, [kind |-> "shutdown", from |-> c])
      BY <1>3, <2>1, <2>2, RequestKeeps DEF SendShutdown, Goto
    <2> QED
      BY <1>3, <2>2 DEF SendShutdown, Room
  <1> QED
    BY <1>1, <1>2, <1>3 DEF SendFlush, SendShutdown

\* What the writer takes out of the channel leaves the requests behind it as they were.
LEMMA PopWaits ==
    ASSUME Inv, queue # <<>>, queue' = Tail(queue), alive, alive', UNCHANGED exit,
           \A i \in 2..Len(queue) : queue[i].kind # "append" => pc'[queue[i].from] = pc[queue[i].from]
    PROVE  queue' \in Seq(Message) /\ Len(queue') <= Capacity /\ Waiting'
  <1>1. /\ queue' \in Seq(Message) /\ Len(queue) \in Nat \ {0} /\ Len(queue') = Len(queue) - 1
        /\ \A i \in 1..(Len(queue) - 1) : queue'[i] = queue[i + 1]
    BY TailIs DEF Inv, TypeOK
  <1>2. Len(queue') <= Capacity
    BY <1>1, WriterAssumption DEF Inv, TypeOK
  <1>3. \A i \in 1..Len(queue') : i + 1 \in 2..Len(queue) /\ i + 1 \in 1..Len(queue) /\ queue'[i] = queue[i + 1]
    BY <1>1
  <1>4. ASSUME NEW i \in 1..Len(queue')
        PROVE  /\ queue'[i].kind = "flush" => pc'[queue'[i].from] = "ack"
               /\ queue'[i].kind = "shutdown" => \/ pc'[queue'[i].from] = "join"
                                                 \/ exit' # "none" /\ pc'[queue'[i].from] = "done"
    BY <1>3 DEF Inv, Waiting
  <1>5. ASSUME NEW i \in 1..Len(queue'), NEW j \in 1..Len(queue'),
               queue'[i].kind = "flush", queue'[j].kind = "flush", queue'[i].from = queue'[j].from
        PROVE  i = j
    <2>1. i + 1 = j + 1
      BY <1>3, <1>5 DEF Inv, Waiting
    <2> QED
      BY <1>1, <2>1
  <1> QED
    BY <1>1, <1>2, <1>4, <1>5 DEF Waiting

LEMMA WriteKeeps == ASSUME Inv, Write PROVE Inv'
  <1>1. /\ alive /\ exit = "none" /\ queue # <<>> /\ Head(queue).kind = "append"
        /\ queue' = Tail(queue) /\ disk' = Append(disk, Head(queue).line)
        /\ UNCHANGED <<alive, exit, taken, pc, sent, accepted, barrier, verdict>>
    BY DEF Write, Receives, Running
  <1>2. Head(queue) = queue[1] /\ Head(queue).line \in Lines /\ Len(queue) \in Nat \ {0}
    BY <1>1, TailIs, MessageIs DEF Inv, TypeOK
  <1>3. /\ disk' \in Seq(Lines) /\ Len(disk) \in Nat /\ Len(disk') = Len(disk) + 1
        /\ \A i \in 1..Len(disk) : disk'[i] = disk[i]
        /\ disk'[Len(disk) + 1] = Head(queue).line
    BY <1>1, <1>2, AppendIs DEF Inv, TypeOK
  <1>4. Len(disk) + 1 \in DOMAIN accepted /\ accepted[Len(disk) + 1] = Head(queue).line
    <2>1. PICK f \in [0..Len(queue) -> Nat] : Chain(f)
      BY DEF Inv, Chained
    <2>2. f[1] = f[1 - 1] + Adds(queue[1]) /\ f[1] \in DOMAIN accepted /\ accepted[f[1]] = queue[1].line
      BY <1>1, <1>2, <2>1 DEF Chain
    <2> QED
      BY <1>1, <1>2, <1>3, <2>1, <2>2 DEF Chain, Adds
  <1>5. queue' \in Seq(Message) /\ Len(queue') <= Capacity /\ Waiting'
    BY <1>1, PopWaits
  <1>6. TypeOK'
    BY <1>1, <1>3, <1>5 DEF Inv, TypeOK
  <1>7. Chained'
    BY <1>1, <1>3, PopChain DEF Adds
  <1>8. Ordered'
    <2>1. accepted \in Seq(Lines) /\ Len(accepted) \in Nat /\ DOMAIN accepted = 1..Len(accepted)
      BY DEF Inv, TypeOK
    <2> QED
      BY <1>1, <1>3, <1>4, <2>1 DEF Inv, Ordered
  <1>9. Closing' /\ Numbered'
    BY <1>1 DEF Inv, Closing, Numbered
  <1>10. Ended'
    BY <1>1 DEF Ended
  <1>11. Answered'
    <2>1. \A c \in Clones : barrier[c] \in Nat
      BY DEF Inv, TypeOK
    <2> QED
      BY <1>1, <1>3, <2>1 DEF Inv, Answered
  <1> QED
    BY <1>5, <1>6, <1>7, <1>8, <1>9, <1>10, <1>11 DEF Inv

LEMMA FlushKeeps == ASSUME Inv, Flush PROVE Inv'
  <1>c. PICK c \in Clones : c = Head(queue).from
    BY TailIs, MessageIs DEF Flush, Receives, Inv, TypeOK
  <1>1. /\ alive /\ exit = "none" /\ queue # <<>> /\ Head(queue).kind = "flush"
        /\ queue' = Tail(queue)
        /\ pc' = [pc EXCEPT ![c] = "ready"] /\ verdict' = [verdict EXCEPT ![c] = "ok"]
        /\ UNCHANGED <<alive, disk, exit, taken, sent, accepted, barrier>>
    BY <1>c DEF Flush, Receives, Running, Goto
  <1>2. Head(queue) = queue[1] /\ Len(queue) \in Nat \ {0}
    BY <1>1, TailIs DEF Inv, TypeOK
  <1>3. pc[c] = "ack"
    BY <1>c, <1>1, <1>2 DEF Inv, Waiting
  <1>4. barrier[c] <= Len(disk)
    <2>1. PICK f \in [0..Len(queue) -> Nat] : Chain(f)
      BY DEF Inv, Chained
    <2>2. f[1] = f[1 - 1] + Adds(queue[1]) /\ barrier[c] <= f[1] /\ f[0] = Len(disk)
      BY <1>c, <1>1, <1>2, <2>1 DEF Chain
    <2> QED
      BY <1>1, <1>2, <2>1, <2>2 DEF Adds
  <1>5. \A d \in Clones \ {c} : pc'[d] = pc[d] /\ verdict'[d] = verdict[d]
    BY <1>1 DEF Inv, TypeOK
  <1>6. \A i \in 2..Len(queue) : queue[i].kind # "append" => pc'[queue[i].from] = pc[queue[i].from]
    <2> SUFFICES ASSUME NEW i \in 2..Len(queue), queue[i].kind # "append" PROVE pc'[queue[i].from] = pc[queue[i].from]
      OBVIOUS
    <2>1. i \in 1..Len(queue) /\ queue[i] \in Message /\ i # 1
      BY <1>2 DEF Inv, TypeOK
    <2>2. queue[i].from \in Clones /\ queue[i].kind \in {"flush", "shutdown"}
      BY <2>1, MessageIs
    <2>3. queue[i].from # c
      <3>1. CASE queue[i].kind = "flush"
        BY <1>c, <1>1, <1>2, <2>1, <3>1 DEF Inv, Waiting
      <3>2. CASE queue[i].kind = "shutdown"
        BY <1>3, <2>1, <3>2 DEF Inv, Waiting
      <3> QED
        BY <2>2, <3>1, <3>2
    <2> QED
      BY <1>5, <2>2, <2>3
  <1>7. queue' \in Seq(Message) /\ Len(queue') <= Capacity /\ Waiting'
    BY <1>1, <1>6, PopWaits
  <1>8. pc' \in [Clones -> {"ready", "append", "flush", "ack", "close", "join", "done"}]
    BY <1>1 DEF Inv, TypeOK
  <1>9. verdict' \in [Clones -> {"none", "ok", "err"}]
    BY <1>1 DEF Inv, TypeOK
  <1>10. TypeOK'
    BY <1>1, <1>7, <1>8, <1>9 DEF Inv, TypeOK
  <1>11. Chained'
    <2>1. Len(disk') = Len(disk) + Adds(Head(queue))
      BY <1>1 DEF Adds, Inv, TypeOK
    <2> QED
      BY <1>1, <2>1, PopChain
  <1>12. Ordered'
    BY <1>1 DEF Inv, Ordered
  <1>13. Closing' /\ Ended'
    BY <1>1, <1>5 DEF Inv, TypeOK, Closing, Ended
  <1>14. Answered'
    BY <1>1, <1>4, <1>5 DEF Inv, TypeOK, Answered
  <1>15. Numbered'
    BY <1>1, <1>5 DEF Inv, TypeOK, Numbered
  <1> QED
    BY <1>7, <1>10, <1>11, <1>12, <1>13, <1>14, <1>15 DEF Inv

LEMMA ExitKeeps == ASSUME Inv, WriteFails \/ Shutdown \/ SendersGone \/ DropReceiver PROVE Inv'
  <1>1. /\ UNCHANGED <<disk, taken, pc, sent, accepted, barrier, verdict>> /\ exit' # "none"
        /\ \/ UNCHANGED <<queue, alive>>
           \/ queue' = <<>> /\ ~alive' /\ alive' = FALSE /\ exit' = exit
    BY DEF WriteFails, Shutdown, SendersGone, DropReceiver, Exit
  <1>2. exit' \in {"ok", "err"} \cup {exit}
    BY DEF WriteFails, Shutdown, SendersGone, DropReceiver, Exit
  <1>3. TypeOK'
    <2>1. queue' \in Seq(Message) /\ Len(queue') <= Capacity
      <3>1. CASE queue' = queue
        BY <3>1 DEF Inv, TypeOK
      <3>2. CASE queue' = <<>>
        BY <3>2, WriterAssumption
      <3> QED
        BY <1>1, <3>1, <3>2
    <2>2. alive' \in BOOLEAN
      BY <1>1 DEF Inv, TypeOK
    <2>3. exit' \in {"none", "ok", "err"}
      BY <1>2 DEF Inv, TypeOK
    <2> QED
      BY <1>1, <2>1, <2>2, <2>3 DEF Inv, TypeOK
  <1>4. Chained' /\ Ordered'
    BY <1>1, SameChain DEF Inv, Ordered
  <1>5. Waiting'
    BY <1>1 DEF Inv, Waiting
  <1>6. Closing' /\ Answered' /\ Numbered'
    BY <1>1 DEF Inv, Closing, Answered, Numbered
  <1>7. Ended'
    <2>1. CASE WriteFails
      BY <2>1 DEF WriteFails, Exit, Ended
    <2>2. CASE DropReceiver
      BY <2>2 DEF DropReceiver, Inv, Ended
    <2>3. CASE SendersGone
      BY <1>1, <2>3 DEF SendersGone, Ended
    <2>4. CASE Shutdown
      <3>1. PICK c \in Clones : c = Head(queue).from
        BY <2>4, TailIs, MessageIs DEF Shutdown, Receives, Inv, TypeOK
      <3>2. queue # <<>> /\ Head(queue) = queue[1] /\ Len(queue) \in Nat \ {0} /\ queue[1].kind = "shutdown"
            /\ exit = "none"
        BY <2>4, TailIs DEF Shutdown, Receives, Running, Inv, TypeOK
      <3>3. pc[c] = "join"
        BY <3>1, <3>2 DEF Inv, Waiting
      <3>4. barrier[c] <= Len(disk)
        <4>1. PICK f \in [0..Len(queue) -> Nat] : Chain(f)
          BY DEF Inv, Chained
        <4>2. f[1] = f[1 - 1] + Adds(queue[1]) /\ barrier[c] <= f[1] /\ f[0] = Len(disk)
          BY <3>1, <3>2, <4>1 DEF Chain
        <4> QED
          BY <3>2, <4>1, <4>2 DEF Adds
      <3> QED
        BY <1>1, <3>3, <3>4 DEF Inv, Closing, Ended
    <2> QED
      BY <2>1, <2>2, <2>3, <2>4
  <1> QED
    BY <1>3, <1>4, <1>5, <1>6, <1>7 DEF Inv

-----------------------------------------------------------------------------
(* The theorems. *)

LEMMA InitInv == Init => Inv
  <1> SUFFICES ASSUME Init PROVE Inv
    OBVIOUS
  <1>1. TypeOK
    <2>1. /\ queue \in Seq(Message) /\ Len(queue) <= Capacity
          /\ disk \in Seq(Lines) /\ accepted \in Seq(Lines)
      BY WriterAssumption DEF Init
    <2>2. sent \in [Clones -> 0..MaxLines] /\ barrier \in [Clones -> Nat]
      BY WriterAssumption DEF Init
    <2>3. alive \in BOOLEAN /\ taken \in BOOLEAN
      BY DEF Init
    <2> QED
      BY <2>1, <2>2, <2>3 DEF Init, TypeOK
  <1>2. Chained
    <2> DEFINE f == [i \in 0..0 |-> 0]
    <2>1. f \in [0..Len(queue) -> Nat] /\ Chain(f)
      BY DEF Init, Chain
    <2> QED
      BY <2>1 DEF Chained
  <1>3. Ordered /\ Waiting /\ Closing /\ Ended /\ Answered /\ Numbered
    BY DEF Init, Ordered, Waiting, Closing, Ended, Answered, Numbered
  <1> QED
    BY <1>1, <1>2, <1>3 DEF Inv

LEMMA StepInv == Inv /\ [Next]_vars => Inv'
  <1> SUFFICES ASSUME Inv, [Next]_vars PROVE Inv'
    OBVIOUS
  <1>1. CASE UNCHANGED vars
    BY <1>1, SameChain DEF vars, Inv, TypeOK, Ordered, Waiting, Closing, Ended, Answered, Numbered
  <1>2. CASE Writer
    BY <1>2, WriteKeeps, FlushKeeps, ExitKeeps DEF Writer
  <1>3. CASE \E c \in Clones : Clone(c)
    BY <1>3, CallKeeps, SendAppendKeeps, SendKeeps DEF Clone
  <1> QED
    BY <1>1, <1>2, <1>3 DEF Next

THEOREM Invariance == Spec => []Inv
  BY InitInv, StepInv, PTL DEF Spec

\* Every reachable state of the writer session, for any number of clones, messages and faults, is well typed.
THEOREM TypeCorrect == Spec => []TypeOK
  <1>1. Inv => TypeOK
    BY DEF Inv
  <1> QED
    BY <1>1, Invariance, PTL

\* The file is a prefix of what was accepted, in channel order, however the clones'
\* sends interleave and whatever fails.
THEOREM LinesKeepOrder == Spec => []OrderKept
  <1>1. Inv => OrderKept
    <2> SUFFICES ASSUME Inv PROVE OrderKept
      OBVIOUS
    <2>1. /\ disk \in Seq(Lines) /\ accepted \in Seq(Lines) /\ Len(disk) <= Len(accepted)
          /\ \A i \in 1..Len(disk) : disk[i] = accepted[i]
      BY DEF Inv, TypeOK, Ordered
    <2>2. SubSeq(disk, 1, Len(disk)) = SubSeq(accepted, 1, Len(disk))
      BY <2>1
    <2> QED
      BY <2>1, <2>2 DEF OrderKept, IsPrefix
  <1> QED
    BY <1>1, Invariance, PTL

\* An Ok flush, or the Ok close that shut the writer down, has every line accepted
\* before it in the file.
THEOREM FlushIsBarrier == Spec => []FlushBarrier
  <1>1. Inv => FlushBarrier
    BY DEF Inv, TypeOK, Answered, FlushBarrier
  <1> QED
    BY <1>1, Invariance, PTL

=============================================================================
