---------------------------- MODULE BatchRunProofs ----------------------------
(***************************************************************************)
(* Safety of a batch for any number of URLs, permits and places in the      *)
(* sink's channel: the spool is complete, a shutdown loses no page that was *)
(* captured, and exit code 0 hides no failure the run knows of.             *)
(***************************************************************************)
EXTENDS BatchRun, TLAPS

-----------------------------------------------------------------------------
(* Sequences without repetitions. *)

LEMMA AppendNew ==
    ASSUME NEW S, NEW s \in Seq(S), NEW x \in S
    PROVE  /\ Append(s, x) \in Seq(S)
           /\ ToSet(Append(s, x)) = ToSet(s) \cup {x}
           /\ IsInjective(s) /\ x \notin ToSet(s) => IsInjective(Append(s, x))
  <1>1. Len(s) \in Nat /\ DOMAIN s = 1..Len(s)
    OBVIOUS
  <1>2. DOMAIN Append(s, x) = 1..(Len(s) + 1)
    BY <1>1
  <1>3. \A i \in 1..Len(s) : Append(s, x)[i] = s[i]
    BY <1>1
  <1>4. Append(s, x)[Len(s) + 1] = x
    BY <1>1
  <1>5. ToSet(Append(s, x)) = ToSet(s) \cup {x}
    BY <1>1, <1>2, <1>3, <1>4 DEF ToSet
  <1>6. ASSUME IsInjective(s), x \notin ToSet(s) PROVE IsInjective(Append(s, x))
    BY <1>1, <1>2, <1>3, <1>4, <1>6 DEF ToSet, IsInjective
  <1> QED
    BY <1>5, <1>6

LEMMA TakeHead ==
    ASSUME NEW S, NEW s \in Seq(S), s # <<>>
    PROVE  /\ Head(s) \in S /\ Tail(s) \in Seq(S)
           /\ ToSet(s) = ToSet(Tail(s)) \cup {Head(s)}
           /\ IsInjective(s) => IsInjective(Tail(s)) /\ Head(s) \notin ToSet(Tail(s))
  <1>1. Len(s) \in Nat \ {0} /\ DOMAIN s = 1..Len(s) /\ Head(s) = s[1]
    OBVIOUS
  <1>2. DOMAIN Tail(s) = 1..(Len(s) - 1)
    BY <1>1
  <1>3. \A i \in 1..(Len(s) - 1) : Tail(s)[i] = s[i + 1]
    BY <1>1
  <1>4. ToSet(s) = ToSet(Tail(s)) \cup {Head(s)}
    <2>1. ASSUME NEW i \in DOMAIN s PROVE s[i] \in ToSet(Tail(s)) \cup {Head(s)}
      <3>1. CASE i = 1
        BY <1>1, <3>1
      <3>2. CASE i # 1
        <4>1. i - 1 \in 1..(Len(s) - 1)
          BY <1>1, <2>1, <3>2
        <4>2. Tail(s)[i - 1] = s[i]
          BY <1>1, <1>3, <2>1, <4>1
        <4> QED
          BY <1>2, <4>1, <4>2 DEF ToSet
      <3> QED
        BY <3>1, <3>2
    <2>2. ASSUME NEW i \in DOMAIN Tail(s) PROVE Tail(s)[i] \in ToSet(s)
      BY <1>1, <1>2, <1>3, <2>2 DEF ToSet
    <2>3. Head(s) \in ToSet(s)
      BY <1>1 DEF ToSet
    <2> QED
      BY <2>1, <2>2, <2>3 DEF ToSet
  <1>5. ASSUME IsInjective(s) PROVE IsInjective(Tail(s)) /\ Head(s) \notin ToSet(Tail(s))
    <2>1. \A i \in 1..(Len(s) - 1) : i + 1 \in DOMAIN s /\ i + 1 # 1
      BY <1>1
    <2>2. IsInjective(Tail(s))
      BY <1>1, <1>2, <1>3, <1>5, <2>1 DEF IsInjective
    <2>3. Head(s) \notin ToSet(Tail(s))
      BY <1>1, <1>2, <1>3, <1>5, <2>1 DEF IsInjective, ToSet
    <2> QED
      BY <2>2, <2>3
  <1> QED
    BY <1>1, <1>4, <1>5

-----------------------------------------------------------------------------
(* The inductive invariant. *)

SinkTyped ==
    /\ open \in BOOLEAN /\ writer \in {"runs", "done", "failed"}
    /\ chan \in Seq(Pages) /\ spool \in Seq(Pages)
    /\ deferred \subseteq Pages /\ captured \subseteq Pages

\* While the writer lives, a captured page is in one place and once.
Located ==
    writer = "runs" =>
        /\ captured = ToSet(spool) \cup ToSet(chan) \cup deferred
        /\ IsInjective(spool) /\ IsInjective(chan)
        /\ ToSet(spool) \cap ToSet(chan) = {}
        /\ deferred \cap (ToSet(spool) \cup ToSet(chan)) = {}

\* When it is done, nobody can send any more.
Sealed == writer = "done" => ~open /\ deferred = {}

SinkInv == SinkTyped /\ Located /\ Sealed /\ SpoolComplete

Tasks == {"none", "runs", "captured", "ok", "err", "joined"}

BatchTyped ==
    /\ pc \in {"job", "dispatch", "permit", "join", "close", "flush", "extract", "route", "end"}
    /\ next \in Nat \ {0}
    /\ (pc = "permit" => next <= Count) /\ (pc = "job" => next = 1)
    /\ task \in [1..Count -> Tasks] /\ cancel \in BOOLEAN
    /\ errors \subseteq 1..Count /\ line \in Nat
    /\ (pc # "end" => exit = "none")

\* A page is captured by its own task, once.
Once == \A u \in 1..Count : task[u] \in {"none", "runs"} => u \notin captured

\* A URL at or behind the next one has no task.
Ahead == \A u \in 1..Count : u >= next => task[u] = "none"

\* Behind the join no task is left, and no page is captured any more.
Joined ==
    pc \in {"close", "flush", "extract", "route", "end"} =>
        \A u \in 1..Count : task[u] \in {"none", "joined"}

\* The lines read back are those of a spool that is complete.
Read ==
    /\ line <= Len(spool)
    /\ results \cup failures = {spool[i] : i \in 1..line}
    /\ (pc \in {"job", "dispatch", "permit", "join", "close", "flush"} =>
          line = 0 /\ results = {} /\ failures = {})
    /\ (pc \in {"extract", "route"} => writer = "done")
    /\ (pc = "route" => line = Len(spool))
    /\ (exit \in {"Success", "PartialSuccess", "AllFailed", "NetworkError"} =>
          writer = "done" /\ line = Len(spool))

\* What exit code 0 says.
Honest == exit = "Success" /\ ~cancel => errors = {} /\ failures = {}

BatchInv == BatchTyped /\ Once /\ Ahead /\ Joined /\ Read /\ Honest

Inv == SinkInv /\ BatchInv

-----------------------------------------------------------------------------
(* The sink. *)

LEMMA SinkStarts == SinkInit => SinkInv
  BY DEF SinkInit, SinkInv, SinkTyped, Located, Sealed, SpoolComplete, ToSet, IsInjective

LEMMA SinkStepKeeps ==
    ASSUME SinkInv, SinkStep
    PROVE  SinkInv' /\ captured' = captured /\ open' = open
  <1> USE DEF SinkInv, SinkTyped
  <1>1. CASE Write
    <2> DEFINE p == Head(chan)
    <2>1. chan # <<>> /\ writer = "runs" /\ spool' = Append(spool, p) /\ chan' = Tail(chan)
          /\ UNCHANGED <<open, deferred, captured, writer>>
      BY <1>1 DEF Write
    <2>2. /\ p \in Pages /\ Tail(chan) \in Seq(Pages) /\ ToSet(chan) = ToSet(Tail(chan)) \cup {p}
          /\ IsInjective(Tail(chan)) /\ p \notin ToSet(Tail(chan))
      BY <2>1, TakeHead DEF Located
    <2>3. /\ Append(spool, p) \in Seq(Pages) /\ ToSet(Append(spool, p)) = ToSet(spool) \cup {p}
          /\ IsInjective(Append(spool, p))
      BY <2>1, <2>2, AppendNew DEF Located
    <2> QED
      BY <2>1, <2>2, <2>3 DEF Located, Sealed, SpoolComplete
  <1>2. ASSUME NEW p \in deferred, DeferredSends(p)
        PROVE  SinkInv' /\ captured' = captured /\ open' = open
    <2>1. /\ writer = "runs" /\ chan' = Append(chan, p) /\ deferred' = deferred \ {p}
          /\ UNCHANGED <<open, captured, writer, spool>>
      BY <1>2 DEF DeferredSends
    <2>2. p \in Pages /\ p \notin ToSet(chan) /\ p \notin ToSet(spool)
      BY <2>1 DEF Located
    <2>3. /\ Append(chan, p) \in Seq(Pages) /\ ToSet(Append(chan, p)) = ToSet(chan) \cup {p}
          /\ IsInjective(Append(chan, p))
      BY <2>1, <2>2, AppendNew DEF Located
    <2> QED
      BY <2>1, <2>2, <2>3 DEF Located, Sealed, SpoolComplete
  <1>3. ASSUME NEW p \in deferred, DeferredLost(p)
        PROVE  SinkInv' /\ captured' = captured /\ open' = open
    BY <1>3 DEF DeferredLost, Located, Sealed, SpoolComplete
  <1>4. CASE WriterFails
    BY <1>4 DEF WriterFails, Located, Sealed, SpoolComplete
  <1>5. CASE WriterDone
    BY <1>5 DEF WriterDone, Located, Sealed, SpoolComplete, ToSet
  <1> QED
    BY <1>1, <1>2, <1>3, <1>4, <1>5 DEF SinkStep

LEMMA CaptureKeeps ==
    ASSUME SinkInv, NEW p \in Pages, p \notin captured, Capture(p)
    PROVE  /\ SinkInv' /\ UNCHANGED <<open, writer, spool>>
           /\ captured' \in {captured, captured \cup {p}}
           /\ writer # "runs" => captured' = captured
  <1> USE DEF SinkInv, SinkTyped
  <1>1. CASE Sent(p)
    <2>1. /\ writer = "runs" /\ chan' = Append(chan, p) /\ captured' = captured \cup {p}
          /\ UNCHANGED <<open, deferred, writer, spool>>
      BY <1>1 DEF Sent
    <2>2. p \notin ToSet(chan) /\ p \notin ToSet(spool) /\ p \notin deferred
      BY <2>1 DEF Located
    <2>3. /\ Append(chan, p) \in Seq(Pages) /\ ToSet(Append(chan, p)) = ToSet(chan) \cup {p}
          /\ IsInjective(Append(chan, p))
      BY <2>1, <2>2, AppendNew DEF Located
    <2> QED
      BY <2>1, <2>2, <2>3 DEF Located, Sealed, SpoolComplete
  <1>2. CASE Deferred(p)
    BY <1>2 DEF Deferred, Located, Sealed, SpoolComplete
  <1>3. CASE Discarded
    BY <1>3 DEF Discarded, sinkVars, Located, Sealed, SpoolComplete
  <1> QED
    BY <1>1, <1>2, <1>3 DEF Capture

LEMMA CloseKeeps ==
    ASSUME SinkInv, Close
    PROVE  SinkInv' /\ UNCHANGED <<captured, spool, writer>>
  BY DEF SinkInv, SinkTyped, Close, Located, Sealed, SpoolComplete

LEMMA SinkStutters == ASSUME SinkInv, UNCHANGED sinkVars PROVE SinkInv'
  BY DEF SinkInv, SinkTyped, sinkVars, Located, Sealed, SpoolComplete

-----------------------------------------------------------------------------
(* The batch. *)

LEMMA InitInv == Init => Inv
  <1> SUFFICES ASSUME Init PROVE Inv
    OBVIOUS
  <1>1. SinkInv
    BY SinkStarts DEF Init
  <1>2. BatchTyped
    <2>1. task \in [1..Count -> Tasks]
      BY DEF Init, Tasks
    <2>2. next = 1 /\ line = 0 /\ errors = {} /\ pc = "job" /\ exit = "none"
      BY DEF Init
    <2>3. cancel \in BOOLEAN
      BY DEF Init
    <2> QED
      BY <2>1, <2>2, <2>3 DEF BatchTyped
  <1>3. Once /\ Ahead /\ Joined /\ Honest
    BY DEF Init, SinkInit, Once, Ahead, Joined, Honest
  <1>4. Read
    BY DEF Init, SinkInit, Read
  <1> QED
    BY <1>1, <1>2, <1>3, <1>4 DEF Inv, BatchInv

\* The steps between the stages leave the sink and the tasks alone.
LEMMA StagesKeep ==
    ASSUME Inv, SkipJob \/ StartJob \/ DispatchEnds \/ WantPermit \/ JoinEnds \/ Flushed
    PROVE  Inv'
  <1>1. UNCHANGED <<sinkVars, next, task, cancel, errors, line, results, failures, exported, exit>>
    BY DEF SkipJob, StartJob, DispatchEnds, WantPermit, JoinEnds, Flushed
  <1>2. SinkInv'
    BY <1>1, SinkStutters DEF Inv
  <1>3. /\ pc # "end" /\ exit = "none"
        /\ pc' \in {"dispatch", "permit", "join", "close", "extract"}
    BY DEF Inv, BatchInv, BatchTyped, Goto, SkipJob, StartJob, DispatchEnds, WantPermit,
           JoinEnds, Flushed
  <1>4. BatchTyped' /\ Once' /\ Ahead' /\ Honest'
    BY <1>1, <1>3 DEF Inv, BatchInv, BatchTyped, Once, Ahead, Honest, sinkVars, Goto, SkipJob,
           StartJob, DispatchEnds, WantPermit, JoinEnds, Flushed
  <1>5. Joined'
    <2>1. CASE SkipJob
      <3>1. \A u \in 1..Count : u >= next
        BY <2>1, BatchAssumption DEF Inv, BatchInv, BatchTyped, SkipJob, Goto
      <3> QED
        BY <1>1, <3>1 DEF Inv, BatchInv, Ahead, Joined
    <2>2. CASE StartJob \/ DispatchEnds \/ WantPermit
      BY <2>2 DEF Joined, StartJob, DispatchEnds, WantPermit, Goto
    <2>3. CASE JoinEnds
      BY <2>3 DEF Joined, JoinEnds
    <2>4. CASE Flushed
      BY <1>1, <2>4 DEF Inv, BatchInv, Joined, Flushed, Goto
    <2> QED
      BY <2>1, <2>2, <2>3, <2>4
  <1>6. Read'
    BY <1>1, <1>3 DEF Inv, BatchInv, Read, Goto, sinkVars, SkipJob, StartJob, DispatchEnds, WantPermit, JoinEnds,
           Flushed
  <1> QED
    BY <1>2, <1>4, <1>5, <1>6 DEF Inv, BatchInv

LEMMA DispatchKeeps == ASSUME Inv, Dispatch PROVE Inv'
  <1> USE DEF Inv, BatchInv, BatchTyped
  <1>1. /\ pc = "permit" /\ pc' = "dispatch" /\ next \in 1..Count
        /\ task' = [task EXCEPT ![next] = "runs"] /\ next' = next + 1
        /\ UNCHANGED <<sinkVars, cancel, errors, line, results, failures, exported, exit>>
    BY BatchAssumption DEF Dispatch, Goto
  <1>2. SinkInv'
    BY <1>1, SinkStutters
  <1>3. task[next] = "none"
    BY <1>1 DEF Ahead
  <1>4. BatchTyped'
    BY <1>1 DEF Tasks
  <1>5. Once' /\ Ahead'
    BY <1>1, <1>3 DEF Once, Ahead, sinkVars
  <1>6. Joined' /\ Read' /\ Honest'
    BY <1>1 DEF Joined, Read, Honest, sinkVars
  <1> QED
    BY <1>2, <1>4, <1>5, <1>6

LEMMA TaskKeeps == ASSUME Inv, NEW u \in 1..Count, Task(u) PROVE Inv'
  <1> USE DEF Inv, BatchInv, BatchTyped
  <1>1. /\ task[u] \in {"runs", "captured"} /\ pc \in {"job", "dispatch", "permit", "join"}
        /\ \E to \in {"captured", "ok", "err"} : task' = [task EXCEPT ![u] = to]
        /\ UNCHANGED <<pc, next, cancel, errors, line, results, failures, exported, exit>>
    BY DEF Task, Fetched, Ends, Fails, Joined
  <1>2. SinkInv' /\ captured' \in {captured, captured \cup {u}} /\ spool' = spool
        /\ (writer' = writer)
    <2>1. CASE Fetched(u)
      <3>1. u \in Pages /\ u \notin captured
        BY <2>1, BatchAssumption DEF Fetched, Once
      <3> QED
        BY <2>1, <3>1, CaptureKeeps DEF Fetched
    <2>2. CASE Ends(u) \/ Fails(u)
      BY <2>2, SinkStutters DEF Ends, Fails, sinkVars
    <2> QED
      BY <2>1, <2>2 DEF Task
  <1>3. BatchTyped'
    BY <1>1 DEF Tasks
  <1>4. Once'
    BY <1>1, <1>2 DEF Once
  <1>5. Ahead' /\ Joined'
    BY <1>1 DEF Ahead, Joined
  <1>6. Read' /\ Honest'
    BY <1>1, <1>2 DEF Read, Honest
  <1> QED
    BY <1>2, <1>3, <1>4, <1>5, <1>6

LEMMA JoinKeeps == ASSUME Inv, NEW u \in 1..Count, Join(u) PROVE Inv'
  <1> USE DEF Inv, BatchInv, BatchTyped
  <1>1. /\ pc = "join" /\ task[u] \in {"ok", "err"} /\ task' = [task EXCEPT ![u] = "joined"]
        /\ errors' \in SUBSET (1..Count)
        /\ UNCHANGED <<sinkVars, pc, next, cancel, line, results, failures, exported, exit>>
    BY DEF Join
  <1>2. SinkInv'
    BY <1>1, SinkStutters
  <1>3. BatchTyped' /\ Once' /\ Ahead' /\ Joined'
    BY <1>1 DEF Once, Ahead, Joined, Tasks, sinkVars
  <1>4. Read' /\ Honest'
    BY <1>1 DEF Read, Honest, sinkVars
  <1> QED
    BY <1>2, <1>3, <1>4

LEMMA CloseSinkKeeps == ASSUME Inv, CloseSink PROVE Inv'
  <1> USE DEF Inv, BatchInv, BatchTyped
  <1>1. /\ pc = "close" /\ pc' = "flush" /\ Close
        /\ UNCHANGED <<next, task, cancel, errors, line, results, failures, exported, exit>>
    BY DEF CloseSink, Goto
  <1>2. SinkInv' /\ UNCHANGED <<captured, spool, writer>>
    BY <1>1, CloseKeeps
  <1> QED
    BY <1>1, <1>2 DEF Once, Ahead, Joined, Read, Honest

\* The three ways out before the export.
LEMMA FailuresExit == ASSUME Inv, FlushFails \/ NothingCaptured \/ IoFails PROVE Inv'
  <1> USE DEF Inv, BatchInv, BatchTyped
  <1>1. /\ pc \in {"flush", "extract"} /\ pc' = "end" /\ exit' \in {"IoError", "NetworkError"}
        /\ UNCHANGED <<sinkVars, next, task, cancel, errors, line, results, failures, exported>>
        /\ exit' = "NetworkError" => writer = "done" /\ spool = <<>>
    BY DEF FlushFails, NothingCaptured, IoFails, Exits
  <1>2. SinkInv'
    BY <1>1, SinkStutters
  <1>3. BatchTyped' /\ Once' /\ Ahead' /\ Joined' /\ Honest'
    BY <1>1 DEF Once, Ahead, Joined, Honest, sinkVars
  <1>4. exit' = "NetworkError" => line = Len(spool)
    BY <1>1 DEF Read
  <1>5. Read'
    BY <1>1, <1>4 DEF Read, sinkVars
  <1> QED
    BY <1>2, <1>3, <1>5

LEMMA ExtractKeeps == ASSUME Inv, Extract PROVE Inv'
  <1> USE DEF Inv, BatchInv, BatchTyped
  <1>1. /\ pc = "extract" /\ line < Len(spool) /\ line' = line + 1
        /\ results' \cup failures' = results \cup failures \cup {spool[line + 1]}
        /\ UNCHANGED <<sinkVars, pc, next, task, cancel, errors, exported, exit>>
    BY DEF Extract
  <1>2. SinkInv'
    BY <1>1, SinkStutters
  <1>3. Len(spool) \in Nat
    BY DEF SinkInv, SinkTyped
  <1>4. {spool[i] : i \in 1..(line + 1)} = {spool[i] : i \in 1..line} \cup {spool[line + 1]}
    BY <1>1, <1>3
  <1>5. Read'
    BY <1>1, <1>3, <1>4 DEF Read, sinkVars
  <1>6. BatchTyped' /\ Once' /\ Ahead' /\ Joined' /\ Honest'
    BY <1>1 DEF Once, Ahead, Joined, Honest, sinkVars
  <1> QED
    BY <1>2, <1>5, <1>6

LEMMA ExportKeeps == ASSUME Inv, Export PROVE Inv'
  <1> USE DEF Inv, BatchInv, BatchTyped
  <1>1. /\ pc = "extract" /\ pc' = "route" /\ line = Len(spool)
        /\ UNCHANGED <<sinkVars, next, task, cancel, errors, line, results, failures, exit>>
    BY DEF Export, Goto
  <1>2. SinkInv'
    BY <1>1, SinkStutters
  <1> QED
    BY <1>1, <1>2 DEF Once, Ahead, Joined, Read, Honest, sinkVars

LEMMA RouteKeeps == ASSUME Inv, Route PROVE Inv'
  <1> USE DEF Inv, BatchInv, BatchTyped
  <1>1. /\ pc = "route" /\ pc' = "end" /\ exit' = ExitCode
        /\ UNCHANGED <<sinkVars, next, task, cancel, errors, line, results, failures, exported>>
    BY DEF Route, Exits
  <1>2. SinkInv'
    BY <1>1, SinkStutters
  <1>3. exit' = "Success" /\ ~cancel => errors = {} /\ failures = {}
    BY <1>1 DEF ExitCode
  <1> QED
    BY <1>1, <1>2, <1>3 DEF Once, Ahead, Joined, Read, Honest, sinkVars

LEMMA SignalKeeps == ASSUME Inv, Signal PROVE Inv'
  <1> USE DEF Inv, BatchInv, BatchTyped
  <1>1. /\ cancel' = TRUE /\ pc # "end"
        /\ UNCHANGED <<sinkVars, pc, next, task, errors, line, results, failures, exported, exit>>
    BY DEF Signal
  <1>2. SinkInv'
    BY <1>1, SinkStutters
  <1> QED
    BY <1>1, <1>2 DEF Once, Ahead, Joined, Read, Honest, sinkVars

\* The writer appends to the spool only while nobody reads it.
LEMMA SinkKeeps == ASSUME Inv, Sink PROVE Inv'
  <1> USE DEF Inv, BatchInv, BatchTyped
  <1>1. SinkStep /\ UNCHANGED <<pc, next, task, cancel, errors, line, results, failures, exported, exit>>
    BY DEF Sink, batchVars
  <1>2. SinkInv' /\ captured' = captured
    BY <1>1, SinkStepKeeps
  <1>3. writer # "done" /\ (writer = "runs" \/ UNCHANGED <<spool, writer>>)
    BY <1>1 DEF SinkInv, SinkTyped, Sealed, SinkStep, DeferredSends, DeferredLost, Write,
                WriterFails, WriterDone
  <1>4. pc \notin {"extract", "route"} /\ exit \notin {"Success", "PartialSuccess", "AllFailed", "NetworkError"}
    BY <1>3 DEF Read
  <1>5. Read'
    <2>1. pc # "end" => line = 0 /\ results = {} /\ failures = {}
      BY <1>4 DEF Read
    <2>2. CASE UNCHANGED spool
      BY <1>1, <1>4, <2>2 DEF Read
    <2>3. CASE Write
      <3>1. chan # <<>> /\ spool' = Append(spool, Head(chan)) /\ spool \in Seq(Pages)
        BY <2>3 DEF Write, SinkInv, SinkTyped
      <3>2. Len(spool') = Len(spool) + 1 /\ \A i \in 1..Len(spool) : spool'[i] = spool[i]
        BY <3>1
      <3>3. Len(spool) \in Nat /\ line \in Nat /\ line <= Len(spool)
        BY <3>1 DEF Read
      <3>4. {spool'[i] : i \in 1..line} = {spool[i] : i \in 1..line}
        BY <3>2, <3>3
      <3> QED
        BY <1>1, <1>4, <3>2, <3>3, <3>4 DEF Read
    <2> QED
      BY <1>1, <2>2, <2>3 DEF SinkStep, DeferredSends, DeferredLost, WriterFails, WriterDone
  <1>6. Once' /\ Ahead' /\ Joined' /\ Honest' /\ BatchTyped'
    BY <1>1, <1>2 DEF Once, Ahead, Joined, Honest
  <1> QED
    BY <1>2, <1>5, <1>6

-----------------------------------------------------------------------------
(* Theorems. *)

LEMMA StepInv == Inv /\ [Next]_vars => Inv'
  <1> SUFFICES ASSUME Inv, [Next]_vars PROVE Inv'
    OBVIOUS
  <1>1. CASE Run
    BY <1>1, StagesKeep, DispatchKeeps, JoinKeeps, CloseSinkKeeps, FailuresExit, ExtractKeeps,
       ExportKeeps, RouteKeeps DEF Run
  <1>2. CASE UNCHANGED vars
    <2>1. SinkInv'
      BY <1>2, SinkStutters DEF Inv, vars
    <2>2. BatchInv'
      BY <1>2 DEF Inv, BatchInv, vars, batchVars, sinkVars, BatchTyped, Once, Ahead, Joined,
                  Read, Honest
    <2> QED
      BY <2>1, <2>2 DEF Inv
  <1> QED
    BY <1>1, <1>2, SinkKeeps, TaskKeeps, SignalKeeps DEF Next

LEMMA AlwaysInv == Spec => []Inv
  BY InitInv, StepInv, PTL DEF Spec

\* Whatever the size of the channel and whoever waits for a place in it: when the
\* writer reports success, the spool holds every captured page once
\* (bounded_sink.rs: capture, finish).
THEOREM SpoolIsComplete == Spec => []SpoolComplete
  <1>1. Inv => SpoolComplete
    BY DEF Inv, SinkInv
  <1> QED
    BY <1>1, AlwaysInv, PTL

\* For any number of URLs and permits and a shutdown at any time: every page that
\* was captured is extracted or listed as a failure (processor.rs: "every
\* already-spawned task is drained to completion").
THEOREM CapturedPagesKept == Spec => []DrainKept
  <1>1. Inv => DrainKept
    <2> SUFFICES ASSUME Inv, exit \in {"Success", "PartialSuccess", "AllFailed", "NetworkError"}
                 PROVE  /\ \A u \in 1..Count : task[u] \in {"none", "joined"}
                        /\ captured = results \cup failures
      BY DEF DrainKept
    <2>1. pc = "end" /\ writer = "done" /\ line = Len(spool)
      BY DEF Inv, BatchInv, BatchTyped, Read
    <2>2. results \cup failures = {spool[i] : i \in 1..Len(spool)}
      BY <2>1 DEF Inv, BatchInv, Read
    <2>3. captured = {spool[i] : i \in 1..Len(spool)}
      BY <2>1 DEF Inv, SinkInv, SinkTyped, SpoolComplete, ToSet
    <2> QED
      BY <2>1, <2>2, <2>3 DEF Inv, BatchInv, Joined
  <1> QED
    BY <1>1, AlwaysInv, PTL

\* Exit code 0 of a run that was not interrupted: no URL is known to have failed,
\* and every captured page is in the results (orchestrator.rs: batch_exit_code).
THEOREM SuccessHidesNothing == Spec => []SuccessIsHonest
  <1>1. Inv /\ DrainKept => SuccessIsHonest
    BY DEF Inv, BatchInv, Honest, DrainKept, SuccessIsHonest
  <1> QED
    BY <1>1, AlwaysInv, CapturedPagesKept, PTL

=============================================================================
