------------------------------ MODULE Pipeline ------------------------------
(***************************************************************************)
(* The benchmark as the adapters with a background thread run it: threads  *)
(* log into one queue or into a queue each, the background thread of the   *)
(* library writes the lines to the file, the harness joins the threads,    *)
(* calls sys_stop, and main returns.                                       *)
(*                                                                         *)
(* What the adapters decide is here adapter by adapter: which kind of      *)
(* queue they configure, whether a full queue blocks, whether a push wakes *)
(* the background thread or it polls, and which calls sys_stop and the end *)
(* of main make, in which order (BoostBackend ... FstlogLowlBackend).  How *)
(* the libraries carry that out is external.                               *)
(***************************************************************************)
EXTENDS Integers, Sequences, FiniteSets

CONSTANTS
  Adapters,    \* the adapters under study
  Threads,     \* the benchmark threads
  MaxLines,    \* bound: the lines one thread logs
  Capacities   \* the sizes a bounded queue may have, in lines

VARIABLES
  adapter,     \* which adapter the program is built for
  capacity,    \* the size of its queue, if bounded
  interval,    \* how long the background thread sleeps: "short", "forever"
  pc,          \* for each thread: "idle" or "calling" a log macro
  calls,       \* how many lines each thread has begun to log
  dropped,     \* how many of them the library dropped
  queue,       \* the queues, by owner
  backend,     \* the background thread: "awake", "asleep", "finishing", "halted"
  file,        \* what has been written
  main,        \* "logging", "stopping", "stopped", "exited"
  todo         \* the calls that sys_stop, or the end of main, has still to make

threadVars == <<pc, calls, dropped>>
vars == <<adapter, capacity, interval, pc, calls, dropped, queue, backend,
          file, main, todo>>

-----------------------------------------------------------------------------
(* What the adapters configure.  queue: one shared by all threads, or one  *)
(* for each.  full: what a log call does when the queue is full.  wakes:   *)
(* does a push wake the background thread.  stop, exit: the calls made by  *)
(* sys_stop and at the end of main.                                        *)

\* Mutant of BoostBackend: sys_stop does not flush.
BoostBackendNoFlush ==
  [queue |-> "shared", full |-> "block", wakes |-> TRUE,
   stop |-> <<"halt">>, exit |-> <<>>]

\* block_on_overflow; sys_stop stops the feeding thread, then flushes.
BoostBackend ==
  [queue |-> "shared", full |-> "block", wakes |-> TRUE,
   stop |-> <<"halt", "drain">>, exit |-> <<>>]

\* async_overflow_policy::block; spdlog::shutdown destroys the pool.
SpdlogBackend ==
  [queue |-> "shared", full |-> "block", wakes |-> TRUE,
   stop |-> <<"finish">>, exit |-> <<>>]

\* overflow_policy::block; the sink with its thread is a static member that
\* shutdown does not know of, so it goes when main has returned.
SpdlogV2Backend ==
  [queue |-> "shared", full |-> "block", wakes |-> TRUE,
   stop |-> <<>>, exit |-> <<"finish">>]

\* Blocking is true in config.xml; sys_stop closes the appender.
Log4cxxBackend ==
  [queue |-> "shared", full |-> "block", wakes |-> TRUE,
   stop |-> <<"finish">>, exit |-> <<>>]

\* queueSize is unlimited; sys_stop shuts the root logger down.
PocoBackend ==
  [queue |-> "shared", full |-> "grow", wakes |-> TRUE,
   stop |-> <<"finish">>, exit |-> <<>>]

\* Mutant of G3logBackend: main never destroys its LogWorker.
G3logBackendLeaksWorker ==
  [queue |-> "shared", full |-> "grow", wakes |-> TRUE,
   stop |-> <<>>, exit |-> <<>>]

\* sys_stop does nothing; the LogWorker of main goes after the test.
G3logBackend ==
  [queue |-> "shared", full |-> "grow", wakes |-> TRUE,
   stop |-> <<>>, exit |-> <<"finish">>]

\* Mutant of QuillBackend: sys_stop stops the backend, then flushes.
QuillBackendStopFirst ==
  [queue |-> "own", full |-> "grow", wakes |-> FALSE,
   stop |-> <<"finish", "await">>, exit |-> <<>>]

\* Producers do not notify the backend; sys_stop flushes, then stops it.
QuillBackend ==
  [queue |-> "own", full |-> "grow", wakes |-> FALSE,
   stop |-> <<"await", "finish">>, exit |-> <<>>]

\* The same with QueueType::BoundedBlocking.
QuillBoundedBackend ==
  [queue |-> "own", full |-> "block", wakes |-> FALSE,
   stop |-> <<"await", "finish">>, exit |-> <<>>]

\* The core polls the buffers of the loggers; sys_stop stops it.
FstlogBackend ==
  [queue |-> "own", full |-> "block", wakes |-> FALSE,
   stop |-> <<"finish">>, exit |-> <<>>]

\* One static logger, one buffer.
FstlogMtBackend ==
  [queue |-> "shared", full |-> "block", wakes |-> FALSE,
   stop |-> <<"finish">>, exit |-> <<>>]

\* log_policy_lowlatency does not guarantee a line; the core is told to poll
\* without pause before it is stopped.
FstlogLowlBackend ==
  [queue |-> "own", full |-> "drop", wakes |-> FALSE,
   stop |-> <<"poll", "finish">>, exit |-> <<>>]

Backend(a) ==
  CASE a = "boost"         -> BoostBackend
    [] a = "spdlog"        -> SpdlogBackend
    [] a = "spdlogv2"      -> SpdlogV2Backend
    [] a = "log4cxx"       -> Log4cxxBackend
    [] a = "poco"          -> PocoBackend
    [] a = "g3log"         -> G3logBackend
    [] a = "quill"         -> QuillBackend
    [] a = "quill-bounded" -> QuillBoundedBackend
    [] a = "fstlog"        -> FstlogBackend
    [] a = "fstlog-mt"     -> FstlogMtBackend
    [] a = "fstlog-lowl"   -> FstlogLowlBackend

\* fstlog stands for -st, -stfix, -fast and -tloc, which configure the same.
AllAdapters == {"boost", "spdlog", "spdlogv2", "log4cxx", "poco", "g3log",
                "quill", "quill-bounded", "fstlog", "fstlog-mt", "fstlog-lowl"}

ASSUME AdaptersKnown == Adapters \subseteq AllAdapters
ASSUME CapacitiesPositive == Capacities \subseteq Nat \ {0}
ASSUME MaxLinesNat == MaxLines \in Nat

config == Backend(adapter)

\* The owner of the queue that thread t logs into.
Shared == "all"
QueueOf(t) == IF config.queue = "shared" THEN Shared ELSE t

\* Mutant of Intervals: an interval of 0 means "never poll" everywhere.
IntervalsForever(a) == {"short", "forever"}

\* buffer_flush_time = 0 makes quill's backend sleep for nanoseconds::max().
Intervals(a) == IF a \in {"quill", "quill-bounded"} THEN {"short", "forever"} ELSE {"short"}

Init ==
  /\ adapter \in Adapters
  /\ capacity \in Capacities
  /\ interval \in Intervals(adapter)
  /\ pc = [t \in Threads |-> "idle"]
  /\ calls = [t \in Threads |-> 0]
  /\ dropped = [t \in Threads |-> 0]
  /\ queue = [o \in Threads \cup {Shared} |-> <<>>]
  /\ backend = "awake"
  /\ file = <<>>
  /\ main = "logging"
  /\ todo = <<>>

-----------------------------------------------------------------------------
(* The benchmark threads.                                                  *)

\* Mutant of Call: a bound that is off by one.
CallOnceMore(t) ==
  /\ main = "logging"
  /\ pc[t] = "idle"
  /\ calls[t] <= MaxLines
  /\ pc' = [pc EXCEPT ![t] = "calling"]
  /\ calls' = [calls EXCEPT ![t] = @ + 1]
  /\ UNCHANGED <<adapter, capacity, interval, dropped, queue, backend, file, main, todo>>

\* Thread t calls a log macro.
Call(t) ==
  /\ main = "logging"
  /\ pc[t] = "idle"
  /\ calls[t] < MaxLines
  /\ pc' = [pc EXCEPT ![t] = "calling"]
  /\ calls' = [calls EXCEPT ![t] = @ + 1]
  /\ UNCHANGED <<adapter, capacity, interval, dropped, queue, backend, file, main, todo>>

Full(o) == config.full # "grow" /\ Len(queue[o]) >= capacity

\* The line goes into the queue, and the call returns.  While the queue is
\* full the call waits.
Push(t) ==
  /\ pc[t] = "calling"
  /\ ~Full(QueueOf(t))
  /\ queue' = [queue EXCEPT ![QueueOf(t)] = Append(@, <<t, calls[t]>>)]
  /\ backend' = IF config.wakes /\ backend = "asleep" THEN "awake" ELSE backend
  /\ pc' = [pc EXCEPT ![t] = "idle"]
  /\ UNCHANGED <<adapter, capacity, interval, calls, dropped, file, main, todo>>

\* Without a guarantee the call does not wait.
Drop(t) ==
  /\ pc[t] = "calling"
  /\ config.full = "drop" /\ Full(QueueOf(t))
  /\ dropped' = [dropped EXCEPT ![t] = @ + 1]
  /\ pc' = [pc EXCEPT ![t] = "idle"]
  /\ UNCHANGED <<adapter, capacity, interval, calls, queue, backend, file, main, todo>>

-----------------------------------------------------------------------------
(* The background thread.                                                  *)

Empty == \A o \in DOMAIN queue : queue[o] = <<>>

\* The first line of a queue is written.
WriteFrom(o) ==
  /\ queue[o] # <<>>
  /\ file' = Append(file, Head(queue[o]))
  /\ queue' = [queue EXCEPT ![o] = Tail(@)]

BackendWrites ==
  /\ backend \in {"awake", "finishing"}
  /\ \E o \in DOMAIN queue : WriteFrom(o)
  /\ UNCHANGED <<adapter, capacity, interval, threadVars, backend, main, todo>>

Doing(call) == todo # <<>> /\ Head(todo) = call

\* Nothing to do: it waits to be woken, or for its interval.  The flush
\* request of quill's flush_log is something to do.
BackendSleeps ==
  /\ backend = "awake"
  /\ Empty /\ ~Doing("await")
  /\ backend' = "asleep"
  /\ UNCHANGED <<adapter, capacity, interval, threadVars, queue, file, main, todo>>

\* The interval of one that polls is over.
BackendPolls ==
  /\ backend = "asleep"
  /\ ~config.wakes
  /\ interval = "short"
  /\ backend' = "awake"
  /\ UNCHANGED <<adapter, capacity, interval, threadVars, queue, file, main, todo>>

\* It has been told to finish and has written everything.
BackendHalts ==
  /\ backend = "finishing"
  /\ Empty
  /\ backend' = "halted"
  /\ UNCHANGED <<adapter, capacity, interval, threadVars, queue, file, main, todo>>

-----------------------------------------------------------------------------
(* main: the calls of sys_stop and those at the end of the program.        *)

\* The harness has joined the threads and calls sys_stop.
Join ==
  /\ main = "logging"
  /\ \A t \in Threads : pc[t] = "idle"
  /\ main' = "stopping"
  /\ todo' = config.stop
  /\ UNCHANGED <<adapter, capacity, interval, threadVars, queue, backend, file>>

Done == todo' = Tail(todo)

\* boost: stop() interrupts the feeding thread, whatever is queued.
Halt ==
  /\ Doing("halt")
  /\ backend' = "halted"
  /\ Done
  /\ UNCHANGED <<adapter, capacity, interval, threadVars, queue, file, main>>

\* Mutant of Drain: what is queued is written, newest first.
DrainNewestFirst ==
  /\ Doing("drain")
  /\ IF Empty THEN Done /\ UNCHANGED <<queue, file>>
     ELSE /\ \E o \in DOMAIN queue :
               /\ queue[o] # <<>>
               /\ file' = Append(file, queue[o][Len(queue[o])])
               /\ queue' = [queue EXCEPT ![o] = SubSeq(@, 1, Len(@) - 1)]
          /\ UNCHANGED todo
  /\ UNCHANGED <<adapter, capacity, interval, threadVars, backend, main>>

\* boost: flush() writes what is queued on the calling thread.
Drain ==
  /\ Doing("drain")
  /\ IF Empty THEN Done /\ UNCHANGED <<queue, file>>
     ELSE (\E o \in DOMAIN queue : WriteFrom(o)) /\ UNCHANGED todo
  /\ UNCHANGED <<adapter, capacity, interval, threadVars, backend, main>>

\* quill: flush_log() queues a request and returns when the backend, having
\* written everything, gets to it.  It does not wake the backend.
Await ==
  /\ Doing("await")
  /\ Empty /\ backend = "awake"
  /\ Done
  /\ UNCHANGED <<adapter, capacity, interval, threadVars, queue, backend, file, main>>

\* fstlog-lowl: poll_interval(0).
PollNow ==
  /\ Doing("poll")
  /\ backend' = IF backend = "asleep" THEN "awake" ELSE backend
  /\ Done
  /\ UNCHANGED <<adapter, capacity, interval, threadVars, queue, file, main>>

\* stop, close, shutdown or the destructor wakes the background thread to
\* write what is left and joins it.
Finish ==
  /\ Doing("finish")
  /\ \/ /\ backend \in {"awake", "asleep"}
        /\ backend' = "finishing"
        /\ UNCHANGED todo
     \/ /\ backend = "halted"
        /\ Done
        /\ UNCHANGED backend
  /\ UNCHANGED <<adapter, capacity, interval, threadVars, queue, file, main>>

\* sys_stop returns, and main goes on to its end.
StopReturns ==
  /\ main = "stopping" /\ todo = <<>>
  /\ main' = "stopped"
  /\ todo' = config.exit
  /\ UNCHANGED <<adapter, capacity, interval, threadVars, queue, backend, file>>

Exit ==
  /\ main = "stopped" /\ todo = <<>>
  /\ main' = "exited"
  /\ UNCHANGED <<adapter, capacity, interval, threadVars, queue, backend, file, todo>>

-----------------------------------------------------------------------------

LogCall(t) == Push(t) \/ Drop(t)

BackendStep == BackendWrites \/ BackendSleeps \/ BackendPolls \/ BackendHalts

MainStep == Halt \/ Drain \/ Await \/ PollNow \/ Finish \/ StopReturns \/ Exit

Next ==
  \/ \E t \in Threads : Call(t) \/ LogCall(t)
  \/ BackendStep
  \/ Join
  \/ MainStep

\* Every thread of the program is scheduled again and again.  Nothing makes a
\* thread log, and the harness may take its time to stop.  A sleep of
\* nanoseconds::max() is never over: BackendPolls is not enabled then.
Fairness ==
  /\ \A t \in Threads : WF_vars(LogCall(t))
  /\ WF_vars(BackendWrites) /\ WF_vars(BackendPolls) /\ WF_vars(BackendHalts)
  /\ WF_vars(MainStep)

Spec == Init /\ [][Next]_vars

FairSpec == Spec /\ Fairness

-----------------------------------------------------------------------------

Owners == Threads \cup {Shared}

Lines == Threads \X (1 .. MaxLines)

\* The types of the variables: the file and the queues hold lines that have
\* been logged, and the counters stay within MaxLines.
TypeOK ==
  /\ adapter \in Adapters
  /\ capacity \in Capacities
  /\ interval \in {"short", "forever"}
  /\ pc \in [Threads -> {"idle", "calling"}]
  /\ calls \in [Threads -> 0 .. MaxLines]
  /\ dropped \in [Threads -> 0 .. MaxLines]
  /\ queue \in [Owners -> Seq(Lines)]
  /\ backend \in {"awake", "asleep", "finishing", "halted"}
  /\ file \in Seq(Lines)
  /\ main \in {"logging", "stopping", "stopped", "exited"}
  /\ todo \in Seq({"halt", "drain", "await", "finish", "poll"})

\* The lines of one thread are in the file in the order it logged them, none
\* twice, whichever queue they went through and whoever wrote them.
FileInOrder ==
  \A i, j \in DOMAIN file :
    i < j /\ file[i][1] = file[j][1] => file[i][2] < file[j][2]

InFile(t) == Cardinality({i \in DOMAIN file : file[i][1] = t})

\* sys_stop of these two returns before the background thread is done: it is
\* ended by the destructor of the static sink, or of the worker in main.
FinishesAfterStop == {"spdlogv2", "g3log"}

\* The stop protocol of every adapter is complete: when sys_stop has returned
\* (for spdlogv2 and g3log, when the program has ended) every line that a
\* thread has logged is in the file, except those that a low latency call was
\* allowed to drop.
NothingLost ==
  main = "exited" \/ (main = "stopped" /\ adapter \notin FinishesAfterStop) =>
    \A t \in Threads : InFile(t) + dropped[t] = calls[t]

\* quill's backend in a sleep that is never over.
SleepsForever == adapter \in {"quill", "quill-bounded"} /\ interval = "forever"

\* Every log call returns: a full queue is emptied by a background thread that
\* a push has woken or that polls.  The exception is quill-bounded with
\* buffer_flush_time 0, whose full queue waits for a backend that nobody wakes
\* (quill-bounded/logger.hpp:154-168).
EveryCallReturns ==
  \A t \in Threads :
    pc[t] = "calling" /\ ~(adapter = "quill-bounded" /\ SleepsForever)
      ~> pc[t] = "idle"

\* sys_stop returns and the program ends, again unless flush_log waits for a
\* quill backend that sleeps for ever.
ProgramEnds == main = "stopping" /\ ~SleepsForever ~> main = "exited"

-----------------------------------------------------------------------------
(* One shared queue, or a queue for each thread: both implement AsyncLog.  *)

QueuedIn(o) == {queue[o][i] : i \in DOMAIN queue[o]}

Waiting == UNION {QueuedIn(o) : o \in Owners}

Abstract == INSTANCE AsyncLog WITH
  Line <- Lines, waiting <- Waiting, written <- file, over <- main = "exited"

\* Whatever queue the adapter configures and whatever calls its sys_stop
\* makes, the program keeps what AsyncLog promises: lines wait and are
\* written in the order of their thread, and when main has returned no line
\* is left waiting.
ImplementsAsyncLog == Abstract!Spec

=============================================================================
