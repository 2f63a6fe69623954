----------------------------- MODULE SpdlogPool -----------------------------
(***************************************************************************)
(* The logger objects of the spdlog adapter (src/spdlog/logger.hpp), the   *)
(* thread pool that sys_init starts for them and the registry of spdlog.   *)
(*                                                                         *)
(* A logger object registers a name made of its id; its destructor does    *)
(* not take the name back.  It reaches the pool through a weak pointer;    *)
(* the registry, and every log call in progress, hold the pool.            *)
(* spdlog::shutdown, all there is to sys_stop, empties the registry: the   *)
(* names are free again, and whoever holds the pool last destroys it,      *)
(* which is to write what is queued and join the worker.  A queue of 0     *)
(* records, which sys_init asks for when lib_buffer_size is 0, is always   *)
(* full.  The pool and the registry are external, modelled as the adapter  *)
(* uses them.                                                              *)
(***************************************************************************)
EXTENDS Integers, Sequences, FiniteSets

CONSTANTS
  Threads,     \* the benchmark threads, one logger object each at a time
  Ids,         \* the ids the harness may give to a logger object
  NoId,        \* "the thread has no logger object"
  MaxLines,    \* bound: the lines one thread logs
  Capacities   \* the sizes the queue may be given, in records

ASSUME NoIdIsNone == NoId \notin Ids
ASSUME CapacitiesNat == Capacities \subseteq Nat
ASSUME MaxLinesNat == MaxLines \in Nat

VARIABLES
  capacity,    \* the size of the queue
  names,       \* the names in the registry
  registered,  \* does the registry hold the pool
  builds,      \* how many logger objects each id has had since the registry was emptied
  id,          \* the logger object of each thread, by its id
  bound,       \* has the weak pointer of the object been made from a pool
  pc,          \* each thread: "idle", "posting", "returning", "closing", "threw"
  calls,       \* how many lines each thread has begun to log
  dropped,     \* how many of them found no pool
  queue,       \* the queue of the pool
  worker,      \* each worker: "waiting", "writing", "halted"
  hand,        \* the line a worker is writing, if any
  file,        \* what has been written
  main,        \* "running", "closing" (destroying the pool), "stopped"
  told         \* how many workers have been told to stop

objects == <<names, registered, builds, id, bound>>
workers == <<worker, hand, file>>
vars == <<capacity, objects, pc, calls, dropped, queue, workers, main, told>>

\* Mutant of PoolWorkers: a pool of two.
PoolWorkersTwo == 2

\* The second argument of init_thread_pool.
PoolWorkers == 1

Workers == 1 .. PoolWorkers

\* The message that ends a worker.
Terminate == <<NoId, 0>>

Init ==
  /\ capacity \in Capacities
  /\ names = {} /\ registered = TRUE
  /\ builds = [i \in Ids |-> 0]
  /\ id = [t \in Threads |-> NoId]
  /\ bound = [t \in Threads |-> FALSE]
  /\ pc = [t \in Threads |-> "idle"]
  /\ calls = [t \in Threads |-> 0]
  /\ dropped = [t \in Threads |-> 0]
  /\ queue = <<>>
  /\ worker = [w \in Workers |-> "waiting"]
  /\ hand = [w \in Workers |-> <<>>]
  /\ file = <<>>
  /\ main = "running"
  /\ told = 0

-----------------------------------------------------------------------------
(* Logger objects.                                                         *)

\* The constructor: make_shared<async_logger>(..., thread_pool(), block) and
\* register_logger.
Build(t, i) ==
  /\ pc[t] = "idle" /\ id[t] = NoId
  /\ i \notin names
  /\ names' = names \cup {i}
  /\ builds' = [builds EXCEPT ![i] = @ + 1]
  /\ id' = [id EXCEPT ![t] = i]
  /\ bound' = [bound EXCEPT ![t] = registered]
  /\ UNCHANGED <<capacity, registered, pc, calls, dropped, queue, workers, main, told>>

\* register_logger throws for a name that is taken: no object, and the thread
\* does not log.
BuildThrows(t, i) ==
  /\ pc[t] = "idle" /\ id[t] = NoId
  /\ i \in names
  /\ pc' = [pc EXCEPT ![t] = "threw"]
  /\ UNCHANGED <<capacity, objects, calls, dropped, queue, workers, main, told>>

\* Mutant of Destroy: the destructor drops the name.
DestroyDrops(t) ==
  /\ pc[t] = "idle" /\ id[t] # NoId
  /\ names' = names \ {id[t]}
  /\ id' = [id EXCEPT ![t] = NoId]
  /\ UNCHANGED <<capacity, registered, builds, bound, pc, calls, dropped, queue, workers, main, told>>

\* The destructor: the registry still has the async_logger, and its name.
Destroy(t) ==
  /\ pc[t] = "idle" /\ id[t] # NoId
  /\ id' = [id EXCEPT ![t] = NoId]
  /\ UNCHANGED <<capacity, names, registered, builds, bound, pc, calls, dropped, queue, workers, main, told>>

-----------------------------------------------------------------------------
(* Log calls.                                                              *)

Main == "registry"

ASSUME MainIsNoThread == Main \notin Threads

\* The shared pointers to the pool.
Holders ==
  (IF registered THEN {Main} ELSE {}) \cup {t \in Threads : pc[t] \in {"posting", "returning"}}

\* A log macro.  If the weak pointer has expired, the error handler is called
\* and the line is gone; otherwise the call holds the pool.
Call(t) ==
  /\ pc[t] = "idle" /\ id[t] # NoId
  /\ calls[t] < MaxLines
  /\ calls' = [calls EXCEPT ![t] = @ + 1]
  /\ IF bound[t] /\ Holders # {}
     THEN pc' = [pc EXCEPT ![t] = "posting"] /\ UNCHANGED dropped
     ELSE dropped' = [dropped EXCEPT ![t] = @ + 1] /\ UNCHANGED pc
  /\ UNCHANGED <<capacity, objects, queue, workers, main, told>>

Full == Len(queue) >= capacity

\* Mutant of Post: the queue is not bounded.
PostUnbounded(t) ==
  /\ pc[t] = "posting"
  /\ queue' = Append(queue, <<t, calls[t]>>)
  /\ pc' = [pc EXCEPT ![t] = "returning"]
  /\ UNCHANGED <<capacity, objects, calls, dropped, workers, main, told>>

\* async_overflow_policy::block: the call waits while the queue is full.
Post(t) ==
  /\ pc[t] = "posting"
  /\ ~Full
  /\ queue' = Append(queue, <<t, calls[t]>>)
  /\ pc' = [pc EXCEPT ![t] = "returning"]
  /\ UNCHANGED <<capacity, objects, calls, dropped, workers, main, told>>

\* The call gives the pool back; the last holder destroys it.
Return(t) ==
  /\ pc[t] = "returning"
  /\ pc' = [pc EXCEPT ![t] = IF Holders = {t} THEN "closing" ELSE "idle"]
  /\ UNCHANGED <<capacity, objects, calls, dropped, queue, workers, main, told>>

-----------------------------------------------------------------------------
(* The end of the pool.                                                    *)

\* Mutant of SysStop: the loggers are dropped, the pool is not.
SysStopDropsLoggers ==
  /\ main = "running"
  /\ names' = {} /\ builds' = [i \in Ids |-> 0]
  /\ main' = "stopped"
  /\ UNCHANGED <<capacity, registered, id, bound, pc, calls, dropped, queue, workers, told>>

\* Mutant of SysStop: the pool is destroyed at once, whoever else holds it.
SysStopDestroysPool ==
  /\ main = "running"
  /\ names' = {} /\ builds' = [i \in Ids |-> 0]
  /\ registered' = FALSE
  /\ main' = "closing"
  /\ UNCHANGED <<capacity, id, bound, pc, calls, dropped, queue, workers, told>>

\* sys_stop: spdlog::shutdown.  Nothing is assumed of the threads: they may
\* be logging.
SysStop ==
  /\ main = "running"
  /\ names' = {} /\ builds' = [i \in Ids |-> 0]
  /\ registered' = FALSE
  /\ main' = IF Holders = {Main} THEN "closing" ELSE "stopped"
  /\ UNCHANGED <<capacity, id, bound, pc, calls, dropped, queue, workers, told>>

Closing == main = "closing" \/ \E t \in Threads : pc[t] = "closing"

\* The destructor of the pool posts a message for each worker, after what is
\* queued and with the same policy ...
TellWorker ==
  /\ Closing /\ told < PoolWorkers
  /\ ~Full
  /\ queue' = Append(queue, Terminate)
  /\ told' = told + 1
  /\ UNCHANGED <<capacity, objects, pc, calls, dropped, workers, main>>

\* ... and joins the workers.
Joined ==
  /\ Closing /\ told = PoolWorkers
  /\ \A w \in Workers : worker[w] = "halted"
  /\ main' = IF main = "closing" THEN "stopped" ELSE main
  /\ pc' = [t \in Threads |-> IF pc[t] = "closing" THEN "idle" ELSE pc[t]]
  /\ UNCHANGED <<capacity, objects, calls, dropped, queue, workers, told>>

-----------------------------------------------------------------------------
(* The workers.                                                            *)

Take(w) ==
  /\ worker[w] = "waiting"
  /\ queue # <<>>
  /\ queue' = Tail(queue)
  /\ IF Head(queue) = Terminate
     THEN worker' = [worker EXCEPT ![w] = "halted"] /\ UNCHANGED hand
     ELSE /\ worker' = [worker EXCEPT ![w] = "writing"]
          /\ hand' = [hand EXCEPT ![w] = <<Head(queue)>>]
  /\ UNCHANGED <<capacity, objects, pc, calls, dropped, file, main, told>>

\* sink_->log: basic_file_sink_st takes no lock.
Write(w) ==
  /\ worker[w] = "writing"
  /\ file' = file \o hand[w]
  /\ hand' = [hand EXCEPT ![w] = <<>>]
  /\ worker' = [worker EXCEPT ![w] = "waiting"]
  /\ UNCHANGED <<capacity, objects, pc, calls, dropped, queue, main, told>>

-----------------------------------------------------------------------------

LogCall(t) == Post(t) \/ Return(t)

Next ==
  \/ \E t \in Threads :
       \/ \E i \in Ids : Build(t, i) \/ BuildThrows(t, i)
       \/ Destroy(t) \/ Call(t) \/ LogCall(t)
  \/ SysStop \/ TellWorker \/ Joined
  \/ \E w \in Workers : Take(w) \/ Write(w)

\* The threads of the program are scheduled again and again; nothing makes
\* the harness build, log or stop.
Fairness ==
  /\ \A t \in Threads : WF_vars(LogCall(t))
  /\ WF_vars(TellWorker) /\ WF_vars(Joined)
  /\ \A w \in Workers : WF_vars(Take(w) \/ Write(w))

Spec == Init /\ [][Next]_vars

FairSpec == Spec /\ Fairness

-----------------------------------------------------------------------------

Lines == Threads \X (1 .. MaxLines)

\* The types of the variables.  The queue never holds more than it has room
\* for, and a thread never loses more lines than it has logged.
TypeOK ==
  /\ capacity \in Capacities
  /\ names \subseteq Ids /\ registered \in BOOLEAN
  /\ builds \in [Ids -> Nat]
  /\ id \in [Threads -> Ids \cup {NoId}]
  /\ bound \in [Threads -> BOOLEAN]
  /\ pc \in [Threads -> {"idle", "posting", "returning", "closing", "threw"}]
  /\ calls \in [Threads -> 0 .. MaxLines]
  /\ dropped \in [Threads -> 0 .. MaxLines]
  /\ queue \in Seq(Lines \cup {Terminate}) /\ Len(queue) <= capacity
  /\ worker \in [Workers -> {"waiting", "writing", "halted"}]
  /\ hand \in [Workers -> {<<>>} \cup {<<l>> : l \in Lines}]
  /\ file \in Seq(Lines)
  /\ main \in {"running", "closing", "stopped"}
  /\ told \in 0 .. PoolWorkers

PoolGone == ~registered /\ Holders = {} /\ ~Closing

\* The file sink is the single-threaded one: no two threads are ever inside
\* it, and no thread is when the pool has been destroyed.
SinkUnshared ==
  /\ \A v, w \in Workers : worker[v] = "writing" /\ worker[w] = "writing" => v = w
  /\ PoolGone => \A w \in Workers : worker[w] # "writing"

\* Between two emptyings of the registry an id is good for one logger object,
\* even if that object is long gone: a harness that rebuilds its loggers
\* before sys_stop gets an exception.
OneObjectPerId == \A i \in Ids : builds[i] <= 1

InFile(t) == Cardinality({k \in DOMAIN file : file[k][1] = t})

\* When sys_stop has returned, with no thread inside a log call, every line
\* whose call found the pool is in the file, whichever thread destroyed the
\* pool.  With sys_stop and log calls in any order, a line is lost only if
\* its call began when the pool had no holder, and never before sys_stop.
StopDrains ==
  /\ main = "running" => \A t \in Threads : dropped[t] = 0
  /\ main = "stopped" /\ (\A t \in Threads : pc[t] \in {"idle", "threw"}) =>
       /\ queue = <<>>
       /\ \A t \in Threads : InFile(t) + dropped[t] = calls[t]

\* A log call returns: a full queue is emptied by the worker, also while the
\* pool is being destroyed.  The exception is the queue of 0 records, which
\* never has room.
EveryCallReturns ==
  \A t \in Threads : pc[t] = "posting" /\ capacity > 0 ~> pc[t] = "idle"

\* sys_stop returns, and the pool is destroyed by whoever is the last to hold
\* it: again unless the queue has no room for the message that ends the
\* worker.
PoolEnds == main # "running" /\ capacity > 0 ~> main = "stopped" /\ PoolGone

-----------------------------------------------------------------------------

\* What waits, in the hands of a worker or in the queue.
Waiting ==
  {l \in Lines : \/ \E w \in Workers : hand[w] = <<l>>
                 \/ \E i \in DOMAIN queue : queue[i] = l}

Abstract == INSTANCE AsyncLog WITH
  Line <- Lines, waiting <- Waiting, written <- file, over <- PoolGone

\* Through any interleaving of loggers that are built, destroyed and rebuilt,
\* calls, and sys_stop, the pool keeps what AsyncLog promises: lines are
\* written in the order of their thread, none is waiting when the pool is
\* destroyed, and none is accepted after that.
ImplementsAsyncLog == Abstract!Spec

=============================================================================
