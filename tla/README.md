# A verification project for loglib_benchmarks

The repository wraps logging libraries behind one interface, `class logger`, so
that the harness *logbench* can run the same benchmark over each of them.  There
are seventeen adapters (`src/<adapter>/logger.hpp`), one small `main` for each,
and the CMake files that choose which to build.  The harness and the libraries
are not in the repository.

This directory holds TLA+ modules that model the adapters, the TLC
configurations that check them on small instances, and proofs checked by TLAPS
for every value of the constants.

## 1. Inventory

| Component | State | Operations | Hard part | Correct when |
|---|---|---|---|---|
| `logger::sys_init`, 17 adapters | `out_data`, `buffer_size_`, sinks and backends of the library | looks at each setting of `init_data`, acquires things from the library, may throw anywhere | each adapter has its own order, so what a throw leaves behind differs; sizes in 32 bits | the outcome and the report depend on the request only; settings asked for are in force; the memory is what is reported |
| logger objects | the library's logger, buffer or trace | constructor, destructor, `LOGBENCH_LOG_*` | one per thread, built after `sys_init`, perhaps destroyed after `sys_stop` | nothing leaks or dangles |
| p7 client | `p7_client_` (raw), reference count, shared name | create, share, look up, flush, release | two pointers to one object, one counted; every error path gives a reference back | never used after it is gone, freed in the end, flushed lines survive |
| abseil `file_sink` | stream, mutex | `Send`, `Flush`, destruction | called on the logging threads; two writes per line; FATAL aborts the process | lines are whole and ordered; a fatal line reaches the disk |
| asynchronous pipeline | queues, background thread, its sleep | log call, background write, `sys_stop`, end of `main` | full queues, threads that are or are not woken, stop protocols that differ | no line lost or reordered, no caller waits for ever, the program ends |
| spdlog's pool and registry | queue, worker, names, weak and shared pointers to the pool | build and destroy a logger, log, `spdlog::shutdown` | shutdown may run while others log; the file sink has no lock; names outlive loggers | the sink is never shared; no line is lost without reason; calls return and the pool ends |
| main programs | the static pointer of each adapter, the objects of the try block, exit code | `main`, around everything else | an exception may come from any step; `sys_stop` may follow a failed `sys_init`; objects are destroyed in reverse order | pointers are used only while they are good; the exit code tells what happened; the template set is the one in force |
| severity macros | thresholds, fstlog's channels and filters | six severities to the levels of the library | libraries merge levels, drop what is below a threshold, or die of a fatal line | nothing from INFO up is lost; severities are not swapped; the files stay apart |
| target selection (`CMakeLists.txt`) | `BENCHMARK_TARGETS` (cached), the build files | configure, choose, build; directories come and go | the cache and the build files outlive what they were made from | a build compiles what was chosen, from directories that exist |
| names, versions | strings | getters | none | not modelled: wording |

The components meet as follows.  The harness calls `sys_init` once, builds a
logger object in each of `thread_num` threads, logs through it, joins the
threads, calls `sys_stop`, and `main` returns.  `SysInit` covers the first two
steps, `AbseilSink` and `Pipeline` the others, for synchronous and asynchronous
libraries.  `P7Client` covers all steps for p7, where the objects that the steps
use are shared by counting, and `SpdlogPool` those of spdlog, where they are
shared by weak pointers and by name.  `Process` puts `main` around the steps of
`SysInit`, for every adapter and every way it can fail.

## 2. Modules

| Module | Models | Abstract specification |
|---|---|---|
| `SysInit` | `sys_init` and logger construction of all adapters | `InitContract` |
| `P7Client` | the client shared by p7's loggers | |
| `AbseilSink` | `file_sink` and the threads that log through it | `LineLog` |
| `Pipeline` | the queue, background thread and stop protocol of each asynchronous adapter | `AsyncLog` |
| `Process` | `main`, around the actions of `SysInit` | |
| `SpdlogPool` | the logger objects, thread pool and registry of spdlog | `AsyncLog` |
| `Levels` | severity macros, thresholds, fstlog's channels and filters | |
| `Targets` | the choice of targets, its cache, and builds | |
| `P7ClientProofs`, `AbseilSinkProofs`, `SysInitProofs`, `PipelineProofs`, `SpdlogPoolProofs`, `ProcessProofs`, `LevelsProofs`, `TargetsProofs` | the theorems about the module they are named after | |
| `MC*` | instances for TLC | |

**SysInit.**  The adapters have the same parts in different orders.  A profile
(`AbseilInit` ... `FstlogLowlInit`) names the parts of one adapter in the order
of its code, the values of each setting it accepts and what it reports for a
setting that is not asked for.  `step` is the place in that program, and each
part is one action: it fills a field of `report` (`out_data`), gives `lib` a
setting, adds to `held` what was acquired, or throws and leaves the rest as it
is.  `BuildLogger` is the constructor of the logger objects.  Requests are
records with a value for each setting; `None` is the -1 of the code.

Any log file may fail to open.  boost looks at the stream and throws, and the file
sinks of spdlog, spdlogv2, quill and quill-bounded throw (`Open`), when the pool of
spdlog or the backend of quill is already running; p7 fails with its client.
abseil, g3log, fstlog (`OpenUnchecked`, `OpenAlways`) and log4cxx (`Configure`) do
not notice.  poco's channel is only told the name in `sys_init` and opens the file
at the first line, so it has no such part.  `EnvironmentMayFail` of the contract
lists the adapters that notice, and for which requests the call gets that far: a
request that such an adapter supports succeeds or is failed by the system, and any
other that is supported succeeds.  Running out of memory or of threads is left out.

**P7Client.**  `main` is the place in `sys_init`/`sys_stop`, `logger[t]` the life
of the logger object of thread `t`, `refs`, `client` and `registry` the object of
the library, and `pool`, `saved`, `lost` the lines it has accepted.  Nothing is
assumed of the order between `sys_stop` and the loggers: a logger object may be
built or destroyed at any time.  Assumed of the library: a trace has no
reference of its own, a client with no reference is destroyed, leaves the
registry and drops what it has not written.

**AbseilSink.**  `pc[t]` is the place of thread `t` in `LOG()`: the mutex, the two
writes and the unlock of `Send`, and for a fatal line the `Flush` and the abort.
The stream keeps chunks in `buffer` and may spill them to `disk` at any write.
It may be closed from the start, because nobody looks whether `open` succeeded.

**Pipeline.**  `BoostBackend` ... `FstlogLowlBackend` say what each adapter
configures: one queue or one for each thread, what a full queue does, whether a
push wakes the background thread, and the calls of `sys_stop` and of the end of
`main` in their order.  The rest of the module carries that out; it is external,
modelled from how the adapters rely on it.

**Process.**  `PocoMain` and the like are the statements of each `main`, which
`place` and `at` walk through; `scope` holds the objects of the try block, so that
leaving it destroys them in reverse.  `SysInit` is instantiated and its steps are
steps of this module.  `PocoLogger` and the like say what the constructor of each
`class logger` may do and which part of `sys_init` uses the template.  `pointer`
is the one static pointer by which each adapter reaches the library.  Whether the
harness calls `sys_stop` after an exception is not in the repository, so both are
allowed.  After `main` the static objects are destroyed (`Exit`).  Three kinds of
calls may never return, and leave the program at the place `"stuck"`: a log call
(`LogHangs`), `sys_stop` and that destruction.  A queue of spdlog with no room
(`EmptyQueue`) blocks whoever puts something into it, the destructor of its pool
too, so a `sys_init` that refuses something after the pool has been made can hang
the program instead of ending it with 1.  A backend of quill that sleeps without
end (`AsleepForever`) may or may not wake in time, so there a call may hang or not.

**SpdlogPool.**  A thread builds a logger object for an id, logs, destroys it and
may build again; `names` is the registry.  The pool lives as long as someone holds
it: the registry until `spdlog::shutdown`, and each log call that has found it.
The last to let go destroys it, which posts a message for each worker and joins
them.  `bound` is the weak pointer that the object got when it was built.  A
constructor looks up the pool and registers the name in one step (lines 28 to 30).
A shutdown that falls between the two would leave an object that calls as one built
before the shutdown, with a name as of one built after it: the calls and the names
of the model have both, each for itself, and no action looks at the two together.

**Levels.**  `AbseilMacros` and the like list the level of each of the six macros,
`AbseilLevels` and the like the levels that the library has, in its own order and
whether a macro uses them or not; ranks and default thresholds are those of the
library, so a macro that names a wrong level is not taken for the right one.
A line passes the threshold of its library and goes to the files whose filter
takes its channel; `Deadly` ends the process.

**Targets.**  `Run` is one run of `CMakeLists.txt`: it settles the choice, refuses
an unavailable target, or else writes `built`, `skipped` and the source of
fstlog, and may still fail in a search or a fetch.  fstlog is needed by the targets
whose name contains `fstlog`, as the code has it (`NeedsFstlog`).  `Stale` is what
makes a build configure first.

## 3. Runs

| Run | Instance | States | Shows |
|---|---|---|---|
| `p7_client` | 3 threads, 2 lines, symmetric | 524 | `RefsExact`, `NoDanglingUse`, `FreedWhenUnused`, `OnlyLateLinesLost`, `FreedForever` |
| `abseil_sink` | 2 threads, 2 lines each | 4842 | `MutualExclusion`, `WholeLines`, `NothingMissing`, `FatalIsDurable`, `EveryCallReturns`, and that the sink implements `LineLog` |
| `sys_init` | 17 adapters, 1728 requests | 183632 | `ReportComplete`, `InForce`, `MemoryAsReported`, `SinkIsLive`, and that `sys_init` implements `InitContract` |
| `pipeline` | 11 kinds of adapter, 2 threads, 3 lines each, queues of 1 and 2 | 48153 | `FileInOrder`, `NothingLost`, `EveryCallReturns`, `ProgramEnds`, and that the program implements `AsyncLog` |
| `process` | 17 adapters, 216 requests | 77204 | `PointersSafe`, `ExitTellsOutcome`, `TemplateInForce`, `HangsOnlyAtZero` |
| `spdlog_pool` | 2 threads, 2 ids, 2 lines each, queues of 0, 1 and 2 | 142096 | `SinkUnshared`, `OneObjectPerId`, `StopDrains`, `EveryCallReturns`, `PoolEnds`, and that the pool implements `AsyncLog` |
| `levels` | 17 adapters, 3 lines | 7505 | `NothingFromInfoLost`, `SeverityOrderKept`, `FilesApart` |
| `targets` | 11 directories of which 3 come and go, 5 choices | 73184 | `CompilesTheChoice` |
| `quill_bounded_buffer` | quill-bounded | | a violation: see 5 |
| `p7_buffer` | p7 | | a violation: see 5 |

`p7_client`, `abseil_sink`, `sys_init`, `pipeline` and `spdlog_pool` also check the
type invariant of their module.  The variables of `Process`, `Levels` and
`Targets` only take values written out in their actions.

**Bounds.**  *p7_client*: the count distinguishes main, one logger and more than
one; three threads give two loggers in any phase while a third comes or goes.
Two lines allow one early and one late.  *abseil_sink*: mixing lines takes two
threads; the second line of a thread shows its order.  *sys_init*: the sizes are
0, 1, one that fits for one thread and not for three, one that wraps to 0 and one
that wraps to something else; 5 stands for any interval, 0 for the special
one.  `Word` is 2^20 in place of 2^32 so that wrapping products fit in TLC's own
integers; the code has no constant whose relation to 2^32 is changed by that.
*pipeline*: three lines through a queue of one or two make a caller wait for a
full queue, also behind another thread.  *process*: each setting is asked for or
not, so that every check of `sys_init` accepts in one request and refuses in
another, and the size and the poll time also as 0, which can hang the program; two loggers allow a constructor to fail after another has worked.
*spdlog_pool*: two threads are enough for a call that holds the pool while the
other thread, or main, lets go of it; two ids allow a name that is free and one
that is taken.  *levels*: two lines show an order, and a third what comes after
a fatal one.  *targets*: a target of the default and two that are not, with `fstlog`
at the start of the name or further on, may appear and disappear; the targets that
stay have no fstlog in their names.

**Fairness.**  Only weak fairness is assumed, of steps the operating system or
the library's thread takes: a thread inside a log call, the background thread
and its timer, and `main` once it is in `sys_stop`.  No thread has to log and
nothing has to call `sys_stop`.  A caller waiting for a mutex or for room in a
queue could be overtaken for ever by others in general; here each thread logs at
most `MaxLines` lines, as a benchmark does, so that weak fairness is enough.  A
sleep of `nanoseconds::max()` is never over (`BackendPolls` is disabled), which
is why the exceptions below are needed.  In `SpdlogPool` the same holds of log
calls, of the worker and of whoever destroys the pool.  `Process` assumes none:
a program can hang there, and `HangsOnlyAtZero` says when.

**What the properties leave out, and why.**

- `MemoryAsReported` is about the adapters that report KiB per thread for a
  size they can choose.  boost reports 64, its compiled-in queue, which all the
  threads share; p7 reports the total; quill-bounded a constant.  Sizes that
  wrap in 32 bits are excluded by `Fits`, the exact bound at which they do.
- `EveryCallReturns` and `ProgramEnds` except quill with `buffer_flush_time` 0:
  a caller at a full bounded queue (quill-bounded) and `flush_log` (both) wait
  for a backend that nobody wakes.  The comment at `quill-bounded/logger.hpp:154`
  describes it.
- `NothingLost` is about the state after `sys_stop`, except for spdlogv2 and
  g3log, whose queues are drained only by destructors at the end of the program.
- `SinkIsLive` claims an open file only of boost, p7, quill, quill-bounded, spdlog and
  spdlogv2 (`Noticing`).  abseil, g3log, log4cxx and fstlog do not notice that it
  could not be opened, and then drop every line; poco opens it later; fstlog opens
  (and truncates) it for the null sink too.
- `InForce` except noop, which has no library, fstlog-lowl, which overrides the
  interval it was asked for with 400 ms, and the null sink of fstlog, which has no
  flush interval.
- `HangsOnlyAtZero` says of which requests a program may hang, and nothing of those:
  with a buffer of 0 KiB spdlog hangs as soon as it logs, stops or ends; quill with a
  flush time of 0 may.
- `ReportComplete`: the two quill adapters never write `sink_flush_time`.
- `PointersSafe` except p7, quill and quill-bounded: their `sys_stop` does not look
  at a pointer that is null, or for p7 dangling, after a `sys_init` that threw.
  Only a harness that calls `sys_stop` all the same would meet it; the property
  says that nothing else can.
- `EveryCallReturns` and `PoolEnds` of `SpdlogPool` except `lib_buffer_size` 0: the
  queue of 0 records is always full, so the first call waits for ever, and so does
  the end of the pool.
- `NothingFromInfoLost` except noop, whose macros have no body.
- `InitContract` allows a call that throws to leave a residue, named for each
  adapter in `Residue`: for example the backend thread of quill, or the thread
  pool and the truncated log file of spdlog.

## 4. Proofs

Every invariant and action property that a run checks, and all four refinements,
are also theorems, for every value of the constants that the assumptions admit.
Each inductive invariant below was a TLC invariant of the module's run before it
was proved.

**Assumptions.**  No thread is the "no thread" of a mutex, no id the "no id", `main`
is no thread (`NoThreadIsNone`, `NoIdIsNone`, `MainIsNoThread`: they are markers of
the model).  `Adapters` are among the seventeen (`AdaptersKnown`).  Capacities are
naturals, positive in `Pipeline` (`CapacitiesNat`, `CapacitiesPositive`); numbers
of lines are naturals (`MaxLinesNat`); the loggers of p7 are finitely many
(`ThreadsFinite`).  A request has -1 or a natural for each setting and at least
one thread (`RequestsTyped`), and the numbers of the libraries are naturals
(`NumbersTyped`, with `Word > 1`); spdlog's default queue has room for a record
(`QueueAssumption`).  TLC evaluates each of them on the
instances.

**P7ClientProofs.**  `TypeCorrect`, `CountIsExact`, `PointerIsSafe`, `NothingLeaks`,
`FlushSavesLines`, `FreedIsFinal`.  None is inductive alone.  That the client is
alive when it is used needs that its count is positive; that, that the count is
exact; that an exact count stays exact needs that a reference is only obtained
through a registry that knows live clients.  `IInv` puts together the types
without `refs \in Nat` (which follows from exactness), `RefsExact`,
`AliveWhileHeld`, `SharedIsAlive`, `HoldersAfterInit`, `ClientPhase` and
`PoolIsLate`.  `Invariance` has a lemma for the steps of main, one for the steps of
a logger, one for the release of a holder, and three on how the cardinality of
the holders changes.

**AbseilSinkProofs.**  `OneWriter` (mutual exclusion), `TypeCorrect`, `LinesWhole`,
`NothingLost`, `FatalDurable` and `Refinement` of `LineLog`.  Mutual exclusion also
says that whoever is inside the mutex owns it, which makes a free mutex mean
that nobody is inside.  Whole lines need that a thread between its two writes
has its text at the end of the file (`TextAtEnd`), which mutual exclusion keeps
there; that none is missing needs the count of each thread's newlines at every
moment (`AllNumbered`); that a fatal line is durable needs where the line of a
thread is at each place of its call (`LineWritten`, `LineFlushed`,
`OnlyFatalFlushed`).  The file is `disk \o buffer`, so a spill of the buffer, at
whatever moment, changes nothing that the invariant says of it.

**PipelineProofs.**  `TypeCorrect`, `OrderKept`, `NothingIsLost` and `Refinement` of
`AsyncLog`.  That the file is in the order of each thread is not inductive: the
queues have to be in order as well (`QueuesInOrder`), nothing in a queue may come
before what its thread has in the file (`FileFirst`), a thread's lines have to be
in one queue only (`InOwnQueue`), and no number may run ahead of the calls
(`NumbersPast`).  Completeness counts: each line is in the file, in a queue, in the
call in progress, or dropped (`AllCounted`).  What is left is the stop protocols
(`StopProtocol`): which calls can remain, that a background thread which has
finished, as opposed to been interrupted, has emptied the queues, and that each
protocol is over with empty queues.

**SpdlogPoolProofs.**  `TypeCorrect`, `SinkHasOneThread`, `IdUsedOnce`, `Drained` and
`Refinement` of `AsyncLog`.  The pool has one worker, so the file, the line in its
hand and the queue are one sequence, `Trail`, to which calls append and along which
the worker moves: a step of the worker leaves it as it is.  `TrailOrdered` and
`TrailCounted` say of it what the pipeline's invariant says of its parts; the rest
is the end of the pool: who holds it (`HolderRight`), that it is destroyed when
nobody does (`CloseRight`), and that the message which ends the worker is the
last in the queue (`TerminateLast`), so that no line comes after it.

**SysInitProofs.**  `TypeCorrect`, `ReportIsComplete`, `SettingsInForce`,
`MemoryIsAsReported`, `SinkLives` and `Refinement` of `InitContract`.  The argument
is the same for all adapters: `Past(part)` says that a part is over, and the
invariant says of each part what it has brought about once it is over (`Checked`,
`Reported`, `Times`, `Memory`, `Acquired`), whichever parts come before and after.
What is special to an adapter is a table of its program, proved by going through
the seventeen programs (`Programs`, `Leavings`): which parts it has, that none
comes twice, that the size is computed before it is used, that all checks (in
spdlog and spdlogv2 all but the flush time) come before the parts that can fail, and
what the parts before one that can throw leave behind.  `MemoryIsAsReported` adds arithmetic over all
naturals: `(m * n) \div 82` and `(m \div 82) * n` records are each short of `m * n`
bytes by less than 82 for each thread, and nothing wraps under `Fits`.

**ProcessProofs.**  `NoBadPointer`, `ExitCodeRight`, `TemplateHandedOver`,
`HangsExplained`.  The invariant says what has happened at each place of the program (`Course`), which
template the library has been given (`Template`), that a `sys_init` which returns
leaves the pointer of p7 and quill live (`Pointer`), and that g3log's worker
outlives the test (`Worker`).  `Zero` adds what it takes to hang: the queue of spdlog has room for no record only if 0 KiB were asked for, since `(kib *
1024 * threads) \div 82` is 0 for no other size; and the logger of quill is there
only when `sys_init` has returned.

**LevelsProofs.**  `InfoKept`, `OrderOfLevels`, `FilesKeptApart`.
What the adapters decide is a finite table of levels, ranks and thresholds; the invariant ties each
line of a file to the call it is from (`TestRight`, `SelfRight`), and the order of
severities follows from the table.

**TargetsProofs.**  `BuildsTheChoice`.  As long as the last configuration succeeded,
the build files are those of the choice in the cache (`FilesOfTheChoice`); one that
failed has changed the cache and not the files, but makes the next build configure
again.

**What the proofs changed in the model.**

- A field of `out_data` that is not written was marked -2, as if no adapter could
  report that.  p7 reports its size wrapped in 32 bits, so -2 can be a report;
  `ReportIsComplete` could not be proved.  `Unset` is now a number outside `int`.
- `Fits` and `Answer` had CASEs whose guards overlap, where TLA+ does not say which
  branch holds (TLC takes the first).  Both are now disjoint.
- `AsyncLog` has a set of waiting lines, and `LineLog` and `AbseilSink` count lines by
  the set of their positions, in place of sequences and filters defined by
  recursion: the promises are the same, and the refinements can be proved.

**The safety half of liveness.**  Liveness fails either because a thread is not
scheduled, which fairness excludes, or because it waits for something that cannot
come, which is a state and can be excluded by an invariant.  Three theorems do so.
`NobodyAbandoned` (PipelineProofs): a call that waits at a full queue has a
background thread that is awake or will wake by itself, so no wake-up is lost
(but for quill-bounded with `buffer_flush_time` 0, where the code really can wait
for ever); `flush_log` only waits for a backend that has not been stopped; boost's
flush only begins when the feeding thread has ended, so the file never has two
writers.  `WorkerAwaited` (SpdlogPoolProofs): the pool's only worker
has not ended while a call posts or the pool is being destroyed, and does not
wait for a message that nobody sends when it is joined.  `MutexGivenBack`
(AbseilSinkProofs): the mutex is never left locked.

**Model-checked only.**  Liveness under fairness itself is out of the prover's
reach: `EveryCallReturns` (three modules), `ProgramEnds` and `PoolEnds`
hold on the instances of section 3.

## 5. Disagreements between the code and its comments

- `quill/logger.hpp:54` refuses a buffer size because it "is only effective when
  built with blocking queue!".  quill-bounded is that build, and never looks at
  the size: a request is neither applied nor refused
  (`BlockingQueueSizeIsEffective` is violated).
- `p7/logger.hpp:176` says "kbyte / thread" of `logger_buffer_size_`, which holds
  the size for all threads (`P7SizeIsPerThread` is violated).

## 6. Not modelled

The wording of log templates, library names and versions (strings nothing
depends on), the compiler settings of the targets, and the inside of the
libraries and of the harness beyond what the adapters use.  A queue of size 0,
which spdlog and spdlogv2 are given for `lib_buffer_size` 0, is in `SpdlogPool` and
not in `Pipeline`.  `Levels` takes the default thresholds of the libraries as
they document them, and follows lines to a file, not to a null sink.  `Targets`
leaves out the generated build files themselves, and takes from CMake that a
build looks at globbed directories and the cache again.

## 7. Plan

Done, in this order: `P7Client` (the only place where memory safety depends on
an interleaving), `AbseilSink` (the only place where the adapter itself
synchronises threads), `SysInit` (most of the code), `Pipeline` (what the
adapters ask of a background thread), `Process` (everything around `sys_init`),
`SpdlogPool` (what `Pipeline` takes for granted of one library), `Levels`,
`Targets`.  Then the proofs: `P7Client`, `AbseilSink`, `Pipeline`, `SpdlogPool`,
`Levels`, `Targets`, `Process`, `SysInit`, until every safety property of the runs
and every refinement was a theorem, and last the invariants behind liveness.

Left for later: consequences of the abstract specifications, proved once for all their
implementations (the order of the file from `AsyncLog`, the finality of the outcome
from `InitContract`).
