------------------------------ MODULE SysInit -------------------------------
(***************************************************************************)
(* logger::sys_init of the seventeen adapters (src/<adapter>/logger.hpp),  *)
(* and the constructors of the logger objects the benchmark builds after   *)
(* it: one per thread.                                                     *)
(*                                                                         *)
(* The adapters have the same parts in different orders: look at one of    *)
(* the settings of the request, choose the sink, acquire something from    *)
(* the library.  A profile names, for one adapter, its parts in the order  *)
(* of its code ("program"), the values of each setting it accepts, what it *)
(* reports for a setting that is not asked for, and the formatters and     *)
(* sinks it supports.  One action is one part; it may throw, and whatever  *)
(* the parts before it have acquired or reported stays.                    *)
(***************************************************************************)
EXTENDS Integers, Sequences

CONSTANTS
  Adapters,      \* the adapters under study
  Requests,      \* the requests (test_in_param) the harness may make
  Word,          \* 2^32: sizes are kept in std::uint32_t
  FstlogPoll,    \* poll interval of a new fstlog::core, ms       (external)
  SpdlogQueue,   \* spdlog's default queue size, records          (external)
  QuillSleep     \* quill::BackendOptions::sleep_duration, ms     (external)

VARIABLES
  adapter,   \* which adapter the program is built for
  request,   \* init_data
  step,      \* the part of sys_init to run next
  status,    \* "running", "ok", "refused" (threw), "failed" (environment)
  report,    \* out_data: buffer, poll, flush, sink
  size,      \* buffer_size_ / logger_buffer_size_ / queue size, as computed
  lib,       \* what the library has been given: queue, poll, flush
  held,      \* what sys_init has acquired from the library or the system
  built      \* how many logger objects have been constructed

vars == <<adapter, request, step, status, report, size, lib, held, built>>

None    == -1   \* "not asked for" in a request, "library default" elsewhere
Forever == -3   \* nanoseconds::max(): the backend sleeps until it is woken

\* A field of out_data that has not been written: no int that an adapter
\* computes, not even the one that a size wrapped in 32 bits becomes.
Unset == -Word

Settings == {"buffer", "poll", "flush"}

-----------------------------------------------------------------------------
(* The profiles.                                                           *)

Nothing == {}
All == Nat

NoopInit ==
  [program |-> <<"Zeros">>,
   accepts |-> [buffer |-> All, poll |-> All, flush |-> All],
   default |-> [buffer |-> 0, poll |-> 0, flush |-> 0],
   formats |-> {"txt", "bin"},
   sinks   |-> {"lib", "sort", "unsort", "null"}]

AbseilInit ==
  [program |-> <<"Buffer", "Poll", "Flush", "Format", "Sink", "Initialize",
                 "OpenUnchecked", "AddSink">>,
   accepts |-> [buffer |-> Nothing, poll |-> Nothing, flush |-> Nothing],
   default |-> [buffer |-> None, poll |-> None, flush |-> 0],
   formats |-> {"txt"},
   sinks   |-> {"sort", "null"}]

BoostInit ==
  [program |-> <<"Buffer", "Poll", "Flush", "Format", "Sink", "Open",
                 "AddSink">>,
   accepts |-> [buffer |-> Nothing, poll |-> Nothing, flush |-> Nothing],
   default |-> [buffer |-> 64, poll |-> 0, flush |-> 0],
   formats |-> {"txt"},
   sinks   |-> {"sort", "null"}]

\* Mutant of G3logInit: the flush time is looked at last, as poco does.
G3logInitFlushLast ==
  [program |-> <<"Buffer", "Poll", "Format", "Sink", "OpenUnchecked", "AddSink",
                 "Initialize", "Flush">>,
   accepts |-> [buffer |-> Nothing, poll |-> Nothing, flush |-> Nothing],
   default |-> [buffer |-> None, poll |-> None, flush |-> 0],
   formats |-> {"txt"},
   sinks   |-> {"sort", "null"}]

G3logInit ==
  [program |-> <<"Buffer", "Poll", "Flush", "Format", "Sink", "OpenUnchecked",
                 "AddSink", "Initialize">>,
   accepts |-> [buffer |-> Nothing, poll |-> Nothing, flush |-> Nothing],
   default |-> [buffer |-> None, poll |-> None, flush |-> 0],
   formats |-> {"txt"},
   sinks   |-> {"sort", "null"}]

Log4cxxInit ==
  [program |-> <<"Buffer", "Poll", "Flush", "Format", "Sink", "CreateConfig",
                 "CloseConfig", "Configure">>,
   accepts |-> [buffer |-> All, poll |-> Nothing, flush |-> Nothing],
   default |-> [buffer |-> None, poll |-> None, flush |-> 0],
   formats |-> {"txt"},
   sinks   |-> {"sort", "null"}]

P7Init ==
  [program |-> <<"Buffer", "Poll", "Flush", "Sink", "CrashHandler", "Format",
                 "CreateClient", "ShareClient">>,
   accepts |-> [buffer |-> All, poll |-> Nothing, flush |-> Nothing],
   default |-> [buffer |-> None, poll |-> None, flush |-> 1000],
   formats |-> {"txt", "bin"},
   sinks   |-> {"sort", "null"}]

\* The channel is only told the name of the file, and opens it at the first
\* line.
PocoInit ==
  [program |-> <<"Buffer", "Poll", "Format", "Sink", "AddSink", "Flush">>,
   accepts |-> [buffer |-> Nothing, poll |-> Nothing, flush |-> Nothing],
   default |-> [buffer |-> None, poll |-> None, flush |-> 0],
   formats |-> {"txt"},
   sinks   |-> {"sort", "null"}]

\* What quill reports when no sleep is asked for: whole milliseconds, at
\* least one, at most INT_MAX.
QuillPoll ==
  IF QuillSleep = 0 THEN 1
  ELSE IF QuillSleep > Word \div 2 - 1 THEN Word \div 2 - 1 ELSE QuillSleep

\* The flush time is refused when asked for and never reported.
QuillInit ==
  [program |-> <<"Buffer", "Poll", "Flush", "Format", "StartBackend", "Sink",
                 "Open", "AddSink">>,
   accepts |-> [buffer |-> Nothing, poll |-> All, flush |-> Nothing],
   default |-> [buffer |-> None, poll |-> QuillPoll, flush |-> Unset],
   formats |-> {"txt"},
   sinks   |-> {"sort", "null"}]

\* initial_queue_capacity of CustomFrontendOptions.
QuillCapacity == 131072

\* As quill, but the size of the queue is compiled in and a request for
\* another one is not looked at.
QuillBoundedInit ==
  [program |-> <<"FixedBuffer", "Poll", "Flush", "Format", "StartBackend",
                 "Sink", "Open", "AddSink">>,
   accepts |-> [buffer |-> All, poll |-> All, flush |-> Nothing],
   default |-> [buffer |-> QuillCapacity \div 2048, poll |-> QuillPoll, flush |-> Unset],
   formats |-> {"txt"},
   sinks   |-> {"sort", "null"}]

\* The default of the buffer depends on the threads: see DefaultBuffer.
SpdlogInit ==
  [program |-> <<"Buffer", "StartPool", "Poll", "Format", "Sink", "Open",
                 "AddSink", "Flush">>,
   accepts |-> [buffer |-> All, poll |-> Nothing, flush |-> {0}],
   default |-> [buffer |-> Unset, poll |-> None, flush |-> 0],
   formats |-> {"txt"},
   sinks   |-> {"sort", "null"}]

SpdlogV2Init ==
  [program |-> <<"Buffer", "Poll", "Format", "Sink", "Open", "AddSink",
                 "Flush">>,
   accepts |-> [buffer |-> All, poll |-> Nothing, flush |-> {0}],
   default |-> [buffer |-> Unset, poll |-> None, flush |-> 0],
   formats |-> {"txt"},
   sinks   |-> {"sort", "null"}]

FstlogStInit ==
  [program |-> <<"Poll", "Buffer", "Flush", "Format", "OpenAlways", "Sink",
                 "AddSink", "SelfSink">>,
   accepts |-> [buffer |-> All, poll |-> All, flush |-> All],
   default |-> [buffer |-> 0, poll |-> FstlogPoll, flush |-> 0],
   formats |-> {"txt"},
   sinks   |-> {"sort", "unsort", "null"}]

FstlogStfixInit == FstlogStInit
FstlogFastInit == FstlogStInit
FstlogTlocInit == FstlogStInit

\* All the threads share one logger, whose buffer sys_init allocates.
FstlogMtInit ==
  [FstlogStInit EXCEPT !.program =
     <<"Poll", "Buffer", "NewBuffer", "Flush", "Format", "OpenAlways", "Sink",
       "AddSink", "SelfSink">>]

\* Low latency: the core polls every 400 ms whatever has been asked for.
FstlogLowlInit ==
  [FstlogStInit EXCEPT !.program = Append(@, "PollEvery400")]

Profile(a) ==
  CASE a = "noop"          -> NoopInit
    [] a = "abseil"        -> AbseilInit
    [] a = "boost"         -> BoostInit
    [] a = "g3log"         -> G3logInit
    [] a = "log4cxx"       -> Log4cxxInit
    [] a = "p7"            -> P7Init
    [] a = "poco"          -> PocoInit
    [] a = "quill"         -> QuillInit
    [] a = "quill-bounded" -> QuillBoundedInit
    [] a = "spdlog"        -> SpdlogInit
    [] a = "spdlogv2"      -> SpdlogV2Init
    [] a = "fstlog-st"     -> FstlogStInit
    [] a = "fstlog-stfix"  -> FstlogStfixInit
    [] a = "fstlog-fast"   -> FstlogFastInit
    [] a = "fstlog-lowl"   -> FstlogLowlInit
    [] a = "fstlog-mt"     -> FstlogMtInit
    [] a = "fstlog-tloc"   -> FstlogTlocInit

Fstlog == {"fstlog-st", "fstlog-stfix", "fstlog-fast", "fstlog-lowl",
           "fstlog-mt", "fstlog-tloc"}
Quill == {"quill", "quill-bounded"}
Spdlog == {"spdlog", "spdlogv2"}

AllAdapters == {"noop", "abseil", "boost", "g3log", "log4cxx", "p7", "poco"}
                 \cup Quill \cup Spdlog \cup Fstlog

ASSUME AdaptersKnown == Adapters \subseteq AllAdapters

\* What the harness may ask for: -1 or a number, at least one thread.
ASSUME RequestsTyped ==
  Requests \subseteq
    [buffer : Nat \cup {None}, poll : Nat \cup {None}, flush : Nat \cup {None},
     threads : Nat \ {0}, format : {"txt", "bin"},
     sink : {"lib", "sort", "unsort", "null"}, logSelf : BOOLEAN]

ASSUME NumbersTyped ==
  /\ Word \in Nat /\ Word > 1
  /\ FstlogPoll \in Nat /\ SpdlogQueue \in Nat /\ QuillSleep \in Nat

-----------------------------------------------------------------------------
(* Sizes.  A request gives KiB per thread; 82 bytes stand for one record.  *)

\* std::uint32_t(lib_buffer_size) * 1024: bytes of one thread's buffer.
FstlogSize(kib) == (kib * 1024) % Word

\* Mutant of SpdlogSize: divides first.
SpdlogSizeDividedFirst(kib, threads) == (kib \div 82) * 1024 * threads

\* (uint64_t(lib_buffer_size) * 1024 * thread_num) / 82: records of the queue.
SpdlogSize(kib, threads) == (kib * 1024 * threads) \div 82

\* size_t(lib_buffer_size) * 1024 / 82 * thread_num: records of the queue.
Log4cxxSize(kib, threads) == ((kib * 1024) \div 82) * threads

\* uint32_t(lib_buffer_size) * thread_num: KiB of the pool.
P7Size(kib, threads) == (kib * threads) % Word

SizeFor(a, r) ==
  LET asked == r.buffer # None
      kib == IF asked THEN r.buffer ELSE 0
  IN  CASE a \in Fstlog     -> FstlogSize(kib)
        [] a \in Spdlog     -> IF asked THEN SpdlogSize(kib, r.threads) ELSE SpdlogQueue
        [] a = "log4cxx"    -> Log4cxxSize(kib, r.threads)
        [] a = "p7"         -> P7Size(kib, r.threads)
        [] OTHER            -> 0

\* A std::uint32_t stored in an int.
AsInt(n) == IF n < Word \div 2 THEN n ELSE n - Word

\* What out_data.lib_buffer_size says of a request for the size.
ToldBuffer(a, r) ==
  IF a = "p7" THEN AsInt(P7Size(r.buffer, r.threads)) ELSE r.buffer

\* What it says when no size was asked for.
DefaultBuffer(a, r) ==
  IF a \in Spdlog THEN (SpdlogQueue * 82) \div (1024 * r.threads)
                  ELSE Profile(a).default.buffer

\* The records of boost's queue, compiled in.
BoostQueue == (64 * 1024) \div 82

\* cfg.sleep_duration: 0 means never poll.
Sleep(ms) == IF ms = None THEN None ELSE IF ms = 0 THEN Forever ELSE ms

\* sink_typ::lib stands for the sorting file sink.
Resolve(sink) == IF sink = "lib" THEN "sort" ELSE sink

-----------------------------------------------------------------------------
(* The parts.                                                              *)

NothingReported == [buffer |-> Unset, poll |-> Unset, flush |-> Unset, sink |-> "unset"]

LibraryDefaults == [queue |-> None, poll |-> None, flush |-> None]

Init ==
  /\ adapter \in Adapters
  /\ request \in Requests
  /\ step = 1
  /\ status = "running"
  /\ report = [NothingReported EXCEPT !.sink = request.sink]
  /\ size = 0
  /\ lib = LibraryDefaults
  /\ held = {}
  /\ built = 0

profile == Profile(adapter)

At(part) == status = "running" /\ profile.program[step] = part

\* The part is done; sys_init returns after the last one.
Done ==
  /\ step' = step + 1
  /\ status' = IF step = Len(profile.program) THEN "ok" ELSE "running"
  /\ UNCHANGED <<adapter, request, built>>

\* The part throws: because the request is not supported, or because the
\* environment failed.
Stop(how) ==
  /\ status' = how
  /\ UNCHANGED <<adapter, request, step, report, size, lib, built>>

Refuse == Stop("refused") /\ UNCHANGED held

Asked(s) == request[s] # None

Honoured(s) == request[s] \in profile.accepts[s]

\* if (init_data.x != -1) throw: the adapter does not do x, or (spdlog's
\* flush interval) not this value of it.
RefuseSetting ==
  /\ \E s \in Settings :
       /\ At(CASE s = "buffer" -> "Buffer" [] s = "poll" -> "Poll" [] s = "flush" -> "Flush")
       /\ Asked(s) /\ ~Honoured(s)
  /\ Refuse

\* noop accepts everything and reports zeros.
Zeros ==
  /\ At("Zeros")
  /\ report' = [report EXCEPT !.buffer = 0, !.poll = 0, !.flush = 0]
  /\ Done
  /\ UNCHANGED <<size, lib, held>>

\* quill-bounded reports the compiled-in capacity.
FixedBuffer ==
  /\ At("FixedBuffer")
  /\ report' = [report EXCEPT !.buffer = profile.default.buffer]
  /\ Done
  /\ UNCHANGED <<size, lib, held>>

Buffer ==
  /\ At("Buffer")
  /\ Asked("buffer") => Honoured("buffer")
  /\ size' = SizeFor(adapter, request)
  /\ report' = [report EXCEPT !.buffer =
       IF Asked("buffer") THEN ToldBuffer(adapter, request)
                          ELSE DefaultBuffer(adapter, request)]
  /\ Done
  /\ UNCHANGED <<lib, held>>

\* Mutant of NewBuffer: the shared buffer has the size of one thread's.
NewBufferForOne ==
  /\ At("NewBuffer")
  /\ lib' = [lib EXCEPT !.queue = size]
  /\ held' = held \cup {"buffer"}
  /\ Done
  /\ UNCHANGED <<report, size>>

\* fstlog-mt: logger_instance_.new_buffer(buffer_size_ * thread_num), in 32
\* bits.
NewBuffer ==
  /\ At("NewBuffer")
  /\ lib' = [lib EXCEPT !.queue = (size * request.threads) % Word]
  /\ held' = held \cup {"buffer"}
  /\ Done
  /\ UNCHANGED <<report, size>>

\* spdlog::init_thread_pool(size, 1) starts the one worker thread.
StartPool ==
  /\ At("StartPool")
  /\ lib' = [lib EXCEPT !.queue = size]
  /\ held' = held \cup {"pool"}
  /\ Done
  /\ UNCHANGED <<report, size>>

\* Mutant of Poll: the interval is reported but not passed on.
PollReportOnly ==
  /\ At("Poll")
  /\ Asked("poll") => Honoured("poll")
  /\ report' = [report EXCEPT !.poll =
       IF Asked("poll") THEN request.poll ELSE profile.default.poll]
  /\ Done
  /\ UNCHANGED <<size, lib, held>>

\* buffer_flush_time.  fstlog passes it to its core on the spot; quill keeps
\* it in cfg until the backend starts.
Poll ==
  /\ At("Poll")
  /\ Asked("poll") => Honoured("poll")
  /\ report' = [report EXCEPT !.poll =
       IF Asked("poll") THEN request.poll ELSE profile.default.poll]
  /\ IF adapter \in Fstlog /\ Asked("poll")
     THEN lib' = [lib EXCEPT !.poll = request.poll] /\ held' = held \cup {"poll"}
     ELSE UNCHANGED <<lib, held>>
  /\ Done
  /\ UNCHANGED size

\* Mutant of Flush: no else branch, as in quill.
FlushNoElse ==
  /\ At("Flush")
  /\ Asked("flush") => Honoured("flush")
  /\ report' = [report EXCEPT !.flush = IF Asked("flush") THEN request.flush ELSE @]
  /\ Done
  /\ UNCHANGED <<size, lib, held>>

\* sink_flush_time.
Flush ==
  /\ At("Flush")
  /\ Asked("flush") => Honoured("flush")
  /\ report' = [report EXCEPT !.flush =
       IF Asked("flush") THEN request.flush ELSE profile.default.flush]
  /\ Done
  /\ UNCHANGED <<size, lib, held>>

\* formatter_type.
Format ==
  /\ At("Format")
  /\ IF request.format \in profile.formats
     THEN Done /\ UNCHANGED <<report, size, lib, held>>
     ELSE Refuse

\* sink_type: lib is sort; then the chain of ifs that ends in a throw.
Sink ==
  /\ At("Sink")
  /\ IF Resolve(request.sink) \in profile.sinks
     THEN /\ report' = [report EXCEPT !.sink = Resolve(@)]
          /\ Done
          /\ UNCHANGED <<size, lib, held>>
     ELSE Refuse

WritesFile == report.sink # "null"

\* The log file is opened, and sys_init throws if that fails: in boost it
\* looks at the stream, in spdlog and quill the library throws.  (So does,
\* maybe, spdlogv2's async sink at a queue it does not like: with the file
\* gone again, that is the same.)
Open ==
  /\ At("Open")
  /\ \/ /\ held' = IF WritesFile THEN held \cup {"file"} ELSE held
        /\ Done
        /\ UNCHANGED <<report, size, lib>>
     \/ WritesFile /\ Stop("failed") /\ UNCHANGED held

\* Nobody looks whether the file could be opened: abseil's sink_.open(),
\* g3log's addDefaultLogger.
OpenUnchecked ==
  /\ At("OpenUnchecked")
  /\ \/ WritesFile /\ held' = held \cup {"file"}
     \/ UNCHANGED held
  /\ Done
  /\ UNCHANGED <<report, size, lib>>

\* fstlog::output_file(log_file, true): nor does anybody here, and the file is
\* opened and truncated before the sink type is looked at, for the null sink
\* too.
OpenAlways ==
  /\ At("OpenAlways")
  /\ held' \in {held, held \cup {"file"}}
  /\ Done
  /\ UNCHANGED <<report, size, lib>>

\* absl::InitializeLog and the severity thresholds, g3::initializeLogging.
Initialize ==
  /\ At("Initialize")
  /\ held' = held \cup {"library"}
  /\ Done
  /\ UNCHANGED <<report, size, lib>>

\* Mutant of AddSink: the null sink is forgotten.
AddFileSinkOnly ==
  /\ At("AddSink")
  /\ held' = IF WritesFile THEN held \cup {"sink"} ELSE held
  /\ lib' = [lib EXCEPT !.flush = IF adapter \in Fstlog THEN report.flush ELSE @]
  /\ Done
  /\ UNCHANGED <<report, size>>

\* The sink is handed to the library: fstlog's with the flush interval,
\* spdlogv2's and boost's with the queue they own (not for the null sink).
AddSink ==
  /\ At("AddSink")
  /\ held' = held \cup {"sink"}
  /\ lib' = [lib EXCEPT
       !.flush = IF adapter \in Fstlog /\ WritesFile THEN report.flush ELSE @,
       !.queue = CASE adapter = "spdlogv2" /\ WritesFile -> size
                   [] adapter = "boost" /\ WritesFile    -> BoostQueue
                   [] OTHER                              -> @]
  /\ Done
  /\ UNCHANGED <<report, size>>

\* if (init_data.log_self): a second sink for the library's own messages.
SelfSink ==
  /\ At("SelfSink")
  /\ held' = IF request.logSelf THEN held \cup {"selfSink"} ELSE held
  /\ Done
  /\ UNCHANGED <<report, size, lib>>

\* core_instance_.poll_interval(400), the last statement of fstlog-lowl.
PollEvery400 ==
  /\ At("PollEvery400")
  /\ lib' = [lib EXCEPT !.poll = 400]
  /\ held' = held \cup {"poll"}
  /\ Done
  /\ UNCHANGED <<report, size>>

\* quill::Backend::start(cfg) starts the backend thread.
StartBackend ==
  /\ At("StartBackend")
  /\ lib' = [lib EXCEPT !.poll = Sleep(request.poll)]
  /\ held' = held \cup {"backend"}
  /\ Done
  /\ UNCHANGED <<report, size>>

\* log4cxx: the configuration file is created ...
CreateConfig ==
  /\ At("CreateConfig")
  /\ \/ /\ held' = held \cup {"config"}
        /\ Done
        /\ UNCHANGED <<report, size, lib>>
     \/ Stop("failed") /\ UNCHANGED held

\* ... written and closed ...
CloseConfig ==
  /\ At("CloseConfig")
  /\ \/ Done /\ UNCHANGED <<report, size, lib, held>>
     \/ Stop("failed") /\ UNCHANGED held

\* ... and read.  BufferSize is only in it when the size is not 0.  That the
\* appender could open its file is not part of the status it returns.
Configure ==
  /\ At("Configure")
  /\ \/ /\ \/ held' = held \cup {"sink"}
           \/ WritesFile /\ held' = held \cup {"sink", "file"}
        /\ lib' = [lib EXCEPT !.queue = IF size # 0 THEN size ELSE None]
        /\ Done
        /\ UNCHANGED <<report, size>>
     \/ Stop("failed") /\ UNCHANGED held

CrashHandler ==
  /\ At("CrashHandler")
  /\ held' = held \cup {"handler"}
  /\ Done
  /\ UNCHANGED <<report, size, lib>>

\* P7_Create_Client: the sink and, when it is not 0, the size of the pool are
\* in its parameters.
CreateClient ==
  /\ At("CreateClient")
  /\ \/ /\ held' = held \cup {"client", "sink"} \cup (IF WritesFile THEN {"file"} ELSE {})
        /\ lib' = [lib EXCEPT !.queue = IF size # 0 THEN size ELSE None]
        /\ Done
        /\ UNCHANGED <<report, size>>
     \/ Stop("failed") /\ UNCHANGED held

\* Share; if it fails the client, and with it its sink, is released.
ShareClient ==
  /\ At("ShareClient")
  /\ \/ /\ held' = held \cup {"shared"}
        /\ Done
        /\ UNCHANGED <<report, size, lib>>
     \/ Stop("failed") /\ held' = held \ {"client", "sink", "file"}

-----------------------------------------------------------------------------

SysInitStep ==
  \/ RefuseSetting
  \/ Zeros \/ FixedBuffer \/ Buffer \/ NewBuffer \/ StartPool
  \/ Poll \/ Flush \/ Format \/ Sink
  \/ Open \/ OpenAlways \/ OpenUnchecked
  \/ Initialize \/ AddSink \/ SelfSink \/ PollEvery400 \/ StartBackend
  \/ CreateConfig \/ CloseConfig \/ Configure
  \/ CrashHandler \/ CreateClient \/ ShareClient

\* The fstlog adapters with a buffer for every logger object.
OwnBuffer == Fstlog \ {"fstlog-mt"}

\* Mutant of BuildLogger: one logger too many.
BuildLoggerOneMore ==
  /\ status = "ok"
  /\ built <= request.threads
  /\ built' = built + 1
  /\ UNCHANGED <<adapter, request, step, status, report, size, lib, held>>

\* The constructor of a logger object: only fstlog's allocates a buffer, of
\* the size that sys_init has left in buffer_size_.
BuildLogger ==
  /\ status = "ok"
  /\ built < request.threads
  /\ built' = built + 1
  /\ lib' = IF adapter \in OwnBuffer
            THEN [lib EXCEPT !.queue = IF built = 0 THEN size ELSE @ + size]
            ELSE lib
  /\ UNCHANGED <<adapter, request, step, status, report, size, held>>

Next == SysInitStep \/ BuildLogger

Spec == Init /\ [][Next]_vars

-----------------------------------------------------------------------------

Things == {"poll", "buffer", "pool", "file", "library", "sink", "selfSink",
           "backend", "config", "handler", "client", "shared"}

\* The types of the variables: the step stays within the program of the
\* adapter, sizes are naturals, and no thread has two logger objects.
TypeOK ==
  /\ adapter \in Adapters
  /\ request \in Requests
  /\ step \in 1 .. Len(profile.program) + 1
  /\ status \in {"running", "ok", "refused", "failed"}
  /\ report \in [buffer : Int, poll : Int, flush : Int,
                 sink : {"lib", "sort", "unsort", "null"}]
  /\ size \in Nat
  /\ lib \in [queue : Int, poll : Int, flush : Int]
  /\ held \subseteq Things
  /\ built \in 0 .. request.threads

\* When sys_init returns, the harness finds every setting in out_data, in
\* every adapter but the two of quill, which never write the flush time
\* (quill/logger.hpp:77-79, quill-bounded/logger.hpp:90-92).
ReportComplete ==
  status = "ok" =>
    \A s \in Settings : report[s] = Unset <=> s = "flush" /\ adapter \in Quill

\* A setting that was asked for and accepted is in force in the library.
\* The exceptions are the ones the code makes: noop has no library,
\* fstlog-lowl polls as it pleases, a null sink of fstlog has no flush
\* interval, and spdlog's only accepted flush interval is "never".
InForce ==
  status = "ok" =>
    /\ Asked("poll") /\ adapter \notin {"noop", "fstlog-lowl"} =>
         lib.poll = IF adapter \in Quill THEN Sleep(request.poll) ELSE request.poll
    /\ Asked("flush") /\ adapter \in Fstlog /\ WritesFile => lib.flush = request.flush
    /\ adapter = "fstlog-lowl" => lib.poll = 400

\* The adapters that promise KiB per thread for a size they can choose.
Sized == Fstlog \cup Spdlog \cup {"log4cxx"}

\* The size, in the bytes of all threads, stays below 2^32 where it is kept
\* in 32 bits.
Fits ==
  LET kib == request.buffer
  IN  CASE adapter = "fstlog-mt" -> kib * 1024 * request.threads < Word
        [] adapter \in OwnBuffer -> kib * 1024 < Word
        [] OTHER                 -> TRUE

Bytes(queue) == IF adapter \in Fstlog THEN queue ELSE 82 * queue

\* When all loggers are built, the memory they share or own is what
\* out_data says, lib_buffer_size KiB for each thread, short of at most one
\* record per thread: whether the adapter gives each logger its own buffer,
\* or one for all, or a queue of records, and in whatever order it divides
\* and multiplies.  A size that is not asked for is the library's business.
MemoryAsReported ==
  status = "ok" /\ built = request.threads /\ adapter \in Sized
    /\ request.buffer > 0 /\ Fits /\ ~(adapter = "spdlogv2" /\ ~WritesFile) =>
      LET told == report.buffer * 1024 * request.threads
          given == IF lib.queue = None THEN 0 ELSE Bytes(lib.queue)
      IN  told - given \in 0 .. 82 * request.threads - 1

\* quill refuses a buffer size because "Setting buffer size is only effective
\* when built with blocking queue!" (quill/logger.hpp:54): quill-bounded is the
\* build with the blocking queue, so there a request should take effect.
BlockingQueueSizeIsEffective ==
  status = "ok" /\ adapter = "quill-bounded" /\ Asked("buffer") =>
    report.buffer = request.buffer

\* The comment on p7's logger_buffer_size_ says "kbyte / thread"
\* (p7/logger.hpp:176): the number it holds should be what one thread gets.
P7SizeIsPerThread ==
  status = "ok" /\ adapter = "p7" /\ Asked("buffer") => size = request.buffer

\* What an adapter that refuses or fails may leave behind: the parts that
\* come before its last check and have an effect.
Residue(a) ==
  CASE a \in Fstlog     -> {"poll", "buffer"}
    [] a = "poco"       -> {"sink"}
    [] a \in Quill      -> {"backend"}
    [] a = "spdlog"     -> {"pool", "file", "sink"}
    [] a = "spdlogv2"   -> {"file", "sink"}
    [] a = "log4cxx"    -> {"config"}
    [] a = "p7"         -> {"handler"}
    [] OTHER            -> {}

\* The adapters that are told, in sys_init, that the file cannot be opened.
Noticing == {"boost", "p7"} \cup Quill \cup Spdlog

\* A sys_init that returned has given the library a sink, and a file exactly
\* if the sink writes one.  The exceptions are those of the code: abseil,
\* g3log, log4cxx and fstlog do not notice that the file could not be opened,
\* poco leaves the file to the first line, and fstlog opens it for the null
\* sink as well.
SinkIsLive ==
  status = "ok" /\ adapter # "noop" =>
    /\ "sink" \in held
    /\ WritesFile /\ adapter \in Noticing => "file" \in held
    /\ ~WritesFile /\ adapter \notin Fstlog => "file" \notin held

-----------------------------------------------------------------------------
(* sys_init implements InitContract.                                       *)

Acceptable(a, r) ==
  /\ \A s \in Settings : r[s] = None \/ r[s] \in Profile(a).accepts[s]
  /\ r.format \in Profile(a).formats
  /\ (IF a = "noop" THEN r.sink ELSE Resolve(r.sink)) \in Profile(a).sinks

Answer(a, r) ==
  [buffer |-> IF a \in {"noop", "quill-bounded"} THEN Profile(a).default.buffer
              ELSE IF r.buffer # None THEN ToldBuffer(a, r) ELSE DefaultBuffer(a, r),
   poll  |-> IF a = "noop" \/ r.poll = None THEN Profile(a).default.poll ELSE r.poll,
   flush |-> IF a = "noop" \/ r.flush = None THEN Profile(a).default.flush ELSE r.flush,
   sink  |-> IF a = "noop" THEN r.sink ELSE Resolve(r.sink)]

\* What sys_init needs of the system and checks, the file above all, comes
\* after everything it checks of the request; only spdlog and spdlogv2 look at
\* the flush interval later still.
EnvironmentMayFail(a, r) ==
  \/ a \in {"log4cxx", "p7"} /\ Acceptable(a, r)
  \/ a \in {"boost"} \cup Quill /\ Resolve(r.sink) = "sort" /\ Acceptable(a, r)
  \/ a \in Spdlog /\ Resolve(r.sink) = "sort" /\ Acceptable(a, [r EXCEPT !.flush = None])

Contract == INSTANCE InitContract WITH
  outcome <- IF status = "running" THEN "pending" ELSE status,
  report  <- IF status = "ok" THEN report ELSE "none",
  residue <- IF status \in {"refused", "failed"} THEN held ELSE {}

\* Whatever order the adapter looks at its parts in, a request it does not
\* support never succeeds, one it supports succeeds with a report that is a
\* function of the request unless the system fails an adapter that asks it
\* for something, and a call that throws leaves no more than the named
\* residue.
ImplementsContract == Contract!Spec

=============================================================================
