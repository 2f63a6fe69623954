------------------------------ MODULE Process ------------------------------
(***************************************************************************)
(* The life of a benchmark program, from the first statement of main       *)
(* (src/<adapter>/<adapter>.cpp) to its exit code, around the sys_init of  *)
(* its adapter, which is the one of SysInit.                               *)
(*                                                                         *)
(* main sets the template, for g3log creates the worker thread, constructs *)
(* the test of the harness, which does everything else, and returns 0; an  *)
(* exception is caught, printed and turned into 1.  The adapters reach     *)
(* what they have acquired through one static pointer each: worker_        *)
(* (g3log), logger_instance_ (quill), p7_client_, text_sink_ (boost), the  *)
(* appender ASYNC looked up by log4cxx.                                    *)
(*                                                                         *)
(* The harness is external.  It calls sys_init, builds the loggers, calls  *)
(* sys_stop; whether it still calls sys_stop after an exception is not in  *)
(* the repository, so it may or may not.                                   *)
(*                                                                         *)
(* After main the static objects are destroyed.  A call of a library that  *)
(* never returns, there or before, leaves the program stuck.               *)
(***************************************************************************)
EXTENDS Integers, Sequences

CONSTANTS Adapters, Requests, Word, FstlogPoll, SpdlogQueue, QuillSleep

VARIABLES
  adapter, request, step, status, report, size, lib, held, built, \* SysInit
  place,     \* "main", "init", "test", "stop", "leaving" the try block,
             \* "exiting" main, "over", or "stuck" for ever
  at,        \* the next statement of main
  scope,     \* the automatic objects of the try block, oldest first
  templ,     \* log_templ_: the "default" of the class or that of "main"
  given,     \* the template that the library formats the log file with
  pointer,   \* the static pointer: "null", "live", "dangling"
  thrown,    \* an exception is on its way to main
  stopped,   \* sys_stop has returned
  code       \* "none", "0", "1", or how the process died

initVars == <<adapter, request, step, status, report, size, lib, held, built>>
dataVars == <<templ, given, pointer>>
vars == <<initVars, place, at, scope, dataVars, thrown, stopped, code>>

S == INSTANCE SysInit

ASSUME AdaptersKnown == Adapters \subseteq S!AllAdapters
ASSUME RequestsTyped ==
  \A r \in Requests : /\ r.buffer \in Nat \cup {S!None} /\ r.poll \in Nat \cup {S!None}
                      /\ r.threads \in Nat \ {0}
ASSUME QueueAssumption == SpdlogQueue \in Nat \ {0}

-----------------------------------------------------------------------------
(* The statements of main's try block.                                     *)

NoopMain == <<"Test", "Return">>
AbseilMain == NoopMain
BoostMain == NoopMain

G3logMain == <<"SetTemplate", "CreateWorker", "StoreWorker", "Test", "Return">>

\* Mutant of PocoMain: the template is set when the test is over.
PocoMainTemplateLate == <<"Test", "SetTemplate", "Return">>

PocoMain == <<"SetTemplate", "Test", "Return">>
Log4cxxMain == PocoMain
P7Main == PocoMain
QuillMain == PocoMain
QuillBoundedMain == PocoMain
SpdlogMain == PocoMain
SpdlogV2Main == PocoMain

\* Two setters: the text template, and the flags of the binary format, which
\* no sys_init looks at.
FstlogStMain == <<"SetTemplate", "SetFlags", "Test", "Return">>
FstlogStfixMain == FstlogStMain
FstlogFastMain == FstlogStMain
FstlogLowlMain == FstlogStMain
FstlogMtMain == FstlogStMain
FstlogTlocMain == FstlogStMain

MainOf(a) ==
  CASE a = "noop"          -> NoopMain
    [] a = "abseil"        -> AbseilMain
    [] a = "boost"         -> BoostMain
    [] a = "g3log"         -> G3logMain
    [] a = "log4cxx"       -> Log4cxxMain
    [] a = "p7"            -> P7Main
    [] a = "poco"          -> PocoMain
    [] a = "quill"         -> QuillMain
    [] a = "quill-bounded" -> QuillBoundedMain
    [] a = "spdlog"        -> SpdlogMain
    [] a = "spdlogv2"      -> SpdlogV2Main
    [] a = "fstlog-st"     -> FstlogStMain
    [] a = "fstlog-stfix"  -> FstlogStfixMain
    [] a = "fstlog-fast"   -> FstlogFastMain
    [] a = "fstlog-lowl"   -> FstlogLowlMain
    [] a = "fstlog-mt"     -> FstlogMtMain
    [] a = "fstlog-tloc"   -> FstlogTlocMain

-----------------------------------------------------------------------------
(* class logger: what its constructor may do, and the part of sys_init     *)
(* that hands the stored template to the library ("never" if none does).   *)

NoopLogger == [constructor |-> "empty", template |-> "never"]
AbseilLogger == NoopLogger
BoostLogger == NoopLogger

\* set_time_template stores time_templ_, which nothing hands over.
G3logLogger == NoopLogger

Log4cxxLogger == [constructor |-> "empty", template |-> "CloseConfig"]

\* The constructor throws when it finds no client or gets no trace.
P7Logger == [constructor |-> "throws", template |-> "CreateClient"]

\* Poco::Logger::get; the pattern is set before the sink is chosen.
PocoLogger == [constructor |-> "throws", template |-> "Sink"]

QuillLogger == [constructor |-> "empty", template |-> "AddSink"]
QuillBoundedLogger == QuillLogger

\* make_shared, and in spdlog register_logger.
SpdlogLogger == [constructor |-> "throws", template |-> "AddSink"]
SpdlogV2Logger == SpdlogLogger

\* The constructor allocates the buffer that was asked for, and is noexcept.
FstlogStLogger == [constructor |-> "noexcept", template |-> "Format"]
FstlogStfixLogger == FstlogStLogger
FstlogFastLogger == FstlogStLogger
FstlogLowlLogger == FstlogStLogger
FstlogTlocLogger == FstlogStLogger

\* All objects share a static logger.
FstlogMtLogger == [constructor |-> "empty", template |-> "Format"]

LoggerOf(a) ==
  CASE a = "noop"          -> NoopLogger
    [] a = "abseil"        -> AbseilLogger
    [] a = "boost"         -> BoostLogger
    [] a = "g3log"         -> G3logLogger
    [] a = "log4cxx"       -> Log4cxxLogger
    [] a = "p7"            -> P7Logger
    [] a = "poco"          -> PocoLogger
    [] a = "quill"         -> QuillLogger
    [] a = "quill-bounded" -> QuillBoundedLogger
    [] a = "spdlog"        -> SpdlogLogger
    [] a = "spdlogv2"      -> SpdlogV2Logger
    [] a = "fstlog-st"     -> FstlogStLogger
    [] a = "fstlog-stfix"  -> FstlogStfixLogger
    [] a = "fstlog-fast"   -> FstlogFastLogger
    [] a = "fstlog-lowl"   -> FstlogLowlLogger
    [] a = "fstlog-mt"     -> FstlogMtLogger
    [] a = "fstlog-tloc"   -> FstlogTlocLogger

class == LoggerOf(adapter)

\* Mutant of UncheckedStop: boost does not check text_sink_.
UncheckedStopBoost == {"boost", "p7", "quill", "quill-bounded"}

\* sys_stop dereferences the pointer without looking at it.
UncheckedStop == {"p7", "quill", "quill-bounded"}

\* sys_stop has an empty body.
EmptyStop == {"noop", "abseil", "g3log"}

NoexceptStop ==
  {"noop", "abseil", "boost", "log4cxx", "quill", "quill-bounded"} \cup S!Fstlog

\* LOG(FATAL) and LOGF(FATAL), which LOGBENCH_LOG_FATAL stands for, end the
\* process.
FatalEndsProcess == {"abseil", "g3log"}

-----------------------------------------------------------------------------

Init ==
  /\ S!Init
  /\ place = "main" /\ at = 1
  /\ scope = <<>>
  /\ templ = "default" /\ given = "none"
  /\ pointer = "null"
  /\ thrown = FALSE /\ stopped = FALSE
  /\ code = "none"

\* The process ends here, and destroys nothing.
Die(how) ==
  /\ place' = "over" /\ code' = how
  /\ UNCHANGED <<initVars, at, scope, dataVars, thrown, stopped>>

\* A call that never returns.
Hang ==
  /\ place' = "stuck"
  /\ UNCHANGED <<initVars, at, scope, dataVars, thrown, stopped, code>>

Statement(s) == place = "main" /\ MainOf(adapter)[at] = s

SetTemplate ==
  /\ Statement("SetTemplate")
  /\ templ' = "main"
  /\ at' = at + 1
  /\ UNCHANGED <<initVars, place, scope, given, pointer, thrown, stopped, code>>

SetFlags ==
  /\ Statement("SetFlags")
  /\ at' = at + 1
  /\ UNCHANGED <<initVars, place, scope, dataVars, thrown, stopped, code>>

\* auto worker = g3::LogWorker::createLogWorker();
CreateWorker ==
  /\ Statement("CreateWorker")
  /\ scope' = Append(scope, "worker")
  /\ at' = at + 1
  /\ UNCHANGED <<initVars, place, dataVars, thrown, stopped, code>>

\* logger::worker_ = worker.get();
StoreWorker ==
  /\ Statement("StoreWorker")
  /\ pointer' = "live"
  /\ at' = at + 1
  /\ UNCHANGED <<initVars, place, scope, templ, given, thrown, stopped, code>>

\* The constructor of the test runs the benchmark; it may refuse its
\* arguments before it does anything.
Test ==
  /\ Statement("Test")
  /\ \/ place' = "init" /\ UNCHANGED thrown
     \/ place' = "leaving" /\ thrown' = TRUE
  /\ UNCHANGED <<initVars, at, scope, dataVars, stopped, code>>

\* return 0 inside the try block.
Return ==
  /\ Statement("Return")
  /\ code' = "0"
  /\ place' = "leaving"
  /\ UNCHANGED <<initVars, at, scope, dataVars, thrown, stopped>>

-----------------------------------------------------------------------------
(* The test.                                                               *)

\* g3log calls addSink and initializeLogging on worker_.
UsesWorker ==
  /\ adapter = "g3log"
  /\ \E part \in {"OpenUnchecked", "AddSink", "Initialize"} : S!At(part)

\* What a part of sys_init leaves in the pointer: quill's logger and boost's
\* sink are assigned last, p7's client stays assigned when it is released.
PointerAfter ==
  CASE adapter \in S!Quill /\ S!At("AddSink")                  -> "live"
    [] adapter = "boost" /\ S!At("AddSink") /\ S!WritesFile    -> "live"
    [] adapter = "log4cxx" /\ status' = "ok"                   -> "live"
    [] adapter = "p7" /\ "client" \in held' \ held             -> "live"
    [] adapter = "p7" /\ "client" \in held \ held'             -> "dangling"
    [] OTHER                                                   -> pointer

\* The template is only used for a text file.
GivenAfter ==
  IF S!At(class.template) /\ S!WritesFile /\ request.format = "txt" THEN templ ELSE given

SysInit ==
  /\ place = "init"
  /\ IF UsesWorker /\ pointer # "live" THEN Die("undefined")
     ELSE /\ S!SysInitStep
          /\ pointer' = PointerAfter
          /\ given' = GivenAfter
          /\ UNCHANGED <<place, at, scope, templ, thrown, stopped, code>>

SysInitReturns ==
  /\ place = "init" /\ status = "ok"
  /\ place' = "test"
  /\ UNCHANGED <<initVars, at, scope, dataVars, thrown, stopped, code>>

\* The exception leaves the test; the harness may call sys_stop on the way.
Throw ==
  /\ thrown' = TRUE
  /\ place' \in {"stop", "leaving"}
  /\ UNCHANGED <<initVars, at, scope, dataVars, stopped, code>>

SysInitThrows ==
  /\ place = "init" /\ status \in {"refused", "failed"}
  /\ Throw

BuildLogger ==
  /\ place = "test"
  /\ S!BuildLogger
  /\ UNCHANGED <<place, at, scope, dataVars, thrown, stopped, code>>

\* An exception in a constructor that is noexcept ends the process.
BuildLoggerThrows ==
  /\ place = "test"
  /\ built < request.threads
  /\ \/ class.constructor = "throws" /\ Throw
     \/ class.constructor = "noexcept" /\ Die("terminated")

LogFatal ==
  /\ place = "test"
  /\ built > 0
  /\ adapter \in FatalEndsProcess
  /\ Die("aborted")

\* spdlog's queue with room for no record: whoever puts something into it
\* waits for ever.
EmptyQueue == adapter \in S!Spdlog /\ lib.queue = 0

\* quill's backend may be asleep, and nobody wakes it.
AsleepForever == adapter \in S!Quill /\ lib.poll = S!Forever

\* A line that waits for ever: at a queue without room, or in quill-bounded at
\* a full one.
LogHangs ==
  /\ place = "test"
  /\ built > 0
  /\ EmptyQueue \/ (adapter = "quill-bounded" /\ AsleepForever)
  /\ Hang

TestEnds ==
  /\ place = "test"
  /\ built = request.threads
  /\ place' = "stop"
  /\ UNCHANGED <<initVars, at, scope, dataVars, thrown, stopped, code>>

\* sys_stop calls the library, which may throw; boost's only with a sink.
CallsLibrary == adapter \notin EmptyStop /\ (adapter = "boost" => pointer # "null")

\* p7_client_ is released and keeps its value.
SysStopReturns ==
  /\ place = "stop"
  /\ stopped' = TRUE
  /\ pointer' = IF adapter = "p7" THEN "dangling" ELSE pointer
  /\ IF thrown
     THEN place' = "leaving" /\ UNCHANGED <<at, scope>>
     ELSE place' = "main" /\ at' = at + 1 /\ scope' = Append(scope, "test")
  /\ UNCHANGED <<initVars, templ, given, thrown, code>>

SysStopThrows ==
  /\ place = "stop" /\ CallsLibrary
  /\ IF adapter \in NoexceptStop THEN Die("terminated")
     ELSE /\ thrown' = TRUE
          /\ place' = "leaving"
          /\ UNCHANGED <<initVars, at, scope, dataVars, stopped, code>>

\* spdlog::shutdown ends the pool, which puts a last message into its queue;
\* flush_log of quill waits for the backend.
SysStop ==
  IF adapter \in UncheckedStop /\ pointer # "live"
  THEN place = "stop" /\ Die("undefined")
  ELSE IF adapter = "spdlog" /\ EmptyQueue THEN place = "stop" /\ Hang
  ELSE \/ SysStopReturns
       \/ SysStopThrows
       \/ place = "stop" /\ AsleepForever /\ Hang

-----------------------------------------------------------------------------
(* The end of the try block.                                               *)

Newest == scope[Len(scope)]

\* The objects of the block are destroyed, the newest first.  The test may
\* still log while it is destroyed; worker_ keeps its value.
Unwind ==
  /\ place = "leaving" /\ scope # <<>>
  /\ IF Newest = "test" /\ adapter = "g3log" /\ pointer # "live" THEN Die("undefined")
     ELSE /\ scope' = SubSeq(scope, 1, Len(scope) - 1)
          /\ pointer' = IF Newest = "worker" /\ pointer = "live" THEN "dangling" ELSE pointer
          /\ UNCHANGED <<initVars, place, at, templ, given, thrown, stopped, code>>

\* Mutant of Leave: the handler prints, and main returns 0 all the same.
LeaveWithZero ==
  /\ place = "leaving" /\ scope = <<>>
  /\ place' = "exiting"
  /\ code' = "0"
  /\ thrown' = FALSE
  /\ UNCHANGED <<initVars, at, scope, dataVars, stopped>>

\* main returns 0, or its handler has printed the exception and it returns 1.
Leave ==
  /\ place = "leaving" /\ scope = <<>>
  /\ place' = "exiting"
  /\ code' = IF thrown THEN "1" ELSE code
  /\ thrown' = FALSE
  /\ UNCHANGED <<initVars, at, scope, dataVars, stopped>>

\* The static objects are destroyed: in spdlog the pool, if sys_stop has not
\* done it, in spdlogv2 the sink with its queue; each puts a last message into
\* the queue.
Exit ==
  /\ place = "exiting"
  /\ IF EmptyQueue THEN Hang
     ELSE /\ place' = "over"
          /\ UNCHANGED <<initVars, at, scope, dataVars, thrown, stopped, code>>

-----------------------------------------------------------------------------

MainStep == SetTemplate \/ SetFlags \/ CreateWorker \/ StoreWorker \/ Test \/ Return

TestStep ==
  \/ SysInit \/ SysInitReturns \/ SysInitThrows
  \/ BuildLogger \/ BuildLoggerThrows \/ LogFatal \/ LogHangs
  \/ TestEnds \/ SysStop

Next == MainStep \/ TestStep \/ Unwind \/ Leave \/ Exit

Spec == Init /\ [][Next]_vars

-----------------------------------------------------------------------------

InitFailed == status \in {"refused", "failed"}

\* No program uses its static pointer while it is null or dangling, but for
\* one case: sys_stop of p7 or quill after a sys_init that threw.  boost and
\* log4cxx check first; g3log's worker_ is set before the test begins, and
\* the worker outlives the test.
PointersSafe ==
  code = "undefined" => InitFailed /\ adapter \in {"p7", "quill", "quill-bounded"}

\* The exit code tells what happened: it is 0 exactly if sys_init accepted
\* the request, every logger was built and sys_stop returned.  Every other
\* end is told by another code, 1 if an exception could reach main.
ExitTellsOutcome ==
  place = "over" =>
    /\ code = "0" <=> status = "ok" /\ built = request.threads /\ stopped
    /\ code # "none"

\* The log file of an adapter that has a template is formatted with the one
\* main has set, not with the default of the class.
TemplateInForce ==
  status = "ok" /\ S!WritesFile /\ request.format = "txt" /\ class.template # "never" =>
    given = "main"

\* The program comes to an end, wherever sys_init refuses or fails and
\* whichever call the library blocks in, but for two requests: a buffer of 0
\* KiB, of which spdlog makes a queue without room, and in quill a flush time
\* of 0 that sys_init has accepted.
HangsOnlyAtZero ==
  place = "stuck" =>
    \/ adapter \in S!Spdlog /\ request.buffer = 0
    \/ adapter \in S!Quill /\ request.poll = 0 /\ status = "ok"

=============================================================================
