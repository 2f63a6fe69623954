------------------------------- MODULE Levels -------------------------------
(***************************************************************************)
(* What becomes of a line from the LOGBENCH_LOG_* macro that logs it to    *)
(* the file: the level the macro gives it, the level below which the       *)
(* library drops it, the channel fstlog puts it on, the filter of the file *)
(* it is offered to; and whether the process survives it.                  *)
(*                                                                         *)
(* A severity is a number, 1 (TRACE) to 6 (FATAL).  The levels of a        *)
(* library are named as it names them.  The core of fstlog logs lines of   *)
(* its own, which sys_init can send to a second file.                      *)
(***************************************************************************)
EXTENDS Integers, Sequences

CONSTANTS Adapters,   \* the adapters considered
          MaxLines    \* bound: the calls of one run

\* The directories under src that define the macros.
AllAdapters ==
  {"noop", "abseil", "boost", "g3log", "log4cxx", "p7", "poco", "quill", "quill-bounded",
   "spdlog", "spdlogv2", "fstlog-st", "fstlog-stfix", "fstlog-fast", "fstlog-lowl",
   "fstlog-mt", "fstlog-tloc"}

FstlogAdapters ==
  {"fstlog-st", "fstlog-stfix", "fstlog-fast", "fstlog-lowl", "fstlog-mt", "fstlog-tloc"}

ASSUME AdaptersKnown == Adapters \subseteq AllAdapters

Severities == 1 .. 6
Info == 3
Error == 5
Fatal == 6

VARIABLES
  adapter,
  logSelf,   \* is the second file asked for (fstlog)
  calls,     \* the severities logged so far, 0 for a line of the library itself
  files,     \* the lines in "test" and in "self": [call, level]
  alive      \* does the process live

vars == <<adapter, logSelf, calls, files, alive>>

-----------------------------------------------------------------------------
(* The level each macro gives its line.                                    *)

\* The macros have no body.
NoopMacros == <<>>

AbseilMacros == <<"INFO", "INFO", "INFO", "WARNING", "ERROR", "FATAL">>
BoostMacros == <<"trace", "debug", "info", "warning", "error", "fatal">>

\* Mutant of G3logMacros: an error is raised to the level that g3log has above
\* WARNING.
G3logMacrosRaised == <<"DEBUG", "DEBUG", "INFO", "WARNING", "FATAL", "FATAL">>

G3logMacros == <<"DEBUG", "DEBUG", "INFO", "WARNING", "WARNING", "FATAL">>
Log4cxxMacros == <<"TRACE", "DEBUG", "INFO", "WARN", "ERROR", "FATAL">>
P7Macros == <<"TRACE", "DEBUG", "INFO", "WARNING", "ERROR", "CRITICAL">>
PocoMacros == <<"trace", "debug", "information", "warning", "error", "fatal">>
QuillMacros == <<"TRACE_L1", "DEBUG", "INFO", "WARNING", "ERROR", "CRITICAL">>
QuillBoundedMacros == QuillMacros

\* Mutant of SpdlogMacros: two macros are swapped.
SpdlogMacrosSwapped == <<"trace", "debug", "info", "err", "warn", "critical">>

SpdlogMacros == <<"trace", "debug", "info", "warn", "err", "critical">>
SpdlogV2Macros == SpdlogMacros
FstlogStMacros == <<"Trace", "Debug", "Info", "Warn", "Error", "Fatal">>
FstlogStfixMacros == FstlogStMacros
FstlogFastMacros == FstlogStMacros
FstlogLowlMacros == FstlogStMacros
FstlogMtMacros == FstlogStMacros
FstlogTlocMacros == FstlogStMacros

Macros ==
  CASE adapter = "noop"          -> NoopMacros
    [] adapter = "abseil"        -> AbseilMacros
    [] adapter = "boost"         -> BoostMacros
    [] adapter = "g3log"         -> G3logMacros
    [] adapter = "log4cxx"       -> Log4cxxMacros
    [] adapter = "p7"            -> P7Macros
    [] adapter = "poco"          -> PocoMacros
    [] adapter = "quill"         -> QuillMacros
    [] adapter = "quill-bounded" -> QuillBoundedMacros
    [] adapter = "spdlog"        -> SpdlogMacros
    [] adapter = "spdlogv2"      -> SpdlogV2Macros
    [] adapter = "fstlog-st"     -> FstlogStMacros
    [] adapter = "fstlog-stfix"  -> FstlogStfixMacros
    [] adapter = "fstlog-fast"   -> FstlogFastMacros
    [] adapter = "fstlog-lowl"   -> FstlogLowlMacros
    [] adapter = "fstlog-mt"     -> FstlogMtMacros
    [] adapter = "fstlog-tloc"   -> FstlogTlocMacros

\* The levels that each library has, the lowest first.
AbseilLevels == <<"INFO", "WARNING", "ERROR", "FATAL">>
BoostLevels == <<"trace", "debug", "info", "warning", "error", "fatal">>
G3logLevels == <<"DEBUG", "INFO", "WARNING", "FATAL">>
Log4cxxLevels == <<"TRACE", "DEBUG", "INFO", "WARN", "ERROR", "FATAL">>
P7Levels == <<"TRACE", "DEBUG", "INFO", "WARNING", "ERROR", "CRITICAL">>
PocoLevels ==
  <<"trace", "debug", "information", "notice", "warning", "error", "critical", "fatal">>
QuillLevels ==
  <<"TRACE_L3", "TRACE_L2", "TRACE_L1", "DEBUG", "INFO", "NOTICE", "WARNING", "ERROR", "CRITICAL">>
SpdlogLevels == <<"trace", "debug", "info", "warn", "err", "critical">>
FstlogLevels == <<"Trace", "Debug", "Info", "Warn", "Error", "Fatal">>

Scale ==
  CASE adapter = "noop"                       -> <<>>
    [] adapter = "abseil"                     -> AbseilLevels
    [] adapter = "boost"                      -> BoostLevels
    [] adapter = "g3log"                      -> G3logLevels
    [] adapter = "log4cxx"                    -> Log4cxxLevels
    [] adapter = "p7"                         -> P7Levels
    [] adapter = "poco"                       -> PocoLevels
    [] adapter \in {"quill", "quill-bounded"} -> QuillLevels
    [] adapter \in {"spdlog", "spdlogv2"}     -> SpdlogLevels
    [] adapter \in FstlogAdapters             -> FstlogLevels

Rank(level) == CHOOSE i \in DOMAIN Scale : Scale[i] = level

-----------------------------------------------------------------------------
(* What is dropped.                                                        *)

\* Mutant of AbseilThreshold: one level up.
AbseilThresholdWarning == "WARNING"

\* SetMinLogLevel(kInfo).
AbseilThreshold == "INFO"

\* <level value="INFO"/> of the root logger.
Log4cxxThreshold == "INFO"

\* The level that the loggers of fstlog-st, -stfix, -fast and -lowl are
\* constructed with; the filters of the files take all levels.
FstlogThreshold == "Trace"

\* What the libraries do by themselves: quill, poco and spdlog drop what is
\* below information, the others nothing.
DefaultThreshold ==
  CASE adapter \in {"quill", "quill-bounded"} -> "INFO"
    [] adapter = "poco"                       -> "information"
    [] adapter \in {"spdlog", "spdlogv2"}     -> "info"
    [] OTHER                                  -> Scale[1]

Threshold ==
  CASE adapter = "abseil"           -> AbseilThreshold
    [] adapter = "log4cxx"          -> Log4cxxThreshold
    [] adapter \in FstlogAdapters   -> FstlogThreshold
    [] OTHER                        -> DefaultThreshold

Passes(level) == Rank(level) >= Rank(Threshold)

-----------------------------------------------------------------------------
(* Where the line goes.                                                    *)

\* The channel that the loggers are constructed with: 1, given or by default.
LoggerChannel == 1

\* The channel of the lines of the core.
CoreChannel == 0

\* Mutant of TestFilter: every channel.
TestFilterAll == {0, 1}

\* The filter of the test log, and of the file of the core's own lines.
TestFilter == {1}
SelfFilter == {0}

\* The files a line of a channel gets into.  A library other than fstlog has
\* one file, and no lines of its own.
FilesOf(channel) ==
  (IF adapter \in FstlogAdapters => channel \in TestFilter THEN {"test"} ELSE {})
  \cup (IF adapter \in FstlogAdapters /\ logSelf /\ channel \in SelfFilter THEN {"self"} ELSE {})

Offer(level, channel) ==
  files' = [f \in DOMAIN files |->
              IF f \in FilesOf(channel) /\ Passes(level)
              THEN Append(files[f], [call |-> Len(calls) + 1, level |-> level])
              ELSE files[f]]

-----------------------------------------------------------------------------

Init ==
  /\ adapter \in Adapters
  /\ logSelf \in IF adapter \in FstlogAdapters THEN BOOLEAN ELSE {FALSE}
  /\ calls = <<>>
  /\ files = [f \in {"test", "self"} |-> <<>>]
  /\ alive = TRUE

Calling(s) ==
  /\ alive
  /\ Len(calls) < MaxLines
  /\ calls' = Append(calls, s)
  /\ UNCHANGED <<adapter, logSelf>>

\* The highest level of abseil and of g3log ends the process when the line is
\* written.
Deadly(level) == adapter \in {"abseil", "g3log"} /\ level = "FATAL"

\* LOGBENCH_LOG_* with severity s.
Log(s) ==
  /\ Calling(s)
  /\ IF adapter = "noop" THEN UNCHANGED <<files, alive>>
     ELSE /\ Offer(Macros[s], LoggerChannel)
          /\ alive' = ~Deadly(Macros[s])

\* The core of fstlog logs a line of its own.
LogOwn ==
  /\ adapter \in FstlogAdapters
  /\ Calling(0)
  /\ Offer(Macros[Info], CoreChannel)
  /\ UNCHANGED alive

Next == LogOwn \/ \E s \in Severities : Log(s)

Spec == Init /\ [][Next]_vars

-----------------------------------------------------------------------------

InFile(f, k) == \E i \in DOMAIN files[f] : files[f][i].call = k

\* A benchmark that logs at INFO or above finds every line in the log file,
\* with any library but noop, whatever levels the library merges or drops.
NothingFromInfoLost ==
  adapter # "noop" => \A k \in DOMAIN calls : calls[k] >= Info => InFile("test", k)

\* What ends the process was logged as fatal.
OnlyFatalKills == ~alive => calls[Len(calls)] = Fatal

\* Levels may be merged, and are neither swapped nor raised to the one that
\* kills: of two lines in the log file, the one that was logged with the
\* higher severity does not have the lower level on the scale of the library;
\* an error is never taken for information; and a benchmark that logs nothing
\* fatal runs to its end.
SeverityOrderKept ==
  /\ \A i, j \in DOMAIN files["test"] :
       LET a == files["test"][i]  b == files["test"][j] IN
       /\ calls[a.call] > calls[b.call] => Rank(a.level) >= Rank(b.level)
       /\ calls[a.call] >= Error /\ calls[b.call] = Info => Rank(a.level) > Rank(b.level)
  /\ OnlyFatalKills

\* The log file counts the lines of the benchmark and nothing else: what the
\* core of fstlog says of itself gets into the other file, and only there.
FilesApart ==
  /\ \A i \in DOMAIN files["test"] : calls[files["test"][i].call] \in Severities
  /\ \A i \in DOMAIN files["self"] : calls[files["self"][i].call] = 0
  /\ logSelf => \A k \in DOMAIN calls : calls[k] = 0 => InFile("self", k)

=============================================================================
