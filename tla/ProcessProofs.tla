--------------------------- MODULE ProcessProofs ----------------------------
(***************************************************************************)
(* Proofs about Process, for every set of adapters and of requests.        *)
(*                                                                         *)
(* The invariant has five parts: what has happened at each place of the    *)
(* program (Course), which template the library has been given (Template), *)
(* that sys_init leaves the static pointer of p7 and quill live when it    *)
(* returns (Pointer), the worker of g3log, which lives as long as the test *)
(* (Worker), and the sizes and times of 0 that can hang the program        *)
(* (Zero).  The parts of sys_init that are over are those before step in   *)
(* the program of the adapter; one more is over after each step that does  *)
(* not throw.                                                              *)
(***************************************************************************)
EXTENDS Process, SequenceTheorems, TLAPS

-----------------------------------------------------------------------------
(* The inductive invariant.                                                *)

Statements == MainOf(adapter)
Last == Len(Statements)

Parts == S!profile.program

\* The part of sys_init is over.
Past(part) == \E i \in 1 .. Len(Parts) : i < step /\ Parts[i] = part

\* sys_init has returned, and every logger has been built.
AllBuilt == status = "ok" /\ built = request.threads

Typed ==
  /\ adapter \in S!AllAdapters
  /\ request.buffer \in Nat \cup {S!None} /\ request.poll \in Nat \cup {S!None}
  /\ request.threads \in Nat \ {0}
  /\ built \in Nat
  /\ status \in {"running", "ok", "refused", "failed"}
  /\ place \in {"main", "init", "test", "stop", "leaving", "exiting", "over", "stuck"}
  /\ at \in 1 .. Last
  /\ thrown \in BOOLEAN /\ stopped \in BOOLEAN
  /\ step \in 1 .. Len(Parts) + 1
  /\ status = "running" => step <= Len(Parts)
  /\ status = "ok" => step > Len(Parts)
  /\ "sink" \in DOMAIN report

\* The exit code that main returns, or has returned, is the right one.
Told == (code = "0" <=> AllBuilt /\ stopped) /\ code # "none"

\* What has happened at each place.
Course ==
  /\ place = "main" /\ at < Last =>
       /\ status = "running" /\ step = 1 /\ held = {}
       /\ ~thrown /\ ~stopped /\ code = "none"
  /\ place = "main" /\ at = Last => AllBuilt /\ ~thrown /\ stopped /\ code = "none"
  /\ place \in {"init", "test", "stop"} => at = Last - 1 /\ ~stopped /\ code = "none"
  /\ place \in {"init", "test"} => ~thrown
  /\ place = "test" => status = "ok"
  /\ place = "stop" => status # "running" /\ (thrown <=> ~AllBuilt)
  /\ place = "leaving" =>
       /\ at \in {Last - 1, Last}
       /\ code \in {"none", "0"} /\ (code = "none" <=> thrown)
       /\ thrown <=> ~(AllBuilt /\ stopped)
  /\ place \in {"exiting", "over"} => Told

\* main sets the template before the test, and a sys_init that has handed it
\* over has handed over that one.
Template ==
  class.template # "never" =>
    /\ at > 1 => templ = "main"
    /\ Past(class.template) /\ S!WritesFile /\ request.format = "txt" => given = "main"

\* The pointer of the adapters that do not check theirs: sys_init assigns it,
\* and p7's client, once there, is only released by a sys_init that fails.
Pointer ==
  place \in {"init", "test", "stop"} =>
    /\ adapter \in S!Quill /\ Past("AddSink") => pointer = "live"
    /\ adapter = "p7" =>
         /\ status = "running" /\ step <= 7 => "client" \notin held
         /\ status \in {"running", "ok"} /\ step >= 8 => "client" \in held /\ pointer = "live"

\* The worker of g3log outlives the test.
Worker ==
  adapter = "g3log" =>
    /\ place = "main" /\ at <= 2 => scope = <<>>
    /\ place = "main" /\ at \in {3, 4} => scope = <<"worker">>
    /\ place \in {"init", "test", "stop"} => scope = <<"worker">>
    /\ place = "main" /\ at = 5 => scope = <<"worker", "test">>
    /\ place = "leaving" => scope \in {<<>>, <<"worker">>, <<"worker", "test">>}
    /\ at > 3 /\ scope # <<>> => pointer = "live"

\* Where the program can hang: the queue of spdlog has room for no record only
\* if it was asked for none, and quill sleeps for ever only if asked to, with a
\* logger only when its sys_init has returned.
Zero ==
  /\ DOMAIN lib = {"queue", "poll", "flush"}
  /\ adapter \in S!Spdlog =>
       /\ step > 1 /\ size = 0 => request.buffer = 0
       /\ lib.queue = 0 => request.buffer = 0
  /\ adapter \in S!Quill =>
       /\ lib.poll = S!Forever => request.poll = 0
       /\ pointer = "live" => status = "ok"
  /\ HangsOnlyAtZero

IInv == Typed /\ Course /\ Template /\ Pointer /\ Worker /\ Zero /\ PointersSafe

-----------------------------------------------------------------------------
(* The tables: the statements of main, the programs of sys_init.           *)

\* Every main ends with the test and return 0, which come nowhere else, and
\* the ones whose adapter has a template begin with setting it.
LEMMA MainTable ==
  ASSUME adapter \in S!AllAdapters
  PROVE  /\ Last \in Nat /\ Last >= 2
         /\ Statements[Last] = "Return" /\ Statements[Last - 1] = "Test"
         /\ \A i \in 1 .. Last - 2 : Statements[i] \notin {"Test", "Return"}
         /\ \A i \in 1 .. Last : Statements[i] = "Test" => i = Last - 1
         /\ \A i \in 1 .. Last : Statements[i] = "Return" => i = Last
         /\ class.template # "never" => Last >= 3 /\ Statements[1] = "SetTemplate"
         /\ adapter = "g3log" => Statements = G3logMain
         /\ adapter # "g3log" => \A i \in 1 .. Last : Statements[i] # "StoreWorker"
<1>1. \/ Statements = <<"Test", "Return">> /\ class.template = "never" /\ adapter # "g3log"
      \/ Statements = <<"SetTemplate", "CreateWorker", "StoreWorker", "Test", "Return">>
           /\ adapter = "g3log"
      \/ Statements = <<"SetTemplate", "Test", "Return">> /\ adapter # "g3log"
      \/ Statements = <<"SetTemplate", "SetFlags", "Test", "Return">> /\ adapter # "g3log"
  BY DEF Statements, class, MainOf, LoggerOf, S!AllAdapters, S!Quill, S!Spdlog, S!Fstlog,
         NoopMain, AbseilMain, BoostMain, G3logMain, Log4cxxMain, P7Main, PocoMain, QuillMain,
         QuillBoundedMain, SpdlogMain, SpdlogV2Main, FstlogStMain, FstlogStfixMain,
         FstlogFastMain, FstlogLowlMain, FstlogMtMain, FstlogTlocMain,
         NoopLogger, AbseilLogger, BoostLogger
<1>2. CASE Statements = <<"Test", "Return">> /\ class.template = "never" /\ adapter # "g3log"
  BY <1>2 DEF Last
<1>3. CASE Statements = <<"SetTemplate", "CreateWorker", "StoreWorker", "Test", "Return">>
           /\ adapter = "g3log"
  BY <1>3 DEF Last, G3logMain
<1>4. CASE Statements = <<"SetTemplate", "Test", "Return">> /\ adapter # "g3log"
  BY <1>4 DEF Last
<1>5. CASE Statements = <<"SetTemplate", "SetFlags", "Test", "Return">> /\ adapter # "g3log"
  BY <1>5 DEF Last
<1> QED  BY <1>1, <1>2, <1>3, <1>4, <1>5

\* How many parts the programs have, and where those are that matter here.
LEMMA Programs ==
  /\ Len(S!NoopInit.program) = 1
  /\ Len(S!AbseilInit.program) = 8
  /\ Len(S!BoostInit.program) = 7
  /\ Len(S!G3logInit.program) = 8
  /\ Len(S!Log4cxxInit.program) = 8 /\ S!Log4cxxInit.program[7] = "CloseConfig"
  /\ Len(S!PocoInit.program) = 6 /\ S!PocoInit.program[4] = "Sink"
  /\ Len(S!QuillInit.program) = 8 /\ S!QuillInit.program[8] = "AddSink"
     /\ \A i \in 1 .. 7 : S!QuillInit.program[i] # "AddSink"
  /\ Len(S!QuillBoundedInit.program) = 8 /\ S!QuillBoundedInit.program[8] = "AddSink"
     /\ \A i \in 1 .. 7 : S!QuillBoundedInit.program[i] # "AddSink"
  /\ Len(S!SpdlogInit.program) = 8 /\ S!SpdlogInit.program[7] = "AddSink"
     /\ S!SpdlogInit.program[1] = "Buffer"
     /\ \A i \in 1 .. 8 : S!SpdlogInit.program[i] # "NewBuffer"
  /\ Len(S!SpdlogV2Init.program) = 7 /\ S!SpdlogV2Init.program[6] = "AddSink"
     /\ S!SpdlogV2Init.program[1] = "Buffer"
     /\ \A i \in 1 .. 7 : S!SpdlogV2Init.program[i] # "NewBuffer"
  /\ Len(S!FstlogStInit.program) = 8 /\ S!FstlogStInit.program[4] = "Format"
  /\ Len(S!FstlogStfixInit.program) = 8 /\ S!FstlogStfixInit.program[4] = "Format"
  /\ Len(S!FstlogFastInit.program) = 8 /\ S!FstlogFastInit.program[4] = "Format"
  /\ Len(S!FstlogTlocInit.program) = 8 /\ S!FstlogTlocInit.program[4] = "Format"
  /\ Len(S!FstlogMtInit.program) = 9 /\ S!FstlogMtInit.program[5] = "Format"
  /\ Len(S!FstlogLowlInit.program) = 9 /\ S!FstlogLowlInit.program[4] = "Format"
  /\ Len(S!P7Init.program) = 8
  /\ S!P7Init.program[7] = "CreateClient" /\ S!P7Init.program[8] = "ShareClient"
  /\ \A i \in 1 .. 6 : S!P7Init.program[i] \notin {"CreateClient", "ShareClient"}
<1>1. Len(S!NoopInit.program) = 1
  BY DEF S!NoopInit
<1>2. Len(S!AbseilInit.program) = 8
  BY DEF S!AbseilInit
<1>3. Len(S!BoostInit.program) = 7
  BY DEF S!BoostInit
<1>4. Len(S!G3logInit.program) = 8
  BY DEF S!G3logInit
<1>5. Len(S!Log4cxxInit.program) = 8 /\ S!Log4cxxInit.program[7] = "CloseConfig"
  BY DEF S!Log4cxxInit
<1>6. Len(S!PocoInit.program) = 6 /\ S!PocoInit.program[4] = "Sink"
  BY DEF S!PocoInit
<1>7. Len(S!QuillInit.program) = 8 /\ S!QuillInit.program[8] = "AddSink"
     /\ \A i \in 1 .. 7 : S!QuillInit.program[i] # "AddSink"
  BY DEF S!QuillInit
<1>8. Len(S!QuillBoundedInit.program) = 8 /\ S!QuillBoundedInit.program[8] = "AddSink"
     /\ \A i \in 1 .. 7 : S!QuillBoundedInit.program[i] # "AddSink"
  BY DEF S!QuillBoundedInit
<1>9. Len(S!SpdlogInit.program) = 8 /\ S!SpdlogInit.program[7] = "AddSink"
     /\ S!SpdlogInit.program[1] = "Buffer"
     /\ \A i \in 1 .. 8 : S!SpdlogInit.program[i] # "NewBuffer"
  BY DEF S!SpdlogInit
<1>10. Len(S!SpdlogV2Init.program) = 7 /\ S!SpdlogV2Init.program[6] = "AddSink"
     /\ S!SpdlogV2Init.program[1] = "Buffer"
     /\ \A i \in 1 .. 7 : S!SpdlogV2Init.program[i] # "NewBuffer"
  BY DEF S!SpdlogV2Init
<1>11. Len(S!FstlogStInit.program) = 8 /\ S!FstlogStInit.program[4] = "Format"
  BY DEF S!FstlogStInit
<1>12. Len(S!FstlogStfixInit.program) = 8 /\ S!FstlogStfixInit.program[4] = "Format"
  BY DEF S!FstlogStfixInit, S!FstlogStInit
<1>13. Len(S!FstlogFastInit.program) = 8 /\ S!FstlogFastInit.program[4] = "Format"
  BY DEF S!FstlogFastInit, S!FstlogStInit
<1>14. Len(S!FstlogTlocInit.program) = 8 /\ S!FstlogTlocInit.program[4] = "Format"
  BY DEF S!FstlogTlocInit, S!FstlogStInit
<1>15. Len(S!FstlogMtInit.program) = 9 /\ S!FstlogMtInit.program[5] = "Format"
  BY DEF S!FstlogMtInit, S!FstlogStInit
<1>16. Len(S!FstlogLowlInit.program) = 9 /\ S!FstlogLowlInit.program[4] = "Format"
  BY DEF S!FstlogLowlInit, S!FstlogStInit
<1>17. /\ Len(S!P7Init.program) = 8
       /\ S!P7Init.program[7] = "CreateClient" /\ S!P7Init.program[8] = "ShareClient"
       /\ \A i \in 1 .. 6 : S!P7Init.program[i] \notin {"CreateClient", "ShareClient"}
  BY DEF S!P7Init
<1> QED  BY <1>1, <1>2, <1>3, <1>4, <1>5, <1>6, <1>7, <1>8, <1>9, <1>10, <1>11, <1>12, <1>13,
            <1>14, <1>15, <1>16, <1>17

\* The part that hands over the template is in the program of the adapter,
\* and so is the one that assigns quill's pointer.
LEMMA ProgramTable ==
  ASSUME adapter \in S!AllAdapters
  PROVE  /\ Len(Parts) \in Nat /\ Len(Parts) >= 1
         /\ class.template # "never" => \E i \in 1 .. Len(Parts) : Parts[i] = class.template
         /\ adapter \in S!Quill =>
              /\ Parts[Len(Parts)] = "AddSink"
              /\ \A i \in 1 .. Len(Parts) - 1 : Parts[i] # "AddSink"
         /\ adapter \in S!Spdlog =>
              /\ Parts[1] = "Buffer"
              /\ \A i \in 1 .. Len(Parts) : Parts[i] # "NewBuffer"
         /\ adapter = "p7" =>
              /\ Len(Parts) = 8 /\ Parts[7] = "CreateClient" /\ Parts[8] = "ShareClient"
              /\ \A i \in 1 .. 6 : Parts[i] \notin {"CreateClient", "ShareClient"}
<1>1. CASE adapter = "noop"
  <2>1. Parts = S!NoopInit.program
    BY <1>1 DEF Parts, S!profile, S!Profile
  <2> QED  BY <1>1, <2>1, Programs DEF class, LoggerOf, NoopLogger, S!Quill, S!Spdlog
<1>2. CASE adapter = "abseil"
  <2>1. Parts = S!AbseilInit.program
    BY <1>2 DEF Parts, S!profile, S!Profile
  <2> QED  BY <1>2, <2>1, Programs DEF class, LoggerOf, AbseilLogger, NoopLogger, S!Quill, S!Spdlog
<1>3. CASE adapter = "boost"
  <2>1. Parts = S!BoostInit.program
    BY <1>3 DEF Parts, S!profile, S!Profile
  <2> QED  BY <1>3, <2>1, Programs DEF class, LoggerOf, BoostLogger, NoopLogger, S!Quill, S!Spdlog
<1>4. CASE adapter = "g3log"
  <2>1. Parts = S!G3logInit.program
    BY <1>4 DEF Parts, S!profile, S!Profile
  <2> QED  BY <1>4, <2>1, Programs DEF class, LoggerOf, G3logLogger, NoopLogger, S!Quill, S!Spdlog
<1>5. CASE adapter = "log4cxx"
  <2>1. Parts = S!Log4cxxInit.program
    BY <1>5 DEF Parts, S!profile, S!Profile
  <2> QED  BY <1>5, <2>1, Programs DEF class, LoggerOf, Log4cxxLogger, S!Quill, S!Spdlog
<1>6. CASE adapter = "p7"
  <2>1. Parts = S!P7Init.program
    BY <1>6 DEF Parts, S!profile, S!Profile
  <2> QED  BY <1>6, <2>1, Programs DEF class, LoggerOf, P7Logger, S!Quill, S!Spdlog
<1>7. CASE adapter = "poco"
  <2>1. Parts = S!PocoInit.program
    BY <1>7 DEF Parts, S!profile, S!Profile
  <2> QED  BY <1>7, <2>1, Programs DEF class, LoggerOf, PocoLogger, S!Quill, S!Spdlog
<1>8. CASE adapter = "quill"
  <2>1. Parts = S!QuillInit.program
    BY <1>8 DEF Parts, S!profile, S!Profile
  <2> QED  BY <1>8, <2>1, Programs DEF class, LoggerOf, QuillLogger, S!Quill, S!Spdlog
<1>9. CASE adapter = "quill-bounded"
  <2>1. Parts = S!QuillBoundedInit.program
    BY <1>9 DEF Parts, S!profile, S!Profile
  <2> QED  BY <1>9, <2>1, Programs DEF class, LoggerOf, QuillBoundedLogger, QuillLogger, S!Quill,
                                       S!Spdlog
<1>10. CASE adapter = "spdlog"
  <2>1. Parts = S!SpdlogInit.program
    BY <1>10 DEF Parts, S!profile, S!Profile
  <2> QED  BY <1>10, <2>1, Programs DEF class, LoggerOf, SpdlogLogger, S!Quill, S!Spdlog
<1>11. CASE adapter = "spdlogv2"
  <2>1. Parts = S!SpdlogV2Init.program
    BY <1>11 DEF Parts, S!profile, S!Profile
  <2> QED  BY <1>11, <2>1, Programs DEF class, LoggerOf, SpdlogV2Logger, SpdlogLogger, S!Quill,
                                        S!Spdlog
<1>12. CASE adapter = "fstlog-st"
  <2>1. Parts = S!FstlogStInit.program
    BY <1>12 DEF Parts, S!profile, S!Profile
  <2> QED  BY <1>12, <2>1, Programs DEF class, LoggerOf, FstlogStLogger, S!Quill, S!Spdlog
<1>13. CASE adapter = "fstlog-stfix"
  <2>1. Parts = S!FstlogStfixInit.program
    BY <1>13 DEF Parts, S!profile, S!Profile
  <2> QED  BY <1>13, <2>1, Programs DEF class, LoggerOf, FstlogStfixLogger, FstlogStLogger,
                                        S!Quill, S!Spdlog
<1>14. CASE adapter = "fstlog-fast"
  <2>1. Parts = S!FstlogFastInit.program
    BY <1>14 DEF Parts, S!profile, S!Profile
  <2> QED  BY <1>14, <2>1, Programs DEF class, LoggerOf, FstlogFastLogger, FstlogStLogger,
                                        S!Quill, S!Spdlog
<1>15. CASE adapter = "fstlog-lowl"
  <2>1. Parts = S!FstlogLowlInit.program
    BY <1>15 DEF Parts, S!profile, S!Profile
  <2> QED  BY <1>15, <2>1, Programs DEF class, LoggerOf, FstlogLowlLogger, FstlogStLogger,
                                        S!Quill, S!Spdlog
<1>16. CASE adapter = "fstlog-mt"
  <2>1. Parts = S!FstlogMtInit.program
    BY <1>16 DEF Parts, S!profile, S!Profile
  <2> QED  BY <1>16, <2>1, Programs DEF class, LoggerOf, FstlogMtLogger, S!Quill, S!Spdlog
<1>17. CASE adapter = "fstlog-tloc"
  <2>1. Parts = S!FstlogTlocInit.program
    BY <1>17 DEF Parts, S!profile, S!Profile
  <2> QED  BY <1>17, <2>1, Programs DEF class, LoggerOf, FstlogTlocLogger, FstlogStLogger,
                                        S!Quill, S!Spdlog
<1> QED  BY <1>1, <1>2, <1>3, <1>4, <1>5, <1>6, <1>7, <1>8, <1>9, <1>10, <1>11, <1>12, <1>13,
            <1>14, <1>15, <1>16, <1>17 DEF S!AllAdapters, S!Quill, S!Spdlog, S!Fstlog

-----------------------------------------------------------------------------
(* A step of sys_init.                                                     *)

\* A part is done and the next one follows, or it throws; only the parts of
\* p7 that make and share a client change whether there is one, and no part
\* turns a null sink into another or another into it.
LEMMA StepEffect ==
  ASSUME Typed, S!SysInitStep
  PROVE  /\ status = "running"
         /\ adapter' = adapter /\ request' = request /\ built' = built
         /\ "sink" \in DOMAIN report'
         /\ S!WritesFile' = S!WritesFile
         /\ \/ /\ step' = step + 1
               /\ status' = IF step = Len(Parts) THEN "ok" ELSE "running"
            \/ step' = step /\ status' \in {"refused", "failed"}
         /\ Parts[step] \notin {"CreateClient", "ShareClient"} =>
              ("client" \in held') = ("client" \in held)
         /\ Parts[step] = "CreateClient" /\ status' # "failed" => "client" \in held'
         /\ Parts[step] = "ShareClient" /\ status' # "failed" =>
              ("client" \in held') = ("client" \in held)
<1> USE DEF Typed, Parts, S!At, S!Done, S!Stop, S!Refuse, S!WritesFile
<1>1. CASE S!RefuseSetting
  BY <1>1 DEF S!RefuseSetting, S!Settings
<1>2. CASE S!Zeros
  BY <1>2 DEF S!Zeros
<1>3. CASE S!FixedBuffer
  BY <1>3 DEF S!FixedBuffer
<1>4. CASE S!Buffer
  BY <1>4 DEF S!Buffer
<1>5. CASE S!NewBuffer
  BY <1>5 DEF S!NewBuffer
<1>6. CASE S!StartPool
  BY <1>6 DEF S!StartPool
<1>7. CASE S!Poll
  BY <1>7 DEF S!Poll
<1>8. CASE S!Flush
  BY <1>8 DEF S!Flush
<1>9. CASE S!Format
  BY <1>9 DEF S!Format
<1>10. CASE S!Sink
  BY <1>10 DEF S!Sink, S!Resolve
<1>11. CASE S!Open
  BY <1>11 DEF S!Open
<1>12. CASE S!OpenAlways
  BY <1>12 DEF S!OpenAlways
<1>13. CASE S!OpenUnchecked
  BY <1>13 DEF S!OpenUnchecked
<1>14. CASE S!Initialize
  BY <1>14 DEF S!Initialize
<1>15. CASE S!AddSink
  BY <1>15 DEF S!AddSink
<1>16. CASE S!SelfSink
  BY <1>16 DEF S!SelfSink
<1>17. CASE S!PollEvery400
  BY <1>17 DEF S!PollEvery400
<1>18. CASE S!StartBackend
  BY <1>18 DEF S!StartBackend
<1>19. CASE S!CreateConfig
  BY <1>19 DEF S!CreateConfig
<1>20. CASE S!CloseConfig
  BY <1>20 DEF S!CloseConfig
<1>21. CASE S!Configure
  BY <1>21 DEF S!Configure
<1>22. CASE S!CrashHandler
  BY <1>22 DEF S!CrashHandler
<1>23. CASE S!CreateClient
  BY <1>23 DEF S!CreateClient
<1>24. CASE S!ShareClient
  BY <1>24 DEF S!ShareClient
<1> QED
  BY <1>1, <1>2, <1>3, <1>4, <1>5, <1>6, <1>7, <1>8, <1>9, <1>10, <1>11, <1>12, <1>13, <1>14,
     <1>15, <1>16, <1>17, <1>18, <1>19, <1>20, <1>21, <1>22, <1>23, <1>24 DEF S!SysInitStep

\* A buffer that is asked for is not 0 KiB unless it was asked to be.
LEMMA SizeNotZero ==
  ASSUME NEW kib \in Nat, NEW threads \in Nat \ {0}, S!SpdlogSize(kib, threads) = 0
  PROVE  kib = 0
<1> DEFINE bytes == kib * 1024 * threads
<1>1. bytes \in Nat /\ bytes \div 82 = 0
  BY DEF S!SpdlogSize
<1> HIDE DEF bytes
<1>2. bytes < 82
  BY <1>1
<1>3. kib * threads < 1
  <2>1. bytes = 1024 * (kib * threads) /\ kib * threads \in Nat
    BY DEF bytes
  <2> DEFINE all == kib * threads
  <2> HIDE DEF all
  <2>2. bytes = 1024 * all /\ all \in Nat
    BY <2>1 DEF all
  <2>3. all < 1
    BY <1>2, <2>2
  <2> QED  BY <2>3 DEF all
<1> QED  BY <1>3

\* What a step does to the sizes and times that the library is given: in
\* spdlog only Buffer computes a size, and no other step uses it before that;
\* in quill the only time that can be endless is the one that was asked for.
LEMMA StepSizes ==
  ASSUME Typed, DOMAIN lib = {"queue", "poll", "flush"}, S!SysInitStep
  PROVE  /\ DOMAIN lib' = {"queue", "poll", "flush"}
         /\ adapter \in S!Spdlog =>
              \/ size' = size /\ ~S!At("Buffer") /\ lib'.queue \in {lib.queue, size, S!None}
              \/ size' = S!SizeFor(adapter, request) /\ lib' = lib
              \/ UNCHANGED <<step, size, lib>>
         /\ adapter \in S!Quill =>
              lib'.poll \in {lib.poll, S!Sleep(request.poll), 400}
         /\ S!At("AddSink") => status' \in {"running", "ok"}
<1> USE DEF Typed, Parts, S!At, S!Done, S!Stop, S!Refuse
<1>1. CASE S!RefuseSetting
  BY <1>1 DEF S!RefuseSetting, S!Settings
<1>2. CASE S!Zeros
  BY <1>2 DEF S!Zeros
<1>3. CASE S!FixedBuffer
  BY <1>3 DEF S!FixedBuffer
<1>4. CASE S!Buffer
  BY <1>4 DEF S!Buffer
<1>5. CASE S!NewBuffer
  BY <1>5, ProgramTable DEF S!NewBuffer
<1>6. CASE S!StartPool
  BY <1>6 DEF S!StartPool
<1>7. CASE S!Poll
  BY <1>7 DEF S!Poll, S!Quill, S!Fstlog
<1>8. CASE S!Flush
  BY <1>8 DEF S!Flush
<1>9. CASE S!Format
  BY <1>9 DEF S!Format
<1>10. CASE S!Sink
  BY <1>10 DEF S!Sink
<1>11. CASE S!Open
  BY <1>11 DEF S!Open
<1>12. CASE S!OpenAlways
  BY <1>12 DEF S!OpenAlways
<1>13. CASE S!OpenUnchecked
  BY <1>13 DEF S!OpenUnchecked
<1>14. CASE S!Initialize
  BY <1>14 DEF S!Initialize
<1>15. CASE S!AddSink
  BY <1>15 DEF S!AddSink, S!Spdlog
<1>16. CASE S!SelfSink
  BY <1>16 DEF S!SelfSink
<1>17. CASE S!PollEvery400
  BY <1>17 DEF S!PollEvery400
<1>18. CASE S!StartBackend
  BY <1>18 DEF S!StartBackend
<1>19. CASE S!CreateConfig
  BY <1>19 DEF S!CreateConfig
<1>20. CASE S!CloseConfig
  BY <1>20 DEF S!CloseConfig
<1>21. CASE S!Configure
  BY <1>21 DEF S!Configure
<1>22. CASE S!CrashHandler
  BY <1>22 DEF S!CrashHandler
<1>23. CASE S!CreateClient
  BY <1>23 DEF S!CreateClient
<1>24. CASE S!ShareClient
  BY <1>24 DEF S!ShareClient
<1> QED
  BY <1>1, <1>2, <1>3, <1>4, <1>5, <1>6, <1>7, <1>8, <1>9, <1>10, <1>11, <1>12, <1>13, <1>14,
     <1>15, <1>16, <1>17, <1>18, <1>19, <1>20, <1>21, <1>22, <1>23, <1>24 DEF S!SysInitStep

\* The parts that are over stay over, and one becomes so by being run.
LEMMA NewlyPast ==
  ASSUME Typed, S!SysInitStep, NEW part
  PROVE  Past(part)' => Past(part) \/ (S!At(part) /\ status' \in {"running", "ok"})
<1>1. adapter' = adapter
  BY StepEffect
<1>2. Parts' = Parts
  BY <1>1 DEF Parts, S!profile
<1>3. step \in Nat
  BY ProgramTable DEF Typed
<1> QED  BY <1>2, <1>3, StepEffect DEF Past, S!At, Parts

\* When sys_init has returned all parts are over.
LEMMA AllPast ==
  ASSUME Typed, status = "ok", NEW part, \E i \in 1 .. Len(Parts) : Parts[i] = part
  PROVE  Past(part)
BY ProgramTable DEF Typed, Past

-----------------------------------------------------------------------------
(* The invariant, place by place.                                          *)

LEMMA SameProgram ==
  ASSUME adapter' = adapter
  PROVE  /\ Statements' = Statements /\ Last' = Last /\ Parts' = Parts /\ class' = class
         /\ step' = step => \A part : Past(part)' = Past(part)
BY DEF Statements, Last, Parts, class, Past, S!profile

\* main before the test.
LEMMA MainKeeps ==
  ASSUME IInv, MainStep
  PROVE  IInv'
<1> USE DEF IInv, Typed, initVars, dataVars
<1>1. /\ UNCHANGED <<adapter, request, step, status, report, size, lib, held, built>>
      /\ place = "main" /\ at \in 1 .. Last
  BY DEF MainStep, SetTemplate, SetFlags, CreateWorker, StoreWorker, Test, Return, Statement
<1>2. /\ Statements' = Statements /\ Last' = Last /\ Parts' = Parts /\ class' = class
      /\ \A part : Past(part)' = Past(part)
  BY <1>1, SameProgram
<1> DEFINE early == SetTemplate \/ SetFlags \/ CreateWorker \/ StoreWorker
<1>3. CASE early
  <2>1. at < Last - 1 /\ at' = at + 1 /\ UNCHANGED <<place, thrown, stopped, code, given>>
    BY <1>1, <1>3, MainTable
       DEF SetTemplate, SetFlags, CreateWorker, StoreWorker, Statement, Statements
  <2>2. Typed'
    BY <1>1, <1>2, <2>1, MainTable
  <2>3. Course' /\ Pointer' /\ PointersSafe'
    BY <1>1, <1>2, <2>1, MainTable DEF Course, Pointer, PointersSafe, AllBuilt, Told
  <2>4. Template'
    <3>1. class.template # "never" => templ' = "main"
      BY <1>1, <1>3, <2>1, MainTable
         DEF SetTemplate, SetFlags, CreateWorker, StoreWorker, Statement, Statements, Template
    <3> QED  BY <1>1, <1>2, <2>1, <3>1 DEF Template, S!WritesFile
  <2>5. Worker'
    <3>1. ASSUME adapter = "g3log"  PROVE Worker'
      <4>1. Last = 5 /\ \/ at = 1 /\ SetTemplate
                        \/ at = 2 /\ CreateWorker
                        \/ at = 3 /\ StoreWorker
        <5>1. Statements = G3logMain /\ Last = 5 /\ at \in {1, 2, 3}
          BY <1>1, <2>1, <3>1, MainTable DEF Last, G3logMain
        <5>2. Statements[1] = "SetTemplate" /\ Statements[2] = "CreateWorker"
              /\ Statements[3] = "StoreWorker"
          BY <5>1 DEF G3logMain
        <5> QED
          BY <1>3, <5>1, <5>2
             DEF SetTemplate, SetFlags, CreateWorker, StoreWorker, Statement, Statements
      <4>2. CASE at = 1 /\ SetTemplate
        BY <1>1, <2>1, <4>2 DEF SetTemplate, Worker
      <4>3. CASE at = 2 /\ CreateWorker
        BY <1>1, <2>1, <4>3 DEF CreateWorker, Worker
      <4>4. CASE at = 3 /\ StoreWorker
        BY <1>1, <2>1, <4>4 DEF StoreWorker, Worker
      <4> QED  BY <4>1, <4>2, <4>3, <4>4
    <3> QED  BY <1>1, <3>1 DEF Worker
  <2>6. Zero'
    <3>1. adapter \in S!Quill => pointer' = pointer
      BY <1>1, <1>3, MainTable
         DEF SetTemplate, SetFlags, CreateWorker, StoreWorker, Statement, Statements, S!Quill
    <3> QED  BY <1>1, <2>1, <3>1 DEF Zero, HangsOnlyAtZero
  <2> QED  BY <2>2, <2>3, <2>4, <2>5, <2>6
<1>4. CASE Test
  <2>1. /\ at = Last - 1 /\ UNCHANGED <<at, scope, templ, given, pointer, stopped, code>>
        /\ \/ place' = "init" /\ thrown' = thrown
           \/ place' = "leaving" /\ thrown' = TRUE
    BY <1>1, <1>4, MainTable DEF Test, Statement, Statements
  <2>7. status = "running" /\ ~thrown /\ ~stopped /\ code = "none"
    BY <1>1, <2>1, MainTable DEF Course
  <2>8. Typed'
    BY <1>1, <1>2, <2>1
  <2>2. Course'
    <3>1. CASE place' = "init"
      BY <1>1, <1>2, <2>1, <2>7, <3>1, MainTable DEF Course, AllBuilt, Told
    <3>2. CASE place' = "leaving"
      <4>1. thrown' = ~(AllBuilt' /\ stopped')
        BY <2>1, <2>7, <3>2
      <4> QED  BY <1>1, <1>2, <2>1, <2>7, <3>2, <4>1, MainTable DEF Course, Told
    <3> QED  BY <2>1, <3>1, <3>2
  <2>3. Template'
    BY <1>1, <1>2, <2>1 DEF Template, S!WritesFile
  <2>4. Pointer'
    <3>1. step = 1 /\ held = {} /\ status = "running"
      BY <1>1, <2>1, MainTable DEF Course
    <3>2. ~Past("AddSink")
      BY <3>1 DEF Past
    <3> QED  BY <1>1, <1>2, <2>1, <3>1, <3>2 DEF Pointer
  <2>5. Worker'
    BY <1>1, <1>2, <2>1, MainTable DEF Worker, Last, G3logMain
  <2>6. PointersSafe'
    BY <1>1, <2>1, MainTable DEF Course, PointersSafe
  <2>9. Zero'
    BY <1>1, <2>1 DEF Zero, HangsOnlyAtZero
  <2> QED  BY <2>2, <2>3, <2>4, <2>5, <2>6, <2>8, <2>9
<1>5. CASE Return
  <2>1. /\ at = Last /\ UNCHANGED <<at, scope, templ, given, pointer, thrown, stopped>>
        /\ place' = "leaving" /\ code' = "0"
    BY <1>1, <1>5, MainTable DEF Return, Statement, Statements
  <2>2. Course' /\ Typed'
    BY <1>1, <1>2, <2>1, MainTable DEF Course, AllBuilt, Told
  <2>3. Template' /\ Pointer' /\ PointersSafe'
    BY <1>1, <1>2, <2>1 DEF Template, Pointer, PointersSafe, S!WritesFile
  <2>4. Worker'
    BY <1>1, <1>2, <2>1, MainTable DEF Worker, Last, G3logMain
  <2>5. Zero'
    BY <1>1, <2>1 DEF Zero, HangsOnlyAtZero
  <2> QED  BY <2>2, <2>3, <2>4, <2>5
<1> QED  BY <1>3, <1>4, <1>5 DEF MainStep

\* A process that dies inside the test.
LEMMA DieKeeps ==
  ASSUME IInv, NEW how, Die(how), how \notin {"none", "0"},
         place \in {"init", "test", "stop"},
         how = "undefined" => InitFailed /\ adapter \in {"p7", "quill", "quill-bounded"}
  PROVE  IInv'
<1>1. /\ place' = "over" /\ code' = how /\ ~stopped /\ stopped' = stopped
      /\ UNCHANGED <<adapter, request, step, status, report, size, lib, held, built, at, scope,
                     templ, given, pointer, thrown>>
  BY DEF Die, initVars, dataVars, IInv, Course
<1>2. /\ Statements' = Statements /\ Last' = Last /\ Parts' = Parts /\ class' = class
      /\ \A part : Past(part)' = Past(part)
  BY <1>1, SameProgram
<1>3. Typed'
  BY <1>1, <1>2 DEF IInv, Typed
<1>4. Course'
  BY <1>1, <1>2 DEF Course, Told
<1>5. Template' /\ Pointer'
  BY <1>1, <1>2 DEF IInv, Template, Pointer, S!WritesFile
<1>6. Worker'
  BY <1>1, <1>2 DEF IInv, Worker
<1>7. PointersSafe'
  BY <1>1 DEF PointersSafe, InitFailed
<1>8. Zero'
  BY <1>1 DEF IInv, Zero, HangsOnlyAtZero
<1> QED  BY <1>3, <1>4, <1>5, <1>6, <1>7, <1>8 DEF IInv

\* A program that hangs: nothing else happens to it.
LEMMA HangKeeps ==
  ASSUME IInv, Hang,
         \/ adapter \in S!Spdlog /\ request.buffer = 0
         \/ adapter \in S!Quill /\ request.poll = 0 /\ status = "ok"
  PROVE  IInv'
<1>1. /\ place' = "stuck"
      /\ UNCHANGED <<adapter, request, step, status, report, size, lib, held, built, at, scope,
                     templ, given, pointer, thrown, stopped, code>>
  BY DEF Hang, initVars, dataVars
<1>2. /\ Statements' = Statements /\ Last' = Last /\ Parts' = Parts /\ class' = class
      /\ \A part : Past(part)' = Past(part)
  BY <1>1, SameProgram
<1>3. Typed'
  BY <1>1, <1>2 DEF IInv, Typed
<1>4. Course'
  BY <1>1, <1>2 DEF Course
<1>5. Template' /\ Pointer'
  BY <1>1, <1>2 DEF IInv, Template, Pointer, S!WritesFile
<1>6. Worker'
  BY <1>1, <1>2 DEF IInv, Worker
<1>7. PointersSafe'
  BY <1>1 DEF IInv, PointersSafe, InitFailed
<1>8. Zero'
  BY <1>1 DEF IInv, Zero, HangsOnlyAtZero
<1> QED  BY <1>3, <1>4, <1>5, <1>6, <1>7, <1>8 DEF IInv

\* sys_init, part by part.
LEMMA SysInitKeeps ==
  ASSUME IInv, SysInit
  PROVE  IInv'
<1> USE DEF IInv
<1>1. at = Last - 1 /\ ~stopped /\ code = "none" /\ ~thrown /\ place = "init"
  BY DEF SysInit, Course
<1>2. ~(UsesWorker /\ pointer # "live")
  <2>1. ASSUME adapter = "g3log"  PROVE pointer = "live"
    <3>1. Last = 5 /\ scope = <<"worker">>
      BY <1>1, <2>1, MainTable DEF Worker, Last, G3logMain, Typed
    <3> QED  BY <1>1, <2>1, <3>1 DEF Worker
  <2> QED  BY <2>1 DEF UsesWorker
<1>3. /\ S!SysInitStep /\ pointer' = PointerAfter /\ given' = GivenAfter
      /\ UNCHANGED <<place, at, scope, templ, thrown, stopped, code>>
  BY <1>2 DEF SysInit
<1>4. /\ status = "running"
      /\ adapter' = adapter /\ request' = request /\ built' = built
      /\ "sink" \in DOMAIN report'
      /\ S!WritesFile' = S!WritesFile
      /\ \/ /\ step' = step + 1
            /\ status' = IF step = Len(Parts) THEN "ok" ELSE "running"
         \/ step' = step /\ status' \in {"refused", "failed"}
  BY <1>3, StepEffect
<1>5. /\ Statements' = Statements /\ Last' = Last /\ Parts' = Parts /\ class' = class
  BY <1>4, SameProgram
<1>6. Typed'
  BY <1>3, <1>4, <1>5, ProgramTable DEF Typed
<1>7. Course'
  BY <1>1, <1>3, <1>5 DEF Course, Told
<1>8. Template'
  <2>1. ASSUME class.template # "never"
        PROVE  /\ (at > 1 => templ = "main")'
               /\ (Past(class.template) /\ S!WritesFile /\ request.format = "txt"
                     => given = "main")'
    <3>1. templ = "main"
      BY <1>1, <2>1, MainTable DEF Template, Typed
    <3>2. \A part : Past(part)' => Past(part) \/ S!At(part)
      BY <1>3, NewlyPast
    <3>3. Past(class.template)' => Past(class.template) \/ S!At(class.template)
      BY <1>5, <3>2 DEF Past
    <3> QED  BY <1>3, <1>4, <1>5, <2>1, <3>1, <3>3 DEF Template, GivenAfter
  <2> QED  BY <1>5, <2>1 DEF Template
<1>9. Pointer'
  <2>4. step \in Nat /\ step <= Len(Parts) /\ step >= 1
    BY <1>4, ProgramTable DEF Typed
  <2>5. adapter = "p7" =>
          /\ Len(Parts) = 8 /\ Parts[7] = "CreateClient" /\ Parts[8] = "ShareClient"
          /\ \A i \in 1 .. 6 : Parts[i] \notin {"CreateClient", "ShareClient"}
    BY ProgramTable DEF Typed
  <2>1. ASSUME adapter \in S!Quill, Past("AddSink")'  PROVE pointer' = "live"
    <3>1. Past("AddSink") \/ S!At("AddSink")
      BY <1>3, <2>1, NewlyPast
    <3> QED  BY <1>1, <1>3, <2>1, <3>1 DEF Pointer, PointerAfter, S!Quill
  <2>2. ASSUME adapter = "p7", status' = "running", step' <= 7  PROVE "client" \notin held'
    <3>1. step \in 1 .. 6
      BY <1>4, <2>2, <2>4
    <3>2. ("client" \in held') = ("client" \in held)
      BY <1>3, <2>2, <2>5, <3>1, StepEffect
    <3> QED  BY <1>1, <1>4, <2>2, <3>1, <3>2 DEF Pointer
  <2>3. ASSUME adapter = "p7", status' \in {"running", "ok"}, step' >= 8
        PROVE  "client" \in held' /\ pointer' = "live"
    <3>4. step' = step + 1
      BY <1>4, <2>3
    <3>5. Len(Parts) = 8
      BY <2>3, <2>5
    <3>1. step \in {7, 8}
      BY <2>3, <2>4, <3>4, <3>5
    <3>2. CASE step = 7
      <4>1. "client" \notin held /\ "client" \in held'
        BY <1>1, <1>3, <1>4, <2>3, <2>5, <3>2, StepEffect DEF Pointer
      <4> QED  BY <1>3, <2>3, <4>1 DEF PointerAfter, S!Quill
    <3>3. CASE step = 8
      <4>1. "client" \in held /\ "client" \in held' /\ pointer = "live"
        BY <1>1, <1>3, <1>4, <2>3, <2>5, <3>3, StepEffect DEF Pointer
      <4> QED  BY <1>3, <2>3, <4>1 DEF PointerAfter, S!Quill
    <3> QED  BY <3>1, <3>2, <3>3
  <2> QED  BY <1>4, <2>1, <2>2, <2>3 DEF Pointer
<1>10. Worker'
  BY <1>3, <1>4 DEF Worker, PointerAfter, S!Quill
<1>11. PointersSafe'
  BY <1>1, <1>3 DEF PointersSafe
<1>12. Zero'
  <2>1. step \in Nat /\ step <= Len(Parts) /\ step >= 1 /\ Len(Parts) \in Nat
    BY <1>4, ProgramTable DEF Typed
  <2>2. DOMAIN lib' = {"queue", "poll", "flush"} /\ HangsOnlyAtZero'
    BY <1>1, <1>3, StepSizes DEF Zero, HangsOnlyAtZero
  <2>3. ASSUME adapter \in S!Spdlog
        PROVE  /\ (step > 1 /\ size = 0 => request.buffer = 0)'
               /\ (lib.queue = 0 => request.buffer = 0)'
    <3>1. ~S!At("Buffer") => step > 1
      BY <1>4, <2>1, <2>3, ProgramTable DEF S!At, Parts, Typed
    <3>2. CASE size' = size /\ ~S!At("Buffer") /\ lib'.queue \in {lib.queue, size, S!None}
      BY <1>4, <2>3, <3>1, <3>2 DEF Zero, S!None
    <3>3. CASE size' = S!SizeFor(adapter, request) /\ lib' = lib
      <4>1. S!SizeFor(adapter, request) = 0 => request.buffer = 0
        <5>1. CASE request.buffer = S!None
          <6>1. S!SizeFor(adapter, request) = SpdlogQueue
            BY <2>3, <5>1 DEF S!SizeFor, S!Spdlog, S!Fstlog
          <6> QED  BY <6>1, QueueAssumption
        <5>2. CASE request.buffer # S!None
          <6>1. S!SizeFor(adapter, request) = S!SpdlogSize(request.buffer, request.threads)
            BY <2>3, <5>2 DEF S!SizeFor, S!Spdlog, S!Fstlog
          <6> QED  BY <5>2, <6>1, SizeNotZero DEF Typed
        <5> QED  BY <5>1, <5>2
      <4> QED  BY <1>4, <2>3, <3>3, <4>1 DEF Zero
    <3>4. CASE UNCHANGED <<step, size, lib>>
      BY <1>4, <2>3, <3>4 DEF Zero
    <3> QED  BY <1>3, <2>3, <3>2, <3>3, <3>4, StepSizes DEF Zero
  <2>4. ASSUME adapter \in S!Quill
        PROVE  /\ (lib.poll = S!Forever => request.poll = 0)'
               /\ (pointer = "live" => status = "ok")'
    <3>1. (lib.poll = S!Forever => request.poll = 0)'
      BY <1>3, <1>4, <2>4, StepSizes DEF Zero, S!Sleep, S!Forever, S!None, Typed
    <3>2. CASE S!At("AddSink")
      <4>1. step = Len(Parts)
        BY <2>1, <2>4, <3>2, ProgramTable DEF S!At, Parts, Typed
      <4>2. status' \in {"running", "ok"}
        BY <1>3, <3>2, StepSizes DEF Zero
      <4> QED  BY <1>4, <3>1, <4>1, <4>2
    <3>3. CASE ~S!At("AddSink")
      <4>1. pointer' = pointer
        BY <1>3, <2>4, <3>3 DEF PointerAfter, S!Quill
      <4> QED  BY <1>4, <2>4, <3>1, <4>1 DEF Zero
    <3> QED  BY <3>2, <3>3
  <2> QED  BY <1>4, <2>2, <2>3, <2>4 DEF Zero
<1> QED  BY <1>6, <1>7, <1>8, <1>9, <1>10, <1>11, <1>12

\* sys_init is over, and the test runs to its end or to an exception.
LEMMA TestKeeps ==
  ASSUME IInv,
         SysInitReturns \/ SysInitThrows \/ BuildLogger \/ BuildLoggerThrows \/ LogFatal
           \/ LogHangs \/ TestEnds
  PROVE  IInv'
<1> USE DEF IInv, initVars, dataVars
<1>1. /\ place \in {"init", "test"} /\ at = Last - 1 /\ stopped = FALSE /\ code = "none"
      /\ thrown = FALSE
  BY DEF SysInitReturns, SysInitThrows, BuildLogger, BuildLoggerThrows, LogFatal, LogHangs,
         TestEnds, Course, Typed
<1> DEFINE dies == (BuildLoggerThrows /\ Die("terminated")) \/ LogFatal
<1>2. CASE dies
  BY <1>1, <1>2, DieKeeps DEF LogFatal
<1>4. CASE LogHangs
  <2>1. Hang /\ status = "ok"
    BY <1>4 DEF LogHangs, Course
  <2>2. \/ adapter \in S!Spdlog /\ request.buffer = 0
        \/ adapter \in S!Quill /\ request.poll = 0 /\ status = "ok"
    BY <1>4, <2>1 DEF LogHangs, EmptyQueue, AsleepForever, Zero
  <2> QED  BY <2>1, <2>2, HangKeeps
<1>3. CASE ~dies /\ ~LogHangs
  <2>1. /\ UNCHANGED <<adapter, request, step, status, report, held, at, scope, templ, given,
                       pointer, stopped, code>>
        /\ \/ place = "init" /\ status = "ok" /\ place' = "test" /\ built' = built
                /\ thrown' = FALSE
           \/ status = "ok" /\ place = "test" /\ place' = "test" /\ built' = built + 1
                /\ thrown' = FALSE
           \/ place = "test" /\ built = request.threads /\ place' = "stop"
                /\ built' = built /\ thrown' = FALSE
           \/ /\ \/ place = "init" /\ InitFailed
                 \/ place = "test" /\ built < request.threads
              /\ thrown' = TRUE /\ place' \in {"stop", "leaving"} /\ built' = built
    <3>1. CASE SysInitReturns
      BY <1>1, <3>1 DEF SysInitReturns
    <3>2. CASE SysInitThrows
      BY <3>2 DEF SysInitThrows, Throw, InitFailed
    <3>3. CASE BuildLogger
      BY <1>1, <3>3 DEF BuildLogger, S!BuildLogger
    <3>4. CASE BuildLoggerThrows
      BY <1>3, <3>4 DEF BuildLoggerThrows, Throw
    <3>5. CASE TestEnds
      BY <1>1, <3>5 DEF TestEnds, Course
    <3> QED  BY <1>3, <3>1, <3>2, <3>3, <3>4, <3>5
  <2>8. /\ DOMAIN lib' = DOMAIN lib /\ size' = size
        /\ adapter \in S!Spdlog \cup S!Quill => lib' = lib
    BY <1>3 DEF SysInitReturns, SysInitThrows, BuildLogger, BuildLoggerThrows, TestEnds, Throw,
                S!BuildLogger, S!OwnBuffer, S!Fstlog, S!Spdlog, S!Quill
  <2>2. /\ Statements' = Statements /\ Last' = Last /\ Parts' = Parts /\ class' = class
        /\ \A part : Past(part)' = Past(part)
    BY <2>1, SameProgram
  <2>3. Typed'
    <3>1. built' \in Nat
      BY <2>1 DEF Typed
    <3>3. thrown' \in BOOLEAN
      BY <2>1
    <3>2. place' \in {"main", "init", "test", "stop", "leaving", "exiting", "over", "stuck"}
      BY <2>1
    <3> QED  BY <2>1, <2>2, <3>1, <3>2, <3>3 DEF Typed
  <2>4. Course'
    <3>1. CASE place' = "test"
      BY <1>1, <2>1, <2>2, <3>1 DEF Course, Told
    <3>2. CASE thrown' = TRUE
      <4>3. /\ built' = built /\ place' \in {"stop", "leaving"}
            /\ \/ place = "init" /\ InitFailed
               \/ place = "test" /\ built < request.threads
        BY <2>1, <3>2
      <4>4. InitFailed \/ (status = "ok" /\ built < request.threads)
        <5>1. place = "test" => status = "ok"
          BY DEF Course, Typed
        <5> QED  BY <4>3, <5>1 DEF InitFailed
      <4>1. ~AllBuilt' /\ stopped' = FALSE /\ code' = "none"
        BY <1>1, <2>1, <4>3, <4>4 DEF AllBuilt, InitFailed, Typed
      <4>2. status' # "running"
        <5>1. status # "running"
          BY <4>4 DEF InitFailed
        <5>2. status' = status
          BY <2>1
        <5> QED  BY <5>1, <5>2
      <4>6. at' = Last' - 1 /\ Last' \in Nat
        BY <1>1, <2>1, <2>2, MainTable DEF Typed
      <4>7. thrown' /\ ~stopped'
        BY <3>2, <4>1
      <4> HIDE DEF IInv
      <4> QED  BY <4>1, <4>2, <4>3, <4>6, <4>7 DEF Course, Told
    <3>3. CASE place' = "stop" /\ thrown' = FALSE
      <4>1. AllBuilt' /\ thrown' = FALSE
        BY <1>1, <2>1, <3>3 DEF AllBuilt, Course
      <4> QED  BY <1>1, <2>1, <2>2, <3>3, <4>1 DEF Course, Told, AllBuilt
    <3> QED  BY <1>1, <2>1, <3>1, <3>2, <3>3
  <2>5. Template' /\ PointersSafe'
    BY <1>1, <2>1, <2>2 DEF Template, PointersSafe, S!WritesFile
  <2>6. Pointer'
    BY <1>1, <2>1, <2>2 DEF Pointer
  <2>7. Worker'
    BY <1>1, <2>1 DEF Worker
  <2>9. Zero'
    BY <2>1, <2>8 DEF Zero, HangsOnlyAtZero
  <2> QED  BY <2>3, <2>4, <2>5, <2>6, <2>7, <2>9
<1> QED  BY <1>2, <1>3, <1>4

\* sys_stop: p7 and quill use their pointer unchecked, which a sys_init that
\* has returned has left live.
LEMMA SysStopKeeps ==
  ASSUME IInv, SysStop
  PROVE  IInv'
<1> USE DEF IInv, initVars, dataVars
<1>1. /\ place = "stop" /\ at = Last - 1 /\ ~stopped /\ code = "none"
      /\ status # "running" /\ (thrown <=> ~AllBuilt) /\ stopped = FALSE /\ thrown \in BOOLEAN
  BY DEF SysStop, SysStopReturns, SysStopThrows, Course, Typed
<1>5. Die("undefined") => adapter \in UncheckedStop /\ pointer # "live"
  BY DEF SysStop, SysStopReturns, SysStopThrows, Die, Hang
<1>2. CASE Die("undefined") /\ adapter \in UncheckedStop /\ pointer # "live"
  <2>1. status # "ok"
    <3>1. ASSUME status = "ok", adapter \in S!Quill  PROVE pointer = "live"
      <4>1. Past("AddSink")
        BY <3>1, AllPast, ProgramTable DEF Typed
      <4> QED  BY <1>1, <3>1, <4>1 DEF Pointer
    <3>2. ASSUME status = "ok", adapter = "p7"  PROVE pointer = "live"
      <4>1. step \in Nat /\ Len(Parts) = 8 /\ step > Len(Parts)
        BY <3>2, ProgramTable DEF Typed
      <4>2. step >= 8
        BY <4>1
      <4> QED  BY <1>1, <3>2, <4>2 DEF Pointer
    <3> QED  BY <1>2, <3>1, <3>2 DEF UncheckedStop, S!Quill
  <2>2. InitFailed /\ adapter \in {"p7", "quill", "quill-bounded"}
    BY <1>1, <1>2, <2>1 DEF Typed, InitFailed, UncheckedStop
  <2> QED  BY <1>1, <1>2, <2>2, DieKeeps
<1>3. CASE Die("terminated")
  BY <1>1, <1>3, DieKeeps
<1>6. CASE Hang
  <2>1. EmptyQueue \/ (AsleepForever /\ pointer = "live")
    BY <1>1, <1>6 DEF SysStop, SysStopReturns, SysStopThrows, Die, Hang, UncheckedStop,
                      AsleepForever, S!Quill
  <2>2. \/ adapter \in S!Spdlog /\ request.buffer = 0
        \/ adapter \in S!Quill /\ request.poll = 0 /\ status = "ok"
    BY <2>1 DEF EmptyQueue, AsleepForever, Zero
  <2> QED  BY <1>6, <2>2, HangKeeps
<1>4. CASE ~Die("undefined") /\ ~Die("terminated") /\ ~Hang
  <2>1. /\ UNCHANGED <<adapter, request, step, status, report, size, lib, held, built, templ,
                       given, code>>
        /\ \/ /\ stopped' = TRUE /\ thrown = TRUE /\ place' = "leaving"
              /\ UNCHANGED <<at, scope, thrown>>
           \/ /\ stopped' = TRUE /\ thrown = FALSE /\ place' = "main" /\ at' = at + 1
              /\ scope' = Append(scope, "test") /\ thrown' = thrown
           \/ /\ thrown' = TRUE /\ place' = "leaving" /\ UNCHANGED <<at, scope, stopped>>
        /\ adapter # "p7" => pointer' = pointer
    BY <1>1, <1>4 DEF SysStop, SysStopReturns, SysStopThrows
  <2>2. /\ Statements' = Statements /\ Last' = Last /\ Parts' = Parts /\ class' = class
        /\ \A part : Past(part)' = Past(part)
    BY <2>1, SameProgram
  <2>3. Typed'
    <3>1. thrown' \in BOOLEAN /\ stopped' \in BOOLEAN
      BY <2>1 DEF Typed
    <3>2. /\ place' \in {"main", "init", "test", "stop", "leaving", "exiting", "over", "stuck"}
          /\ at' \in 1 .. Last
      BY <1>1, <2>1, MainTable DEF Typed
    <3> QED  BY <2>1, <2>2, <3>1, <3>2 DEF Typed
  <2>4. Course'
    <3>1. CASE place' = "main"
      <4>1. /\ stopped' = TRUE /\ thrown = FALSE /\ thrown' = FALSE /\ code' = "none"
            /\ at' = at + 1
        BY <1>1, <2>1, <3>1
      <4>2. at' = Last' /\ Last' \in Nat
        BY <1>1, <2>2, <4>1, MainTable DEF Typed
      <4>3. AllBuilt'
        <5>1. AllBuilt
          BY <1>1, <4>1
        <5> QED  BY <2>1, <5>1 DEF AllBuilt
      <4> QED  BY <3>1, <4>1, <4>2, <4>3 DEF Course, Told
    <3>2. CASE place' = "leaving"
      <4>1. thrown' = TRUE /\ code' = "none" /\ at' = at
        BY <1>1, <2>1, <3>2
      <4>2. at' = Last' - 1
        BY <1>1, <2>2, <4>1
      <4>3. ~(AllBuilt' /\ stopped')
        <5>1. AllBuilt' = AllBuilt
          BY <2>1 DEF AllBuilt
        <5>2. CASE stopped' = TRUE /\ thrown = TRUE
          BY <1>1, <5>1, <5>2
        <5>3. CASE stopped' = FALSE
          BY <5>3
        <5>4. (stopped' = TRUE /\ thrown = TRUE) \/ stopped' = FALSE
          BY <1>1, <2>1, <3>2
        <5> QED  BY <5>2, <5>3, <5>4
      <4>5. Last' \in Nat
        BY <2>2, MainTable DEF Typed
      <4>6. thrown'
        BY <4>1
      <4> HIDE DEF IInv
      <4> QED  BY <3>2, <4>1, <4>2, <4>3, <4>6 DEF Course, Told
    <3> QED  BY <2>1, <3>1, <3>2
  <2>5. Template' /\ PointersSafe'
    BY <1>1, <2>1, <2>2, MainTable DEF Template, PointersSafe, S!WritesFile, Typed
  <2>6. Pointer'
    BY <2>1 DEF Pointer
  <2>7. Worker'
    <3>1. ASSUME adapter = "g3log"  PROVE Worker'
      <4>1. Last = 5 /\ scope = <<"worker">> /\ pointer = "live" /\ pointer' = "live" /\ at = 4
        <5>1. Last = 5 /\ scope = <<"worker">>
          BY <1>1, <3>1, MainTable DEF Worker, Last, G3logMain, Typed
        <5>2. <<"worker">> # <<>>
          OBVIOUS
        <5> QED  BY <1>1, <2>1, <3>1, <5>1, <5>2 DEF Worker
      <4>2. scope' = scope \/ scope' = <<"worker", "test">>
        BY <2>1, <4>1
      <4> QED  BY <2>1, <4>1, <4>2 DEF Worker
    <3> QED  BY <2>1, <3>1 DEF Worker
  <2>8. Zero'
    BY <2>1 DEF Zero, HangsOnlyAtZero, S!Quill
  <2> QED  BY <2>3, <2>4, <2>5, <2>6, <2>7, <2>8
<1> QED  BY <1>2, <1>3, <1>4, <1>5, <1>6

\* The end of the try block: g3log's worker goes after the test.
LEMMA UnwindKeeps ==
  ASSUME IInv, Unwind
  PROVE  IInv'
<1> USE DEF IInv, initVars, dataVars
<1>1. place = "leaving" /\ scope # <<>>
  BY DEF Unwind
<1>2. adapter = "g3log" =>
        /\ Last = 5 /\ at > 3 /\ pointer = "live"
        /\ scope \in {<<"worker">>, <<"worker", "test">>}
  <2>1. ASSUME adapter = "g3log"  PROVE Last = 5
    BY <2>1, MainTable DEF Last, G3logMain, Typed
  <2>2. ASSUME adapter = "g3log"  PROVE at > 3
    <3>1. at \in {Last - 1, Last}
      BY <1>1 DEF Course
    <3> QED  BY <2>1, <2>2, <3>1
  <2> QED  BY <1>1, <2>1, <2>2 DEF Worker
<1>3. /\ UNCHANGED <<adapter, request, step, status, report, size, lib, held, built, place, at,
                     templ, given, thrown, stopped, code>>
      /\ scope' = SubSeq(scope, 1, Len(scope) - 1)
      /\ pointer' = IF Newest = "worker" /\ pointer = "live" THEN "dangling" ELSE pointer
  BY <1>2 DEF Unwind
<1>4. /\ Statements' = Statements /\ Last' = Last /\ Parts' = Parts /\ class' = class
      /\ \A part : Past(part)' = Past(part)
  BY <1>3, SameProgram
<1>5. Typed' /\ Course' /\ Template' /\ PointersSafe'
  <2>1. Typed'
    BY <1>3, <1>4 DEF Typed
  <2>2. Course'
    BY <1>3, <1>4 DEF Course, Told, AllBuilt
  <2>3. Template' /\ PointersSafe'
    BY <1>3, <1>4 DEF Template, PointersSafe, S!WritesFile, InitFailed
  <2> QED  BY <2>1, <2>2, <2>3
<1>6. Pointer'
  BY <1>1, <1>3 DEF Pointer
<1>7. Worker'
  <2>1. ASSUME adapter = "g3log", scope = <<"worker">>  PROVE scope' = <<>>
    BY <1>3, <2>1
  <2>2. ASSUME adapter = "g3log", scope = <<"worker", "test">>
        PROVE  scope' = <<"worker">> /\ Newest = "test"
    <3>1. Len(scope) = 2 /\ scope[2] = "test" /\ Newest = "test"
      BY <2>2 DEF Newest
    <3>2. SubSeq(<<"worker", "test">>, 1, 1) = <<"worker">>
      <4> DEFINE T == {"worker", "test"}
                 both == <<"worker", "test">>
      <4>1. both \in Seq(T) /\ Len(both) = 2 /\ both[1] = "worker"
        OBVIOUS
      <4> HIDE DEF both
      <4>2. /\ SubSeq(both, 1, 1) \in Seq(T) /\ Len(SubSeq(both, 1, 1)) = 1
            /\ SubSeq(both, 1, 1)[1] = both[1]
        BY <4>1, SubSeqProperties
      <4>3. SubSeq(both, 1, 1) = <<"worker">>
        <5> DEFINE one == SubSeq(both, 1, 1)
                   only == <<"worker">>
        <5>1. only \in Seq(T) /\ Len(only) = 1 /\ only[1] = "worker"
          OBVIOUS
        <5>2. one \in Seq(T) /\ Len(one) = 1 /\ one[1] = "worker"
          BY <4>1, <4>2
        <5> HIDE DEF one, only, T
        <5>3. one = only
          BY <5>1, <5>2, SeqEqual
        <5> QED  BY <5>3 DEF one, only
      <4> QED  BY <4>3 DEF both
    <3> QED  BY <1>3, <2>2, <3>1, <3>2
  <2> QED  BY <1>1, <1>2, <1>3, <2>1, <2>2 DEF Worker
<1>8. Zero'
  <2>1. adapter \in S!Quill /\ pointer' = "live" => pointer = "live"
    BY <1>3
  <2> QED  BY <1>3, <2>1 DEF Zero, HangsOnlyAtZero
<1> QED  BY <1>5, <1>6, <1>7, <1>8

\* main returns 0 or its handler 1.
LEMMA LeaveKeeps ==
  ASSUME IInv, Leave
  PROVE  IInv'
<1> USE DEF IInv, initVars, dataVars
<1>1. /\ UNCHANGED <<adapter, request, step, status, report, size, lib, held, built, at, scope,
                     templ, given, pointer, stopped>>
      /\ place = "leaving" /\ place' = "exiting" /\ thrown' = FALSE
      /\ code' = IF thrown THEN "1" ELSE code
  BY DEF Leave
<1>2. /\ Statements' = Statements /\ Last' = Last /\ Parts' = Parts /\ class' = class
      /\ \A part : Past(part)' = Past(part)
  BY <1>1, SameProgram
<1>3. Typed'
  BY <1>1, <1>2 DEF Typed
<1>4. Course'
  <2>1. AllBuilt' <=> AllBuilt
    BY <1>1 DEF AllBuilt
  <2>2. /\ code \in {"none", "0"} /\ (code = "none" <=> thrown)
        /\ thrown <=> ~(AllBuilt /\ stopped)
    BY <1>1 DEF Course
  <2>3. /\ code' = "0" <=> AllBuilt' /\ stopped'
        /\ code' # "none"
    BY <1>1, <2>1, <2>2
  <2>4. Told'
    BY <2>3 DEF Told, AllBuilt
  <2> QED  BY <1>1, <2>4 DEF Course
<1>5. Template' /\ Pointer' /\ Worker'
  BY <1>1, <1>2 DEF Template, Pointer, Worker, S!WritesFile
<1>6. PointersSafe'
  BY <1>1 DEF PointersSafe, Course
<1>7. Zero'
  BY <1>1 DEF Zero, HangsOnlyAtZero
<1> QED  BY <1>3, <1>4, <1>5, <1>6, <1>7

\* The destructors of the static objects.
LEMMA ExitKeeps ==
  ASSUME IInv, Exit
  PROVE  IInv'
<1> USE DEF IInv
<1>1. CASE EmptyQueue
  BY <1>1, HangKeeps DEF Exit, EmptyQueue, Zero
<1>2. CASE ~EmptyQueue
  <2>1. /\ UNCHANGED <<adapter, request, step, status, report, size, lib, held, built, at, scope,
                       templ, given, pointer, thrown, stopped, code>>
        /\ place = "exiting" /\ place' = "over"
    BY <1>2 DEF Exit, initVars, dataVars
  <2>2. /\ Statements' = Statements /\ Last' = Last /\ Parts' = Parts /\ class' = class
        /\ \A part : Past(part)' = Past(part)
    BY <2>1, SameProgram
  <2>3. Typed'
    BY <2>1, <2>2 DEF Typed
  <2>4. Course'
    BY <2>1 DEF Course, Told, AllBuilt
  <2>5. Template' /\ Pointer' /\ Worker'
    BY <2>1, <2>2 DEF Template, Pointer, Worker, S!WritesFile
  <2>6. PointersSafe' /\ Zero'
    BY <2>1 DEF PointersSafe, InitFailed, Zero, HangsOnlyAtZero
  <2> QED  BY <2>3, <2>4, <2>5, <2>6
<1> QED  BY <1>1, <1>2


-----------------------------------------------------------------------------
(* The theorems.                                                           *)

LEMMA Invariance == Spec => []IInv
<1>1. Init => IInv
  <2> SUFFICES ASSUME Init  PROVE IInv
    OBVIOUS
  <2>1. /\ adapter \in S!AllAdapters /\ request \in Requests /\ built = 0
        /\ step = 1 /\ status = "running" /\ held = {}
        /\ "sink" \in DOMAIN report /\ lib = S!LibraryDefaults
    BY AdaptersKnown DEF Init, S!Init, S!NothingReported
  <2>2. /\ place = "main" /\ at = 1 /\ scope = <<>> /\ templ = "default" /\ given = "none"
        /\ pointer = "null" /\ thrown = FALSE /\ stopped = FALSE /\ code = "none"
    BY DEF Init
  <2>3. Last \in Nat /\ Last >= 2 /\ Len(Parts) \in Nat /\ Len(Parts) >= 1
    BY <2>1, MainTable, ProgramTable
  <2>4. \A part : ~Past(part)
    BY <2>1 DEF Past
  <2>5. Typed
    <3>1. thrown \in BOOLEAN /\ stopped \in BOOLEAN
      BY <2>2
    <3>2. at \in 1 .. Last /\ step \in 1 .. Len(Parts) + 1
      BY <2>1, <2>2, <2>3
    <3> QED  BY <2>1, <2>2, <2>3, <3>1, <3>2, RequestsTyped DEF Typed
  <2>6. Course
    BY <2>1, <2>2, <2>3 DEF Course, Told
  <2>7. Template /\ Pointer /\ Worker /\ PointersSafe
    BY <2>2, <2>4 DEF Template, Pointer, Worker, PointersSafe
  <2>8. Zero
    BY <2>1, <2>2 DEF Zero, HangsOnlyAtZero, S!LibraryDefaults, S!None, S!Forever
  <2> QED  BY <2>5, <2>6, <2>7, <2>8 DEF IInv
<1>2. IInv /\ [Next]_vars => IInv'
  <2> SUFFICES ASSUME IInv, [Next]_vars  PROVE IInv'
    OBVIOUS
  <2>1. CASE MainStep
    BY <2>1, MainKeeps
  <2>2. CASE SysInit
    BY <2>2, SysInitKeeps
  <2>3. CASE SysInitReturns \/ SysInitThrows \/ BuildLogger \/ BuildLoggerThrows \/ LogFatal
               \/ LogHangs \/ TestEnds
    BY <2>3, TestKeeps
  <2>4. CASE SysStop
    BY <2>4, SysStopKeeps
  <2>5. CASE Unwind
    BY <2>5, UnwindKeeps
  <2>6. CASE Leave
    BY <2>6, LeaveKeeps
  <2>8. CASE Exit
    BY <2>8, ExitKeeps
  <2>7. CASE UNCHANGED vars
    BY <2>7 DEF Zero, HangsOnlyAtZero, vars, initVars, dataVars, IInv, Typed, Course, Template,
                Pointer, Worker,
                PointersSafe, Told, InitFailed, AllBuilt, Last, Statements, Parts,
                Past, class, S!profile, S!WritesFile
  <2> QED  BY <2>1, <2>2, <2>3, <2>4, <2>5, <2>6, <2>7, <2>8 DEF Next, TestStep
<1> QED  BY <1>1, <1>2, PTL DEF Spec

\* The static pointer (worker_, logger_instance_, p7_client_, text_sink_, the
\* appender ASYNC) is never used while it is null or dangling, except by the
\* sys_stop of p7 or quill after a sys_init that threw.
THEOREM NoBadPointer == Spec => []PointersSafe
<1>1. IInv => PointersSafe
  BY DEF IInv
<1> QED  BY <1>1, Invariance, PTL

\* The exit code of the program is 0 exactly if sys_init accepted the request,
\* every logger was built and sys_stop returned.
THEOREM ExitCodeRight == Spec => []ExitTellsOutcome
<1>1. IInv => ExitTellsOutcome
  BY DEF IInv, Course, Told, AllBuilt, ExitTellsOutcome
<1> QED  BY <1>1, Invariance, PTL

\* Every program ends, but for the two requests for 0 that can hang it: what
\* is computed from any other size makes a queue with room for a record.
THEOREM HangsExplained == Spec => []HangsOnlyAtZero
<1>1. IInv => HangsOnlyAtZero
  BY DEF IInv, Zero
<1> QED  BY <1>1, Invariance, PTL

\* A text log file is formatted with the template that main has set, whatever
\* part of whichever sys_init hands it over.
THEOREM TemplateHandedOver == Spec => []TemplateInForce
<1>1. IInv => TemplateInForce
  <2> SUFFICES ASSUME IInv, status = "ok", S!WritesFile, request.format = "txt",
                      class.template # "never"
               PROVE  given = "main"
    BY DEF TemplateInForce
  <2>1. Past(class.template)
    <3>1. \E i \in 1 .. Len(Parts) : Parts[i] = class.template
      BY ProgramTable DEF IInv, Typed
    <3>2. Len(Parts) \in Nat /\ step > Len(Parts) /\ step \in Nat
      BY ProgramTable DEF IInv, Typed
    <3> QED  BY <3>1, <3>2 DEF Past
  <2> QED  BY <2>1 DEF IInv, Template
<1> QED  BY <1>1, Invariance, PTL

=============================================================================
