---------------------------- MODULE SysInitProofs ----------------------------
(***************************************************************************)
(* Proofs about SysInit, for every set of adapters and of requests.        *)
(*                                                                         *)
(* The parts of sys_init that are over are those before step in the        *)
(* program of the adapter.  The invariant says of each part what it has    *)
(* brought about once it is over, whichever parts the adapter runs before  *)
(* and after it; what is special to an adapter is in the table of its      *)
(* program: which parts it has, and which come before which.               *)
(***************************************************************************)
EXTENDS SysInit, TLAPS

Parts == profile.program

\* The part of sys_init is over.
Past(part) == \E i \in 1 .. Len(Parts) : i < step /\ Parts[i] = part

-----------------------------------------------------------------------------
(* The programs.                                                           *)

Has(program, part) == \E i \in 1 .. Len(program) : program[i] = part

Before(program, first, second) ==
  \A i, j \in 1 .. Len(program) :
    program[i] \in first /\ program[j] \in second => i < j

Checks == {"Buffer", "Poll", "Flush", "Format", "Sink"}

\* The parts that depend on the environment.
Fallible == {"Open", "CreateConfig", "CloseConfig", "Configure", "CreateClient", "ShareClient"}

\* No part comes twice; the parts that only some adapters have, the parts
\* that all have but noop, and the ones that need the result of another; what
\* can fail comes after the checks, but for spdlog's of the flush interval.
Table(a, program) ==
  /\ Len(program) \in Nat /\ Len(program) >= 1
  /\ \A i, j \in 1 .. Len(program) : program[i] = program[j] => i = j
  /\ \A i \in 1 .. Len(program) :
       /\ program[i] = "Zeros" => a = "noop"
       /\ program[i] = "FixedBuffer" => a = "quill-bounded"
       /\ program[i] = "Buffer" => a \notin {"noop", "quill-bounded"}
       /\ program[i] = "NewBuffer" => a = "fstlog-mt"
       /\ program[i] = "StartPool" => a = "spdlog"
       /\ program[i] = "StartBackend" => a \in Quill
       /\ program[i] = "PollEvery400" => a = "fstlog-lowl"
       /\ program[i] = "Open" => a \in {"boost"} \cup Quill \cup Spdlog
       /\ program[i] = "OpenAlways" => a \in Fstlog
       /\ program[i] = "AddSink" => a # "p7"
       /\ program[i] \in {"CreateConfig", "CloseConfig", "Configure"} => a = "log4cxx"
       /\ program[i] \in {"CrashHandler", "CreateClient", "ShareClient"} => a = "p7"
  /\ a = "noop" => Len(program) = 1 /\ program[1] = "Zeros"
  /\ a # "noop" => Has(program, "Poll") /\ Has(program, "Flush") /\ Has(program, "Format")
                     /\ Has(program, "Sink")
  /\ a \notin {"noop", "quill-bounded"} => Has(program, "Buffer")
  /\ a = "quill-bounded" => Has(program, "FixedBuffer")
  /\ a \in Quill => Has(program, "StartBackend")
  /\ a = "fstlog-lowl" => Has(program, "PollEvery400")
  /\ a = "fstlog-mt" => Has(program, "NewBuffer")
  /\ a = "spdlog" => Has(program, "StartPool")
  /\ a = "log4cxx" => Has(program, "Configure")
  /\ a = "p7" => Has(program, "CreateClient")
  /\ a \notin {"noop", "log4cxx", "p7"} => Has(program, "AddSink")
  /\ a \in {"boost"} \cup Quill \cup Spdlog => Has(program, "Open")
  /\ Before(program, {"Buffer"}, {"NewBuffer", "StartPool", "AddSink", "Configure"})
  /\ a \in Fstlog => Before(program, {"Flush"}, {"AddSink"})
  /\ Before(program, {"Poll"}, {"PollEvery400"})
  /\ Before(program, IF a \in Spdlog THEN Checks \ {"Flush"} ELSE Checks, Fallible)

LEMMA Programs == \A a \in AllAdapters : Table(a, Profile(a).program)
<1> USE DEF Table, Has, Before, Checks, Fallible, Quill, Spdlog, Fstlog
<1>1. Table("noop", Profile("noop").program)
  <2>1. Table("noop", NoopInit.program)
    BY DEF NoopInit
  <2> QED  BY <2>1 DEF Profile
<1>2. Table("abseil", Profile("abseil").program)
  <2>1. Table("abseil", AbseilInit.program)
    BY DEF AbseilInit
  <2> QED  BY <2>1 DEF Profile
<1>3. Table("boost", Profile("boost").program)
  <2>1. Table("boost", BoostInit.program)
    BY DEF BoostInit
  <2> QED  BY <2>1 DEF Profile
<1>4. Table("g3log", Profile("g3log").program)
  <2>1. Table("g3log", G3logInit.program)
    BY DEF G3logInit
  <2> QED  BY <2>1 DEF Profile
<1>5. Table("log4cxx", Profile("log4cxx").program)
  <2>1. Table("log4cxx", Log4cxxInit.program)
    BY DEF Log4cxxInit
  <2> QED  BY <2>1 DEF Profile
<1>6. Table("p7", Profile("p7").program)
  <2>1. Table("p7", P7Init.program)
    BY DEF P7Init
  <2> QED  BY <2>1 DEF Profile
<1>7. Table("poco", Profile("poco").program)
  <2>1. Table("poco", PocoInit.program)
    BY DEF PocoInit
  <2> QED  BY <2>1 DEF Profile
<1>8. Table("quill", Profile("quill").program)
  <2>1. Table("quill", QuillInit.program)
    BY DEF QuillInit
  <2> QED  BY <2>1 DEF Profile
<1>9. Table("quill-bounded", Profile("quill-bounded").program)
  <2>1. Table("quill-bounded", QuillBoundedInit.program)
    BY DEF QuillBoundedInit
  <2> QED  BY <2>1 DEF Profile
<1>10. Table("spdlog", Profile("spdlog").program)
  <2>1. Table("spdlog", SpdlogInit.program)
    BY DEF SpdlogInit
  <2> QED  BY <2>1 DEF Profile
<1>11. Table("spdlogv2", Profile("spdlogv2").program)
  <2>1. Table("spdlogv2", SpdlogV2Init.program)
    BY DEF SpdlogV2Init
  <2> QED  BY <2>1 DEF Profile
<1>12. Table("fstlog-st", Profile("fstlog-st").program)
  <2>1. Table("fstlog-st", FstlogStInit.program)
    BY DEF FstlogStInit
  <2> QED  BY <2>1 DEF Profile
<1>13. Table("fstlog-stfix", Profile("fstlog-stfix").program)
  <2>1. Table("fstlog-stfix", FstlogStfixInit.program)
    BY DEF FstlogStfixInit, FstlogStInit
  <2> QED  BY <2>1 DEF Profile
<1>14. Table("fstlog-fast", Profile("fstlog-fast").program)
  <2>1. Table("fstlog-fast", FstlogFastInit.program)
    BY DEF FstlogFastInit, FstlogStInit
  <2> QED  BY <2>1 DEF Profile
<1>15. Table("fstlog-lowl", Profile("fstlog-lowl").program)
  <2>1. Table("fstlog-lowl", FstlogLowlInit.program)
    BY DEF FstlogLowlInit, FstlogStInit
  <2> QED  BY <2>1 DEF Profile
<1>16. Table("fstlog-mt", Profile("fstlog-mt").program)
  <2>1. Table("fstlog-mt", FstlogMtInit.program)
    BY DEF FstlogMtInit, FstlogStInit
  <2> QED  BY <2>1 DEF Profile
<1>17. Table("fstlog-tloc", Profile("fstlog-tloc").program)
  <2>1. Table("fstlog-tloc", FstlogTlocInit.program)
    BY DEF FstlogTlocInit, FstlogStInit
  <2> QED  BY <2>1 DEF Profile
<1> HIDE DEF Table
<1> QED
  BY <1>1, <1>2, <1>3, <1>4, <1>5, <1>6, <1>7, <1>8, <1>9,
     <1>10, <1>11, <1>12, <1>13, <1>14, <1>15, <1>16, <1>17
     DEF AllAdapters

-----------------------------------------------------------------------------
(* The values that are reported and computed.                              *)

RequestType ==
  [buffer : Nat \cup {None}, poll : Nat \cup {None}, flush : Nat \cup {None},
   threads : Nat \ {0}, format : {"txt", "bin"},
   sink : {"lib", "sort", "unsort", "null"}, logSelf : BOOLEAN]

LEMMA Division ==
  /\ \A n \in Int : n % Word \in 0 .. Word - 1
  /\ \A n \in Nat, d \in Nat \ {0} : n \div d \in Nat
  /\ \A m, n \in Nat : m * n \in Nat
<1>1. \A n \in Int : n % Word \in 0 .. Word - 1
  BY NumbersTyped
<1>2. \A n \in Nat, d \in Nat \ {0} : n \div d \in Nat
  OBVIOUS
<1>3. \A m, n \in Nat : m * n \in Nat
  OBVIOUS
<1> QED  BY <1>1, <1>2, <1>3

\* Sizes are naturals.
LEMMA SizeType ==
  ASSUME NEW a \in AllAdapters, NEW r \in RequestType
  PROVE  SizeFor(a, r) \in Nat
<1> DEFINE kib == IF r.buffer # None THEN r.buffer ELSE 0
<1>1. kib \in Nat /\ r.threads \in Nat
  BY DEF RequestType
<1> HIDE DEF kib
<1>2. kib * 1024 \in Nat /\ kib * r.threads \in Nat /\ (kib * 1024) * r.threads \in Nat
  BY <1>1, Division
<1>3. FstlogSize(kib) \in Nat /\ P7Size(kib, r.threads) \in Nat
  <2>1. \A n \in Nat : n % Word \in Nat
    BY Division, NumbersTyped
  <2> QED  BY <1>2, <2>1 DEF FstlogSize, P7Size
<1>4. SpdlogSize(kib, r.threads) \in Nat
  BY <1>2, Division DEF SpdlogSize
<1>5. Log4cxxSize(kib, r.threads) \in Nat
  BY <1>1, <1>2, Division DEF Log4cxxSize
<1>6. SizeFor(a, r) =
        CASE a \in Fstlog     -> FstlogSize(kib)
          [] a \in Spdlog     -> IF r.buffer # None THEN SpdlogSize(kib, r.threads) ELSE SpdlogQueue
          [] a = "log4cxx"    -> Log4cxxSize(kib, r.threads)
          [] a = "p7"         -> P7Size(kib, r.threads)
          [] OTHER            -> 0
  BY DEF SizeFor, kib
<1> QED  BY <1>3, <1>4, <1>5, <1>6, NumbersTyped

\* What out_data says of the buffer is a number, and never the mark of a
\* field that has not been written.
LEMMA BufferType ==
  ASSUME NEW a \in AllAdapters, NEW r \in RequestType
  PROVE  /\ r.buffer # None => ToldBuffer(a, r) \in Int /\ ToldBuffer(a, r) # Unset
         /\ DefaultBuffer(a, r) \in Int
         /\ a \notin {"noop", "quill-bounded"} => DefaultBuffer(a, r) # Unset
<1>1. r.threads \in Nat /\ r.threads # 0 /\ r.buffer \in Nat \cup {None}
  BY DEF RequestType
<1>2. ASSUME r.buffer # None
      PROVE  ToldBuffer(a, r) \in Int /\ ToldBuffer(a, r) # Unset
  <2>1. P7Size(r.buffer, r.threads) \in 0 .. Word - 1
    BY <1>1, <1>2, Division DEF P7Size
  <2>2. AsInt(P7Size(r.buffer, r.threads)) \in Int /\ AsInt(P7Size(r.buffer, r.threads)) # Unset
    BY <2>1, NumbersTyped DEF AsInt, Unset
  <2> QED  BY <1>1, <1>2, <2>2, NumbersTyped DEF ToldBuffer, Unset
<1>3. CASE a \in Spdlog
  <2>1. SpdlogQueue * 82 \in Nat /\ 1024 * r.threads \in Nat \ {0}
    BY <1>1, NumbersTyped
  <2>2. DefaultBuffer(a, r) \in Nat
    BY <1>3, <2>1, Division DEF DefaultBuffer
  <2> QED  BY <1>2, <2>2, NumbersTyped DEF Unset
<1>4. CASE a \notin Spdlog
  <2>1. DefaultBuffer(a, r) = Profile(a).default.buffer
    BY <1>4 DEF DefaultBuffer
  <2>2. \/ Profile(a).default.buffer \in {None, 0, 64}
        \/ a = "quill-bounded" /\ Profile(a).default.buffer = QuillCapacity \div 2048
    BY <1>4 DEF AllAdapters, Quill, Spdlog, Fstlog, Profile, NoopInit, AbseilInit, BoostInit,
       G3logInit, Log4cxxInit, P7Init, PocoInit, QuillInit, QuillBoundedInit, FstlogStInit,
       FstlogStfixInit, FstlogFastInit, FstlogLowlInit, FstlogMtInit, FstlogTlocInit
  <2>3. QuillCapacity \div 2048 = 64
    BY DEF QuillCapacity
  <2> QED  BY <1>2, <2>1, <2>2, <2>3, NumbersTyped DEF Unset, None
<1> QED  BY <1>3, <1>4

\* What is reported of the two times when they are not asked for: everything
\* but the flush time of quill is a number.
LEMMA DefaultType ==
  ASSUME NEW a \in AllAdapters
  PROVE  /\ Profile(a).default.poll \in Int /\ Profile(a).default.poll # Unset
         /\ Profile(a).default.flush \in Int
         /\ Profile(a).default.flush = Unset <=> a \in Quill
<1>1. QuillPoll \in Nat
  BY NumbersTyped DEF QuillPoll
<1>2. Profile(a).default.poll \in {None, 0, QuillPoll, FstlogPoll}
  BY DEF AllAdapters, Quill, Spdlog, Fstlog, Profile, NoopInit, AbseilInit, BoostInit,
     G3logInit, Log4cxxInit, P7Init, PocoInit, QuillInit, QuillBoundedInit, SpdlogInit,
     SpdlogV2Init, FstlogStInit, FstlogStfixInit, FstlogFastInit, FstlogLowlInit, FstlogMtInit,
     FstlogTlocInit
<1>3. Profile(a).default.flush = IF a \in Quill THEN Unset ELSE IF a = "p7" THEN 1000 ELSE 0
  BY DEF AllAdapters, Quill, Spdlog, Fstlog, Profile, NoopInit, AbseilInit, BoostInit,
     G3logInit, Log4cxxInit, P7Init, PocoInit, QuillInit, QuillBoundedInit, SpdlogInit,
     SpdlogV2Init, FstlogStInit, FstlogStfixInit, FstlogFastInit, FstlogLowlInit, FstlogMtInit,
     FstlogTlocInit
<1> QED  BY <1>1, <1>2, <1>3, NumbersTyped DEF Unset, None

-----------------------------------------------------------------------------
(* The inductive invariant.                                                *)

Typed ==
  /\ TypeOK
  /\ status = "running" => step <= Len(Parts)
  /\ status = "ok" => step = Len(Parts) + 1
  /\ status # "ok" => built = 0

\* What a part that is over has checked.
Checked ==
  /\ Past("Buffer") /\ Asked("buffer") => Honoured("buffer")
  /\ Past("Poll") /\ Asked("poll") => Honoured("poll")
  /\ Past("Flush") /\ Asked("flush") => Honoured("flush")
  /\ Past("Format") => request.format \in profile.formats
  /\ Past("Sink") => Resolve(request.sink) \in profile.sinks

\* What a part that is over has written to out_data.
Reported ==
  /\ Past("Zeros") => report.buffer = 0 /\ report.poll = 0 /\ report.flush = 0
  /\ Past("FixedBuffer") => report.buffer = profile.default.buffer
  /\ Past("Buffer") =>
       report.buffer = IF Asked("buffer") THEN ToldBuffer(adapter, request)
                                          ELSE DefaultBuffer(adapter, request)
  /\ Past("Poll") =>
       report.poll = IF Asked("poll") THEN request.poll ELSE profile.default.poll
  /\ Past("Flush") =>
       report.flush = IF Asked("flush") THEN request.flush ELSE profile.default.flush
  /\ report.sink = IF Past("Sink") THEN Resolve(request.sink) ELSE request.sink

\* What a part that is over has made of the times.
Times ==
  /\ Past("Poll") /\ adapter \in Fstlog \ {"fstlog-lowl"} /\ Asked("poll") =>
       lib.poll = request.poll
  /\ Past("PollEvery400") => lib.poll = 400
  /\ Past("StartBackend") => lib.poll = Sleep(request.poll)
  /\ Past("AddSink") /\ adapter \in Fstlog /\ WritesFile /\ Asked("flush") =>
       lib.flush = request.flush

\* What a part that is over has made of the size, and what the constructors
\* of fstlog's loggers add to it.
Memory ==
  /\ Past("Buffer") => size = SizeFor(adapter, request)
  /\ Past("NewBuffer") => lib.queue = (size * request.threads) % Word
  /\ Past("StartPool") => lib.queue = size
  /\ Past("AddSink") /\ adapter = "spdlogv2" /\ WritesFile => lib.queue = size
  /\ Past("Configure") => lib.queue = IF size # 0 THEN size ELSE None
  /\ adapter \in OwnBuffer /\ built > 0 => lib.queue = built * size

\* What is held, and which part it is from.
Acquired ==
  /\ Past("AddSink") \/ Past("Configure") \/ (Past("CreateClient") /\ status # "failed") =>
       "sink" \in held
  /\ Past("Open") \/ (Past("CreateClient") /\ status # "failed") =>
       (WritesFile => "file" \in held)
  /\ "poll" \in held => adapter \in Fstlog
  /\ "buffer" \in held => Past("NewBuffer")
  /\ "pool" \in held => Past("StartPool")
  /\ "file" \in held =>
       \/ Past("OpenAlways")
       \/ /\ Past("Open") \/ Past("OpenUnchecked") \/ Past("Configure") \/ Past("CreateClient")
          /\ WritesFile
  /\ "library" \in held => Past("Initialize")
  /\ "sink" \in held => Past("AddSink") \/ Past("Configure") \/ Past("CreateClient")
  /\ "selfSink" \in held => Past("SelfSink")
  /\ "backend" \in held => Past("StartBackend")
  /\ "config" \in held => Past("CreateConfig")
  /\ "handler" \in held => Past("CrashHandler")
  /\ "client" \in held => Past("CreateClient")
  /\ "shared" \in held => Past("ShareClient")

IInv == Typed /\ Checked /\ Reported /\ Times /\ Memory /\ Acquired

-----------------------------------------------------------------------------
(* A step of sys_init.                                                     *)

Returns == status' \in {"running", "ok"}

LEMMA ProgramOf ==
  ASSUME TypeOK
  PROVE  /\ Table(adapter, Parts) /\ adapter \in AllAdapters /\ request \in RequestType
         /\ step \in Nat /\ step >= 1 /\ Len(Parts) \in Nat
<1>1. adapter \in AllAdapters /\ request \in RequestType
  BY AdaptersKnown, RequestsTyped DEF TypeOK, RequestType
<1>2. Table(adapter, Parts)
  BY <1>1, Programs DEF Parts, profile
<1> QED  BY <1>1, <1>2 DEF TypeOK, Parts, Table

\* A part that is done is over from then on, and it was not before; a part
\* that throws changes nothing but what is held.
LEMMA Progress ==
  ASSUME Typed, SysInitStep
  PROVE  /\ status = "running" /\ step <= Len(Parts)
         /\ adapter' = adapter /\ request' = request /\ built' = built /\ Parts' = Parts
         /\ profile' = profile
         /\ \/ /\ Returns
               /\ step' = step + 1
               /\ status' = IF step = Len(Parts) THEN "ok" ELSE "running"
            \/ /\ status' \in {"refused", "failed"}
               /\ UNCHANGED <<step, report, size, lib>>
               /\ held' \subseteq held
<1>1. /\ status = "running" /\ adapter' = adapter
      /\ UNCHANGED <<request, built>>
      /\ \/ /\ Returns
            /\ step' = step + 1
            /\ status' = IF step = Len(Parts) THEN "ok" ELSE "running"
         \/ /\ status' \in {"refused", "failed"}
            /\ UNCHANGED <<step, report, size, lib>>
            /\ held' \subseteq held
  <2> USE DEF At, Done, Stop, Refuse, Parts, Returns
  <2>1. CASE RefuseSetting
    BY <2>1 DEF RefuseSetting
  <2>2. CASE Zeros
    BY <2>2 DEF Zeros
  <2>3. CASE FixedBuffer
    BY <2>3 DEF FixedBuffer
  <2>4. CASE Buffer
    BY <2>4 DEF Buffer
  <2>5. CASE NewBuffer
    BY <2>5 DEF NewBuffer
  <2>6. CASE StartPool
    BY <2>6 DEF StartPool
  <2>7. CASE Poll
    BY <2>7 DEF Poll
  <2>8. CASE Flush
    BY <2>8 DEF Flush
  <2>9. CASE Format
    BY <2>9 DEF Format
  <2>10. CASE Sink
    BY <2>10 DEF Sink
  <2>11. CASE Open
    BY <2>11 DEF Open
  <2>12. CASE OpenAlways
    BY <2>12 DEF OpenAlways
  <2>13. CASE OpenUnchecked
    BY <2>13 DEF OpenUnchecked
  <2>14. CASE Initialize
    BY <2>14 DEF Initialize
  <2>15. CASE AddSink
    BY <2>15 DEF AddSink
  <2>16. CASE SelfSink
    BY <2>16 DEF SelfSink
  <2>17. CASE PollEvery400
    BY <2>17 DEF PollEvery400
  <2>18. CASE StartBackend
    BY <2>18 DEF StartBackend
  <2>19. CASE CreateConfig
    BY <2>19 DEF CreateConfig
  <2>20. CASE CloseConfig
    BY <2>20 DEF CloseConfig
  <2>21. CASE Configure
    BY <2>21 DEF Configure
  <2>22. CASE CrashHandler
    BY <2>22 DEF CrashHandler
  <2>23. CASE CreateClient
    BY <2>23 DEF CreateClient
  <2>24. CASE ShareClient
    BY <2>24 DEF ShareClient
  <2> QED
    BY <2>1, <2>2, <2>3, <2>4, <2>5, <2>6, <2>7, <2>8, <2>9, <2>10, <2>11, <2>12, <2>13,
       <2>14, <2>15, <2>16, <2>17, <2>18, <2>19, <2>20, <2>21, <2>22, <2>23, <2>24 DEF SysInitStep
<1> QED  BY <1>1 DEF Typed, Parts, profile

LEMMA Advance ==
  ASSUME Typed, SysInitStep
  PROVE  /\ ~Past(Parts[step])
         /\ Returns => \A part : Past(part)' <=> Past(part) \/ Parts[step] = part
         /\ ~Returns => \A part : Past(part)' <=> Past(part)
<1>1. Table(adapter, Parts) /\ step \in 1 .. Len(Parts) /\ Len(Parts) \in Nat
  BY Progress, ProgramOf DEF Typed
<1>2. ~Past(Parts[step])
  BY <1>1 DEF Past, Table
<1>3. ASSUME Returns
      PROVE  \A part : Past(part)' <=> Past(part) \/ Parts[step] = part
  <2>1. Parts' = Parts /\ step' = step + 1
    BY <1>3, Progress DEF Returns
  <2> QED  BY <1>1, <2>1 DEF Past
<1>4. ASSUME ~Returns
      PROVE  \A part : Past(part)' <=> Past(part)
  <2>1. Parts' = Parts /\ step' = step
    BY <1>4, Progress DEF Returns
  <2> QED  BY <2>1 DEF Past
<1> QED  BY <1>2, <1>3, <1>4

\* What each variable becomes, whichever part is done.
LEMMA ByField ==
  ASSUME Typed, SysInitStep, Returns
  PROVE  /\ report'.buffer =
              CASE At("Zeros")       -> 0
                [] At("FixedBuffer") -> profile.default.buffer
                [] At("Buffer")      -> IF Asked("buffer") THEN ToldBuffer(adapter, request)
                                        ELSE DefaultBuffer(adapter, request)
                [] OTHER             -> report.buffer
         /\ report'.poll =
              CASE At("Zeros") -> 0
                [] At("Poll")  -> IF Asked("poll") THEN request.poll ELSE profile.default.poll
                [] OTHER       -> report.poll
         /\ report'.flush =
              CASE At("Zeros") -> 0
                [] At("Flush") -> IF Asked("flush") THEN request.flush ELSE profile.default.flush
                [] OTHER       -> report.flush
         /\ report'.sink = IF At("Sink") THEN Resolve(report.sink) ELSE report.sink
         /\ report' = [buffer |-> report'.buffer, poll |-> report'.poll,
                       flush |-> report'.flush, sink |-> report'.sink]
         /\ size' = IF At("Buffer") THEN SizeFor(adapter, request) ELSE size
         /\ lib'.poll =
              CASE At("Poll") /\ adapter \in Fstlog /\ Asked("poll") -> request.poll
                [] At("PollEvery400") -> 400
                [] At("StartBackend") -> Sleep(request.poll)
                [] OTHER -> lib.poll
         /\ lib'.flush =
              IF At("AddSink") /\ adapter \in Fstlog /\ WritesFile THEN report.flush
                                                                   ELSE lib.flush
         /\ lib'.queue =
              CASE At("NewBuffer") -> (size * request.threads) % Word
                [] At("StartPool") -> size
                [] At("AddSink") /\ adapter = "spdlogv2" /\ WritesFile -> size
                [] At("AddSink") /\ adapter = "boost" /\ WritesFile -> BoostQueue
                [] At("Configure") \/ At("CreateClient") -> IF size # 0 THEN size ELSE None
                [] OTHER -> lib.queue
         /\ lib' = [queue |-> lib'.queue, poll |-> lib'.poll, flush |-> lib'.flush]
         /\ At("Buffer") /\ Asked("buffer") => Honoured("buffer")
         /\ At("Poll") /\ Asked("poll") => Honoured("poll")
         /\ At("Flush") /\ Asked("flush") => Honoured("flush")
         /\ At("Format") => request.format \in profile.formats
         /\ At("Sink") => Resolve(request.sink) \in profile.sinks
<1> USE DEF At, Done, Stop, Refuse, Returns
<1>1. /\ report \in [buffer : Int, poll : Int, flush : Int,
                     sink : {"lib", "sort", "unsort", "null"}]
      /\ lib \in [queue : Int, poll : Int, flush : Int]
      /\ status = "running"
  BY Progress DEF Typed, TypeOK
<1>2. ~RefuseSetting
  BY DEF RefuseSetting
<1>3. CASE Zeros
  BY <1>1, <1>3 DEF Zeros
<1>4. CASE FixedBuffer
  BY <1>1, <1>4 DEF FixedBuffer
<1>5. CASE Buffer
  BY <1>1, <1>5 DEF Buffer
<1>6. CASE NewBuffer
  BY <1>1, <1>6 DEF NewBuffer
<1>7. CASE StartPool
  BY <1>1, <1>7 DEF StartPool
<1>8. CASE Poll
  BY <1>1, <1>8 DEF Poll
<1>9. CASE Flush
  BY <1>1, <1>9 DEF Flush
<1>10. CASE Format
  BY <1>1, <1>10 DEF Format
<1>11. CASE Sink
  BY <1>1, <1>11 DEF Sink
<1>12. CASE Open
  BY <1>1, <1>12 DEF Open
<1>13. CASE OpenAlways
  BY <1>1, <1>13 DEF OpenAlways
<1>14. CASE OpenUnchecked
  BY <1>1, <1>14 DEF OpenUnchecked
<1>15. CASE Initialize
  BY <1>1, <1>15 DEF Initialize
<1>16. CASE AddSink
  BY <1>1, <1>16 DEF AddSink
<1>17. CASE SelfSink
  BY <1>1, <1>17 DEF SelfSink
<1>18. CASE PollEvery400
  BY <1>1, <1>18 DEF PollEvery400
<1>19. CASE StartBackend
  BY <1>1, <1>19 DEF StartBackend
<1>20. CASE CreateConfig
  BY <1>1, <1>20 DEF CreateConfig
<1>21. CASE CloseConfig
  BY <1>1, <1>21 DEF CloseConfig
<1>22. CASE Configure
  BY <1>1, <1>22 DEF Configure
<1>23. CASE CrashHandler
  BY <1>1, <1>23 DEF CrashHandler
<1>24. CASE CreateClient
  BY <1>1, <1>24 DEF CreateClient
<1>25. CASE ShareClient
  BY <1>1, <1>25 DEF ShareClient
<1> QED
  BY <1>2, <1>3, <1>4, <1>5, <1>6, <1>7, <1>8, <1>9, <1>10, <1>11, <1>12, <1>13, <1>14,
     <1>15, <1>16, <1>17, <1>18, <1>19, <1>20, <1>21, <1>22, <1>23, <1>24, <1>25 DEF SysInitStep

\* What is held, whichever part is done or throws: only p7's Share, when it
\* fails, gives something back.
LEMMA ByThing ==
  ASSUME Typed, SysInitStep
  PROVE  /\ held' \subseteq Things
         /\ held \subseteq held' \/ (At("ShareClient") /\ ~Returns)
         /\ At("ShareClient") /\ ~Returns =>
              status' = "failed" /\ held' = held \ {"client", "sink", "file"}
         /\ Returns /\ (At("AddSink") \/ At("Configure") \/ At("CreateClient")) =>
              "sink" \in held'
         /\ Returns /\ WritesFile /\ (At("Open") \/ At("CreateClient")) => "file" \in held'
         /\ \A thing \in held' \ held :
              /\ Returns
              /\ \/ thing = "poll" /\ adapter \in Fstlog /\ At("Poll")
                 \/ thing = "poll" /\ At("PollEvery400")
                 \/ thing = "buffer" /\ At("NewBuffer")
                 \/ thing = "pool" /\ At("StartPool")
                 \/ thing = "file" /\ At("OpenAlways")
                 \/ /\ thing = "file" /\ WritesFile
                    /\ \/ At("Open") \/ At("OpenUnchecked")
                       \/ At("Configure") \/ At("CreateClient")
                 \/ thing = "library" /\ At("Initialize")
                 \/ thing = "sink" /\ (At("AddSink") \/ At("Configure") \/ At("CreateClient"))
                 \/ thing = "selfSink" /\ At("SelfSink")
                 \/ thing = "backend" /\ At("StartBackend")
                 \/ thing = "config" /\ At("CreateConfig")
                 \/ thing = "handler" /\ At("CrashHandler")
                 \/ thing = "client" /\ At("CreateClient")
                 \/ thing = "shared" /\ At("ShareClient")
<1> USE DEF At, Done, Stop, Refuse, Returns
<1>1. held \subseteq Things /\ status = "running"
  BY Progress DEF Typed, TypeOK
<1> USE DEF Things
<1>2. CASE RefuseSetting
  BY <1>1, <1>2 DEF RefuseSetting, Settings
<1>3. CASE Zeros
  BY <1>1, <1>3 DEF Zeros
<1>4. CASE FixedBuffer
  BY <1>1, <1>4 DEF FixedBuffer
<1>5. CASE Buffer
  BY <1>1, <1>5 DEF Buffer
<1>6. CASE NewBuffer
  BY <1>1, <1>6 DEF NewBuffer
<1>7. CASE StartPool
  BY <1>1, <1>7 DEF StartPool
<1>8. CASE Poll
  BY <1>1, <1>8 DEF Poll
<1>9. CASE Flush
  BY <1>1, <1>9 DEF Flush
<1>10. CASE Format
  BY <1>1, <1>10 DEF Format
<1>11. CASE Sink
  BY <1>1, <1>11 DEF Sink
<1>12. CASE Open
  BY <1>1, <1>12 DEF Open
<1>13. CASE OpenAlways
  BY <1>1, <1>13 DEF OpenAlways
<1>14. CASE OpenUnchecked
  BY <1>1, <1>14 DEF OpenUnchecked
<1>15. CASE Initialize
  BY <1>1, <1>15 DEF Initialize
<1>16. CASE AddSink
  BY <1>1, <1>16 DEF AddSink
<1>17. CASE SelfSink
  BY <1>1, <1>17 DEF SelfSink
<1>18. CASE PollEvery400
  BY <1>1, <1>18 DEF PollEvery400
<1>19. CASE StartBackend
  BY <1>1, <1>19 DEF StartBackend
<1>20. CASE CreateConfig
  BY <1>1, <1>20 DEF CreateConfig
<1>21. CASE CloseConfig
  BY <1>1, <1>21 DEF CloseConfig
<1>22. CASE Configure
  BY <1>1, <1>22 DEF Configure
<1>23. CASE CrashHandler
  BY <1>1, <1>23 DEF CrashHandler
<1>24. CASE CreateClient
  BY <1>1, <1>24 DEF CreateClient
<1>25. CASE ShareClient
  BY <1>1, <1>25 DEF ShareClient
<1> QED
  BY <1>2, <1>3, <1>4, <1>5, <1>6, <1>7, <1>8, <1>9, <1>10, <1>11, <1>12, <1>13, <1>14,
     <1>15, <1>16, <1>17, <1>18, <1>19, <1>20, <1>21, <1>22, <1>23, <1>24, <1>25 DEF SysInitStep

LEMMA StepKeepsTypes ==
  ASSUME IInv, SysInitStep
  PROVE  Typed'
<1>1. /\ Table(adapter, Parts) /\ adapter \in AllAdapters /\ request \in RequestType
      /\ step \in Nat /\ step >= 1 /\ Len(Parts) \in Nat
  BY ProgramOf DEF IInv, Typed
<1>2. /\ status = "running" /\ step <= Len(Parts) /\ built = 0
      /\ adapter' = adapter /\ request' = request /\ built' = built /\ Parts' = Parts
  BY Progress DEF IInv, Typed
<1>3. step' \in 1 .. Len(Parts') + 1 /\ status' \in {"running", "ok", "refused", "failed"}
      /\ (status' = "running" => step' <= Len(Parts'))
      /\ (status' = "ok" => step' = Len(Parts') + 1)
  BY <1>1, <1>2, Progress DEF IInv
<1>4. held' \subseteq Things
  BY ByThing DEF IInv
<1>5. /\ report' \in [buffer : Int, poll : Int, flush : Int,
                      sink : {"lib", "sort", "unsort", "null"}]
      /\ size' \in Nat
      /\ lib' \in [queue : Int, poll : Int, flush : Int]
  <2>1. /\ report \in [buffer : Int, poll : Int, flush : Int,
                       sink : {"lib", "sort", "unsort", "null"}]
        /\ size \in Nat
        /\ lib \in [queue : Int, poll : Int, flush : Int]
    BY DEF IInv, Typed, TypeOK
  <2>2. CASE Returns
    <3>1. /\ Asked("buffer") => ToldBuffer(adapter, request) \in Int
          /\ DefaultBuffer(adapter, request) \in Int
      BY <1>1, BufferType DEF Asked
    <3>2. SizeFor(adapter, request) \in Nat
      BY <1>1, SizeType
    <3>3. profile.default.poll \in Int /\ profile.default.flush \in Int
      BY <1>1, DefaultType DEF profile
    <3>4. At("FixedBuffer") => profile.default.buffer \in Int
      <4>1. At("FixedBuffer") => adapter = "quill-bounded"
        BY <1>1, <1>2 DEF At, Table, Parts
      <4> QED  BY <4>1 DEF profile, Profile, QuillBoundedInit, QuillCapacity
    <3>5. request.poll \in Int /\ request.flush \in Int /\ request.threads \in Nat
          /\ Sleep(request.poll) \in Int
      BY <1>1 DEF RequestType, None, Sleep, Forever
    <3>6. (size * request.threads) % Word \in Int /\ BoostQueue \in Int
      <4>1. size * request.threads \in Nat
        BY <2>1, <3>5, Division
      <4> QED  BY <4>1, Division, NumbersTyped DEF BoostQueue
    <3>7. report'.buffer \in Int /\ report'.poll \in Int /\ report'.flush \in Int
          /\ report'.sink \in {"lib", "sort", "unsort", "null"}
      BY <2>1, <2>2, <3>1, <3>3, <3>4, <3>5, ByField DEF IInv, Resolve
    <3>8. lib'.queue \in Int /\ lib'.poll \in Int /\ lib'.flush \in Int /\ size' \in Nat
      BY <2>1, <2>2, <3>2, <3>5, <3>6, ByField DEF IInv, None
    <3> DEFINE r == report'
               l == lib'
    <3>9. /\ r = [buffer |-> r.buffer, poll |-> r.poll, flush |-> r.flush, sink |-> r.sink]
          /\ l = [queue |-> l.queue, poll |-> l.poll, flush |-> l.flush]
      BY <2>2, ByField DEF IInv
    <3> QED  BY <3>7, <3>8, <3>9
  <2>3. CASE ~Returns
    BY <2>1, <2>3, Progress DEF IInv, Returns
  <2> QED  BY <2>2, <2>3
<1>6. adapter' \in Adapters /\ request' \in Requests /\ built' \in 0 .. request.threads
  BY <1>1, <1>2 DEF IInv, Typed, TypeOK, RequestType
<1> QED  BY <1>2, <1>3, <1>4, <1>5, <1>6 DEF Typed, TypeOK, Parts

\* Checked, Reported and Times: a part is run once, so what it has checked
\* and written stays.
LEMMA StepKeepsReport ==
  ASSUME IInv, SysInitStep
  PROVE  Checked' /\ Reported' /\ Times'
<1>1. /\ Table(adapter, Parts)
      /\ step \in Nat /\ step >= 1 /\ step <= Len(Parts) /\ Len(Parts) \in Nat
      /\ status = "running"
      /\ adapter' = adapter /\ request' = request /\ profile' = profile
  BY ProgramOf, Progress DEF IInv, Typed
<1>2. \A part : At(part) <=> Parts[step] = part
  BY <1>1 DEF At, Parts
<1>3. /\ ~Past(Parts[step])
      /\ Returns => \A part : Past(part)' <=> Past(part) \/ Parts[step] = part
      /\ ~Returns => \A part : Past(part)' <=> Past(part)
  BY Advance DEF IInv
<1>4. \A part : Asked(part)' = Asked(part) /\ Honoured(part)' = Honoured(part)
  BY <1>1 DEF Asked, Honoured
<1>5. CASE ~Returns
  <2>1. UNCHANGED <<report, size, lib>>
    BY <1>5, Progress DEF IInv, Returns
  <2> QED  BY <1>1, <1>3, <1>4, <1>5, <2>1 DEF IInv, Checked, Reported, Times, WritesFile
<1>6. CASE Returns
  <2>1. Checked'
    BY <1>1, <1>2, <1>3, <1>4, <1>6, ByField DEF IInv, Checked
  <2>2. \A part : Past(part)' <=> Past(part) \/ Parts[step] = part
    BY <1>3, <1>6
  <2>3. ~Past("Zeros") /\ (Parts[step] = "Zeros" => \A part : ~Past(part))
    BY <1>1 DEF Past, Table
  <2>4. /\ Parts[step] = "Buffer" => adapter # "quill-bounded"
        /\ Parts[step] = "FixedBuffer" => adapter = "quill-bounded"
        /\ Past("Buffer") => adapter # "quill-bounded"
        /\ Parts[step] = "PollEvery400" => adapter = "fstlog-lowl"
        /\ Parts[step] = "StartBackend" => adapter \in Quill
        /\ Past("FixedBuffer") => adapter = "quill-bounded"
        /\ Past("PollEvery400") => adapter = "fstlog-lowl"
        /\ Past("StartBackend") => adapter \in Quill
    BY <1>1 DEF Past, Table
  <2>5. WritesFile' = WritesFile
    BY <1>6, ByField DEF IInv, WritesFile, Resolve
  <2>6. Reported'
    <3>1. Past("Zeros")' => report'.buffer = 0 /\ report'.poll = 0 /\ report'.flush = 0
      BY <1>2, <1>6, <2>2, <2>3, ByField DEF IInv
    <3>2. Past("FixedBuffer")' => report'.buffer = profile.default.buffer
      BY <1>2, <1>3, <1>6, <2>2, <2>3, <2>4, ByField DEF IInv, Reported
    <3>3. Past("Buffer")' =>
            report'.buffer = IF Asked("buffer") THEN ToldBuffer(adapter, request)
                                                ELSE DefaultBuffer(adapter, request)
      BY <1>1, <1>2, <1>3, <1>6, <2>2, <2>3, <2>4, ByField DEF IInv, Reported
    <3>4. Past("Poll")' =>
            report'.poll = IF Asked("poll") THEN request.poll ELSE profile.default.poll
      BY <1>2, <1>3, <1>6, <2>2, <2>3, ByField DEF IInv, Reported
    <3>5. Past("Flush")' =>
            report'.flush = IF Asked("flush") THEN request.flush ELSE profile.default.flush
      BY <1>2, <1>3, <1>6, <2>2, <2>3, ByField DEF IInv, Reported
    <3>6. report'.sink = IF Past("Sink")' THEN Resolve(request.sink) ELSE request.sink
      BY <1>2, <1>3, <1>6, <2>2, ByField DEF IInv, Reported, Resolve
    <3> QED  BY <1>1, <1>4, <3>1, <3>2, <3>3, <3>4, <3>5, <3>6 DEF Reported
  <2>7. Times'
    <3>1. Past("Poll")' /\ adapter \in Fstlog \ {"fstlog-lowl"} /\ Asked("poll") =>
            lib'.poll = request.poll
      BY <1>2, <1>3, <1>6, <2>2, <2>4, ByField DEF IInv, Times, Fstlog, Quill
    <3>2. Past("PollEvery400")' => lib'.poll = 400
      <4>1. Parts[step] = "Poll" => ~Past("PollEvery400")
        BY <1>1 DEF Past, Table, Before
      <4> QED  BY <1>2, <1>3, <1>6, <2>2, <2>4, <4>1, ByField DEF IInv, Times, Fstlog, Quill
    <3>3. Past("StartBackend")' => lib'.poll = Sleep(request.poll)
      BY <1>2, <1>3, <1>6, <2>2, <2>4, ByField DEF IInv, Times, Fstlog, Quill
    <3>4. Past("AddSink")' /\ adapter \in Fstlog /\ WritesFile /\ Asked("flush") =>
            lib'.flush = request.flush
      <4>1. Parts[step] = "AddSink" /\ adapter \in Fstlog => Past("Flush")
        BY <1>1 DEF Past, Table, Before, Has
      <4> QED  BY <1>2, <1>3, <1>6, <2>2, <4>1, ByField DEF IInv, Times, Reported
    <3> QED  BY <1>1, <1>4, <2>5, <3>1, <3>2, <3>3, <3>4 DEF Times
  <2> QED  BY <2>1, <2>6, <2>7
<1> QED  BY <1>5, <1>6

\* Memory: the size is computed before it is used, and each adapter has at
\* most one part that gives the library a queue.
LEMMA StepKeepsMemory ==
  ASSUME IInv, SysInitStep
  PROVE  Memory'
<1>1. /\ Table(adapter, Parts)
      /\ step \in Nat /\ step >= 1 /\ step <= Len(Parts) /\ Len(Parts) \in Nat
      /\ status = "running" /\ built = 0 /\ built' = 0
      /\ adapter' = adapter /\ request' = request /\ profile' = profile
  BY ProgramOf, Progress DEF IInv, Typed
<1>2. \A part : At(part) <=> Parts[step] = part
  BY <1>1 DEF At, Parts
<1>3. /\ ~Past(Parts[step])
      /\ Returns => \A part : Past(part)' <=> Past(part) \/ Parts[step] = part
      /\ ~Returns => \A part : Past(part)' <=> Past(part)
  BY Advance DEF IInv
<1>4. WritesFile' = WritesFile
  <2>1. CASE Returns
    BY <2>1, ByField DEF IInv, WritesFile, Resolve
  <2>2. CASE ~Returns
    BY <2>2, Progress DEF IInv, Returns, WritesFile
  <2> QED  BY <2>1, <2>2
<1>5. CASE ~Returns
  <2>1. UNCHANGED <<size, lib>>
    BY <1>5, Progress DEF IInv, Returns
  <2> QED  BY <1>1, <1>3, <1>4, <1>5, <2>1 DEF IInv, Memory
<1>6. CASE Returns
  <2>2. \A part : Past(part)' <=> Past(part) \/ Parts[step] = part
    BY <1>3, <1>6
  <2>3. /\ Parts[step] = "NewBuffer" => adapter = "fstlog-mt"
        /\ Parts[step] = "StartPool" => adapter = "spdlog"
        /\ Parts[step] = "Configure" => adapter = "log4cxx"
        /\ Parts[step] = "CreateClient" => adapter = "p7"
        /\ Past("NewBuffer") => adapter = "fstlog-mt"
        /\ Past("StartPool") => adapter = "spdlog"
        /\ Past("Configure") => adapter = "log4cxx"
    BY <1>1 DEF Past, Table
  <2>4. Parts[step] = "Buffer" =>
          /\ ~Past("NewBuffer") /\ ~Past("StartPool") /\ ~Past("AddSink") /\ ~Past("Configure")
    BY <1>1 DEF Past, Table, Before
  <2>5. Past("Buffer")' => size' = SizeFor(adapter, request)
    BY <1>2, <1>3, <1>6, <2>2, ByField DEF IInv, Memory
  <2>6. Past("NewBuffer")' => lib'.queue = (size' * request.threads) % Word
    BY <1>2, <1>3, <1>6, <2>2, <2>3, <2>4, ByField DEF IInv, Memory
  <2>7. Past("StartPool")' => lib'.queue = size'
    BY <1>2, <1>3, <1>6, <2>2, <2>3, <2>4, ByField DEF IInv, Memory
  <2>8. Past("AddSink")' /\ adapter = "spdlogv2" /\ WritesFile => lib'.queue = size'
    BY <1>2, <1>3, <1>6, <2>2, <2>3, <2>4, ByField DEF IInv, Memory
  <2>9. Past("Configure")' => lib'.queue = IF size' # 0 THEN size' ELSE None
    BY <1>2, <1>3, <1>6, <2>2, <2>3, <2>4, ByField DEF IInv, Memory
  <2> QED  BY <1>1, <1>4, <2>5, <2>6, <2>7, <2>8, <2>9 DEF Memory
<1> QED  BY <1>5, <1>6

\* Acquired: only p7's Share gives something back, when it fails.
LEMMA StepKeepsHeld ==
  ASSUME IInv, SysInitStep
  PROVE  Acquired'
<1>1. /\ Table(adapter, Parts)
      /\ step \in Nat /\ step >= 1 /\ step <= Len(Parts) /\ Len(Parts) \in Nat
      /\ status = "running"
      /\ adapter' = adapter /\ request' = request /\ profile' = profile
  BY ProgramOf, Progress DEF IInv, Typed
<1>2. \A part : At(part) <=> Parts[step] = part
  BY <1>1 DEF At, Parts
<1>3. /\ Returns => \A part : Past(part)' <=> Past(part) \/ Parts[step] = part
      /\ ~Returns => \A part : Past(part)' <=> Past(part)
  BY Advance DEF IInv
<1>4. WritesFile' = WritesFile
  <2>1. CASE Returns
    BY <2>1, ByField DEF IInv, WritesFile, Resolve
  <2>2. CASE ~Returns
    BY <2>2, Progress DEF IInv, Returns, WritesFile
  <2> QED  BY <2>1, <2>2
<1>5. CASE At("ShareClient") /\ ~Returns
  <2>1. adapter = "p7" /\ held' = held \ {"client", "sink", "file"} /\ status' = "failed"
    BY <1>1, <1>2, <1>5, ByThing DEF IInv, Table
  <2>2. ~Past("AddSink") /\ ~Past("Configure") /\ ~Past("OpenAlways") /\ ~Past("Open")
    BY <1>1, <2>1 DEF Past, Table, Fstlog, Quill, Spdlog
  <2> QED  BY <1>1, <1>3, <1>4, <1>5, <2>1, <2>2 DEF IInv, Acquired
<1>6. CASE ~At("ShareClient") /\ ~Returns
  <2>1. held' = held
    BY <1>6, ByThing, Progress DEF IInv, Returns
  <2> QED  BY <1>1, <1>3, <1>4, <1>6, <2>1 DEF IInv, Acquired
<1>7. CASE Returns
  <2>1. \A part : Past(part)' <=> Past(part) \/ Parts[step] = part
    BY <1>3, <1>7
  <2>2. held \subseteq held'
    BY <1>7, ByThing DEF IInv
  <2>3. Parts[step] = "PollEvery400" => adapter \in Fstlog
    BY <1>1 DEF Table, Fstlog
  <2>4. Past("AddSink")' \/ Past("Configure")' \/ Past("CreateClient")' => "sink" \in held'
    BY <1>1, <1>2, <1>7, <2>1, <2>2, ByThing DEF IInv, Acquired
  <2>6. Past("Open")' \/ Past("CreateClient")' => (WritesFile => "file" \in held')
    BY <1>1, <1>2, <1>7, <2>1, <2>2, ByThing DEF IInv, Acquired
  <2>7. \A thing \in held' \ held :
           \/ thing = "poll" /\ adapter \in Fstlog
           \/ thing = "buffer" /\ At("NewBuffer")
           \/ thing = "pool" /\ At("StartPool")
           \/ thing = "file" /\ At("OpenAlways")
           \/ /\ thing = "file" /\ WritesFile
              /\ \/ At("Open") \/ At("OpenUnchecked")
                 \/ At("Configure") \/ At("CreateClient")
           \/ thing = "library" /\ At("Initialize")
           \/ thing = "sink" /\ (At("AddSink") \/ At("Configure") \/ At("CreateClient"))
           \/ thing = "selfSink" /\ At("SelfSink")
           \/ thing = "backend" /\ At("StartBackend")
           \/ thing = "config" /\ At("CreateConfig")
           \/ thing = "handler" /\ At("CrashHandler")
           \/ thing = "client" /\ At("CreateClient")
           \/ thing = "shared" /\ At("ShareClient")
    BY <1>2, <2>3, ByThing DEF IInv
  <2>8. /\ "poll" \in held' => adapter \in Fstlog
        /\ "buffer" \in held' => Past("NewBuffer")'
        /\ "pool" \in held' => Past("StartPool")'
        /\ "library" \in held' => Past("Initialize")'
        /\ "sink" \in held' => Past("AddSink")' \/ Past("Configure")' \/ Past("CreateClient")'
        /\ "selfSink" \in held' => Past("SelfSink")'
        /\ "backend" \in held' => Past("StartBackend")'
        /\ "config" \in held' => Past("CreateConfig")'
        /\ "handler" \in held' => Past("CrashHandler")'
        /\ "client" \in held' => Past("CreateClient")'
        /\ "shared" \in held' => Past("ShareClient")'
    BY <1>2, <2>1, <2>7 DEF IInv, Acquired
  <2>9. "file" \in held' =>
           \/ Past("OpenAlways")'
           \/ /\ Past("Open")' \/ Past("OpenUnchecked")' \/ Past("Configure")'
                    \/ Past("CreateClient")'
              /\ WritesFile
    BY <1>2, <2>1, <2>7 DEF IInv, Acquired
  <2> QED  BY <1>1, <1>4, <2>4, <2>6, <2>8, <2>9 DEF Acquired
<1> QED  BY <1>5, <1>6, <1>7

-----------------------------------------------------------------------------
(* The other steps, and the invariant.                                     *)

LEMMA InitHolds ==
  ASSUME Init
  PROVE  IInv
<1>1. TypeOK
  <2>1. adapter \in AllAdapters /\ request \in RequestType
    BY AdaptersKnown, RequestsTyped DEF Init, RequestType
  <2>2. Len(Parts) \in Nat /\ Len(Parts) >= 1
    BY <2>1, Programs DEF Table, Parts, profile
  <2>3. Unset \in Int
    BY NumbersTyped DEF Unset
  <2> QED
    BY <2>1, <2>2, <2>3
       DEF Init, TypeOK, NothingReported, LibraryDefaults, RequestType, None, Things, Parts
<1>2. step = 1 /\ status = "running" /\ built = 0 /\ held = {} /\ report.sink = request.sink
  BY DEF Init, NothingReported
<1>3. Typed
  BY <1>1, <1>2, ProgramOf DEF Typed, Table
<1>4. \A part : ~Past(part)
  BY <1>2 DEF Past
<1> QED  BY <1>2, <1>3, <1>4 DEF IInv, Checked, Reported, Times, Memory, Acquired

\* The constructor of a logger object adds its buffer to those there are.
LEMMA BuildKeeps ==
  ASSUME IInv, BuildLogger
  PROVE  IInv'
<1>1. /\ UNCHANGED <<adapter, request, step, status, report, size, held>>
      /\ status = "ok" /\ built \in Nat /\ built < request.threads /\ request.threads \in Nat
      /\ built' = built + 1
      /\ size \in Nat /\ lib \in [queue : Int, poll : Int, flush : Int]
  BY ProgramOf DEF BuildLogger, IInv, Typed, TypeOK, RequestType
<1>2. /\ Parts' = Parts /\ profile' = profile /\ WritesFile' = WritesFile
      /\ \A part : Past(part)' <=> Past(part)
      /\ \A part : Asked(part)' = Asked(part) /\ Honoured(part)' = Honoured(part)
  BY <1>1 DEF Parts, profile, WritesFile, Past, Asked, Honoured
<1>3. /\ lib' \in [queue : Int, poll : Int, flush : Int]
      /\ lib'.poll = lib.poll /\ lib'.flush = lib.flush
      /\ adapter \notin OwnBuffer => lib' = lib
      /\ adapter \in OwnBuffer => lib'.queue = IF built = 0 THEN size ELSE lib.queue + size
  BY <1>1 DEF BuildLogger
<1>4. Typed'
  BY <1>1, <1>2, <1>3 DEF IInv, Typed, TypeOK, Parts
<1>5. Checked' /\ Reported' /\ Times' /\ Acquired'
  BY <1>1, <1>2, <1>3 DEF IInv, Checked, Reported, Times, Acquired
<1>6. Memory'
  <2>1. CASE adapter \notin OwnBuffer
    BY <1>1, <1>2, <1>3, <2>1 DEF IInv, Memory
  <2>2. CASE adapter \in OwnBuffer
    <3>1. ~Past("NewBuffer") /\ ~Past("StartPool") /\ ~Past("Configure") /\ adapter # "spdlogv2"
      BY <2>2, ProgramOf DEF IInv, Typed, Past, Table, OwnBuffer, Fstlog
    <3>2. lib'.queue = built' * size
      <4>1. built > 0 => lib.queue = built * size
        BY <2>2 DEF IInv, Memory
      <4> QED  BY <1>1, <1>3, <2>2, <4>1
    <3> QED  BY <1>1, <1>2, <3>1, <3>2 DEF IInv, Memory
  <2> QED  BY <2>1, <2>2
<1> QED  BY <1>4, <1>5, <1>6 DEF IInv

LEMMA Invariance == Spec => []IInv
<1>1. Init => IInv
  BY InitHolds
<1>2. IInv /\ [Next]_vars => IInv'
  <2> SUFFICES ASSUME IInv, [Next]_vars  PROVE IInv'
    OBVIOUS
  <2>1. CASE SysInitStep
    BY <2>1, StepKeepsTypes, StepKeepsReport, StepKeepsMemory, StepKeepsHeld DEF IInv
  <2>2. CASE BuildLogger
    BY <2>2, BuildKeeps
  <2>3. CASE UNCHANGED vars
    <3>1. /\ UNCHANGED <<adapter, request, step, status, report, size, lib, held, built>>
          /\ Parts' = Parts /\ profile' = profile /\ WritesFile' = WritesFile
      BY <2>3 DEF vars, Parts, profile, WritesFile
    <3>2. /\ \A part : Past(part)' <=> Past(part)
          /\ \A part : Asked(part)' = Asked(part) /\ Honoured(part)' = Honoured(part)
      BY <3>1 DEF Past, Asked, Honoured
    <3>3. Typed'
      BY <3>1 DEF IInv, Typed, TypeOK, Parts
    <3>4. Checked' /\ Reported' /\ Times' /\ Memory'
      BY <3>1, <3>2 DEF IInv, Checked, Reported, Times, Memory
    <3>5. Acquired'
      BY <3>1, <3>2 DEF IInv, Acquired
    <3> QED  BY <3>3, <3>4, <3>5 DEF IInv
  <2> QED  BY <2>1, <2>2, <2>3 DEF Next
<1> QED  BY <1>1, <1>2, PTL DEF Spec

-----------------------------------------------------------------------------
(* The theorems.                                                           *)

\* The variables keep their types: the step stays within the program of the
\* adapter, sizes are naturals, and no thread has two logger objects.
THEOREM TypeCorrect == Spec => []TypeOK
<1>1. IInv => TypeOK
  BY DEF IInv, Typed
<1> QED  BY <1>1, Invariance, PTL

\* When sys_init has returned, all its parts are over.
LEMMA AllPast ==
  ASSUME Typed, status = "ok", NEW part, Has(Parts, part)
  PROVE  Past(part)
BY ProgramOf DEF Typed, Has, Past

\* Every adapter but the two of quill reports every setting.
THEOREM ReportIsComplete == Spec => []ReportComplete
<1>1. IInv => ReportComplete
  <2> SUFFICES ASSUME IInv, status = "ok"
               PROVE  \A s \in Settings : report[s] = Unset <=> s = "flush" /\ adapter \in Quill
    BY DEF ReportComplete
  <2>1. Table(adapter, Parts) /\ adapter \in AllAdapters /\ request \in RequestType
    BY ProgramOf DEF IInv, Typed
  <2>2. request.buffer \in Nat \cup {None} /\ request.poll \in Nat \cup {None}
        /\ request.flush \in Nat \cup {None}
    BY <2>1 DEF RequestType
  <2>3. \A n \in Nat : n # Unset
    BY NumbersTyped DEF Unset
  <2>4. CASE adapter = "noop"
    <3>1. Past("Zeros")
      BY <2>1, <2>4, AllPast DEF IInv, Table, Has
    <3> QED  BY <2>3, <2>4, <3>1 DEF IInv, Reported, Settings, Quill
  <2>5. CASE adapter # "noop"
    <3>1. Past("Poll") /\ Past("Flush")
      BY <2>1, <2>5, AllPast DEF IInv, Table
    <3>2. report.poll # Unset
      BY <2>1, <2>2, <2>3, <3>1, DefaultType DEF IInv, Reported, Asked, profile
    <3>3. report.flush = Unset <=> adapter \in Quill
      <4>1. adapter \in Quill => ~Asked("flush")
        <5>1. adapter \in Quill => profile.accepts.flush = {}
          BY DEF Quill, profile, Profile, QuillInit, QuillBoundedInit, Nothing
        <5> QED  BY <3>1, <5>1 DEF IInv, Checked, Honoured
      <4> QED  BY <2>1, <2>2, <2>3, <3>1, <4>1, DefaultType DEF IInv, Reported, Asked, profile
    <3>4. report.buffer # Unset
      <4>1. CASE adapter = "quill-bounded"
        <5>1. Past("FixedBuffer") /\ ~Past("Buffer")
          BY <2>1, <4>1, AllPast DEF IInv, Table, Past
        <5>2. profile.default.buffer \in Nat
          BY <4>1 DEF profile, Profile, QuillBoundedInit, QuillCapacity
        <5> QED  BY <2>3, <5>1, <5>2 DEF IInv, Reported
      <4>2. CASE adapter # "quill-bounded"
        <5>1. Past("Buffer")
          BY <2>1, <2>5, <4>2, AllPast DEF IInv, Table
        <5> QED  BY <2>1, <2>5, <4>2, <5>1, BufferType DEF IInv, Reported, Asked
      <4> QED  BY <4>1, <4>2
    <3> QED  BY <3>2, <3>3, <3>4 DEF Settings
  <2> QED  BY <2>4, <2>5
<1> QED  BY <1>1, Invariance, PTL

\* When sys_init has returned, no part has been left out.
LEMMA Settled ==
  ASSUME IInv, status = "ok"
  PROVE  /\ Table(adapter, Parts) /\ adapter \in AllAdapters /\ request \in RequestType
         /\ \A part : Has(Parts, part) => Past(part)
         /\ WritesFile <=> request.sink # "null"
         /\ request.threads \in Nat /\ request.threads > 0
BY ProgramOf, AllPast DEF IInv, Typed, Reported, WritesFile, Resolve, RequestType

\* Every setting that was asked for and accepted is in force in the library.
THEOREM SettingsInForce == Spec => []InForce
<1>1. IInv => InForce
  <2> SUFFICES ASSUME IInv, status = "ok"
               PROVE  /\ Asked("poll") /\ adapter \notin {"noop", "fstlog-lowl"} =>
                           lib.poll = IF adapter \in Quill THEN Sleep(request.poll)
                                                           ELSE request.poll
                      /\ Asked("flush") /\ adapter \in Fstlog /\ WritesFile =>
                           lib.flush = request.flush
                      /\ adapter = "fstlog-lowl" => lib.poll = 400
    BY DEF InForce
  <2>1. ASSUME Asked("poll"), adapter \notin {"noop", "fstlog-lowl"}
        PROVE  lib.poll = IF adapter \in Quill THEN Sleep(request.poll) ELSE request.poll
    <3>1. CASE adapter \in Quill
      BY <3>1, Settled DEF Table, IInv, Times
    <3>2. CASE adapter \in Fstlog
      <4>1. Past("Poll") /\ adapter \notin Quill
        BY <2>1, <3>2, Settled DEF Table, Fstlog, Quill
      <4> QED  BY <2>1, <3>2, <4>1 DEF IInv, Times
    <3>3. CASE adapter \notin Quill \cup Fstlog
      <4>1. Past("Poll") /\ adapter \in AllAdapters
        BY <2>1, Settled DEF Table
      <4>2. profile.accepts.poll = {}
        BY <2>1, <3>3, <4>1 DEF AllAdapters, Quill, Spdlog, Fstlog, profile, Profile, AbseilInit,
           BoostInit, G3logInit, Log4cxxInit, P7Init, PocoInit, SpdlogInit, SpdlogV2Init, Nothing
      <4> QED  BY <2>1, <4>1, <4>2 DEF IInv, Checked, Honoured
    <3> QED  BY <3>1, <3>2, <3>3
  <2>2. ASSUME Asked("flush"), adapter \in Fstlog, WritesFile  PROVE lib.flush = request.flush
    <3>1. Past("AddSink")
      BY <2>2, Settled DEF Table, Fstlog
    <3> QED  BY <2>2, <3>1 DEF IInv, Times
  <2>3. ASSUME adapter = "fstlog-lowl"  PROVE lib.poll = 400
    BY <2>3, Settled DEF Table, IInv, Times
  <2> QED  BY <2>1, <2>2, <2>3
<1> QED  BY <1>1, Invariance, PTL

\* A sys_init that returned has given the library a sink, and a file if the
\* sink writes one: with boost, p7, quill and spdlog, which are told when the
\* file cannot be opened.
THEOREM SinkLives == Spec => []SinkIsLive
<1>1. IInv => SinkIsLive
  <2> SUFFICES ASSUME IInv, status = "ok", adapter # "noop"
               PROVE  /\ "sink" \in held
                      /\ WritesFile /\ adapter \in Noticing => "file" \in held
                      /\ ~WritesFile /\ adapter \notin Fstlog => "file" \notin held
    BY DEF SinkIsLive
  <2>1. Past("AddSink") \/ Past("Configure") \/ Past("CreateClient")
    BY Settled DEF Table
  <2>2. ASSUME WritesFile, adapter \in Noticing  PROVE "file" \in held
    <3>1. Past("Open") \/ Past("CreateClient")
      BY <2>2, Settled DEF Table, Noticing
    <3> QED  BY <2>2, <3>1 DEF IInv, Acquired
  <2>3. ASSUME ~WritesFile, adapter \notin Fstlog  PROVE "file" \notin held
    <3>1. ~Past("OpenAlways")
      BY <2>3, Settled DEF Table, Past
    <3> QED  BY <2>3, <3>1 DEF IInv, Acquired
  <2> QED  BY <2>1, <2>2, <2>3 DEF IInv, Acquired
<1> QED  BY <1>1, Invariance, PTL

-----------------------------------------------------------------------------
(* The memory of the loggers.                                              *)

LEMMA Arithmetic ==
  /\ \A n \in Nat : n < Word => n % Word = n
  /\ \A n \in Nat : n - 82 * (n \div 82) \in 0 .. 81
  /\ \A m \in Nat, n \in Nat \ {0} : m <= m * n
  /\ \A d \in 0 .. 81, n \in Nat \ {0} : d * n \in 0 .. 82 * n - 1
  /\ \A m, k, n \in Int : (m - k) * n = m * n - k * n
  /\ \A k, n \in Int : 82 * (k * n) = (82 * k) * n
<1>1. \A n \in Nat : n < Word => n % Word = n
  BY NumbersTyped
<1>2. \A n \in Nat : n - 82 * (n \div 82) \in 0 .. 81
  OBVIOUS
<1>3. \A m \in Nat, n \in Nat \ {0} : m <= m * n
  OBVIOUS
<1>4. \A d \in 0 .. 81, n \in Nat \ {0} : d * n \in 0 .. 82 * n - 1
  OBVIOUS
<1>5. \A m, k, n \in Int : (m - k) * n = m * n - k * n
  OBVIOUS
<1>6. \A k, n \in Int : 82 * (k * n) = (82 * k) * n
  OBVIOUS
<1> QED  BY <1>1, <1>2, <1>3, <1>4, <1>5, <1>6

LEMMA SizeOf ==
  ASSUME NEW a, NEW r, r.buffer # None
  PROVE  /\ a \in Fstlog => SizeFor(a, r) = FstlogSize(r.buffer)
         /\ a \in Spdlog => SizeFor(a, r) = SpdlogSize(r.buffer, r.threads)
         /\ a = "log4cxx" => SizeFor(a, r) = Log4cxxSize(r.buffer, r.threads)
<1>1. ASSUME a \in Fstlog  PROVE SizeFor(a, r) = FstlogSize(r.buffer)
  BY <1>1 DEF SizeFor, Fstlog, Spdlog
<1>2. ASSUME a \in Spdlog  PROVE SizeFor(a, r) = SpdlogSize(r.buffer, r.threads)
  BY <1>2 DEF SizeFor, Fstlog, Spdlog
<1>3. ASSUME a = "log4cxx"  PROVE SizeFor(a, r) = Log4cxxSize(r.buffer, r.threads)
  BY <1>3 DEF SizeFor, Fstlog, Spdlog
<1> QED  BY <1>1, <1>2, <1>3

LEMMA FitsIn ==
  /\ Fits /\ adapter = "fstlog-mt" => request.buffer * 1024 * request.threads < Word
  /\ Fits /\ adapter \in OwnBuffer => request.buffer * 1024 < Word
<1>1. Fits /\ adapter = "fstlog-mt" => request.buffer * 1024 * request.threads < Word
  BY DEF Fits, OwnBuffer
<1>2. Fits /\ adapter \in OwnBuffer => request.buffer * 1024 < Word
  BY DEF Fits, OwnBuffer
<1> QED  BY <1>1, <1>2

\* When all loggers are built, the memory they share or own is what out_data
\* says, short of at most one record per thread.
THEOREM MemoryIsAsReported == Spec => []MemoryAsReported
<1>1. IInv => MemoryAsReported
  <2> DEFINE kib == request.buffer
             n == request.threads
             bytes == kib * 1024
             queue == lib.queue
             given == IF queue = None THEN 0 ELSE Bytes(queue)
  <2> SUFFICES ASSUME IInv, status = "ok", built = n, adapter \in Sized, kib > 0, Fits,
                      ~(adapter = "spdlogv2" /\ ~WritesFile)
               PROVE  report.buffer * 1024 * n - given \in 0 .. 82 * n - 1
    BY DEF MemoryAsReported
  <2>1. /\ kib \in Nat /\ n \in Nat \ {0} /\ bytes \in Nat /\ bytes * n \in Nat
        /\ n * 82 \in Nat /\ Asked("buffer")
    BY Settled, Division DEF RequestType, None, Asked
  <2>2. Past("Buffer") /\ report.buffer = kib /\ size = SizeFor(adapter, request)
    <3>1. adapter \notin {"noop", "quill-bounded", "p7"}
      BY DEF Sized, Fstlog, Spdlog
    <3> QED  BY <2>1, <3>1, Settled DEF Table, IInv, Reported, Memory, ToldBuffer
  <2>3. CASE adapter \in Fstlog
    <3>1. size = bytes % Word
      <4>1. size = FstlogSize(kib)
        BY <2>1, <2>2, <2>3, SizeOf DEF Asked
      <4> QED  BY <4>1 DEF FstlogSize
    <3>2. bytes < Word
      <4>1. CASE adapter = "fstlog-mt"
        <5>1. bytes * n < Word
          BY <4>1, FitsIn
        <5>2. bytes <= bytes * n
          BY <2>1, Arithmetic
        <5> HIDE DEF bytes, n
        <5> QED  BY <2>1, <5>1, <5>2, NumbersTyped
      <4>2. CASE adapter # "fstlog-mt"
        BY <2>3, <4>2, FitsIn DEF OwnBuffer
      <4> QED  BY <4>1, <4>2
    <3>3. size = bytes
      BY <2>1, <3>1, <3>2, Arithmetic
    <3>4. queue = bytes * n
      <4>1. CASE adapter = "fstlog-mt"
        <5>1. bytes * n < Word
          BY <4>1, FitsIn
        <5>2. Past("NewBuffer")
          BY <4>1, Settled DEF Table
        <5>3. queue = (bytes * n) % Word
          BY <3>3, <5>2 DEF IInv, Memory
        <5> QED  BY <2>1, <5>1, <5>3, Arithmetic
      <4>2. CASE adapter # "fstlog-mt"
        <5>1. queue = n * size
          BY <2>1, <2>3, <4>2 DEF IInv, Memory, OwnBuffer
        <5> QED  BY <2>1, <3>3, <5>1
      <4> QED  BY <4>1, <4>2
    <3>5. given = bytes * n
      BY <2>1, <2>3, <3>4 DEF Bytes, None
    <3> QED  BY <2>1, <2>2, <3>5
  <2>4. CASE adapter \in Spdlog
    <3>1. queue = (bytes * n) \div 82
      <4>1. size = (bytes * n) \div 82
        BY <2>1, <2>2, <2>4, SizeOf DEF SpdlogSize, Asked
      <4>2. queue = size
        BY <2>4, Settled DEF Table, IInv, Memory, Spdlog
      <4> QED  BY <4>1, <4>2
    <3>2. given = 82 * queue /\ queue \in Nat
      <4>1. queue \in Nat
        BY <2>1, <3>1, Division
      <4> QED  BY <2>4, <4>1 DEF Bytes, None, Fstlog, Spdlog
    <3>3. bytes * n - given \in 0 .. 81
      <4> DEFINE total == bytes * n
      <4>1. total \in Nat /\ queue = total \div 82 /\ given = 82 * queue
        BY <2>1, <3>1, <3>2
      <4> HIDE DEF total, queue, given
      <4>2. total - given \in 0 .. 81
        BY <4>1, Arithmetic
      <4> QED  BY <4>2 DEF total
    <3> QED  BY <2>1, <2>2, <3>2, <3>3
  <2>5. CASE adapter = "log4cxx"
    <3> DEFINE q == bytes \div 82
               rest == bytes - 82 * q
    <3>0. /\ q \in Nat /\ rest \in 0 .. 81 /\ rest = bytes - 82 * q
          /\ bytes \in Nat /\ bytes >= 1024
      <4>1. bytes \in Nat /\ bytes >= 1024 /\ q = bytes \div 82 /\ rest = bytes - 82 * q
        BY <2>1
      <4> HIDE DEF bytes, q, rest
      <4> QED  BY <4>1, Division, Arithmetic
    <3>1. q \in Nat /\ q # 0
      <4> HIDE DEF q, rest, bytes
      <4> QED  BY <3>0
    <3>2. size = q * n
      BY <2>1, <2>2, <2>5, SizeOf DEF Log4cxxSize, Asked
    <3>3. size \in Nat /\ size # 0
      <4> HIDE DEF q, n
      <4> QED  BY <2>1, <3>1, <3>2
    <3>4. queue = size
      BY <2>5, <3>3, Settled DEF Table, IInv, Memory
    <3>5. given = (82 * q) * n
      <4>1. given = 82 * size
        BY <2>5, <3>3, <3>4 DEF Bytes, None, Fstlog
      <4> HIDE DEF q, n, given
      <4> QED  BY <2>1, <3>1, <3>2, <4>1, Arithmetic
    <3>6. bytes * n - given = rest * n
      <4> HIDE DEF q, n, given, rest, bytes
      <4> QED  BY <2>1, <3>0, <3>1, <3>5, Arithmetic
    <3>7. bytes * n - given \in 0 .. 82 * n - 1
      <4> HIDE DEF q, n, given, rest, bytes
      <4> QED  BY <2>1, <3>0, <3>6, Arithmetic
    <3> QED  BY <2>2, <3>7 DEF bytes
  <2> QED  BY <2>3, <2>4, <2>5 DEF Sized
<1> QED  BY <1>1, Invariance, PTL

-----------------------------------------------------------------------------
(* The contract.                                                           *)

\* The parts of an adapter that can throw: of the checks, fstlog's can only
\* refuse the formatter, since it accepts every setting and every sink that
\* the harness can ask for.
Throwing(a) == IF a \in Fstlog THEN {"Format"} ELSE Checks \cup Fallible

\* What the parts before one that can throw leave behind.  ShareClient gives
\* back what CreateClient has acquired.
Leaves(a, program) ==
  \A i, j \in 1 .. Len(program) :
    i < j /\ program[j] \in Throwing(a) =>
      /\ program[i] \notin {"Initialize", "SelfSink", "Configure", "OpenAlways", "ShareClient"}
      /\ program[i] = "CreateClient" => program[j] = "ShareClient"
      /\ program[i] = "NewBuffer" => "buffer" \in Residue(a)
      /\ program[i] = "StartPool" => "pool" \in Residue(a)
      /\ program[i] \in {"Open", "OpenUnchecked"} => "file" \in Residue(a)
      /\ program[i] = "AddSink" => "sink" \in Residue(a)
      /\ program[i] = "StartBackend" => "backend" \in Residue(a)
      /\ program[i] = "CreateConfig" => "config" \in Residue(a)
      /\ program[i] = "CrashHandler" => "handler" \in Residue(a)

LEMMA Leavings == \A a \in AllAdapters : Leaves(a, Profile(a).program)
<1> USE DEF Leaves, Throwing, Residue, Checks, Fallible, Quill, Spdlog, Fstlog
<1>1. Leaves("noop", Profile("noop").program)
  <2>1. Leaves("noop", NoopInit.program)
    BY DEF NoopInit
  <2> QED  BY <2>1 DEF Profile
<1>2. Leaves("abseil", Profile("abseil").program)
  <2>1. Leaves("abseil", AbseilInit.program)
    BY DEF AbseilInit
  <2> QED  BY <2>1 DEF Profile
<1>3. Leaves("boost", Profile("boost").program)
  <2>1. Leaves("boost", BoostInit.program)
    BY DEF BoostInit
  <2> QED  BY <2>1 DEF Profile
<1>4. Leaves("g3log", Profile("g3log").program)
  <2>1. Leaves("g3log", G3logInit.program)
    BY DEF G3logInit
  <2> QED  BY <2>1 DEF Profile
<1>5. Leaves("log4cxx", Profile("log4cxx").program)
  <2>1. Leaves("log4cxx", Log4cxxInit.program)
    BY DEF Log4cxxInit
  <2> QED  BY <2>1 DEF Profile
<1>6. Leaves("p7", Profile("p7").program)
  <2>1. Leaves("p7", P7Init.program)
    BY DEF P7Init
  <2> QED  BY <2>1 DEF Profile
<1>7. Leaves("poco", Profile("poco").program)
  <2>1. Leaves("poco", PocoInit.program)
    BY DEF PocoInit
  <2> QED  BY <2>1 DEF Profile
<1>8. Leaves("quill", Profile("quill").program)
  <2>1. Leaves("quill", QuillInit.program)
    BY DEF QuillInit
  <2> QED  BY <2>1 DEF Profile
<1>9. Leaves("quill-bounded", Profile("quill-bounded").program)
  <2>1. Leaves("quill-bounded", QuillBoundedInit.program)
    BY DEF QuillBoundedInit
  <2> QED  BY <2>1 DEF Profile
<1>10. Leaves("spdlog", Profile("spdlog").program)
  <2>1. Leaves("spdlog", SpdlogInit.program)
    BY DEF SpdlogInit
  <2> QED  BY <2>1 DEF Profile
<1>11. Leaves("spdlogv2", Profile("spdlogv2").program)
  <2>1. Leaves("spdlogv2", SpdlogV2Init.program)
    BY DEF SpdlogV2Init
  <2> QED  BY <2>1 DEF Profile
<1>12. Leaves("fstlog-st", Profile("fstlog-st").program)
  <2>1. Leaves("fstlog-st", FstlogStInit.program)
    BY DEF FstlogStInit
  <2> QED  BY <2>1 DEF Profile
<1>13. Leaves("fstlog-stfix", Profile("fstlog-stfix").program)
  <2>1. Leaves("fstlog-stfix", FstlogStfixInit.program)
    BY DEF FstlogStfixInit, FstlogStInit
  <2> QED  BY <2>1 DEF Profile
<1>14. Leaves("fstlog-fast", Profile("fstlog-fast").program)
  <2>1. Leaves("fstlog-fast", FstlogFastInit.program)
    BY DEF FstlogFastInit, FstlogStInit
  <2> QED  BY <2>1 DEF Profile
<1>15. Leaves("fstlog-lowl", Profile("fstlog-lowl").program)
  <2>1. Leaves("fstlog-lowl", FstlogLowlInit.program)
    BY DEF FstlogLowlInit, FstlogStInit
  <2> QED  BY <2>1 DEF Profile
<1>16. Leaves("fstlog-mt", Profile("fstlog-mt").program)
  <2>1. Leaves("fstlog-mt", FstlogMtInit.program)
    BY DEF FstlogMtInit, FstlogStInit
  <2> QED  BY <2>1 DEF Profile
<1>17. Leaves("fstlog-tloc", Profile("fstlog-tloc").program)
  <2>1. Leaves("fstlog-tloc", FstlogTlocInit.program)
    BY DEF FstlogTlocInit, FstlogStInit
  <2> QED  BY <2>1 DEF Profile
<1> HIDE DEF Leaves
<1> QED
  BY <1>1, <1>2, <1>3, <1>4, <1>5, <1>6, <1>7, <1>8, <1>9,
     <1>10, <1>11, <1>12, <1>13, <1>14, <1>15, <1>16, <1>17
     DEF AllAdapters

\* What the adapters accept that have no check of their own for it.
LEMMA AcceptsAll ==
  /\ \A a \in Fstlog : /\ \A s \in Settings : Profile(a).accepts[s] = Nat
                       /\ Profile(a).sinks = {"sort", "unsort", "null"}
  /\ Profile("quill-bounded").accepts.buffer = Nat
  /\ \A s \in Settings : Profile("noop").accepts[s] = Nat
  /\ Profile("noop").formats = {"txt", "bin"}
  /\ Profile("noop").sinks = {"lib", "sort", "unsort", "null"}
  /\ \A a \in {"boost"} \cup Quill \cup Spdlog : Profile(a).sinks = {"sort", "null"}
<1>1. \A a \in Fstlog : /\ \A s \in Settings : Profile(a).accepts[s] = Nat
                        /\ Profile(a).sinks = {"sort", "unsort", "null"}
  BY DEF Settings, Fstlog, Profile, FstlogStInit, FstlogStfixInit, FstlogFastInit,
     FstlogLowlInit, FstlogMtInit, FstlogTlocInit, All
<1>2. Profile("quill-bounded").accepts.buffer = Nat
  BY DEF Profile, QuillBoundedInit, All
<1>3. /\ \A s \in Settings : Profile("noop").accepts[s] = Nat
      /\ Profile("noop").formats = {"txt", "bin"}
      /\ Profile("noop").sinks = {"lib", "sort", "unsort", "null"}
  BY DEF Settings, Profile, NoopInit, All
<1>4. \A a \in {"boost"} \cup Quill \cup Spdlog : Profile(a).sinks = {"sort", "null"}
  BY DEF Profile, Quill, Spdlog, BoostInit, QuillInit, QuillBoundedInit, SpdlogInit, SpdlogV2Init
<1> QED  BY <1>1, <1>2, <1>3, <1>4

\* A request that has passed every check of the adapter is acceptable.
LEMMA Passed ==
  ASSUME IInv,
         adapter # "noop" => /\ Past("Poll") /\ Past("Flush") /\ Past("Format") /\ Past("Sink")
                             /\ adapter = "quill-bounded" \/ Past("Buffer")
  PROVE  Acceptable(adapter, request)
<1>1. adapter \in AllAdapters /\ request \in RequestType
  BY ProgramOf DEF IInv, Typed
<1>2. CASE adapter = "noop"
  BY <1>1, <1>2, AcceptsAll DEF Acceptable, RequestType, Settings
<1>3. CASE adapter # "noop"
  <2>1. \A s \in Settings : request[s] = None \/ request[s] \in Profile(adapter).accepts[s]
    BY <1>1, <1>3, AcceptsAll
       DEF Settings, IInv, Checked, Asked, Honoured, profile, RequestType
  <2> QED  BY <1>3, <2>1 DEF Acceptable, IInv, Checked, profile
<1> QED  BY <1>2, <1>3

\* One that has passed all but the check of the flush interval would be,
\* had it not asked for one.
LEMMA PassedButFlush ==
  ASSUME IInv, adapter \in Spdlog, \A part \in Checks \ {"Flush"} : Past(part)
  PROVE  Acceptable(adapter, [request EXCEPT !.flush = None])
<1> DEFINE r == [request EXCEPT !.flush = None]
<1>1. adapter \in AllAdapters /\ request \in RequestType
  BY ProgramOf DEF IInv, Typed
<1>2. /\ r.buffer = request.buffer /\ r.poll = request.poll /\ r.flush = None
      /\ r.format = request.format /\ r.sink = request.sink
  BY <1>1 DEF RequestType
<1>3. adapter \notin {"noop", "quill-bounded"}
  BY DEF Spdlog
<1>4. \A s \in Settings : r[s] = None \/ r[s] \in Profile(adapter).accepts[s]
  BY <1>2, <1>3 DEF Settings, IInv, Checked, Asked, Honoured, profile, Checks
<1>5. /\ request.format \in Profile(adapter).formats
      /\ Resolve(request.sink) \in Profile(adapter).sinks
  BY <1>3 DEF IInv, Checked, profile, Checks
<1> HIDE DEF r
<1> QED  BY <1>2, <1>3, <1>4, <1>5 DEF Acceptable, r

\* A sys_init that has returned has answered as the contract says.
LEMMA Answered ==
  ASSUME IInv, status = "ok"
  PROVE  Acceptable(adapter, request) /\ report = Answer(adapter, request)
<1> DEFINE answer == Answer(adapter, request)
<1>1. /\ adapter = "noop" => Past("Zeros")
      /\ adapter = "quill-bounded" => Past("FixedBuffer")
      /\ adapter \notin {"noop", "quill-bounded"} => Past("Buffer")
      /\ adapter # "noop" => Past("Poll") /\ Past("Flush") /\ Past("Format") /\ Past("Sink")
  <2>1. /\ adapter = "noop" => Len(Parts) = 1 /\ Parts[1] = "Zeros"
        /\ adapter = "quill-bounded" => Has(Parts, "FixedBuffer")
        /\ adapter \notin {"noop", "quill-bounded"} => Has(Parts, "Buffer")
        /\ adapter # "noop" => \A part \in {"Poll", "Flush", "Format", "Sink"} : Has(Parts, part)
    BY Settled DEF Table
  <2>2. \A part : Has(Parts, part) => Past(part)
    BY Settled DEF Has
  <2>3. adapter = "noop" => Has(Parts, "Zeros")
    BY <2>1 DEF Has
  <2> QED  BY <2>1, <2>2, <2>3
<1>2. Acceptable(adapter, request)
  BY <1>1, Passed
<1>3. report = [buffer |-> report.buffer, poll |-> report.poll, flush |-> report.flush,
                sink |-> report.sink]
  BY DEF IInv, Typed, TypeOK
<1>4. ASSUME adapter = "noop"
      PROVE  /\ answer.buffer = report.buffer /\ answer.poll = report.poll
             /\ answer.flush = report.flush /\ answer.sink = report.sink
  <2>1. /\ Profile("noop").default.buffer = 0 /\ Profile("noop").default.poll = 0
        /\ Profile("noop").default.flush = 0
    BY DEF Profile, NoopInit
  <2>2. ~Past("Sink")
    <3>1. Len(Parts) = 1 /\ Parts[1] = "Zeros"
      BY <1>4, Settled DEF Table
    <3> QED  BY <3>1 DEF Past
  <2>3. /\ report.buffer = 0 /\ report.poll = 0 /\ report.flush = 0
        /\ report.sink = request.sink
    BY <1>1, <1>4, <2>2 DEF IInv, Reported
  <2>4. /\ answer.buffer = 0 /\ answer.poll = 0 /\ answer.flush = 0
        /\ answer.sink = request.sink
    BY <1>4, <2>1 DEF Answer
  <2> HIDE DEF answer
  <2> QED  BY <2>3, <2>4
<1>5. ASSUME adapter # "noop"
      PROVE  /\ answer.buffer = report.buffer /\ answer.poll = report.poll
             /\ answer.flush = report.flush /\ answer.sink = report.sink
  <2>1. report.buffer = answer.buffer
    <3>1. CASE adapter = "quill-bounded"
      BY <1>1, <3>1 DEF IInv, Reported, Answer, profile
    <3>2. CASE adapter # "quill-bounded"
      <4>1. report.buffer = IF request.buffer # None THEN ToldBuffer(adapter, request)
                                                     ELSE DefaultBuffer(adapter, request)
        BY <1>1, <1>5, <3>2 DEF IInv, Reported, Asked
      <4> QED  BY <1>5, <3>2, <4>1 DEF Answer
    <3> QED  BY <3>1, <3>2
  <2>2. report.poll = answer.poll
    BY <1>1, <1>5 DEF IInv, Reported, Answer, profile, Asked
  <2>3. report.flush = answer.flush
    BY <1>1, <1>5 DEF IInv, Reported, Answer, profile, Asked
  <2>4. report.sink = answer.sink
    BY <1>1, <1>5 DEF IInv, Reported, Answer
  <2> QED  BY <2>1, <2>2, <2>3, <2>4
<1>6. report = answer
  <2>1. /\ answer.buffer = report.buffer /\ answer.poll = report.poll
        /\ answer.flush = report.flush /\ answer.sink = report.sink
    <3> HIDE DEF answer
    <3> QED  BY <1>4, <1>5
  <2>2. answer = [buffer |-> answer.buffer, poll |-> answer.poll, flush |-> answer.flush,
                  sink |-> answer.sink]
    BY DEF Answer
  <2> HIDE DEF answer
  <2> QED  BY <1>3, <2>1, <2>2
<1> QED  BY <1>2, <1>6

\* Which part throws, and for which reason.
LEMMA Thrown ==
  ASSUME IInv, SysInitStep, ~Returns
  PROVE  /\ Parts[step] \in Throwing(adapter)
         /\ \/ status' = "refused" /\ ~Acceptable(adapter, request)
            \/ status' = "failed" /\ Parts[step] \in Fallible
         /\ Parts[step] = "Open" => WritesFile
         /\ Parts[step] = "ShareClient" => held' \cap {"client", "sink", "file"} = {}
<1> DEFINE Explained ==
      /\ Parts[step] \in Throwing(adapter)
      /\ \/ status' = "refused" /\ ~Acceptable(adapter, request)
         \/ status' = "failed" /\ Parts[step] \in Fallible
      /\ Parts[step] = "Open" => WritesFile
      /\ Parts[step] = "ShareClient" => held' \cap {"client", "sink", "file"} = {}
<1>1. /\ Table(adapter, Parts) /\ adapter \in AllAdapters /\ request \in RequestType
      /\ step \in 1 .. Len(Parts) /\ Len(Parts) \in Nat
  BY ProgramOf, Progress DEF IInv, Typed
<1>2. ~Done
  BY DEF Done, Returns
<1>3. adapter = "noop" => Parts[step] = "Zeros"
  <2>1. adapter = "noop" => Len(Parts) = 1 /\ Parts[1] = "Zeros"
    BY <1>1 DEF Table
  <2>2. Len(Parts) = 1 => step = 1
    BY <1>1
  <2> QED  BY <2>1, <2>2
<1>4. Parts[step] \in Fallible => adapter \notin Fstlog
  <2>1. Parts[step] \in Fallible => adapter \in {"boost", "log4cxx", "p7"} \cup Quill \cup Spdlog
    BY <1>1 DEF Table, Fallible
  <2> QED  BY <2>1 DEF Fstlog, Quill, Spdlog
<1>5. CASE RefuseSetting
  <2>1. PICK s \in Settings :
          /\ At(CASE s = "buffer" -> "Buffer" [] s = "poll" -> "Poll" [] s = "flush" -> "Flush")
          /\ Asked(s) /\ ~Honoured(s)
    BY <1>5 DEF RefuseSetting
  <2>2. Parts[step] \in {"Buffer", "Poll", "Flush"} /\ status' = "refused"
    BY <1>5, <2>1 DEF RefuseSetting, At, Refuse, Stop, Settings, Parts
  <2>3. ~Acceptable(adapter, request)
    BY <2>1 DEF Acceptable, Asked, Honoured, profile
  <2>4. adapter \notin Fstlog
    BY <1>1, <2>1, AcceptsAll DEF Asked, Honoured, profile, Settings, RequestType
  <2> QED  BY <2>2, <2>3, <2>4 DEF Throwing, Checks
<1>6. CASE Format
  <2>1. Parts[step] = "Format" /\ request.format \notin profile.formats /\ status' = "refused"
    BY <1>2, <1>6 DEF Format, At, Refuse, Stop, Parts
  <2> QED  BY <2>1 DEF Throwing, Checks, Acceptable, profile
<1>7. CASE Sink
  <2>1. /\ Parts[step] = "Sink" /\ Resolve(request.sink) \notin profile.sinks
        /\ status' = "refused"
    BY <1>2, <1>7 DEF Sink, At, Refuse, Stop, Parts
  <2>2. adapter \notin Fstlog
    BY <1>1, <2>1, AcceptsAll DEF profile, RequestType, Resolve
  <2>3. adapter # "noop"
    BY <1>3, <2>1
  <2> QED  BY <2>1, <2>2, <2>3 DEF Throwing, Checks, Acceptable, profile
<1>8. CASE Open
  <2>1. Parts[step] = "Open" /\ WritesFile /\ status' = "failed"
    BY <1>2, <1>8 DEF Open, At, Stop, Parts
  <2> QED  BY <1>4, <2>1 DEF Throwing, Fallible
<1>9. CASE CreateConfig
  <2>1. Parts[step] = "CreateConfig" /\ status' = "failed"
    BY <1>2, <1>9 DEF CreateConfig, At, Stop, Parts
  <2> QED  BY <1>4, <2>1 DEF Throwing, Fallible
<1>10. CASE CloseConfig
  <2>1. Parts[step] = "CloseConfig" /\ status' = "failed"
    BY <1>2, <1>10 DEF CloseConfig, At, Stop, Parts
  <2> QED  BY <1>4, <2>1 DEF Throwing, Fallible
<1>11. CASE Configure
  <2>1. Parts[step] = "Configure" /\ status' = "failed"
    BY <1>2, <1>11 DEF Configure, At, Stop, Parts
  <2> QED  BY <1>4, <2>1 DEF Throwing, Fallible
<1>12. CASE CreateClient
  <2>1. Parts[step] = "CreateClient" /\ status' = "failed"
    BY <1>2, <1>12 DEF CreateClient, At, Stop, Parts
  <2> QED  BY <1>4, <2>1 DEF Throwing, Fallible
<1>13. CASE ShareClient
  <2>1. /\ Parts[step] = "ShareClient" /\ status' = "failed"
        /\ held' = held \ {"client", "sink", "file"}
    BY <1>2, <1>13 DEF ShareClient, At, Stop, Parts
  <2> QED  BY <1>4, <2>1 DEF Throwing, Fallible
<1>14. ~(Zeros \/ FixedBuffer \/ Buffer \/ NewBuffer \/ StartPool \/ Poll \/ Flush)
  BY <1>2 DEF Zeros, FixedBuffer, Buffer, NewBuffer, StartPool, Poll, Flush
<1>15. ~(OpenAlways \/ OpenUnchecked \/ Initialize \/ AddSink \/ SelfSink
           \/ PollEvery400 \/ StartBackend \/ CrashHandler)
  BY <1>2 DEF OpenAlways, OpenUnchecked, Initialize, AddSink, SelfSink, PollEvery400,
     StartBackend, CrashHandler
<1> QED
  BY <1>5, <1>6, <1>7, <1>8, <1>9, <1>10, <1>11, <1>12, <1>13, <1>14, <1>15 DEF SysInitStep

\* What a call that throws leaves behind.
LEMMA Left ==
  ASSUME IInv, SysInitStep, ~Returns
  PROVE  held' \subseteq Residue(adapter)
<1> SUFFICES ASSUME NEW x, x \in held'  PROVE x \in Residue(adapter)
  OBVIOUS
<1>1. x \in held /\ x \in Things /\ adapter \in AllAdapters
  BY Progress, ProgramOf DEF IInv, Typed, TypeOK, Returns
<1>2. step \in 1 .. Len(Parts) /\ Len(Parts) \in Nat
  BY ProgramOf, Progress DEF IInv, Typed
<1>3. /\ Parts[step] \in Throwing(adapter)
      /\ Parts[step] = "ShareClient" => x \notin {"client", "sink", "file"}
  BY Thrown
<1>4. Leaves(adapter, Parts)
  BY <1>1, Leavings DEF Parts, profile
<1>5. /\ \A part \in {"Initialize", "SelfSink", "Configure", "OpenAlways", "ShareClient"} :
           ~Past(part)
      /\ Past("CreateClient") => Parts[step] = "ShareClient"
      /\ Past("NewBuffer") => "buffer" \in Residue(adapter)
      /\ Past("StartPool") => "pool" \in Residue(adapter)
      /\ Past("Open") \/ Past("OpenUnchecked") => "file" \in Residue(adapter)
      /\ Past("AddSink") => "sink" \in Residue(adapter)
      /\ Past("StartBackend") => "backend" \in Residue(adapter)
      /\ Past("CreateConfig") => "config" \in Residue(adapter)
      /\ Past("CrashHandler") => "handler" \in Residue(adapter)
  BY <1>2, <1>3, <1>4 DEF Leaves, Past
<1>6. adapter \in Fstlog => "poll" \in Residue(adapter)
  BY DEF Residue, Fstlog, Quill
<1> QED  BY <1>1, <1>3, <1>5, <1>6 DEF Things, IInv, Acquired

\* An open that throws was to open the file of the sorting sink.
LEMMA Sorting ==
  ASSUME IInv, SysInitStep, ~Returns, Parts[step] \in Fallible, Past("Sink"),
         adapter \in {"boost"} \cup Quill \cup Spdlog
  PROVE  Resolve(request.sink) = "sort"
<1>1. /\ Table(adapter, Parts) /\ adapter \in AllAdapters
      /\ step \in 1 .. Len(Parts) /\ Len(Parts) \in Nat
  BY ProgramOf, Progress DEF IInv, Typed
<1>2. Parts[step] = "Open"
  BY <1>1 DEF Table, Fallible, Quill, Spdlog
<1>3. Resolve(request.sink) # "null" /\ adapter # "noop"
  BY <1>2, Thrown DEF WritesFile, IInv, Reported, Quill, Spdlog
<1>4. Resolve(request.sink) \in Profile(adapter).sinks
  BY <1>3 DEF IInv, Checked, profile
<1> QED  BY <1>3, <1>4, AcceptsAll

\* A part that depends on the environment comes when the request has passed
\* every check, but for spdlog's of the flush interval.
LEMMA Failed ==
  ASSUME IInv, SysInitStep, ~Returns, Parts[step] \in Fallible
  PROVE  EnvironmentMayFail(adapter, request)
<1>1. /\ Table(adapter, Parts) /\ adapter \in AllAdapters /\ request \in RequestType
      /\ step \in 1 .. Len(Parts) /\ Len(Parts) \in Nat
  BY ProgramOf, Progress DEF IInv, Typed
<1>2. adapter \in {"boost", "log4cxx", "p7"} \cup Quill \cup Spdlog
  BY <1>1 DEF Table, Fallible
<1>3. \A part \in Checks : (part = "Buffer" /\ adapter = "quill-bounded") \/ Has(Parts, part)
  BY <1>1, <1>2 DEF Table, Checks, Quill, Spdlog
<1>4. ASSUME NEW part \in Checks, ~(part = "Flush" /\ adapter \in Spdlog),
             ~(part = "Buffer" /\ adapter = "quill-bounded")
      PROVE  Past(part)
  <2>1. Before(Parts, IF adapter \in Spdlog THEN Checks \ {"Flush"} ELSE Checks, Fallible)
    BY <1>1 DEF Table
  <2>2. PICK i \in 1 .. Len(Parts) : Parts[i] = part
    BY <1>3, <1>4 DEF Has
  <2>3. i < step
    BY <1>1, <1>4, <2>1, <2>2 DEF Before
  <2> QED  BY <2>2, <2>3 DEF Past
<1>5. CASE adapter \in Spdlog
  <2>1. Acceptable(adapter, [request EXCEPT !.flush = None])
    BY <1>4, <1>5, PassedButFlush DEF Spdlog, Checks
  <2>2. Resolve(request.sink) = "sort"
    BY <1>1, <1>4, <1>5, Sorting DEF Spdlog, Checks
  <2> QED  BY <1>5, <2>1, <2>2 DEF EnvironmentMayFail
<1>6. CASE adapter \notin Spdlog
  <2>1. Acceptable(adapter, request)
    BY <1>4, <1>6, Passed DEF Checks
  <2>2. CASE adapter \in {"log4cxx", "p7"}
    BY <2>1, <2>2 DEF EnvironmentMayFail
  <2>3. CASE adapter \in {"boost"} \cup Quill
    <3>1. Resolve(request.sink) = "sort"
      BY <1>1, <1>4, <2>3, Sorting DEF Quill, Spdlog, Checks
    <3> QED  BY <2>1, <2>3, <3>1 DEF EnvironmentMayFail
  <2> QED  BY <1>2, <1>6, <2>2, <2>3
<1> QED  BY <1>5, <1>6

\* sys_init implements InitContract: with any adapter and any request, a call
\* returns only if the request is acceptable, and then with the report of the
\* contract; it refuses exactly the requests that are not, unless the system
\* fails the adapter first, which it can only do where the contract says; and
\* a call that throws leaves no more than the named residue.
THEOREM Refinement == Spec => ImplementsContract
<1>1. Init => Contract!Init
  BY DEF Init, Contract!Init, Contract!NoReport
<1>2. IInv => (status = "ok" =>
                 Acceptable(adapter, request) /\ report = Answer(adapter, request))
  BY Answered
<1>3. IInv /\ [Next]_vars
        /\ (status = "ok" =>
              Acceptable(adapter, request) /\ report = Answer(adapter, request))'
        => [Contract!Next]_(Contract!vars)
  <2> SUFFICES ASSUME IInv, [Next]_vars,
                      (status = "ok" =>
                         Acceptable(adapter, request) /\ report = Answer(adapter, request))'
               PROVE  Contract!Next \/ UNCHANGED Contract!vars
    OBVIOUS
  <2>1. CASE BuildLogger \/ UNCHANGED vars
    <3>1. UNCHANGED <<adapter, request, status, report, held>>
      BY <2>1 DEF BuildLogger, vars
    <3> QED  BY <3>1 DEF Contract!vars
  <2>2. CASE SysInitStep
    <3>1. status = "running" /\ UNCHANGED <<adapter, request>>
      BY <2>2, Progress DEF IInv
    <3>2. CASE Returns
      <4>1. CASE status' = "running"
        BY <3>1, <4>1 DEF Contract!vars
      <4>2. CASE status' = "ok"
        <5>1. Acceptable(adapter, request) /\ report' = Answer(adapter, request)
          BY <3>1, <4>2
        <5> QED  BY <3>1, <4>2, <5>1 DEF Contract!Next, Contract!Accept
      <4> QED  BY <3>2, <4>1, <4>2 DEF Returns
    <3>3. CASE ~Returns
      <4>1. held' \subseteq Residue(adapter)
        BY <2>2, <3>3, Left
      <4>2. CASE status' = "refused"
        <5>1. ~Acceptable(adapter, request)
          BY <2>2, <3>3, <4>2, Thrown
        <5> QED  BY <3>1, <4>1, <4>2, <5>1 DEF Contract!Next, Contract!Refuse
      <4>3. CASE status' = "failed"
        <5>1. EnvironmentMayFail(adapter, request)
          BY <2>2, <3>3, <4>3, Thrown, Failed
        <5> QED  BY <3>1, <4>1, <4>3, <5>1 DEF Contract!Next, Contract!Fail
      <4> QED  BY <2>2, <3>3, <4>2, <4>3, Thrown
    <3> QED  BY <3>2, <3>3
  <2> QED  BY <2>1, <2>2 DEF Next
<1> QED  BY <1>1, <1>2, <1>3, Invariance, PTL DEF Spec, ImplementsContract, Contract!Spec

=============================================================================
