---------------------------- MODULE LevelsProofs ----------------------------
(***************************************************************************)
(* Proofs about Levels, for every set of adapters and any number of lines. *)
(*                                                                         *)
(* What the adapters decide is a finite table: the levels of the macros,   *)
(* their ranks on the scale of the library, and the threshold.  The lemmas *)
(* go through it once.  The invariant says that a line of a file is the    *)
(* call it was made by, at the level of that call's macro, and that no     *)
(* call that has to be in a file is missing.                               *)
(***************************************************************************)
EXTENDS Levels, SequenceTheorems, TLAPS

-----------------------------------------------------------------------------
(* The table of the adapters.                                              *)

\* A level that is on the scale once has its place there as its rank.
LEMMA RankIs ==
  ASSUME NEW i \in DOMAIN Scale, NEW level, Scale[i] = level,
         \A j \in DOMAIN Scale : Scale[j] = level => j = i
  PROVE  Rank(level) = i
BY DEF Rank

\* abseil and g3log have four levels for the six macros.
LEMMA AbseilRanks ==
  ASSUME adapter = "abseil"
  PROVE  /\ Rank("INFO") = 1 /\ Rank("WARNING") = 2 /\ Rank("ERROR") = 3 /\ Rank("FATAL") = 4
         /\ Macros = AbseilMacros /\ Threshold = "INFO"
<1>1. Scale = AbseilLevels
  BY DEF Scale, FstlogAdapters
<1>2. DOMAIN Scale = 1 .. 4
  BY <1>1 DEF AbseilLevels
<1>3. Macros = AbseilMacros /\ Threshold = "INFO"
  BY DEF Macros, Threshold, AbseilThreshold, FstlogAdapters
<1> QED
  BY <1>1, <1>2, <1>3, RankIs DEF AbseilLevels

LEMMA G3logRanks ==
  ASSUME adapter = "g3log"
  PROVE  /\ Rank("DEBUG") = 1 /\ Rank("INFO") = 2 /\ Rank("WARNING") = 3 /\ Rank("FATAL") = 4
         /\ Macros = G3logMacros /\ Threshold = "DEBUG"
<1>1. Scale = G3logLevels
  BY DEF Scale, FstlogAdapters
<1>2. DOMAIN Scale = 1 .. 4
  BY <1>1 DEF G3logLevels
<1>3. Macros = G3logMacros /\ Threshold = "DEBUG"
  BY <1>1 DEF Macros, Threshold, DefaultThreshold, FstlogAdapters, G3logLevels
<1> QED
  BY <1>1, <1>2, <1>3, RankIs DEF G3logLevels

\* poco and quill have levels that no macro uses.
LEMMA PocoRanks ==
  ASSUME adapter = "poco"
  PROVE  /\ Rank("trace") = 1 /\ Rank("debug") = 2 /\ Rank("information") = 3
         /\ Rank("warning") = 5 /\ Rank("error") = 6 /\ Rank("fatal") = 8
         /\ Macros = PocoMacros /\ Threshold = "information"
<1>1. Scale = PocoLevels
  BY DEF Scale, FstlogAdapters
<1>2. DOMAIN Scale = 1 .. 8
  BY <1>1 DEF PocoLevels
<1>3. Macros = PocoMacros /\ Threshold = "information"
  BY DEF Macros, Threshold, DefaultThreshold, FstlogAdapters
<1> QED
  BY <1>1, <1>2, <1>3, RankIs DEF PocoLevels

LEMMA QuillRanks ==
  ASSUME adapter \in {"quill", "quill-bounded"}
  PROVE  /\ Rank("TRACE_L1") = 3 /\ Rank("DEBUG") = 4 /\ Rank("INFO") = 5
         /\ Rank("WARNING") = 7 /\ Rank("ERROR") = 8 /\ Rank("CRITICAL") = 9
         /\ Macros = QuillMacros /\ Threshold = "INFO"
<1>1. Scale = QuillLevels
  BY DEF Scale, FstlogAdapters
<1>2. DOMAIN Scale = 1 .. 9
  BY <1>1 DEF QuillLevels
<1>3. Macros = QuillMacros /\ Threshold = "INFO"
  BY DEF Macros, QuillBoundedMacros, Threshold, DefaultThreshold, FstlogAdapters
<1> QED
  BY <1>1, <1>2, <1>3, RankIs DEF QuillLevels

\* The libraries with six levels: each macro has the level of its place.
SixLevels == {"boost", "log4cxx", "p7", "spdlog", "spdlogv2"} \cup FstlogAdapters

LEMMA SixRanks ==
  ASSUME adapter \in SixLevels
  PROVE  /\ \A s \in Severities : Rank(Macros[s]) = s
         /\ Rank(Threshold) \in {1, 3}
<1>1. /\ Macros = Scale
      /\ Scale \in {BoostMacros, Log4cxxMacros, P7Macros, SpdlogMacros, FstlogStMacros}
  <2>1. /\ BoostMacros = BoostLevels /\ Log4cxxMacros = Log4cxxLevels /\ P7Macros = P7Levels
        /\ SpdlogMacros = SpdlogLevels /\ SpdlogV2Macros = SpdlogMacros
        /\ FstlogStMacros = FstlogLevels
        /\ \A M \in {FstlogStfixMacros, FstlogFastMacros, FstlogLowlMacros, FstlogMtMacros,
                    FstlogTlocMacros} : M = FstlogStMacros
    BY DEF BoostMacros, Log4cxxMacros, P7Macros, SpdlogMacros, SpdlogV2Macros, FstlogStMacros,
       FstlogStfixMacros, FstlogFastMacros, FstlogLowlMacros, FstlogMtMacros, FstlogTlocMacros,
       BoostLevels, Log4cxxLevels, P7Levels, SpdlogLevels, FstlogLevels
  <2> QED
    BY <2>1 DEF SixLevels, Macros, Scale, FstlogAdapters
<1>2. /\ DOMAIN Scale = Severities
      /\ \A i, j \in Severities : Scale[i] = Scale[j] => i = j
  BY <1>1 DEF Severities, BoostMacros, Log4cxxMacros, P7Macros, SpdlogMacros, FstlogStMacros
<1>3. \A s \in Severities : Rank(Scale[s]) = s
  BY <1>2, RankIs
<1>4. Threshold \in {Scale[1], Scale[3]}
  <2>1. CASE adapter \in FstlogAdapters
    BY <2>1 DEF Threshold, FstlogThreshold, Scale, FstlogAdapters, FstlogLevels
  <2>2. CASE adapter \in {"boost", "log4cxx", "p7"}
    BY <2>2 DEF Threshold, Log4cxxThreshold, DefaultThreshold, Scale, FstlogAdapters,
       Log4cxxLevels
  <2>3. CASE adapter \in {"spdlog", "spdlogv2"}
    BY <2>3 DEF Threshold, DefaultThreshold, Scale, FstlogAdapters, SpdlogLevels
  <2> QED
    BY <2>1, <2>2, <2>3 DEF SixLevels
<1> QED
  BY <1>1, <1>3, <1>4 DEF Severities

\* Of the levels of two severities, that of the higher one is not the lower;
\* an error is above information; and nothing from INFO on is dropped.
LEMMA LevelsOrdered ==
  ASSUME adapter \in AllAdapters \ {"noop"}
  PROVE  /\ \A r, s \in Severities : r > s => Rank(Macros[r]) >= Rank(Macros[s])
         /\ \A r \in Severities : r >= Error => Rank(Macros[r]) > Rank(Macros[Info])
         /\ \A r \in Severities : r >= Info => Passes(Macros[r])
<1> USE DEF Severities, Info, Error, Passes
<1>1. CASE adapter = "abseil"
  <2>1. \A r \in Severities : Rank(Macros[r]) = IF r <= 3 THEN 1 ELSE r - 2
    BY <1>1, AbseilRanks DEF AbseilMacros
  <2> QED
    BY <1>1, <2>1, AbseilRanks
<1>2. CASE adapter = "g3log"
  <2>1. /\ Rank(Macros[1]) = 1 /\ Rank(Macros[2]) = 1 /\ Rank(Macros[3]) = 2
        /\ Rank(Macros[4]) = 3 /\ Rank(Macros[5]) = 3 /\ Rank(Macros[6]) = 4
    BY <1>2, G3logRanks DEF G3logMacros
  <2> QED
    BY <1>2, <2>1, G3logRanks
<1>3. CASE adapter = "poco"
  <2>1. /\ Rank(Macros[1]) = 1 /\ Rank(Macros[2]) = 2 /\ Rank(Macros[3]) = 3
        /\ Rank(Macros[4]) = 5 /\ Rank(Macros[5]) = 6 /\ Rank(Macros[6]) = 8
    BY <1>3, PocoRanks DEF PocoMacros
  <2> QED
    BY <1>3, <2>1, PocoRanks
<1>4. CASE adapter \in {"quill", "quill-bounded"}
  <2>1. /\ Rank(Macros[1]) = 3 /\ Rank(Macros[2]) = 4 /\ Rank(Macros[3]) = 5
        /\ Rank(Macros[4]) = 7 /\ Rank(Macros[5]) = 8 /\ Rank(Macros[6]) = 9
    BY <1>4, QuillRanks DEF QuillMacros
  <2> QED
    BY <1>4, <2>1, QuillRanks
<1>5. CASE adapter \in SixLevels
  BY <1>5, SixRanks
<1> QED
  BY <1>1, <1>2, <1>3, <1>4, <1>5 DEF AllAdapters, SixLevels, FstlogAdapters

\* No macro but that of FATAL has the level that ends the process.
LEMMA OnlyFatalIsDeadly ==
  ASSUME NEW s \in Severities, Deadly(Macros[s])
  PROVE  s = Fatal
BY DEF Deadly, Macros, AbseilMacros, G3logMacros, Severities, Fatal

-----------------------------------------------------------------------------
(* The files.                                                              *)

Files == {"test", "self"}

Line == [call : Nat, level : {Macros[s] : s \in DOMAIN Macros}]

Typed ==
  /\ adapter \in Adapters
  /\ logSelf \in BOOLEAN /\ (logSelf => adapter \in FstlogAdapters)
  /\ calls \in Seq({0} \cup Severities)
  /\ files \in [Files -> Seq(Line)]
  /\ alive \in BOOLEAN

\* A line of a file is a call that has been made, to the library for the log
\* file and of the library for its own; it has the level of the macro.
TestRight ==
  \A i \in DOMAIN files["test"] :
    LET l == files["test"][i] IN
    l.call \in DOMAIN calls /\ calls[l.call] \in Severities /\ l.level = Macros[calls[l.call]]

SelfRight ==
  \A i \in DOMAIN files["self"] :
    files["self"][i].call \in DOMAIN calls /\ calls[files["self"][i].call] = 0

\* noop writes nothing, and only fstlog has lines of its own.
AdapterRight ==
  /\ adapter = "noop" => files["test"] = <<>>
  /\ adapter \notin FstlogAdapters => \A k \in DOMAIN calls : calls[k] # 0

SelfComplete == logSelf => \A k \in DOMAIN calls : calls[k] = 0 => InFile("self", k)

IInv ==
  /\ Typed /\ TestRight /\ SelfRight /\ AdapterRight /\ SelfComplete
  /\ NothingFromInfoLost /\ OnlyFatalKills

\* A call s appended: the earlier calls keep their place.
LEMMA CallAppended ==
  ASSUME Typed, NEW s \in {0} \cup Severities, Calling(s)
  PROVE  LET n == Len(calls) IN
         /\ n \in Nat /\ DOMAIN calls = 1 .. n /\ DOMAIN calls' = 1 .. n + 1
         /\ \A k \in 1 .. n : calls'[k] = calls[k]
         /\ calls'[n + 1] = s
         /\ calls' \in Seq({0} \cup Severities)
         /\ Len(calls') = n + 1
         /\ UNCHANGED <<adapter, logSelf>> /\ alive
<1>1. calls \in Seq({0} \cup Severities) /\ calls' = Append(calls, s)
  BY DEF Typed, Calling
<1> QED
  BY <1>1, AppendProperties DEF Calling

\* noop has no levels.
LEMMA SixMacros ==
  ASSUME adapter \in AllAdapters, adapter # "noop"
  PROVE  DOMAIN Macros = Severities
BY DEF AllAdapters, FstlogAdapters, Macros, Severities, AbseilMacros, BoostMacros, G3logMacros,
   Log4cxxMacros, P7Macros, PocoMacros, QuillMacros, QuillBoundedMacros, SpdlogMacros,
   SpdlogV2Macros, FstlogStMacros, FstlogStfixMacros, FstlogFastMacros, FstlogLowlMacros,
   FstlogMtMacros, FstlogTlocMacros

\* A line offered: it is appended to the files its channel goes to.
LEMMA LineOffered ==
  ASSUME Typed, NEW s \in DOMAIN Macros, NEW channel, Offer(Macros[s], channel),
         NEW f \in Files, UNCHANGED adapter
  PROVE  LET new == [call |-> Len(calls) + 1, level |-> Macros[s]]
             n == Len(files[f]) IN
         /\ files' \in [Files -> Seq(Line)]'
         /\ n \in Nat /\ DOMAIN files[f] = 1 .. n
         /\ IF f \in FilesOf(channel) /\ Passes(Macros[s])
            THEN /\ DOMAIN files'[f] = 1 .. n + 1
                 /\ \A i \in 1 .. n : files'[f][i] = files[f][i]
                 /\ files'[f][n + 1] = new
            ELSE files'[f] = files[f]
<1> DEFINE new == [call |-> Len(calls) + 1, level |-> Macros[s]]
<1>1. new \in Line
  BY LenProperties DEF Typed, Line
<1>2. \A g \in Files : /\ files[g] \in Seq(Line)
                       /\ files'[g] = IF g \in FilesOf(channel) /\ Passes(Macros[s])
                                      THEN Append(files[g], new) ELSE files[g]
  BY DEF Typed, Offer
<1> HIDE DEF new
<1>3. files' \in [Files -> Seq(Line)]
  <2>1. \A g \in Files : files'[g] \in Seq(Line)
    <3>1. \A q \in Seq(Line) : Append(q, new) \in Seq(Line)
      BY <1>1, AppendProperties
    <3> QED
      BY <1>2, <3>1
  <2>2. files' = [g \in Files |-> files'[g]]
    BY DEF Typed, Offer
  <2> QED
    BY <2>1, <2>2
<1>4. Line' = Line
  BY DEF Line, Macros
<1>5. /\ Len(files[f]) \in Nat /\ DOMAIN files[f] = 1 .. Len(files[f])
      /\ IF f \in FilesOf(channel) /\ Passes(Macros[s])
         THEN /\ DOMAIN files'[f] = 1 .. Len(files[f]) + 1
              /\ \A i \in 1 .. Len(files[f]) : files'[f][i] = files[f][i]
              /\ files'[f][Len(files[f]) + 1] = new
         ELSE files'[f] = files[f]
  <2>1. files[f] \in Seq(Line)
    BY <1>2
  <2>2. Len(files[f]) \in Nat /\ DOMAIN files[f] = 1 .. Len(files[f])
    BY <2>1, LenProperties
  <2>3. CASE f \in FilesOf(channel) /\ Passes(Macros[s])
    <3>1. files'[f] = Append(files[f], new)
      BY <1>2, <2>3
    <3> QED
      BY <1>1, <2>1, <2>2, <2>3, <3>1, AppendProperties
  <2>4. CASE ~(f \in FilesOf(channel) /\ Passes(Macros[s]))
    BY <1>2, <2>2, <2>4
  <2> QED
    BY <2>3, <2>4
<1> QED
  BY <1>3, <1>4, <1>5 DEF new

\* Where the channels go.
LEMMA Channels ==
  /\ FilesOf(LoggerChannel) = {"test"}
  /\ adapter \in FstlogAdapters => FilesOf(CoreChannel) = IF logSelf THEN {"self"} ELSE {}
BY DEF FilesOf, LoggerChannel, CoreChannel, TestFilter, SelfFilter

\* A line of the benchmark.
LEMMA LogStep ==
  ASSUME IInv, NEW s \in Severities, Log(s)
  PROVE  IInv'
<1> DEFINE n == Len(calls)
           m == Len(files["test"])
<1>1. /\ n \in Nat /\ DOMAIN calls = 1 .. n /\ DOMAIN calls' = 1 .. n + 1
      /\ \A k \in 1 .. n : calls'[k] = calls[k]
      /\ calls'[n + 1] = s
      /\ calls' \in Seq({0} \cup Severities) /\ Len(calls') = n + 1
      /\ UNCHANGED <<adapter, logSelf>> /\ alive
  BY CallAppended DEF IInv, Log
<1>2. s # 0 /\ adapter \in AllAdapters
  BY AdaptersKnown DEF IInv, Typed, Severities
<1>3. Macros' = Macros /\ Line' = Line
  BY <1>1 DEF Macros, Line
<1>4. CASE adapter = "noop"
  <2>1. UNCHANGED files /\ alive' = TRUE
    BY <1>1, <1>4 DEF Log, IInv, Typed
  <2>2. Typed'
    BY <1>1, <1>3, <2>1 DEF IInv, Typed
  <2>3. TestRight' /\ SelfRight' /\ AdapterRight'
    BY <1>1, <1>2, <1>3, <1>4, <2>1 DEF IInv, TestRight, SelfRight, AdapterRight
  <2>4. SelfComplete' /\ NothingFromInfoLost' /\ OnlyFatalKills'
    BY <1>1, <1>2, <1>4, <2>1 DEF IInv, SelfComplete, NothingFromInfoLost, InFile, OnlyFatalKills
  <2> QED
    BY <2>2, <2>3, <2>4 DEF IInv
<1>5. CASE adapter # "noop"
  <2>0. s \in DOMAIN Macros
    BY <1>2, <1>5, SixMacros
  <2>1. Offer(Macros[s], LoggerChannel)
    BY <1>5 DEF Log
  <2>2. files'["self"] = files["self"] /\ files' \in [Files -> Seq(Line)]
    BY <1>1, <1>3, <2>1, <2>0, LineOffered, Channels DEF IInv, Files
  <2>3. /\ m \in Nat /\ DOMAIN files["test"] = 1 .. m
        /\ \/ /\ DOMAIN files'["test"] = 1 .. m + 1
              /\ \A i \in 1 .. m : files'["test"][i] = files["test"][i]
              /\ files'["test"][m + 1] = [call |-> n + 1, level |-> Macros[s]]
           \/ files'["test"] = files["test"] /\ ~Passes(Macros[s])
    BY <1>1, <2>1, <2>0, LineOffered, Channels DEF IInv, Files
  <2> HIDE DEF n, m
  <2>4. Typed'
    <3>1. alive' \in BOOLEAN
      BY <1>5 DEF Log, Deadly
    <3> QED
      BY <1>1, <1>3, <2>2, <3>1 DEF IInv, Typed
  <2>5. TestRight'
    <3> SUFFICES ASSUME NEW i \in DOMAIN files'["test"]
                 PROVE  /\ files'["test"][i].call \in DOMAIN calls'
                        /\ calls'[files'["test"][i].call] \in Severities
                        /\ files'["test"][i].level = Macros[calls'[files'["test"][i].call]]
      BY <1>3 DEF TestRight
    <3>1. CASE i \in DOMAIN files["test"] /\ files'["test"][i] = files["test"][i]
      BY <1>1, <3>1 DEF IInv, TestRight
    <3>2. CASE files'["test"][i] = [call |-> n + 1, level |-> Macros[s]]
      BY <1>1, <3>2
    <3> QED
      BY <2>3, <3>1, <3>2
  <2>6. SelfRight'
    BY <1>1, <2>2 DEF IInv, SelfRight
  <2>7. AdapterRight'
    BY <1>1, <1>2, <1>5 DEF IInv, AdapterRight
  <2>8. SelfComplete'
    BY <1>1, <1>2, <2>2 DEF IInv, SelfComplete, InFile
  <2>9. NothingFromInfoLost'
    <3> SUFFICES ASSUME NEW k \in 1 .. n + 1, calls'[k] >= Info
                 PROVE  \E i \in DOMAIN files'["test"] : files'["test"][i].call = k
      BY <1>1 DEF NothingFromInfoLost, InFile
    <3>1. CASE k \in 1 .. n
      <4>1. PICK i \in DOMAIN files["test"] : files["test"][i].call = k
        BY <1>1, <1>5, <3>1 DEF IInv, NothingFromInfoLost, InFile
      <4>2. i \in DOMAIN files'["test"] /\ files'["test"][i] = files["test"][i]
        BY <2>3
      <4> QED
        BY <4>1, <4>2
    <3>2. CASE k = n + 1
      <4>1. Passes(Macros[s])
        BY <1>1, <1>2, <1>5, <3>2, LevelsOrdered
      <4>2. m + 1 \in DOMAIN files'["test"] /\ files'["test"][m + 1].call = k
        BY <2>3, <3>2, <4>1
      <4> QED
        BY <4>2
    <3> QED
      BY <1>1, <3>1, <3>2
  <2>10. OnlyFatalKills'
    <3>1. ~alive' => Deadly(Macros[s])
      BY <1>5 DEF Log
    <3> QED
      BY <1>1, <3>1, OnlyFatalIsDeadly DEF OnlyFatalKills
  <2> QED
    BY <2>4, <2>5, <2>6, <2>7, <2>8, <2>9, <2>10 DEF IInv
<1> QED
  BY <1>4, <1>5

\* A line of the library itself.
LEMMA LogOwnStep ==
  ASSUME IInv, LogOwn
  PROVE  IInv'
<1> DEFINE n == Len(calls)
           m == Len(files["self"])
<1>1. /\ n \in Nat /\ DOMAIN calls = 1 .. n /\ DOMAIN calls' = 1 .. n + 1
      /\ \A k \in 1 .. n : calls'[k] = calls[k]
      /\ calls'[n + 1] = 0
      /\ calls' \in Seq({0} \cup Severities) /\ Len(calls') = n + 1
      /\ UNCHANGED <<adapter, logSelf>> /\ alive
  BY CallAppended DEF IInv, LogOwn
<1>2. adapter \in FstlogAdapters /\ adapter # "noop" /\ adapter \in AllAdapters
  BY DEF LogOwn, FstlogAdapters, AllAdapters
<1>3. Macros' = Macros /\ Line' = Line
  BY <1>1 DEF Macros, Line
<1>4. Offer(Macros[Info], CoreChannel) /\ Info \in DOMAIN Macros /\ Passes(Macros[Info])
  BY <1>2, LevelsOrdered, SixMacros DEF LogOwn, Info, Severities
<1>5. files'["test"] = files["test"] /\ files' \in [Files -> Seq(Line)]
  BY <1>1, <1>2, <1>3, <1>4, LineOffered, Channels DEF IInv, Files
<1>6. /\ m \in Nat /\ DOMAIN files["self"] = 1 .. m
      /\ \/ /\ DOMAIN files'["self"] = 1 .. m + 1
            /\ \A i \in 1 .. m : files'["self"][i] = files["self"][i]
            /\ files'["self"][m + 1] = [call |-> n + 1, level |-> Macros[Info]]
         \/ files'["self"] = files["self"] /\ ~logSelf
  BY <1>1, <1>2, <1>4, LineOffered, Channels DEF IInv, Files
<1> HIDE DEF n, m
<1>7. Typed' /\ OnlyFatalKills'
  BY <1>1, <1>3, <1>5 DEF IInv, LogOwn, Typed, OnlyFatalKills
<1>8. TestRight'
  BY <1>1, <1>3, <1>5 DEF IInv, TestRight
<1>9. SelfRight'
  <2> SUFFICES ASSUME NEW i \in DOMAIN files'["self"]
               PROVE  /\ files'["self"][i].call \in DOMAIN calls'
                      /\ calls'[files'["self"][i].call] = 0
    BY DEF SelfRight
  <2>1. CASE i \in DOMAIN files["self"] /\ files'["self"][i] = files["self"][i]
    BY <1>1, <2>1 DEF IInv, SelfRight
  <2>2. CASE files'["self"][i] = [call |-> n + 1, level |-> Macros[Info]]
    BY <1>1, <2>2
  <2> QED
    BY <1>6, <2>1, <2>2
<1>10. AdapterRight'
  BY <1>1, <1>2 DEF AdapterRight
<1>11. SelfComplete'
  <2> SUFFICES ASSUME logSelf, NEW k \in 1 .. n + 1, calls'[k] = 0
               PROVE  \E i \in DOMAIN files'["self"] : files'["self"][i].call = k
    BY <1>1 DEF SelfComplete, InFile
  <2>1. CASE k \in 1 .. n
    <3>1. PICK i \in DOMAIN files["self"] : files["self"][i].call = k
      BY <1>1, <2>1 DEF IInv, SelfComplete, InFile
    <3>2. i \in DOMAIN files'["self"] /\ files'["self"][i] = files["self"][i]
      BY <1>6
    <3> QED
      BY <3>1, <3>2
  <2>2. CASE k = n + 1
    BY <1>6, <2>2
  <2> QED
    BY <1>1, <2>1, <2>2
<1>12. NothingFromInfoLost'
  BY <1>1, <1>5 DEF IInv, NothingFromInfoLost, InFile, Info
<1> QED
  BY <1>7, <1>8, <1>9, <1>10, <1>11, <1>12 DEF IInv

LEMMA Invariance == Spec => []IInv
<1>1. Init => IInv
  <2> SUFFICES ASSUME Init PROVE IInv
    OBVIOUS
  <2>1. Typed
    <3>1. files \in [Files -> Seq(Line)] /\ calls \in Seq({0} \cup Severities)
      BY DEF Init, Files
    <3>2. logSelf \in BOOLEAN /\ (logSelf => adapter \in FstlogAdapters)
      BY DEF Init
    <3> QED
      BY <3>1, <3>2 DEF Init, Typed
  <2> QED
    BY <2>1 DEF Init, IInv, TestRight, SelfRight, AdapterRight, SelfComplete,
       NothingFromInfoLost, OnlyFatalKills
<1>2. IInv /\ [Next]_vars => IInv'
  <2>1. ASSUME IInv, UNCHANGED vars
        PROVE  IInv'
    <3>1. Macros' = Macros /\ Line' = Line
      BY <2>1 DEF vars, Macros, Line
    <3>2. Typed' /\ TestRight'
      BY <2>1, <3>1 DEF IInv, vars, Typed, TestRight
    <3> QED
      BY <2>1, <3>2 DEF IInv, vars, SelfRight, AdapterRight, SelfComplete,
         NothingFromInfoLost, InFile, OnlyFatalKills
  <2> QED
    BY <2>1, LogStep, LogOwnStep DEF Next
<1> QED
  BY <1>1, <1>2, PTL DEF Spec

-----------------------------------------------------------------------------

\* A benchmark that logs at INFO or above finds every line in the log file,
\* with any library but noop.
THEOREM InfoKept == Spec => []NothingFromInfoLost
<1>1. IInv => NothingFromInfoLost
  BY DEF IInv
<1> QED
  BY <1>1, Invariance, PTL

\* Of two lines in the log file the one logged with the higher severity does
\* not have the lower level, and an error never has the level of information;
\* and only a fatal line ends the process.
THEOREM OrderOfLevels == Spec => []SeverityOrderKept
<1>1. IInv => SeverityOrderKept
  <2>2. IInv => OnlyFatalKills
    BY DEF IInv
  <2> SUFFICES ASSUME IInv, NEW i \in DOMAIN files["test"], NEW j \in DOMAIN files["test"]
               PROVE  LET a == files["test"][i]  b == files["test"][j] IN
                      /\ calls[a.call] > calls[b.call] => Rank(a.level) >= Rank(b.level)
                      /\ calls[a.call] >= Error /\ calls[b.call] = Info
                           => Rank(a.level) > Rank(b.level)
    BY <2>2 DEF SeverityOrderKept
  <2>1. adapter \in AllAdapters \ {"noop"}
    BY AdaptersKnown DEF IInv, Typed, AdapterRight
  <2> QED
    BY <2>1, LevelsOrdered DEF IInv, TestRight
<1> QED
  BY <1>1, Invariance, PTL

\* The log file has the lines of the benchmark and nothing else; what the core
\* of fstlog says of itself is in the other file, all of it and only there.
THEOREM FilesKeptApart == Spec => []FilesApart
<1>1. IInv => FilesApart
  BY DEF IInv, TestRight, SelfRight, SelfComplete, FilesApart
<1> QED
  BY <1>1, Invariance, PTL

=============================================================================
