------------------------------ MODULE Targets -------------------------------
(***************************************************************************)
(* Which benchmarks a build tree builds (src/CMakeLists.txt), while the    *)
(* user configures, builds and chooses other targets, and directories of   *)
(* adapters come and go.                                                   *)
(*                                                                         *)
(* The choice is a cache variable: the default is stored when the tree is  *)
(* first configured and is the choice from then on.  CMake keeps the cache *)
(* of a configuration that fails, and the build files of the last that     *)
(* succeeded; a build configures again when the directories or the cache   *)
(* have changed since (external).                                          *)
(***************************************************************************)
EXTENDS Integers, Sequences, FiniteSets

CONSTANTS
  Tracked,    \* the directories that are always there
  Movable,    \* the directories that may be added and removed
  Choices     \* bound: the values the user gives to BENCHMARK_TARGETS

VARIABLES
  dirs,       \* the directories with a CMakeLists.txt
  installed,  \* is the package fstlog installed
  fetchTag,   \* has the user defined FETCH_FSTLOG
  cache,      \* BENCHMARK_TARGETS in the cache, or Undefined
  result,     \* of the last configuration: "none", "ok", "failed"
  globbed,    \* AVAIL_BENCHMARK_TARGETS of the last that succeeded
  built,      \* its BUILT_TARGETS
  skipped,    \* its SKIPPED_TARGETS
  fstlog,     \* how it has got fstlog: "no", "installed", "fetched"
  compiled    \* what the last build has compiled

files == <<globbed, built, skipped, fstlog>>
vars == <<dirs, installed, fetchTag, cache, result, files, compiled>>

Undefined == {"(undefined)"}
All == {"all"}

DefaultTargets ==
  {"noop", "abseil", "boost", "fstlog-tloc", "g3log", "log4cxx", "p7", "poco", "quill", "spdlog"}

\* The name has "fstlog" somewhere in it.
NeedsFstlog(target) ==
  \E i \in 1 .. Len(target) - 5 : SubSeq(target, i, i + 5) = "fstlog"

Init ==
  /\ dirs \in {Tracked \cup m : m \in SUBSET Movable}
  /\ installed \in BOOLEAN /\ fetchTag \in BOOLEAN
  /\ cache = Undefined
  /\ result = "none"
  /\ globbed = {} /\ built = {} /\ skipped = {}
  /\ fstlog = "no"
  /\ compiled = {}

-----------------------------------------------------------------------------
(* The run of CMakeLists.txt.                                              *)

\* if (NOT DEFINED BENCHMARK_TARGETS) set(... CACHE ...)
Choice(c) == IF c = Undefined THEN DefaultTargets ELSE c

Available(choice) == choice = All \/ choice \subseteq dirs

\* The whole value has to be "all".
Built(choice) == IF choice = All THEN dirs ELSE choice

\* Searched and fetched only for targets that need it; a tag of the user is
\* fetched even if the package is installed.
FstlogSource(targets) ==
  IF \E t \in targets : NeedsFstlog(t)
  THEN IF fetchTag \/ ~installed THEN "fetched" ELSE "installed"
  ELSE "no"

\* Configuring with the value c of the cache variable.  What is found or
\* fetched (logbench, fstlog) may fail after the targets are known.
Run(c) ==
  LET choice == Choice(c) IN
  /\ cache' = choice
  /\ \/ /\ Available(choice)
        /\ result' = "ok"
        /\ globbed' = dirs
        /\ built' = Built(choice)
        /\ skipped' = dirs \ Built(choice)
        /\ fstlog' = FstlogSource(Built(choice))
     \/ /\ result' = "failed"
        /\ UNCHANGED files
  /\ UNCHANGED <<dirs, installed, fetchTag, compiled>>

\* cmake ..
Configure == Run(cache)

\* cmake -DBENCHMARK_TARGETS=... ..
ConfigureWith(c) == Run(c)

-----------------------------------------------------------------------------

\* Mutant of Stale: the directories are globbed without CONFIGURE_DEPENDS.
StaleCacheOnly == result # "ok"

\* file(GLOB ... CONFIGURE_DEPENDS): the build looks at the directories again.
Stale == result # "ok" \/ dirs # globbed

\* Has there been a configuration that wrote build files.
BuildFiles == globbed # {}

BuildConfigures ==
  /\ BuildFiles /\ Stale
  /\ Run(cache)

BuildCompiles ==
  /\ BuildFiles /\ ~Stale
  /\ compiled' = built
  /\ UNCHANGED <<dirs, installed, fetchTag, cache, result, files>>

AddDirectory(d) ==
  /\ d \notin dirs
  /\ dirs' = dirs \cup {d}
  /\ UNCHANGED <<installed, fetchTag, cache, result, files, compiled>>

RemoveDirectory(d) ==
  /\ d \in dirs
  /\ dirs' = dirs \ {d}
  /\ UNCHANGED <<installed, fetchTag, cache, result, files, compiled>>

Install ==
  /\ installed' = ~installed
  /\ UNCHANGED <<dirs, fetchTag, cache, result, files, compiled>>

Next ==
  \/ Configure
  \/ \E c \in Choices : ConfigureWith(c)
  \/ BuildConfigures \/ BuildCompiles
  \/ \E d \in Movable : AddDirectory(d) \/ RemoveDirectory(d)
  \/ Install

Spec == Init /\ [][Next]_vars

-----------------------------------------------------------------------------

\* A build compiles exactly the targets that the choice in the cache means
\* for the directories there are at that moment, never those of an older
\* configuration, however directories and choices have changed since: a new
\* directory waits until it is chosen, and a build fails rather than leave out
\* a target that the choice names.  fstlog is there exactly if what is
\* compiled needs it, and the rest is what the configuration calls skipped.
CompilesTheChoice ==
  [][BuildCompiles =>
       /\ compiled' = (IF cache = All THEN dirs ELSE cache)
       /\ skipped = dirs \ compiled'
       /\ fstlog # "no" <=> \E t \in compiled' : NeedsFstlog(t)]_vars

=============================================================================
