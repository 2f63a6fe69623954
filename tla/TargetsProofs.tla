--------------------------- MODULE TargetsProofs ----------------------------
(***************************************************************************)
(* A proof about Targets, for every set of directories and of choices:     *)
(* what a build compiles is what the choice in the cache means then.       *)
(*                                                                         *)
(* The invariant speaks of the directories of the last configuration: as   *)
(* long as that one succeeded, the build files are those of the choice in  *)
(* the cache.  A configuration that fails changes the cache and not the    *)
(* files, but leaves a result with which a build configures again.         *)
(***************************************************************************)
EXTENDS Targets, TLAPS

FilesOfTheChoice ==
  result = "ok" =>
    /\ built = (IF cache = All THEN globbed ELSE cache)
    /\ skipped = globbed \ built
    /\ fstlog # "no" <=> \E t \in built : NeedsFstlog(t)

\* A run of CMakeLists.txt succeeds with the files of the choice it stores, or
\* it fails.
LEMMA RunKeeps ==
  ASSUME NEW c, Run(c)
  PROVE  FilesOfTheChoice'
<1>1. CASE result' = "failed"
  BY <1>1 DEF FilesOfTheChoice
<1>2. CASE result' = "ok"
  <2>1. /\ cache' = Choice(c) /\ globbed' = dirs /\ built' = Built(Choice(c))
        /\ skipped' = dirs \ Built(Choice(c)) /\ fstlog' = FstlogSource(Built(Choice(c)))
    BY <1>2 DEF Run
  <2>2. built' = IF cache' = All THEN globbed' ELSE cache'
    BY <2>1 DEF Built
  <2>3. fstlog' # "no" <=> \E t \in built' : NeedsFstlog(t)
    BY <2>1 DEF FstlogSource
  <2> QED
    BY <2>1, <2>2, <2>3 DEF FilesOfTheChoice
<1> QED
  BY <1>1, <1>2 DEF Run

LEMMA FilesStep == FilesOfTheChoice /\ [Next]_vars => FilesOfTheChoice'
<1> SUFFICES ASSUME FilesOfTheChoice, [Next]_vars
             PROVE  FilesOfTheChoice'
  OBVIOUS
<1>1. CASE Configure \/ BuildConfigures \/ \E c \in Choices : ConfigureWith(c)
  BY <1>1, RunKeeps DEF Configure, BuildConfigures, ConfigureWith
<1>2. ASSUME UNCHANGED <<cache, result, files>>
      PROVE  FilesOfTheChoice'
  BY <1>2 DEF FilesOfTheChoice, files
<1>3. CASE BuildCompiles \/ Install
  BY <1>2, <1>3 DEF BuildCompiles, Install
<1>4. CASE \E d \in Movable : AddDirectory(d) \/ RemoveDirectory(d)
  BY <1>2, <1>4 DEF AddDirectory, RemoveDirectory
<1>5. CASE UNCHANGED vars
  BY <1>2, <1>5 DEF vars
<1> QED
  BY <1>1, <1>3, <1>4, <1>5 DEF Next

\* A build compiles exactly the targets that the choice in the cache means for
\* the directories there are at that moment, however directories and choices
\* have changed since the last configuration; fstlog is there exactly if one
\* of them needs it, and the rest is what the configuration calls skipped.
THEOREM BuildsTheChoice == Spec => CompilesTheChoice
<1>1. Init => FilesOfTheChoice
  BY DEF Init, FilesOfTheChoice
<1>2. ASSUME FilesOfTheChoice, BuildCompiles
      PROVE  /\ compiled' = (IF cache = All THEN dirs ELSE cache)
             /\ skipped = dirs \ compiled'
             /\ fstlog # "no" <=> \E t \in compiled' : NeedsFstlog(t)
  BY <1>2 DEF FilesOfTheChoice, BuildCompiles, Stale
<1>3. FilesOfTheChoice /\ [Next]_vars =>
        [BuildCompiles =>
           /\ compiled' = (IF cache = All THEN dirs ELSE cache)
           /\ skipped = dirs \ compiled'
           /\ fstlog # "no" <=> \E t \in compiled' : NeedsFstlog(t)]_vars
  BY <1>2
<1> QED
  BY <1>1, <1>3, FilesStep, PTL DEF Spec, CompilesTheChoice

=============================================================================
