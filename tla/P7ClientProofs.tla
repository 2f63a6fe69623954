--------------------------- MODULE P7ClientProofs ---------------------------
(***************************************************************************)
(* Proofs about P7Client, for every set of threads and of lines.           *)
(*                                                                         *)
(* None of the invariants of P7Client is inductive alone: that the client  *)
(* is alive when it is called follows from its count being positive, that  *)
(* from the count being exact, and that the count only changes while       *)
(* someone is entitled to it from the registry being cleared with the      *)
(* client.  IInv puts these parts together.                                *)
(***************************************************************************)
EXTENDS P7Client, FiniteSetTheorems, TLAPS

\* Each thread's logger object is somewhere in its life.
LoggerTyped == logger \in [Threads -> LoggerPhases]

\* What can be said of the variables before the count is known to be exact.
Typed ==
  /\ main \in MainPhases
  /\ client \in {"absent", "alive", "freed"}
  /\ refs \in Int
  /\ registry \in {"empty", "client"}
  /\ LoggerTyped
  /\ pool \subseteq Lines
  /\ saved \subseteq Lines
  /\ lost \subseteq Lines
  /\ late \subseteq Lines

\* The client is alive exactly while somebody holds a reference.
AliveWhileHeld == client = "alive" <=> refs > 0

\* The registry only names a client that is alive and whose sys_init is over.
SharedIsAlive ==
  registry = "client" =>
     client = "alive" /\ main \in {"running", "flushed", "stopped"}

\* A logger object only gets past its constructor once sys_init is over.
HoldersAfterInit == Holders # {} => main \in {"running", "flushed", "stopped"}

\* The phases of main in which there is no client yet, or no client any more.
ClientPhase ==
  /\ client = "absent" => main \in {"start", "failed"}
  /\ client = "freed" => main \in {"stopped", "failed"}
  /\ main \in {"start", "created", "failed"} => pool = {}
  /\ main = "start" => client = "absent"

\* After the Flush of sys_stop only late lines are pooled, and no others are
\* ever lost.
PoolIsLate ==
  /\ main \in {"flushed", "stopped"} => pool \subseteq late
  /\ lost \subseteq late

IInv ==
  /\ Typed
  /\ RefsExact
  /\ AliveWhileHeld
  /\ SharedIsAlive
  /\ HoldersAfterInit
  /\ ClientPhase
  /\ PoolIsLate

-----------------------------------------------------------------------------
(* The number of holders.                                                  *)

\* The threads that hold a reference are finitely many.
LEMMA HoldersFinite ==
  /\ IsFiniteSet(Holders)
  /\ Cardinality(Holders) \in Nat
  /\ Cardinality(Holders) = 0 <=> Holders = {}
<1>1. Holders \subseteq Threads
  BY DEF Holders
<1>2. IsFiniteSet(Holders)
  BY <1>1, ThreadsFinite, FS_Subset
<1> QED
  BY <1>2, FS_CardinalityType, FS_EmptySet

\* A thread whose logger object gets its reference (P7_Get_Shared) joins the
\* holders.
LEMMA HolderJoins ==
  ASSUME Typed, NEW t \in Threads, logger[t] = "none",
         NEW p \in LoggerPhases \ {"none"},
         logger' = [logger EXCEPT ![t] = p]
  PROVE  /\ Holders' # {}
         /\ Cardinality(Holders') = Cardinality(Holders) + 1
<1>1. Holders' = Holders \cup {t}
  BY DEF Holders, Typed, LoggerTyped
<1>2. t \notin Holders
  BY DEF Holders
<1> QED
  BY <1>1, <1>2, HoldersFinite, FS_AddElement

\* A thread whose logger object gives its reference back leaves the holders.
LEMMA HolderLeaves ==
  ASSUME Typed, NEW t \in Threads, logger[t] # "none",
         logger' = [logger EXCEPT ![t] = "none"]
  PROVE  /\ Holders # {}
         /\ Cardinality(Holders') = Cardinality(Holders) - 1
<1>1. Holders' = Holders \ {t}
  BY DEF Holders, Typed, LoggerTyped
<1>2. t \in Holders
  BY DEF Holders
<1> QED
  BY <1>1, <1>2, HoldersFinite, FS_RemoveElement

\* Any other change of a logger object leaves the holders as they are.
LEMMA HoldersStay ==
  ASSUME Typed, NEW t \in Threads, logger[t] # "none",
         NEW p \in LoggerPhases \ {"none"},
         logger' = [logger EXCEPT ![t] = p]
  PROVE  Holders' = Holders
BY DEF Holders, Typed, LoggerTyped

-----------------------------------------------------------------------------
(* The invariant is inductive.  Each action that changes the count is a     *)
(* step of its own.                                                        *)

LEMMA InitIInv == Init => IInv
<1> SUFFICES ASSUME Init PROVE IInv
  OBVIOUS
<1>1. Holders = {}
  BY DEF Init, Holders
<1>2. Cardinality(Holders) = 0
  BY <1>1, FS_EmptySet
<1>3. Typed
  <2>1. LoggerTyped
    BY DEF Init, LoggerTyped, LoggerPhases
  <2> QED
    BY <2>1 DEF Init, Typed, MainPhases
<1>4. RefsExact
  BY <1>2 DEF Init, RefsExact, MainHolds
<1>5. AliveWhileHeld /\ ClientPhase /\ PoolIsLate
  BY DEF Init, AliveWhileHeld, ClientPhase, PoolIsLate
<1>6. SharedIsAlive
  BY DEF Init, SharedIsAlive
<1>7. HoldersAfterInit
  BY <1>1 DEF HoldersAfterInit
<1> QED
  BY <1>3, <1>4, <1>5, <1>6, <1>7 DEF IInv

\* A step of sys_init or sys_stop changes the count together with the phase
\* of main; the loggers stay as they are.
LEMMA MainStepIInv ==
  ASSUME IInv, SysInit \/ SysStop
  PROVE  IInv'
<1> USE DEF IInv, Typed, RefsExact, MainHolds, AliveWhileHeld, SharedIsAlive,
            HoldersAfterInit, ClientPhase, PoolIsLate, MainPhases, lineVars
<1>1. Holders' = Holders
  BY DEF Holders, SysInit, SysStop, CreateClient, CreateClientFails,
         ShareClient, ShareClientFails, FlushClient, ReleaseClient
<1>2. /\ Cardinality(Holders) \in Nat
      /\ Cardinality(Holders') = Cardinality(Holders)
      /\ Cardinality(Holders) = 0 <=> Holders = {}
  BY <1>1, HoldersFinite
<1>3. LoggerTyped' = LoggerTyped
  BY DEF LoggerTyped, SysInit, SysStop, CreateClient, CreateClientFails,
         ShareClient, ShareClientFails, FlushClient, ReleaseClient
<1>4. CASE CreateClient
  BY <1>1, <1>2, <1>3, <1>4 DEF CreateClient
<1>5. CASE CreateClientFails
  BY <1>1, <1>2, <1>3, <1>5 DEF CreateClientFails
<1>6. CASE ShareClient
  BY <1>1, <1>2, <1>3, <1>6 DEF ShareClient
<1>7. CASE ShareClientFails
  BY <1>1, <1>2, <1>3, <1>7 DEF ShareClientFails, Release
<1>8. CASE FlushClient
  BY <1>1, <1>2, <1>3, <1>8 DEF FlushClient
<1>9. CASE ReleaseClient
  BY <1>1, <1>2, <1>3, <1>9 DEF ReleaseClient, Release
<1> QED
  BY <1>4, <1>5, <1>6, <1>7, <1>8, <1>9 DEF SysInit, SysStop

\* A logger object that gives its reference back (destructor, or the error
\* path of the constructor) leaves the count exact, and destroys the client
\* only as the last holder.
LEMMA HolderReleaseIInv ==
  ASSUME IInv, NEW t \in Threads, logger[t] # "none",
         logger' = [logger EXCEPT ![t] = "none"],
         Release, UNCHANGED <<main, saved, late>>
  PROVE  IInv'
<1> USE DEF IInv
<1>1. /\ Holders # {}
      /\ Cardinality(Holders') = Cardinality(Holders) - 1
  BY HolderLeaves
<1>2. Cardinality(Holders) \in Nat \ {0}
  BY <1>1, HoldersFinite
<1>3. Cardinality(Holders) = 1 => Holders' = {}
  <2>1. IsFiniteSet(Holders')
    <3>1. Holders' \subseteq Holders
      BY DEF Holders, Typed, LoggerTyped
    <3> QED
      BY <3>1, HoldersFinite, FS_Subset
  <2> QED
    BY <1>1, <2>1, FS_EmptySet
<1>4. main \in {"running", "flushed", "stopped"}
  BY <1>1 DEF HoldersAfterInit
<1>5. Typed'
  <2>1. LoggerTyped'
    BY DEF Typed, LoggerTyped, LoggerPhases
  <2> QED
    BY <2>1 DEF Typed, Release
<1>6. refs = Cardinality(Holders) + (IF main = "stopped" THEN 0 ELSE 1)
  BY <1>4 DEF RefsExact, MainHolds
<1>7. refs' = refs - 1 /\ main' = main
  BY DEF Release
<1>8. RefsExact'
  BY <1>1, <1>2, <1>4, <1>6, <1>7 DEF RefsExact, MainHolds
<1>9. (AliveWhileHeld /\ SharedIsAlive /\ ClientPhase /\ PoolIsLate)'
  BY <1>2, <1>4, <1>6, <1>7 DEF Release, AliveWhileHeld, SharedIsAlive,
     ClientPhase, PoolIsLate, Typed
<1>10. HoldersAfterInit'
  BY <1>4, <1>7 DEF HoldersAfterInit
<1> QED
  BY <1>5, <1>8, <1>9, <1>10

\* A step of a logger object.
LEMMA LoggerStepIInv ==
  ASSUME IInv, NEW t \in Threads, LoggerStep(t)
  PROVE  IInv'
<1> USE DEF IInv
<1>1. CASE GetShared(t)
  <2>1. /\ Holders' # {}
        /\ Cardinality(Holders') = Cardinality(Holders) + 1
    BY <1>1, HolderJoins DEF GetShared, LoggerPhases
  <2>2. Cardinality(Holders) \in Nat
    BY HoldersFinite
  <2>3. main \in {"running", "flushed", "stopped"} /\ main' = main
    BY <1>1 DEF GetShared, SharedIsAlive
  <2>4. Typed'
    <3>1. LoggerTyped'
      BY <1>1 DEF Typed, LoggerTyped, GetShared, LoggerPhases
    <3> QED
      BY <1>1, <3>1 DEF Typed, GetShared, AddRef
  <2>5. RefsExact'
    BY <1>1, <2>1, <2>2, <2>3 DEF GetShared, AddRef, RefsExact, MainHolds
  <2> QED
    BY <1>1, <2>3, <2>4, <2>5 DEF GetShared, AddRef, SharedIsAlive, Typed,
       AliveWhileHeld, HoldersAfterInit, ClientPhase, PoolIsLate
<1>2. CASE CreateTrace(t) \/ ReleaseTrace(t)
  <2>1. Holders' = Holders
    BY <1>2, HoldersStay DEF CreateTrace, ReleaseTrace, LoggerPhases
  <2>2. LoggerTyped'
    BY <1>2 DEF Typed, LoggerTyped, CreateTrace, ReleaseTrace, LoggerPhases
  <2> QED
    BY <1>2, <2>1, <2>2 DEF CreateTrace, ReleaseTrace, lineVars, Typed, RefsExact, MainHolds, AliveWhileHeld, SharedIsAlive, HoldersAfterInit,
       ClientPhase, PoolIsLate
<1>3. CASE CreateTraceFails(t) \/ ReleaseShare(t)
  BY <1>3, HolderReleaseIInv DEF CreateTraceFails, ReleaseShare
<1>4. ASSUME NEW l \in Lines, Log(t, l)
      PROVE  IInv'
  <2>1. Holders' = Holders
    BY <1>4 DEF Log, Holders
  <2>2. main \in {"running", "flushed", "stopped"}
    BY <1>4 DEF Log, HoldersAfterInit, Holders
  <2> QED
    BY <1>4, <2>1, <2>2 DEF Log, Typed, LoggerTyped, RefsExact, MainHolds, AliveWhileHeld,
       SharedIsAlive, HoldersAfterInit, ClientPhase, PoolIsLate
<1> QED
  BY <1>1, <1>2, <1>3, <1>4 DEF LoggerStep

\* The writer of the library only moves lines from the pool to the disk, and
\* a stuttering step changes nothing.
LEMMA QuietStepIInv ==
  ASSUME IInv, (\E l \in Lines : WriteLine(l)) \/ UNCHANGED vars
  PROVE  IInv'
<1>1. Holders' = Holders
  BY DEF Holders, WriteLine, vars
<1> QED
  BY <1>1 DEF WriteLine, vars, IInv, Typed, LoggerTyped, RefsExact, MainHolds,
     AliveWhileHeld, SharedIsAlive, HoldersAfterInit, ClientPhase, PoolIsLate

LEMMA StepIInv == IInv /\ [Next]_vars => IInv'
BY MainStepIInv, LoggerStepIInv, QuietStepIInv DEF Next

\* The inductive invariant holds in every behaviour.
THEOREM Invariance == Spec => []IInv
<1>1. Init => IInv
  BY InitIInv
<1>2. IInv /\ [Next]_vars => IInv'
  BY StepIInv
<1> QED
  BY <1>1, <1>2, PTL DEF Spec

-----------------------------------------------------------------------------
(* The properties of P7Client.                                             *)

\* No path of the adapter releases more references than it has taken.
THEOREM TypeCorrect == Spec => []TypeOK
<1>1. IInv => TypeOK
  <2>1. ASSUME IInv PROVE refs \in Nat
    BY <2>1, HoldersFinite DEF IInv, RefsExact
  <2> QED
    BY <2>1 DEF IInv, Typed, LoggerTyped, TypeOK
<1> QED
  BY <1>1, Invariance, PTL

\* The count is exactly the number of parties that owe a Release, for any
\* number of threads building and destroying loggers around sys_stop.
THEOREM CountIsExact == Spec => []RefsExact
<1>1. IInv => RefsExact
  BY DEF IInv
<1> QED
  BY <1>1, Invariance, PTL

\* The raw pointer p7_client_ is never used after the client is gone.
THEOREM PointerIsSafe == Spec => []NoDanglingUse
<1>1. IInv => NoDanglingUse
  BY HoldersFinite DEF IInv, RefsExact, AliveWhileHeld, NoDanglingUse
<1> QED
  BY <1>1, Invariance, PTL

\* When sys_stop is over and the last logger is gone, so is the client.
THEOREM NothingLeaks == Spec => []FreedWhenUnused
<1>1. IInv => FreedWhenUnused
  BY HoldersFinite DEF IInv, RefsExact, MainHolds, AliveWhileHeld, FreedWhenUnused
<1> QED
  BY <1>1, Invariance, PTL

\* Only lines logged after the Flush of sys_stop can be lost.
THEOREM FlushSavesLines == Spec => []OnlyLateLinesLost
<1>1. IInv => OnlyLateLinesLost
  BY DEF IInv, PoolIsLate, OnlyLateLinesLost
<1> QED
  BY <1>1, Invariance, PTL

\* A destroyed client stays destroyed and unregistered.
THEOREM FreedIsFinal == Spec => FreedForever
<1>1. ASSUME IInv, [Next]_vars, client = "freed"
      PROVE  client' = "freed" /\ refs' = refs /\ registry' = "empty"
  <2>1. refs = 0 /\ Holders = {} /\ ~MainHolds /\ registry = "empty"
        /\ main \in {"stopped", "failed"}
    BY <1>1, HoldersFinite DEF IInv, Typed, RefsExact, AliveWhileHeld,
       SharedIsAlive, ClientPhase
  <2>2. \A t \in Threads : logger[t] = "none"
    BY <2>1 DEF Holders
  <2> QED
    BY <1>1, <2>1, <2>2 DEF Next, vars, lineVars, SysInit, SysStop, LoggerStep,
       CreateClient, CreateClientFails, ShareClient, ShareClientFails,
       FlushClient, ReleaseClient, GetShared, CreateTrace, CreateTraceFails,
       ReleaseTrace, ReleaseShare, Log, WriteLine
<1> QED
  BY <1>1, Invariance, PTL DEF Spec, FreedForever

=============================================================================
