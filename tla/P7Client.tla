------------------------------ MODULE P7Client ------------------------------
(***************************************************************************)
(* The lifetime of the P7 client shared by the loggers of the p7 adapter   *)
(* (src/p7/logger.hpp).                                                    *)
(*                                                                         *)
(* sys_init creates the client, keeps the raw pointer p7_client_ and       *)
(* shares the client under a name.  Every logger object looks the shared   *)
(* client up, creates a trace channel ON p7_client_ (the raw pointer, not  *)
(* the reference it just obtained), and its destructor releases the trace  *)
(* and then its reference.  sys_stop flushes and releases the reference of *)
(* sys_init.  The client destroys itself when its last reference goes.     *)
(*                                                                         *)
(* The P7 library is external.  It is assumed to do no more than what the  *)
(* adapter needs: a trace keeps no reference of its own, a destroyed       *)
(* client leaves the registry, and drops the lines it has not written.     *)
(* The harness is assumed to do anything: loggers are built and destroyed  *)
(* by any thread before, during and after sys_stop.                        *)
(***************************************************************************)
EXTENDS Integers, FiniteSets

CONSTANTS Threads,  \* the threads that build a logger object
          Lines     \* the log lines a run may write, each at most once

ASSUME ThreadsFinite == IsFiniteSet(Threads)

VARIABLES
  main,     \* where sys_init / sys_stop is
  client,   \* the object p7_client_ points to
  refs,     \* its reference count
  registry, \* what P7_Get_Shared finds under the shared name
  logger,   \* for each thread, where its logger object is in its life
  pool,     \* lines the client has accepted and not yet written
  saved,    \* lines it has written
  lost,     \* lines it dropped when it was destroyed
  late      \* lines logged after the Flush of sys_stop

lineVars == <<pool, saved, lost, late>>
vars == <<main, client, refs, registry, logger, pool, saved, lost, late>>

Init ==
  /\ main = "start"
  /\ client = "absent"
  /\ refs = 0
  /\ registry = "empty"
  /\ logger = [t \in Threads |-> "none"]
  /\ pool = {} /\ saved = {} /\ lost = {} /\ late = {}

-----------------------------------------------------------------------------
(* The reference count of the library.                                     *)

AddRef ==
  /\ refs' = refs + 1
  /\ UNCHANGED <<client, registry, pool, lost>>

\* The last Release destroys the client: it leaves the registry and what is
\* still pooled is gone.
Release ==
  /\ refs' = refs - 1
  /\ IF refs = 1
     THEN /\ client' = "freed"
          /\ registry' = "empty"
          /\ lost' = lost \cup pool
          /\ pool' = {}
     ELSE UNCHANGED <<client, registry, pool, lost>>

-----------------------------------------------------------------------------
(* sys_init.                                                               *)

\* P7_Create_Client returned a client, with one reference.
CreateClient ==
  /\ main = "start"
  /\ main' = "created"
  /\ client' = "alive"
  /\ refs' = 1
  /\ UNCHANGED <<registry, logger, lineVars>>

\* P7_Create_Client returned null: sys_init throws.
CreateClientFails ==
  /\ main = "start"
  /\ main' = "failed"
  /\ UNCHANGED <<client, refs, registry, logger, lineVars>>

\* Share registered the client.
ShareClient ==
  /\ main = "created"
  /\ main' = "running"
  /\ registry' = "client"
  /\ UNCHANGED <<client, refs, logger, lineVars>>

\* Mutant of ShareClientFails: sys_init throws with the reference in hand.
ShareClientFailsLeaks ==
  /\ main = "created"
  /\ main' = "failed"
  /\ UNCHANGED <<client, refs, registry, logger, lineVars>>

\* Share failed: sys_init gives its reference back before it throws.
ShareClientFails ==
  /\ main = "created"
  /\ main' = "failed"
  /\ Release
  /\ UNCHANGED <<logger, saved, late>>

-----------------------------------------------------------------------------
(* sys_stop.                                                               *)

\* Mutant of FlushClient: sys_stop releases without flushing.
FlushClientSkipped ==
  /\ main = "running"
  /\ main' = "flushed"
  /\ UNCHANGED <<client, refs, registry, logger, lineVars>>

\* p7_client_->Flush(): what has been accepted is written.
FlushClient ==
  /\ main = "running"
  /\ main' = "flushed"
  /\ saved' = saved \cup pool
  /\ pool' = {}
  /\ UNCHANGED <<client, refs, registry, logger, lost, late>>

\* p7_client_->Release().
ReleaseClient ==
  /\ main = "flushed"
  /\ main' = "stopped"
  /\ Release
  /\ UNCHANGED <<logger, saved, late>>

-----------------------------------------------------------------------------
(* The constructor and the destructor of logger.                           *)

\* Mutant of GetShared: the logger uses p7_client_ without a reference.
GetSharedUncounted(t) ==
  /\ logger[t] = "none"
  /\ registry = "client"
  /\ logger' = [logger EXCEPT ![t] = "shared"]
  /\ UNCHANGED <<main, client, refs, registry, lineVars>>

\* Mutant of GetShared: the constructor does not test what it was given.
GetSharedUnchecked(t) ==
  /\ logger[t] = "none"
  /\ main \in {"running", "flushed", "stopped"}
  /\ logger' = [logger EXCEPT ![t] = "shared"]
  /\ AddRef
  /\ UNCHANGED <<main, saved, late>>

\* P7_Get_Shared found the client.
GetShared(t) ==
  /\ logger[t] = "none"
  /\ registry = "client"
  /\ logger' = [logger EXCEPT ![t] = "shared"]
  /\ AddRef
  /\ UNCHANGED <<main, saved, late>>

\* P7_Create_Trace(p7_client_, ...) returned a channel.
CreateTrace(t) ==
  /\ logger[t] = "shared"
  /\ logger' = [logger EXCEPT ![t] = "live"]
  /\ UNCHANGED <<main, client, refs, registry, lineVars>>

\* Mutant of CreateTraceFails: the constructor throws with its reference.
CreateTraceFailsLeaks(t) ==
  /\ logger[t] = "shared"
  /\ logger' = [logger EXCEPT ![t] = "none"]
  /\ UNCHANGED <<main, client, refs, registry, lineVars>>

\* P7_Create_Trace returned null: the constructor gives its reference back
\* and throws, so no destructor will run for this object.
CreateTraceFails(t) ==
  /\ logger[t] = "shared"
  /\ logger' = [logger EXCEPT ![t] = "none"]
  /\ Release
  /\ UNCHANGED <<main, saved, late>>

\* Mutant of ReleaseTrace: the destructor releases the client twice.
ReleaseTraceAndClient(t) ==
  /\ logger[t] = "live"
  /\ logger' = [logger EXCEPT ![t] = "closing"]
  /\ Release
  /\ UNCHANGED <<main, saved, late>>

\* ~logger: p7_trace_->Release().
ReleaseTrace(t) ==
  /\ logger[t] = "live"
  /\ logger' = [logger EXCEPT ![t] = "closing"]
  /\ UNCHANGED <<main, client, refs, registry, lineVars>>

\* ~logger: p7_client_share_->Release().
ReleaseShare(t) ==
  /\ logger[t] = "closing"
  /\ logger' = [logger EXCEPT ![t] = "none"]
  /\ Release
  /\ UNCHANGED <<main, saved, late>>

\* One of the LOGBENCH_LOG_ macros: the trace hands a line to the client.
Log(t, l) ==
  /\ logger[t] = "live"
  /\ l \notin pool \cup saved \cup lost
  /\ pool' = pool \cup {l}
  /\ late' = IF main \in {"flushed", "stopped"} THEN late \cup {l} ELSE late
  /\ UNCHANGED <<main, client, refs, registry, logger, saved, lost>>

\* The thread of the library writes a line, at a time of its own choosing.
WriteLine(l) ==
  /\ client = "alive"
  /\ l \in pool
  /\ pool' = pool \ {l}
  /\ saved' = saved \cup {l}
  /\ UNCHANGED <<main, client, refs, registry, logger, lost, late>>

-----------------------------------------------------------------------------

SysInit == CreateClient \/ CreateClientFails \/ ShareClient \/ ShareClientFails

SysStop == FlushClient \/ ReleaseClient

LoggerStep(t) ==
  \/ GetShared(t)
  \/ CreateTrace(t)
  \/ CreateTraceFails(t)
  \/ ReleaseTrace(t)
  \/ ReleaseShare(t)
  \/ \E l \in Lines : Log(t, l)

Next ==
  \/ SysInit
  \/ SysStop
  \/ \E t \in Threads : LoggerStep(t)
  \/ \E l \in Lines : WriteLine(l)

Spec == Init /\ [][Next]_vars

-----------------------------------------------------------------------------

MainPhases == {"start", "created", "running", "flushed", "stopped", "failed"}
LoggerPhases == {"none", "shared", "live", "closing"}

\* The types of the variables; refs \in Nat is the one that takes an
\* argument: no path of the adapter releases a reference it does not have.
TypeOK ==
  /\ main \in MainPhases
  /\ client \in {"absent", "alive", "freed"}
  /\ refs \in Nat
  /\ registry \in {"empty", "client"}
  /\ logger \in [Threads -> LoggerPhases]
  /\ pool \subseteq Lines
  /\ saved \subseteq Lines
  /\ lost \subseteq Lines
  /\ late \subseteq Lines

Holders == {t \in Threads : logger[t] # "none"}

MainHolds == main \in {"created", "running", "flushed"}

\* The reference count is the number of parties that still owe a Release:
\* sys_init until sys_stop (or its own error path) and every logger object
\* under construction, in use or in its destructor (logger.hpp:22-42,
\* 152-165).
RefsExact == refs = Cardinality(Holders) + (IF MainHolds THEN 1 ELSE 0)

\* Whoever is about to call into the client finds it alive: the constructor
\* that passes the raw p7_client_ to P7_Create_Trace, a trace in use, both
\* Releases of the destructor, and sys_init / sys_stop themselves, however
\* sys_stop interleaves with the loggers.
NoDanglingUse ==
  MainHolds \/ Holders # {} => client = "alive"

\* Nothing leaks: once sys_stop, or the failed sys_init, is over and no
\* logger object is left, the client is not alive.
FreedWhenUnused ==
  main \in {"stopped", "failed"} /\ Holders = {} => client # "alive"

\* sys_stop flushes before it releases, so the only lines that the end of
\* the client can drop are lines logged after that Flush, by a logger that
\* outlived it.
OnlyLateLinesLost == lost \subseteq late

\* A destroyed client is never handed out again: its registration goes with
\* it and no logger acquires a reference afterwards.
FreedForever ==
  [][client = "freed" => client' = "freed" /\ refs' = refs /\ registry' = "empty"]_vars

=============================================================================
