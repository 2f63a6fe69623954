---------------------------- MODULE InitContract ----------------------------
(***************************************************************************)
(* What the harness may rely on when it calls sys_init of an adapter,      *)
(* whatever the order in which the adapter looks at its parts.  A request  *)
(* that asks for something the adapter does not do never succeeds; any     *)
(* other succeeds, with a report that is a function of the request, unless *)
(* the system fails an adapter that depends on it.  A call that throws     *)
(* leaves no more than a known residue.                                    *)
(***************************************************************************)
CONSTANTS
  Acceptable(_, _),   \* does the adapter do what the request asks for
  Answer(_, _),       \* the report of a call that succeeds
  EnvironmentMayFail(_, _),  \* can the system fail it before it succeeds or refuses
  Residue(_)          \* what a call that does not succeed may leave behind

VARIABLES adapter, request, outcome, report, residue

vars == <<adapter, request, outcome, report, residue>>

NoReport == "none"

Accept ==
  /\ Acceptable(adapter, request)
  /\ outcome' = "ok"
  /\ report' = Answer(adapter, request)
  /\ UNCHANGED residue

Refuse ==
  /\ ~Acceptable(adapter, request)
  /\ outcome' = "refused"
  /\ residue' \in SUBSET Residue(adapter)
  /\ UNCHANGED report

Fail ==
  /\ EnvironmentMayFail(adapter, request)
  /\ outcome' = "failed"
  /\ residue' \in SUBSET Residue(adapter)
  /\ UNCHANGED report

Init ==
  /\ outcome = "pending"
  /\ report = NoReport
  /\ residue = {}

\* sys_init is called once, so the outcome is final.
Next ==
  /\ outcome = "pending"
  /\ Accept \/ Refuse \/ Fail
  /\ UNCHANGED <<adapter, request>>

Spec == Init /\ [][Next]_vars

=============================================================================
