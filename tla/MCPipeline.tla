----------------------------- MODULE MCPipeline -----------------------------
(* The instance of Pipeline that TLC checks: all adapters, and queues that  *)
(* are full with one line and with two.                                     *)
EXTENDS Pipeline

MCAdapters == AllAdapters

=============================================================================
