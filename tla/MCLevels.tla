------------------------------ MODULE MCLevels ------------------------------
(* The instance of Levels that TLC checks: all adapters.                   *)
EXTENDS Levels

MCAdapters == AllAdapters

=============================================================================
