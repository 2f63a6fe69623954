---------------------------- MODULE MCSpdlogPool ----------------------------
(* The instance of SpdlogPool that TLC checks.                             *)
EXTENDS SpdlogPool

=============================================================================
