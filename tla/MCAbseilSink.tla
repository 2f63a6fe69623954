---------------------------- MODULE MCAbseilSink ----------------------------
(* The instance of AbseilSink that TLC checks.                              *)
EXTENDS AbseilSink

=============================================================================
