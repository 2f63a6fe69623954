----------------------------- MODULE MCSysInit ------------------------------
(***************************************************************************)
(* The instance of SysInit that TLC checks: all adapters, and requests on  *)
(* both sides of every boundary.  Word is 2^20 instead of 2^32, so that    *)
(* the products that wrap in 32 bits wrap here, and stay below TLC's own   *)
(* limit: 600 KiB fit for one thread and not for three, 1024 KiB wrap to   *)
(* exactly 0, 400000 KiB wrap to something else.                           *)
(***************************************************************************)
EXTENDS SysInit

Scale == 1048576

Buffers == {-1, 0, 1, 600, 1024, 400000}

MCRequests ==
  [buffer : Buffers, poll : {-1, 0, 5}, flush : {-1, 0, 5}, threads : {1, 3},
   format : {"txt", "bin"}, sink : {"lib", "sort", "unsort", "null"},
   logSelf : BOOLEAN]

MCAdapters == AllAdapters

=============================================================================
