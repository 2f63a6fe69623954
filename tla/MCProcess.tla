----------------------------- MODULE MCProcess -----------------------------
(***************************************************************************)
(* The instance of Process that TLC checks: all adapters, and requests of  *)
(* which each adapter accepts some and refuses others at every place where *)
(* it can; 0 is in it as a size and as a time.                             *)
(***************************************************************************)
EXTENDS Process

MCRequests ==
  [buffer : {-1, 0, 1}, poll : {-1, 0, 5}, flush : {-1, 5}, threads : {1, 2},
   format : {"txt", "bin"}, sink : {"lib", "unsort", "null"}, logSelf : {FALSE}]

MCAdapters ==
  {"noop", "abseil", "boost", "g3log", "log4cxx", "p7", "poco", "quill", "quill-bounded",
   "spdlog", "spdlogv2", "fstlog-st", "fstlog-stfix", "fstlog-fast", "fstlog-lowl",
   "fstlog-mt", "fstlog-tloc"}

=============================================================================
