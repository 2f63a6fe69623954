----------------------------- MODULE MCP7Client -----------------------------
(* The instance of P7Client that TLC checks: the threads are interchangeable *)
(* and so are the lines.                                                     *)
EXTENDS P7Client, TLC

Symmetry == Permutations(Threads) \cup Permutations(Lines)

=============================================================================
