------------------------------ MODULE AsyncLog ------------------------------
(***************************************************************************)
(* What a benchmark program expects of an asynchronous logging library:    *)
(* the lines that threads have logged wait, and are written to the file    *)
(* one by one, those of one thread in the order it logged them, those of   *)
(* different threads in any order; when the program is over, none is       *)
(* waiting.  A line is its thread and its number among the lines of that   *)
(* thread.                                                                 *)
(***************************************************************************)
EXTENDS Naturals, Sequences

CONSTANT Line         \* the lines, <<thread, number>>

VARIABLES waiting,    \* the lines that have been logged and not written
          written,    \* the file
          over        \* is the program over

vars == <<waiting, written, over>>

Init ==
  /\ waiting = {}
  /\ written = <<>>
  /\ over = FALSE

\* Is line k an earlier line of the thread of l.
Earlier(k, l) == k[1] = l[1] /\ k[2] < l[2]

\* A thread logs its next line: all its other lines are earlier.
Accept(l) ==
  /\ \A k \in waiting : k[1] = l[1] => Earlier(k, l)
  /\ \A i \in DOMAIN written : written[i][1] = l[1] => Earlier(written[i], l)
  /\ waiting' = waiting \cup {l}
  /\ UNCHANGED <<written, over>>

\* A line is written when no earlier one of its thread waits.
Write(l) ==
  /\ l \in waiting
  /\ \A k \in waiting : ~Earlier(k, l)
  /\ written' = Append(written, l)
  /\ waiting' = waiting \ {l}
  /\ UNCHANGED over

End ==
  /\ waiting = {}
  /\ over' = TRUE
  /\ UNCHANGED <<waiting, written>>

Next ==
  /\ ~over
  /\ \/ \E l \in Line : Accept(l) \/ Write(l)
     \/ End

Spec == Init /\ [][Next]_vars

=============================================================================
