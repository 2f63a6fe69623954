------------------------------ MODULE LineLog -------------------------------
(***************************************************************************)
(* What a benchmark program expects of a synchronous file sink: the log is *)
(* a sequence of whole lines, the lines of one thread are in the order it  *)
(* logged them and each is there once, some beginning of the log is        *)
(* durable, a normal exit makes all of it durable, and the process is not  *)
(* aborted by a fatal line before that line is durable.  A device that     *)
(* could not be opened is never reported: everything logged is dropped.    *)
(***************************************************************************)
EXTENDS Naturals, Sequences, FiniteSets

CONSTANT Threads      \* the threads that log

VARIABLES device,     \* "open", or "closed" if it could not be opened
          lines,      \* the log: who wrote the line, its number, is it fatal
          durable,    \* how many of its lines have reached the disk
          process     \* "up", "exited" or "aborted"

\* How many lines thread t has in the log.
LinesOf(t) == Cardinality({i \in DOMAIN lines : lines[i].thread = t})

Init ==
  /\ device \in {"open", "closed"}
  /\ lines = <<>>
  /\ durable = 0
  /\ process = "up"

\* Thread t appends its next line; the log may reach the disk up to it.
Append1(t) ==
  /\ process = "up"
  /\ device = "open"
  /\ \E f \in BOOLEAN :
       lines' = Append(lines, [thread |-> t, nr |-> LinesOf(t) + 1, fatal |-> f])
  /\ durable' \in durable .. Len(lines')
  /\ UNCHANGED <<device, process>>

\* More of the log reaches the disk.
Persist ==
  /\ process = "up"
  /\ durable' \in durable .. Len(lines)
  /\ UNCHANGED <<device, lines, process>>

Exit ==
  /\ process = "up"
  /\ process' = "exited"
  /\ durable' = Len(lines)
  /\ UNCHANGED <<device, lines>>

Abort ==
  /\ process = "up"
  /\ device = "open" => \E i \in 1 .. durable : lines[i].fatal
  /\ process' = "aborted"
  /\ UNCHANGED <<device, lines, durable>>

Next == (\E t \in Threads : Append1(t)) \/ Persist \/ Exit \/ Abort

Spec == Init /\ [][Next]_<<device, lines, durable, process>>

=============================================================================
