----------------------------- MODULE AbseilSink -----------------------------
(***************************************************************************)
(* file_sink, the log sink of the abseil adapter (src/abseil/logger.hpp,   *)
(* lines 29-50), and the threads that log through it.                      *)
(*                                                                         *)
(* abseil calls Send on the logging thread, several threads at a time.     *)
(* Send takes the mutex of the sink and writes the text of the line and    *)
(* its newline with two calls of write; the stream keeps them in memory    *)
(* and spills when it likes.  LOG(FATAL), which LOGBENCH_LOG_FATAL maps    *)
(* to, sends its line, then calls Flush of every sink, then aborts the     *)
(* process (the library's behaviour, external).                            *)
(***************************************************************************)
EXTENDS Integers, Sequences, FiniteSets

CONSTANTS Threads,    \* the threads that log
          MaxLines,   \* bound: the lines one thread logs
          NoThread    \* "the mutex is free"

ASSUME NoThreadIsNone == NoThread \notin Threads
ASSUME MaxLinesNat == MaxLines \in Nat

VARIABLES
  stream,    \* the state of file_: "closed" or "open"
  buffer,    \* what file_ holds in memory, a sequence of chunks
  disk,      \* what has reached the file
  mutex,     \* the owner of mutex_
  pc,        \* where each thread is in the logging call
  nr,        \* how many lines each thread has begun
  fatal,     \* is the line of the thread a FATAL one
  process    \* "up", "exited" or "aborted"

vars == <<stream, buffer, disk, mutex, pc, nr, fatal, process>>
callVars == <<pc, nr, fatal>>
fileVars == <<stream, buffer, disk>>

\* The two parts of a line that Send writes.
Chunk(t, part) == [thread |-> t, nr |-> nr[t], fatal |-> fatal[t], part |-> part]

\* sys_init has run: open() may have failed, nobody looks (logger.hpp:123).
Init ==
  /\ stream \in {"open", "closed"}
  /\ buffer = <<>>
  /\ disk = <<>>
  /\ mutex = NoThread
  /\ pc = [t \in Threads |-> "idle"]
  /\ nr = [t \in Threads |-> 0]
  /\ fatal = [t \in Threads |-> FALSE]
  /\ process = "up"

-----------------------------------------------------------------------------

Goto(t, from, to) ==
  /\ process = "up"
  /\ pc[t] = from
  /\ pc' = [pc EXCEPT ![t] = to]

\* file_.write(): a stream that is not open drops the chunk; an open one may
\* first spill what it holds, or spill the chunk as well.
Write(c) ==
  /\ UNCHANGED stream
  /\ IF stream = "closed" THEN UNCHANGED <<buffer, disk>>
     ELSE \/ buffer' = Append(buffer, c) /\ UNCHANGED disk
          \/ buffer' = <<c>> /\ disk' = disk \o buffer
          \/ buffer' = <<>>  /\ disk' = Append(disk \o buffer, c)

Lock(t) == mutex = NoThread /\ mutex' = t

Unlock == mutex' = NoThread

-----------------------------------------------------------------------------

\* Mutant of LogCall: one line more than there are.
LogCallOneMore(t) ==
  /\ nr[t] <= MaxLines
  /\ Goto(t, "idle", "lock")
  /\ nr' = [nr EXCEPT ![t] = @ + 1]
  /\ \E f \in BOOLEAN : fatal' = [fatal EXCEPT ![t] = f]
  /\ UNCHANGED <<fileVars, mutex, process>>

\* LOG(severity) << ... on thread t.
LogCall(t) ==
  /\ nr[t] < MaxLines
  /\ Goto(t, "idle", "lock")
  /\ nr' = [nr EXCEPT ![t] = @ + 1]
  /\ \E f \in BOOLEAN : fatal' = [fatal EXCEPT ![t] = f]
  /\ UNCHANGED <<fileVars, mutex, process>>

\* Mutant of SendLock: no lock_guard.
SendWithoutLock(t) ==
  /\ Goto(t, "lock", "text")
  /\ UNCHANGED <<fileVars, mutex, nr, fatal, process>>

\* Send: lock_guard.
SendLock(t) ==
  /\ Goto(t, "lock", "text")
  /\ Lock(t)
  /\ UNCHANGED <<fileVars, nr, fatal, process>>

\* Send: write the message with its prefix.
SendText(t) ==
  /\ Goto(t, "text", "newline")
  /\ Write(Chunk(t, "text"))
  /\ UNCHANGED <<mutex, nr, fatal, process>>

\* Send: write the newline.
SendNewline(t) ==
  /\ Goto(t, "newline", "unlock")
  /\ Write(Chunk(t, "newline"))
  /\ UNCHANGED <<mutex, nr, fatal, process>>

\* Mutant of SendUnlock: the mutex is not given back.
SendKeepsLock(t) ==
  /\ Goto(t, "unlock", IF fatal[t] THEN "flush lock" ELSE "idle")
  /\ UNCHANGED <<fileVars, mutex, nr, fatal, process>>

\* Mutant of SendUnlock: a FATAL line is not followed by a Flush.
SendUnlockNoFlush(t) ==
  /\ Goto(t, "unlock", IF fatal[t] THEN "abort" ELSE "idle")
  /\ Unlock
  /\ UNCHANGED <<fileVars, nr, fatal, process>>

\* Send returns; a FATAL line goes on to flush the sinks.
SendUnlock(t) ==
  /\ Goto(t, "unlock", IF fatal[t] THEN "flush lock" ELSE "idle")
  /\ Unlock
  /\ UNCHANGED <<fileVars, nr, fatal, process>>

\* Mutant of FlushLock: no lock_guard.
FlushWithoutLock(t) ==
  /\ Goto(t, "flush lock", "flush")
  /\ UNCHANGED <<fileVars, mutex, nr, fatal, process>>

\* Flush: lock_guard.
FlushLock(t) ==
  /\ Goto(t, "flush lock", "flush")
  /\ Lock(t)
  /\ UNCHANGED <<fileVars, nr, fatal, process>>

\* Mutant of Flush: an empty override, as null_sink has.
FlushNothing(t) ==
  /\ Goto(t, "flush", "flush unlock")
  /\ UNCHANGED <<fileVars, mutex, nr, fatal, process>>

\* Flush: file_.flush().
Flush(t) ==
  /\ Goto(t, "flush", "flush unlock")
  /\ disk' = disk \o buffer
  /\ buffer' = <<>>
  /\ UNCHANGED <<stream, mutex, nr, fatal, process>>

\* Flush returns.
FlushUnlock(t) ==
  /\ Goto(t, "flush unlock", "abort")
  /\ Unlock
  /\ UNCHANGED <<fileVars, nr, fatal, process>>

\* The library ends the process: what the stream still holds is gone.
Abort(t) ==
  /\ process = "up"
  /\ pc[t] = "abort"
  /\ process' = "aborted"
  /\ UNCHANGED <<fileVars, mutex, callVars>>

\* Mutant of Exit: sink_ is never destroyed, so its stream never flushed.
ExitWithoutFlush ==
  /\ process = "up"
  /\ \A t \in Threads : pc[t] = "idle"
  /\ process' = "exited"
  /\ UNCHANGED <<fileVars, mutex, callVars>>

\* main returns when no thread is logging; the destructor of the static
\* sink_ closes the stream and so flushes it (sys_stop does nothing).
Exit ==
  /\ process = "up"
  /\ \A t \in Threads : pc[t] = "idle"
  /\ process' = "exited"
  /\ disk' = disk \o buffer
  /\ buffer' = <<>>
  /\ UNCHANGED <<stream, mutex, callVars>>

-----------------------------------------------------------------------------

Send(t) == SendLock(t) \/ SendText(t) \/ SendNewline(t) \/ SendUnlock(t)

FlushSinks(t) == FlushLock(t) \/ Flush(t) \/ FlushUnlock(t)

Next ==
  \/ \E t \in Threads : LogCall(t) \/ Send(t) \/ FlushSinks(t) \/ Abort(t)
  \/ Exit

\* A thread inside the library is scheduled again and again; nothing forces
\* a thread to log, nor the program to end.
Fairness == \A t \in Threads : WF_vars(Send(t) \/ FlushSinks(t) \/ Abort(t))

Spec == Init /\ [][Next]_vars

FairSpec == Spec /\ Fairness

-----------------------------------------------------------------------------

Places == {"idle", "lock", "text", "newline", "unlock",
           "flush lock", "flush", "flush unlock", "abort"}

Chunks == [thread : Threads, nr : 1..MaxLines, fatal : BOOLEAN,
           part : {"text", "newline"}]

\* The types of the variables; the argument it takes is that the chunks in
\* the file are those of lines that have been begun, none past MaxLines.
TypeOK ==
  /\ stream \in {"open", "closed"}
  /\ buffer \in Seq(Chunks)
  /\ disk \in Seq(Chunks)
  /\ mutex \in Threads \cup {NoThread}
  /\ pc \in [Threads -> Places]
  /\ nr \in [Threads -> 0..MaxLines]
  /\ fatal \in [Threads -> BOOLEAN]
  /\ process \in {"up", "exited", "aborted"}

\* What a thread may have in the file under the mutex.
Critical == {"text", "newline", "unlock", "flush", "flush unlock"}

\* At most one thread is between lock and unlock, and it owns the mutex.
MutualExclusion == \A t \in Threads : pc[t] \in Critical => mutex = t

Written == disk \o buffer

\* The file is a sequence of whole lines: every text is followed by its own
\* newline, except that the line being written may still lack it.
WholeLines ==
  \A i \in DOMAIN Written :
    IF i % 2 = 1
    THEN /\ Written[i].part = "text"
         /\ i = Len(Written) => pc[Written[i].thread] = "newline"
    ELSE Written[i] = [Written[i - 1] EXCEPT !.part = "newline"]

\* How many lines thread t has finished writing.
DoneBy(t) == IF pc[t] \in {"lock", "text", "newline"} THEN nr[t] - 1 ELSE nr[t]

\* Where in a sequence of chunks the lines of thread t end.
EndsOf(t, chunks) ==
  {i \in DOMAIN chunks : chunks[i].thread = t /\ chunks[i].part = "newline"}

\* The lines of a thread are in the file in the order it logged them, each
\* once, none missing that the thread has finished logging, if the file could
\* be opened; after a normal exit they are all on the disk.
NothingMissing ==
  process # "aborted" /\ stream = "open" =>
    LET file == IF process = "exited" THEN disk ELSE Written IN
    \A t \in Threads :
      /\ {file[i].nr : i \in EndsOf(t, file)} = 1 .. DoneBy(t)
      /\ \A i, j \in EndsOf(t, file) : i < j => file[i].nr < file[j].nr

\* When LOG(FATAL) ends the process, the fatal line of every thread that got
\* as far as the abort is on the disk, and with it (the disk is a beginning of
\* the file) all that was logged before it; if the file could be opened.
FatalIsDurable ==
  process = "aborted" /\ stream = "open" =>
    \A t \in Threads : pc[t] = "abort" =>
      \E i \in DOMAIN disk : disk[i] = Chunk(t, "newline")

\* A thread that has begun to log a line returns from the call, or the
\* process is over: no call waits for the mutex for ever.
EveryCallReturns ==
  \A t \in Threads : pc[t] = "lock" ~> pc[t] = "idle" \/ process # "up"

-----------------------------------------------------------------------------
(* The sink implements LineLog: a line is in the log when its newline has   *)
(* been written.                                                           *)

AsLine(c) == [thread |-> c.thread, nr |-> c.nr, fatal |-> c.fatal]

\* The file is whole lines (WholeLines), so every second chunk ends one.
Lines(chunks) == [i \in 1 .. Len(chunks) \div 2 |-> AsLine(chunks[2 * i])]

Abstract == INSTANCE LineLog WITH
  device <- stream, lines <- Lines(Written), durable <- Len(Lines(disk)),
  process <- process

\* file_sink (logger.hpp:29-50) with the flush of LOG(FATAL) and the end of
\* main keeps what LineLog promises: the two locked writes of Send make one
\* line, and a fatal line is durable before the process is aborted.
ImplementsLineLog == Abstract!Spec

=============================================================================
