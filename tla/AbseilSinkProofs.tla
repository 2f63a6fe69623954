-------------------------- MODULE AbseilSinkProofs --------------------------
(***************************************************************************)
(* Proofs about AbseilSink, for every set of threads and number of lines.  *)
(***************************************************************************)
EXTENDS AbseilSink, SequenceTheorems, FiniteSetTheorems, FunctionTheorems, TLAPS

\* Each thread is somewhere in the logging call, and whoever is inside the
\* mutex owns it.  With "owns", the property is inductive: a free mutex is
\* owned by nobody, since NoThread is not a thread.
Owned ==
  /\ pc \in [Threads -> Places]
  /\ MutualExclusion

\* The steps that take the mutex find it free, so no thread is inside.
LEMMA LockOwned ==
  ASSUME Owned, NEW t \in Threads, SendLock(t) \/ FlushLock(t)
  PROVE  Owned'
<1>1. \A u \in Threads : pc[u] \notin Critical
  BY NoThreadIsNone DEF Owned, MutualExclusion, SendLock, FlushLock, Lock
<1>2. mutex' = t /\ \A u \in Threads \ {t} : pc'[u] = pc[u]
  BY DEF Owned, SendLock, FlushLock, Lock, Goto
<1>3. pc' \in [Threads -> Places]
  BY DEF Owned, SendLock, FlushLock, Goto, Places
<1> QED
  BY <1>1, <1>2, <1>3 DEF Owned, MutualExclusion

\* The steps that give the mutex back are taken by its owner, who leaves.
LEMMA UnlockOwned ==
  ASSUME Owned, NEW t \in Threads, SendUnlock(t) \/ FlushUnlock(t)
  PROVE  Owned'
<1>1. mutex = t
  BY DEF Owned, MutualExclusion, Critical, SendUnlock, FlushUnlock, Goto
<1>2. /\ \A u \in Threads \ {t} : pc'[u] = pc[u]
      /\ pc'[t] \in {"flush lock", "idle", "abort"}
      /\ pc' \in [Threads -> Places]
  BY DEF Owned, SendUnlock, FlushUnlock, Goto, Places
<1> QED
  BY <1>1, <1>2 DEF Owned, MutualExclusion, Critical

\* The other steps of a thread leave the mutex alone, and move it inside the
\* mutex only from inside.
LEMMA InsideOwned ==
  ASSUME Owned, NEW t \in Threads,
         LogCall(t) \/ SendText(t) \/ SendNewline(t) \/ Flush(t)
  PROVE  Owned'
<1>1. mutex' = mutex /\ \A u \in Threads \ {t} : pc'[u] = pc[u]
  BY DEF Owned, LogCall, SendText, SendNewline, Flush, Goto
<1>2. pc' \in [Threads -> Places]
  BY DEF Owned, LogCall, SendText, SendNewline, Flush, Goto, Places
<1>3. pc'[t] \in Critical => pc[t] \in Critical
  BY DEF Owned, LogCall, SendText, SendNewline, Flush, Goto, Critical
<1> QED
  BY <1>1, <1>2, <1>3 DEF Owned, MutualExclusion

\* Every step keeps the mutex owned.
LEMMA OwnedStep == Owned /\ [Next]_vars => Owned'
<1> SUFFICES ASSUME Owned, [Next]_vars
             PROVE  Owned'
  OBVIOUS
<1>1. CASE \E t \in Threads : LogCall(t) \/ Send(t) \/ FlushSinks(t)
  BY <1>1, LockOwned, UnlockOwned, InsideOwned DEF Send, FlushSinks
<1>2. CASE (\E t \in Threads : Abort(t)) \/ Exit \/ UNCHANGED vars
  BY <1>2 DEF Abort, Exit, callVars, vars, Owned, MutualExclusion
<1> QED
  BY <1>1, <1>2 DEF Next

\* At most one thread writes to, or flushes, the stream of the sink at a
\* time: the two writes of Send are never separated by another thread's.
THEOREM OneWriter == Spec => []MutualExclusion
<1>1. Init => Owned
  BY DEF Init, Owned, MutualExclusion, Places, Critical
<1>2. Owned => MutualExclusion
  BY DEF Owned
<1> QED
  BY <1>1, <1>2, OwnedStep, PTL DEF Spec


-----------------------------------------------------------------------------
(* The types.                                                              *)

\* A thread inside the call has begun a line.
Begun == \A t \in Threads : pc[t] # "idle" => nr[t] >= 1

Typed == TypeOK /\ Begun

\* The chunks that a thread inside the call writes are well-formed.
LEMMA ChunkTyped ==
  ASSUME Typed, NEW t \in Threads, pc[t] # "idle",
         NEW part \in {"text", "newline"}
  PROVE  Chunk(t, part) \in Chunks
BY MaxLinesNat DEF Typed, TypeOK, Begun, Chunk, Chunks

\* A write to an open stream makes the file one chunk longer, wherever the
\* chunk ends up, and what was on the disk stays there.
LEMMA WriteAppends ==
  ASSUME Typed, NEW c \in Chunks, Write(c), stream = "open"
  PROVE  /\ Written' = Append(Written, c)
         /\ buffer' \in Seq(Chunks)
         /\ disk' \in Seq(Chunks)
         /\ Len(disk) <= Len(disk') /\ Len(disk') <= Len(Written')
         /\ \A i \in 1 .. Len(disk) : disk'[i] = disk[i]
<1>1. buffer \in Seq(Chunks) /\ disk \in Seq(Chunks)
  BY DEF Typed, TypeOK
<1>2. CASE buffer' = Append(buffer, c) /\ UNCHANGED disk
  BY <1>1, <1>2 DEF Written
<1>3. CASE buffer' = <<c>> /\ disk' = disk \o buffer
  BY <1>1, <1>3 DEF Written
<1>4. CASE buffer' = <<>> /\ disk' = Append(disk \o buffer, c)
  BY <1>1, <1>4 DEF Written
<1> QED
  BY <1>2, <1>3, <1>4 DEF Write

\* Every step keeps the types: the two writes of Send are the steps that put
\* chunks into the buffer or on the disk.
LEMMA TypedStep == Typed /\ [Next]_vars => Typed'
<1> SUFFICES ASSUME Typed, [Next]_vars
             PROVE  Typed'
  OBVIOUS
<1> USE DEF Typed, TypeOK, Begun, Goto, fileVars, callVars
<1>1. ASSUME NEW t \in Threads, LogCall(t) PROVE Typed'
  <2>1. PICK f \in BOOLEAN : fatal' = [fatal EXCEPT ![t] = f]
    BY <1>1 DEF LogCall
  <2>2. nr' \in [Threads -> 0 .. MaxLines] /\ nr'[t] >= 1
    BY <1>1, MaxLinesNat DEF LogCall
  <2>3. \A u \in Threads : u # t => pc'[u] = pc[u] /\ nr'[u] = nr[u]
    BY <1>1 DEF LogCall
  <2>4. pc' \in [Threads -> Places] /\ fatal' \in [Threads -> BOOLEAN]
    BY <1>1, <2>1 DEF LogCall, Places
  <2> QED
    BY <1>1, <2>2, <2>3, <2>4 DEF LogCall, Chunks
<1>2. ASSUME NEW t \in Threads, NEW part \in {"text", "newline"},
             pc[t] # "idle", Write(Chunk(t, part))
      PROVE  UNCHANGED stream /\ (buffer \in Seq(Chunks))' /\ (disk \in Seq(Chunks))'
  BY <1>2, ChunkTyped, WriteAppends DEF Write
<1>3. ASSUME NEW t \in Threads, SendText(t) \/ SendNewline(t) PROVE Typed'
  <2>1. UNCHANGED stream /\ (buffer \in Seq(Chunks))' /\ (disk \in Seq(Chunks))'
    BY <1>2, <1>3 DEF SendText, SendNewline
  <2> QED
    BY <1>3, <2>1 DEF SendText, SendNewline, Places, Chunks
<1>4. ASSUME NEW t \in Threads,
             SendLock(t) \/ SendUnlock(t) \/ FlushLock(t) \/ FlushUnlock(t)
      PROVE  Typed'
  BY <1>4 DEF SendLock, SendUnlock, FlushLock, FlushUnlock, Lock, Unlock, Places, Chunks
<1>5. ASSUME NEW t \in Threads, Flush(t) PROVE Typed'
  <2>1. (buffer \in Seq(Chunks))' /\ (disk \in Seq(Chunks))'
    BY <1>5, ConcatProperties, EmptySeq DEF Flush
  <2> QED
    BY <1>5, <2>1 DEF Flush, Places
<1>6. ASSUME NEW t \in Threads, Abort(t) PROVE Typed'
  BY <1>6 DEF Abort, Chunks
<1>7. CASE Exit
  <2>1. (buffer \in Seq(Chunks))' /\ (disk \in Seq(Chunks))'
    BY <1>7 DEF Exit
  <2> QED
    BY <1>7, <2>1 DEF Exit
<1>8. CASE UNCHANGED vars
  BY <1>8 DEF vars, Chunks
<1> QED
  BY <1>1, <1>3, <1>4, <1>5, <1>6, <1>7, <1>8 DEF Next, Send, FlushSinks

\* The types of the variables of the sink and its threads: what is in the
\* file are parts of lines that a thread has begun to log.
THEOREM TypeCorrect == Spec => []TypeOK
<1>1. Init => Typed
  BY MaxLinesNat DEF Init, Typed, TypeOK, Begun, Places
<1>2. Typed => TypeOK
  BY DEF Typed
<1> QED
  BY <1>1, <1>2, TypedStep, PTL DEF Spec

-----------------------------------------------------------------------------
(* The inductive invariant.  Each property of AbseilSink about the file     *)
(* speaks of a moment (the end of the process, a call that is over); IInv   *)
(* says what the file looks like at every place of a call.                  *)

\* Nothing gets into a stream that is not open.
ClosedIsEmpty == stream = "closed" => disk = <<>> /\ buffer = <<>>

\* A thread between its two writes has its text at the end of the file.
TextAtEnd ==
  \A t \in Threads : pc[t] = "newline" /\ stream = "open" =>
    Len(Written) % 2 = 1 /\ Written[Len(Written)] = Chunk(t, "text")

\* NothingMissing at every moment, of what is on the disk and what is not.
Numbered(t) ==
  /\ {Written[i].nr : i \in EndsOf(t, Written)} = 1 .. DoneBy(t)
  /\ \A i, j \in EndsOf(t, Written) : i < j => Written[i].nr < Written[j].nr

AllNumbered == stream = "open" => \A t \in Threads : Numbered(t)

\* A thread that is past its newline has its line in the file ...
PastNewline == {"unlock", "flush lock", "flush", "flush unlock", "abort"}

LineWritten ==
  \A t \in Threads : pc[t] \in PastNewline /\ stream = "open" =>
    \E i \in DOMAIN Written : Written[i] = Chunk(t, "newline")

\* ... and one that is past its flush has it on the disk.
LineFlushed ==
  \A t \in Threads : pc[t] \in {"flush unlock", "abort"} /\ stream = "open" =>
    \E i \in DOMAIN disk : disk[i] = Chunk(t, "newline")

\* Only fatal lines are followed by a flush and an abort.
OnlyFatalFlushed ==
  \A t \in Threads : pc[t] \in PastNewline \ {"unlock"} => fatal[t]

\* How the process ended.
Ended ==
  /\ process = "exited" => buffer = <<>>
  /\ process = "aborted" => \E t \in Threads : pc[t] = "abort"

IInv ==
  /\ Typed
  /\ Owned
  /\ ClosedIsEmpty
  /\ WholeLines
  /\ TextAtEnd
  /\ AllNumbered
  /\ LineWritten
  /\ LineFlushed
  /\ OnlyFatalFlushed
  /\ Ended

\* The file is a sequence of chunks of threads.
LEMMA WrittenTyped ==
  ASSUME Typed
  PROVE  /\ Written \in Seq(Chunks)
         /\ Len(Written) = Len(disk) + Len(buffer)
         /\ DOMAIN Written = 1 .. Len(Written)
         /\ \A i \in DOMAIN Written : Written[i].thread \in Threads
         /\ \A i \in 1 .. Len(disk) : i \in DOMAIN Written /\ Written[i] = disk[i]
<1>1. disk \in Seq(Chunks) /\ buffer \in Seq(Chunks)
  BY DEF Typed, TypeOK
<1>2. Written \in Seq(Chunks) /\ Len(Written) = Len(disk) + Len(buffer)
  BY <1>1 DEF Written
<1>3. \A i \in DOMAIN Written : Written[i] \in Chunks
  BY <1>2
<1>4. \A c \in Chunks : c.thread \in Threads
  BY DEF Chunks
<1>5. \A i \in 1 .. Len(disk) : i \in DOMAIN Written /\ Written[i] = disk[i]
  BY <1>1, <1>2 DEF Written
<1> QED
  BY <1>2, <1>3, <1>4, <1>5

\* What a step that does not write may do to the place and the line of a
\* thread: it neither brings it to nor from its second write, and a line that
\* is past its newline stays the line it was.
Quiet(u) ==
  /\ pc'[u] = "newline" <=> pc[u] = "newline"
  /\ pc'[u] \in PastNewline => pc[u] \in PastNewline
  /\ pc'[u] \in PastNewline \cup {"newline"} => nr'[u] = nr[u] /\ fatal'[u] = fatal[u]
  /\ DoneBy(u)' = DoneBy(u)

\* Such a step keeps what IInv says of the file as long as it keeps the file.
LEMMA FileStays ==
  ASSUME IInv, UNCHANGED stream, Written' = Written, \A u \in Threads : Quiet(u)
  PROVE  WholeLines' /\ TextAtEnd' /\ AllNumbered' /\ LineWritten'
<1>1. WholeLines'
  BY WrittenTyped DEF IInv, WholeLines, Quiet
<1>2. TextAtEnd'
  BY DEF IInv, TextAtEnd, Quiet, Chunk
<1>3. AllNumbered'
  BY DEF IInv, AllNumbered, Numbered, EndsOf, Quiet
<1>4. LineWritten'
  BY DEF IInv, LineWritten, Quiet, Chunk
<1> QED
  BY <1>1, <1>2, <1>3, <1>4

\* The part of IInv that each step is shown to keep, Typed and Owned apart.
FileInv ==
  /\ ClosedIsEmpty
  /\ WholeLines
  /\ TextAtEnd
  /\ AllNumbered
  /\ LineWritten
  /\ LineFlushed
  /\ OnlyFatalFlushed
  /\ Ended

\* The steps of the call that leave the stream alone.
LEMMA CallKeepsFile ==
  ASSUME IInv, NEW t \in Threads,
         LogCall(t) \/ SendLock(t) \/ SendUnlock(t) \/ FlushLock(t) \/ FlushUnlock(t)
  PROVE  FileInv'
<1>1. UNCHANGED <<stream, buffer, disk, process>> /\ process = "up"
  BY DEF LogCall, SendLock, SendUnlock, FlushLock, FlushUnlock, fileVars, Goto
<1>2. ASSUME NEW u \in Threads, u # t
      PROVE  pc'[u] = pc[u] /\ nr'[u] = nr[u] /\ fatal'[u] = fatal[u]
  BY <1>2 DEF IInv, Typed, TypeOK, LogCall, SendLock, SendUnlock, FlushLock, FlushUnlock, Goto
<1>3. \/ pc[t] = "idle" /\ pc'[t] = "lock" /\ nr'[t] = nr[t] + 1
      \/ /\ nr'[t] = nr[t] /\ fatal'[t] = fatal[t]
         /\ \/ pc[t] = "lock" /\ pc'[t] = "text"
            \/ pc[t] = "unlock" /\ pc'[t] \in {"flush lock", "idle"}
            \/ pc[t] = "flush lock" /\ pc'[t] = "flush"
            \/ pc[t] = "flush unlock" /\ pc'[t] = "abort"
  BY DEF IInv, Typed, TypeOK, LogCall, SendLock, SendUnlock, FlushLock, FlushUnlock, Goto
<1>4. nr[t] \in Int
  BY MaxLinesNat DEF IInv, Typed, TypeOK
<1>11. ASSUME pc[t] = "unlock", pc'[t] = "flush lock"
       PROVE  fatal[t]
  <2>1. SendUnlock(t)
    BY <1>11 DEF LogCall, SendLock, FlushLock, FlushUnlock, Goto
  <2>2. pc'[t] = IF fatal[t] THEN "flush lock" ELSE "idle"
    BY <2>1 DEF IInv, Typed, TypeOK, SendUnlock, Goto
  <2> QED
    BY <1>11, <2>2
<1>5. \A u \in Threads : Quiet(u)
  <2>1. Quiet(t)
    <3>1. DoneBy(t)' = DoneBy(t)
      <4>1. CASE pc[t] = "idle"
        BY <1>3, <1>4, <4>1 DEF DoneBy
      <4>2. CASE pc[t] # "idle"
        BY <1>3, <4>2 DEF DoneBy
      <4> QED
        BY <4>1, <4>2
    <3> QED
      BY <1>3, <3>1 DEF Quiet, PastNewline
  <2> QED
    BY <1>2, <2>1 DEF Quiet, PastNewline, DoneBy
<1>6. WholeLines' /\ TextAtEnd' /\ AllNumbered' /\ LineWritten'
  BY <1>1, <1>5, FileStays DEF Written
<1>7. ASSUME NEW u \in Threads, pc'[u] \in {"flush unlock", "abort"}
      PROVE  /\ pc[u] \in {"flush unlock", "abort"}
             /\ Chunk(u, "newline")' = Chunk(u, "newline")
  BY <1>2, <1>3, <1>7 DEF Chunk
<1>8. LineFlushed'
  BY <1>1, <1>7 DEF IInv, LineFlushed
<1>9. OnlyFatalFlushed'
  <2> SUFFICES ASSUME NEW u \in Threads, pc'[u] \in PastNewline \ {"unlock"}
               PROVE  fatal'[u]
    BY DEF OnlyFatalFlushed
  <2>1. CASE u = t
    BY <1>3, <1>11, <2>1 DEF IInv, OnlyFatalFlushed, PastNewline
  <2>2. CASE u # t
    BY <1>2, <2>2 DEF IInv, OnlyFatalFlushed
  <2> QED
    BY <2>1, <2>2
<1>10. ClosedIsEmpty' /\ Ended'
  BY <1>1 DEF IInv, ClosedIsEmpty, Ended
<1> QED
  BY <1>6, <1>8, <1>9, <1>10 DEF FileInv

\* Flush moves what the stream holds to the disk, so the file stays the same
\* and all of it is durable.
LEMMA FlushKeepsFile ==
  ASSUME IInv, NEW t \in Threads, Flush(t)
  PROVE  FileInv'
<1>1. buffer \in Seq(Chunks) /\ disk \in Seq(Chunks)
  BY DEF IInv, Typed, TypeOK
<1>2. Written' = Written /\ disk' = Written /\ buffer' = <<>>
  <2>1. Written \in Seq(Chunks)
    BY <1>1, ConcatProperties DEF Written
  <2> QED
    BY <2>1, ConcatEmptySeq DEF Flush, Written
<1>3. /\ UNCHANGED <<stream, nr, fatal, process>> /\ process = "up"
      /\ pc[t] = "flush" /\ pc'[t] = "flush unlock"
      /\ \A u \in Threads : u # t => pc'[u] = pc[u]
  BY DEF IInv, Typed, TypeOK, Flush, Goto
<1>4. \A u \in Threads : Quiet(u)
  BY <1>3 DEF Quiet, PastNewline, DoneBy
<1>5. WholeLines' /\ TextAtEnd' /\ AllNumbered' /\ LineWritten'
  BY <1>2, <1>3, <1>4, FileStays
<1>6. LineFlushed'
  BY <1>2, <1>5 DEF LineWritten, LineFlushed, PastNewline
<1>7. OnlyFatalFlushed'
  BY <1>3 DEF IInv, OnlyFatalFlushed, PastNewline
<1>8. ClosedIsEmpty' /\ Ended'
  BY <1>1, <1>2, <1>3, EmptySeq, ConcatEmptySeq DEF IInv, ClosedIsEmpty, Ended, Written
<1> QED
  BY <1>5, <1>6, <1>7, <1>8 DEF FileInv

\* A write to a stream that could not be opened leaves no trace.
LEMMA ClosedKeepsFile ==
  ASSUME IInv, NEW t \in Threads, SendText(t) \/ SendNewline(t), stream = "closed"
  PROVE  FileInv'
<1>1. /\ UNCHANGED <<stream, buffer, disk, nr, fatal, process>> /\ process = "up"
      /\ pc'[t] \in {"newline", "unlock"} /\ \A u \in Threads : u # t => pc'[u] = pc[u]
  BY DEF IInv, Typed, TypeOK, SendText, SendNewline, Write, Goto
<1>2. stream' = "closed" /\ Written' = <<>>
  BY <1>1, EmptySeq, ConcatEmptySeq DEF IInv, ClosedIsEmpty, Written
<1>3. WholeLines'
  BY <1>2 DEF WholeLines
<1> QED
  BY <1>1, <1>2, <1>3 DEF IInv, FileInv, ClosedIsEmpty, TextAtEnd, AllNumbered,
     LineWritten, LineFlushed, OnlyFatalFlushed, Ended, PastNewline

\* What the two writes of Send have in common when the stream is open.
LEMMA SendAppends ==
  ASSUME IInv, NEW t \in Threads, NEW part \in {"text", "newline"},
         \/ part = "text" /\ SendText(t)
         \/ part = "newline" /\ SendNewline(t),
         stream = "open"
  PROVE  /\ Written' = Append(Written, Chunk(t, part))
         /\ Chunk(t, part) \in Chunks
         /\ Len(Written) \in Nat
         /\ Len(Written') = Len(Written) + 1
         /\ DOMAIN Written' = 1 .. Len(Written) + 1
         /\ \A i \in DOMAIN Written : Written'[i] = Written[i]
         /\ Written'[Len(Written) + 1] = Chunk(t, part)
         /\ UNCHANGED <<stream, nr, fatal, process>>
         /\ pc[t] = part /\ pc'[t] = IF part = "text" THEN "newline" ELSE "unlock"
         /\ \A u \in Threads : u # t => pc'[u] = pc[u]
         /\ \A i \in DOMAIN disk : i \in DOMAIN disk' /\ disk'[i] = disk[i]
<1>1. Write(Chunk(t, part)) /\ UNCHANGED <<stream, nr, fatal, process>>
  BY DEF SendText, SendNewline, Write
<1>2. /\ pc[t] = part /\ pc'[t] = IF part = "text" THEN "newline" ELSE "unlock"
      /\ \A u \in Threads : u # t => pc'[u] = pc[u]
  BY DEF IInv, Typed, TypeOK, SendText, SendNewline, Goto
<1>3. Chunk(t, part) \in Chunks
  BY <1>2, ChunkTyped DEF IInv
<1>4. /\ Written' = Append(Written, Chunk(t, part))
      /\ disk \in Seq(Chunks) /\ disk' \in Seq(Chunks)
      /\ Len(disk) <= Len(disk')
      /\ \A i \in 1 .. Len(disk) : disk'[i] = disk[i]
  BY <1>1, <1>3, WriteAppends DEF IInv, Typed, TypeOK
<1>5. Written \in Seq(Chunks)
  BY WrittenTyped DEF IInv
<1>6. /\ Len(Written) \in Nat
      /\ Len(Written') = Len(Written) + 1
      /\ DOMAIN Written' = 1 .. Len(Written) + 1
      /\ \A i \in DOMAIN Written : Written'[i] = Written[i]
      /\ Written'[Len(Written) + 1] = Chunk(t, part)
  BY <1>3, <1>4, <1>5, AppendProperties, LenProperties
<1>7. \A i \in DOMAIN disk : i \in DOMAIN disk' /\ disk'[i] = disk[i]
  BY <1>4
<1> QED
  BY <1>1, <1>2, <1>3, <1>4, <1>6, <1>7

\* The text of a line goes where a line may begin: nobody else is between
\* his two writes.
LEMMA TextKeepsFile ==
  ASSUME IInv, NEW t \in Threads, SendText(t), stream = "open"
  PROVE  FileInv'
<1> DEFINE n == Len(Written)
<1>1. /\ Written' = Append(Written, Chunk(t, "text"))
      /\ n \in Nat /\ Len(Written') = n + 1 /\ DOMAIN Written' = 1 .. n + 1
      /\ \A i \in DOMAIN Written : Written'[i] = Written[i]
      /\ Written'[n + 1] = Chunk(t, "text")
      /\ UNCHANGED <<stream, nr, fatal, process>>
      /\ pc[t] = "text" /\ pc'[t] = "newline"
      /\ \A u \in Threads : u # t => pc'[u] = pc[u]
      /\ \A i \in DOMAIN disk : i \in DOMAIN disk' /\ disk'[i] = disk[i]
  BY SendAppends
<1>2. DOMAIN Written = 1 .. n
  BY WrittenTyped DEF IInv
<1>3. \A u \in Threads : pc[u] # "newline"
  BY <1>1 DEF IInv, Owned, MutualExclusion, Critical
<1>4. n % 2 = 0
  <2>1. n % 2 = 0 \/ n % 2 = 1
    BY <1>1
  <2>2. ASSUME n % 2 = 1
        PROVE  FALSE
    <3>1. n \in DOMAIN Written
      BY <1>1, <1>2, <2>2
    <3> QED
      BY <1>3, <2>2, <3>1, WrittenTyped DEF IInv, WholeLines
  <2> QED
    BY <2>1, <2>2
<1>5. (n + 1) % 2 = 1
  BY <1>1, <1>4
<1>6. Chunk(t, "text").part = "text" /\ Chunk(t, "text").thread = t
  BY DEF Chunk
<1>7. WholeLines'
  <2>1. DOMAIN Written' = 1 .. n + 1 /\ Len(Written') = n + 1
    BY <1>1
  <2> SUFFICES ASSUME NEW i \in 1 .. n + 1
               PROVE  IF i % 2 = 1
                      THEN /\ Written'[i].part = "text"
                           /\ i = n + 1 => pc'[Written'[i].thread] = "newline"
                      ELSE Written'[i] = [Written'[i - 1] EXCEPT !.part = "newline"]
    BY <2>1 DEF WholeLines
  <2>2. CASE i = n + 1
    BY <1>1, <1>5, <1>6, <2>2
  <2>3. CASE i \in 1 .. n /\ i % 2 = 1
    BY <1>1, <1>2, <2>3 DEF IInv, WholeLines
  <2>4. CASE i \in 1 .. n /\ i % 2 # 1
    <3>1. i - 1 \in DOMAIN Written
      BY <1>1, <1>2, <2>4
    <3> QED
      BY <1>1, <1>2, <2>4, <3>1 DEF IInv, WholeLines
  <2> QED
    BY <1>1, <2>2, <2>3, <2>4
<1>8. TextAtEnd'
  BY <1>1, <1>3, <1>5 DEF TextAtEnd, Chunk
<1>9. AllNumbered'
  <2>1. \A u \in Threads : DoneBy(u)' = DoneBy(u)
    BY <1>1 DEF DoneBy
  <2>2. \A u \in Threads : EndsOf(u, Written)' = EndsOf(u, Written)
    BY <1>1, <1>2, <1>6 DEF EndsOf
  <2>3. \A u \in Threads : \A i \in EndsOf(u, Written) : Written'[i] = Written[i]
    BY <1>1 DEF EndsOf
  <2> QED
    <3> SUFFICES ASSUME NEW u \in Threads
                 PROVE  Numbered(u)'
      BY DEF AllNumbered
    <3>1. Numbered(u)
      BY DEF IInv, AllNumbered
    <3>2. {Written'[i].nr : i \in EndsOf(u, Written)} = {Written[i].nr : i \in EndsOf(u, Written)}
      BY <2>3
    <3> QED
      BY <2>1, <2>2, <2>3, <3>1, <3>2 DEF Numbered
<1>10. LineWritten' /\ LineFlushed' /\ OnlyFatalFlushed'
  <2>1. \A u \in Threads : Chunk(u, "newline")' = Chunk(u, "newline")
    BY <1>1 DEF Chunk
  <2>2. \A u \in Threads : pc'[u] \in PastNewline => pc'[u] = pc[u]
    BY <1>1 DEF PastNewline
  <2>3. LineWritten'
    BY <1>1, <1>2, <2>1, <2>2 DEF IInv, LineWritten
  <2>4. LineFlushed'
    BY <1>1, <2>1, <2>2 DEF IInv, LineFlushed, PastNewline
  <2> QED
    BY <1>1, <2>2, <2>3, <2>4 DEF IInv, OnlyFatalFlushed
<1>11. ClosedIsEmpty' /\ Ended'
  BY <1>1 DEF IInv, Typed, TypeOK, ClosedIsEmpty, Ended, SendText, Goto
<1> QED
  BY <1>7, <1>8, <1>9, <1>10, <1>11 DEF FileInv

\* The newline goes right behind the text of its line, and makes it the next
\* line of its thread.
LEMMA NewlineKeepsFile ==
  ASSUME IInv, NEW t \in Threads, SendNewline(t), stream = "open"
  PROVE  FileInv'
<1> DEFINE n == Len(Written)
<1>1. /\ Written' = Append(Written, Chunk(t, "newline"))
      /\ n \in Nat /\ Len(Written') = n + 1 /\ DOMAIN Written' = 1 .. n + 1
      /\ \A i \in DOMAIN Written : Written'[i] = Written[i]
      /\ Written'[n + 1] = Chunk(t, "newline")
      /\ UNCHANGED <<stream, nr, fatal, process>>
      /\ pc[t] = "newline" /\ pc'[t] = "unlock"
      /\ \A u \in Threads : u # t => pc'[u] = pc[u]
      /\ \A i \in DOMAIN disk : i \in DOMAIN disk' /\ disk'[i] = disk[i]
  BY SendAppends
<1>2. DOMAIN Written = 1 .. n
  BY WrittenTyped DEF IInv
<1>3. \A u \in Threads : pc'[u] # "newline"
  BY <1>1 DEF IInv, Owned, MutualExclusion, Critical
<1>4. n % 2 = 1 /\ Written[n] = Chunk(t, "text")
  BY <1>1 DEF IInv, TextAtEnd
<1>5. (n + 1) % 2 = 0 /\ n \in DOMAIN Written
  BY <1>1, <1>2, <1>4
<1>6. /\ Chunk(t, "newline").part = "newline" /\ Chunk(t, "newline").thread = t
      /\ Chunk(t, "newline").nr = nr[t]
      /\ Chunk(t, "newline") = [Chunk(t, "text") EXCEPT !.part = "newline"]
  BY DEF Chunk
<1>7. WholeLines'
  <2>1. DOMAIN Written' = 1 .. n + 1 /\ Len(Written') = n + 1
    BY <1>1
  <2> SUFFICES ASSUME NEW i \in 1 .. n + 1
               PROVE  IF i % 2 = 1
                      THEN /\ Written'[i].part = "text"
                           /\ i = n + 1 => pc'[Written'[i].thread] = "newline"
                      ELSE Written'[i] = [Written'[i - 1] EXCEPT !.part = "newline"]
    BY <2>1 DEF WholeLines
  <2>2. CASE i = n + 1
    BY <1>1, <1>4, <1>5, <1>6, <2>2
  <2>3. CASE i \in 1 .. n /\ i % 2 = 1
    BY <1>1, <1>2, <2>3 DEF IInv, WholeLines
  <2>4. CASE i \in 1 .. n /\ i % 2 # 1
    <3>1. i - 1 \in DOMAIN Written
      BY <1>1, <1>2, <2>4
    <3> QED
      BY <1>1, <1>2, <2>4, <3>1 DEF IInv, WholeLines
  <2> QED
    BY <1>1, <2>2, <2>3, <2>4
<1>8. TextAtEnd'
  BY <1>3 DEF TextAtEnd
<1>9. AllNumbered'
  <2> SUFFICES ASSUME NEW u \in Threads
               PROVE  Numbered(u)'
    BY DEF AllNumbered
  <2>1. Numbered(u)
    BY <1>1 DEF IInv, AllNumbered
  <2>2. CASE u # t
    <3>1. DoneBy(u)' = DoneBy(u)
      BY <1>1, <2>2 DEF DoneBy
    <3>2. EndsOf(u, Written)' = EndsOf(u, Written)
      BY <1>1, <1>2, <1>6, <2>2 DEF EndsOf
    <3>3. \A i \in EndsOf(u, Written) : Written'[i] = Written[i]
      BY <1>1 DEF EndsOf
    <3>4. {Written'[i].nr : i \in EndsOf(u, Written)} = {Written[i].nr : i \in EndsOf(u, Written)}
      BY <3>3
    <3> QED
      BY <2>1, <3>1, <3>2, <3>3, <3>4 DEF Numbered
  <2>3. CASE u = t
    <3>1. /\ nr[t] \in Nat /\ nr[t] >= 1
          /\ DoneBy(t) = nr[t] - 1 /\ DoneBy(t)' = nr[t]
      BY <1>1, MaxLinesNat DEF IInv, Typed, TypeOK, Begun, DoneBy
    <3>2. EndsOf(t, Written)' = EndsOf(t, Written) \cup {n + 1}
      BY <1>1, <1>2, <1>6 DEF EndsOf
    <3>3. \A i \in EndsOf(t, Written) : i \in 1 .. n /\ Written'[i] = Written[i]
      BY <1>1, <1>2 DEF EndsOf
    <3>4. {Written'[i].nr : i \in EndsOf(t, Written)} = 1 .. nr[t] - 1
      BY <2>1, <2>3, <3>1, <3>3 DEF Numbered
    <3>5. {Written'[i].nr : i \in EndsOf(t, Written)'}
            = {Written'[i].nr : i \in EndsOf(t, Written)} \cup {nr[t]}
      <4>1. Written'[n + 1].nr = nr[t]
        BY <1>1, <1>6
      <4> HIDE DEF n
      <4> QED
        BY <3>2, <4>1
    <3>6. {Written'[i].nr : i \in EndsOf(t, Written)'} = 1 .. nr[t]
      <4>1. (1 .. nr[t] - 1) \cup {nr[t]} = 1 .. nr[t]
        BY <3>1
      <4> QED
        BY <3>4, <3>5, <4>1
    <3>7. ASSUME NEW i \in EndsOf(t, Written)', NEW j \in EndsOf(t, Written)', i < j
          PROVE  Written'[i].nr < Written'[j].nr
      <4>1. i \in EndsOf(t, Written)
        BY <1>1, <3>2, <3>3, <3>7
      <4>2. CASE j \in EndsOf(t, Written)
        BY <2>1, <2>3, <3>3, <3>7, <4>1, <4>2 DEF Numbered
      <4>3. CASE j = n + 1
        <5>1. Written'[i].nr \in 1 .. nr[t] - 1
          BY <3>4, <4>1
        <5>2. Written'[j].nr = nr[t]
          BY <1>1, <1>6, <4>3
        <5> QED
          BY <3>1, <5>1, <5>2
      <4> QED
        BY <3>2, <4>2, <4>3
    <3> QED
      BY <2>3, <3>1, <3>6, <3>7 DEF Numbered
  <2> QED
    BY <2>2, <2>3
<1>10. \A u \in Threads : Chunk(u, "newline")' = Chunk(u, "newline")
  BY <1>1 DEF Chunk
<1>11. LineWritten'
  <2> SUFFICES ASSUME NEW u \in Threads, pc'[u] \in PastNewline
               PROVE  \E i \in DOMAIN Written' : Written'[i] = Chunk(u, "newline")
    BY <1>10 DEF LineWritten
  <2>1. CASE u = t
    BY <1>1, <2>1
  <2>2. CASE u # t
    <3>1. PICK i \in DOMAIN Written : Written[i] = Chunk(u, "newline")
      BY <1>1, <2>2 DEF IInv, LineWritten
    <3> QED
      BY <1>1, <1>2, <3>1
  <2> QED
    BY <2>1, <2>2
<1>12. LineFlushed'
  BY <1>1, <1>10 DEF IInv, LineFlushed
<1>13. OnlyFatalFlushed'
  BY <1>1 DEF IInv, OnlyFatalFlushed
<1>14. ClosedIsEmpty' /\ Ended'
  BY <1>1 DEF IInv, Typed, TypeOK, ClosedIsEmpty, Ended, SendNewline, Goto
<1> QED
  BY <1>7, <1>8, <1>9, <1>11, <1>12, <1>13, <1>14 DEF FileInv

\* The end of the process, normal or not.
LEMMA EndKeepsFile ==
  ASSUME IInv, (\E t \in Threads : Abort(t)) \/ Exit
  PROVE  FileInv'
<1>1. buffer \in Seq(Chunks) /\ disk \in Seq(Chunks) /\ Written \in Seq(Chunks)
  BY WrittenTyped DEF IInv, Typed, TypeOK
<1>2. UNCHANGED <<stream, pc, nr, fatal>> /\ process = "up"
  BY DEF Abort, Exit, callVars, fileVars
<1>3. \/ process' = "aborted" /\ UNCHANGED <<disk, buffer>> /\ \E t \in Threads : pc[t] = "abort"
      \/ process' = "exited" /\ disk' = Written /\ buffer' = <<>>
  BY DEF Abort, Exit, callVars, fileVars, Written
<1>4. Written' = Written
  BY <1>1, <1>3, ConcatEmptySeq DEF Written
<1>5. \A u \in Threads : Quiet(u)
  BY <1>2 DEF Quiet, DoneBy
<1>6. WholeLines' /\ TextAtEnd' /\ AllNumbered' /\ LineWritten'
  BY <1>2, <1>4, <1>5, FileStays
<1>7. LineFlushed'
  BY <1>2, <1>3, <1>6 DEF IInv, LineFlushed, LineWritten, PastNewline, Chunk
<1>8. OnlyFatalFlushed' /\ Ended'
  BY <1>2, <1>3 DEF IInv, OnlyFatalFlushed, Ended
<1>9. ClosedIsEmpty'
  BY <1>1, <1>2, <1>3, EmptySeq, ConcatEmptySeq DEF IInv, ClosedIsEmpty, Written
<1> QED
  BY <1>6, <1>7, <1>8, <1>9 DEF FileInv

LEMMA InitIInv == Init => IInv
<1> SUFFICES ASSUME Init PROVE IInv
  OBVIOUS
<1>1. Typed
  BY MaxLinesNat DEF Init, Typed, TypeOK, Begun, Places
<1>2. Owned
  BY DEF Init, Owned, MutualExclusion, Places, Critical
<1>3. Written = <<>>
  BY EmptySeq, ConcatEmptySeq DEF Init, Written
<1>4. WholeLines
  BY <1>3 DEF WholeLines
<1>5. AllNumbered
  <2>1. ASSUME NEW t \in Threads
        PROVE  EndsOf(t, Written) = {} /\ DoneBy(t) = 0
    BY <1>3 DEF Init, EndsOf, DoneBy
  <2>2. 1 .. 0 = {}
    OBVIOUS
  <2> QED
    BY <2>1, <2>2 DEF AllNumbered, Numbered
<1> QED
  BY <1>1, <1>2, <1>4, <1>5 DEF Init, IInv, ClosedIsEmpty, TextAtEnd, LineWritten,
     LineFlushed, OnlyFatalFlushed, Ended, PastNewline

LEMMA StepIInv == IInv /\ [Next]_vars => IInv'
<1> SUFFICES ASSUME IInv, [Next]_vars
             PROVE  IInv'
  OBVIOUS
<1>1. Typed' /\ Owned'
  BY TypedStep, OwnedStep DEF IInv
<1>2. stream \in {"open", "closed"}
  BY DEF IInv, Typed, TypeOK
<1>3. FileInv'
  <2>1. ASSUME NEW t \in Threads, LogCall(t) \/ Send(t) \/ FlushSinks(t)
        PROVE  FileInv'
    BY <1>2, <2>1, CallKeepsFile, FlushKeepsFile, ClosedKeepsFile, TextKeepsFile,
       NewlineKeepsFile DEF Send, FlushSinks
  <2>2. CASE (\E t \in Threads : Abort(t)) \/ Exit
    BY <2>2, EndKeepsFile
  <2>3. CASE UNCHANGED vars
    <3>1. Written' = Written /\ \A u \in Threads : Quiet(u)
      BY <2>3 DEF vars, Written, Quiet, DoneBy
    <3>2. WholeLines' /\ TextAtEnd' /\ AllNumbered' /\ LineWritten'
      BY <2>3, <3>1, FileStays DEF vars
    <3> QED
      BY <2>3, <3>2 DEF IInv, FileInv, vars, ClosedIsEmpty, LineFlushed, OnlyFatalFlushed,
         Ended, Chunk
  <2> QED
    BY <2>1, <2>2, <2>3 DEF Next
<1> QED
  BY <1>1, <1>3 DEF IInv, FileInv

\* What is known of every reachable state.
THEOREM Invariance == Spec => []IInv
BY InitIInv, StepIInv, PTL DEF Spec

-----------------------------------------------------------------------------
(* What the properties say follows from IInv.                              *)

\* The two writes of a line are never torn apart: the file is a sequence of
\* whole lines at every moment of every interleaving.
THEOREM LinesWhole == Spec => []WholeLines
<1>1. IInv => WholeLines
  BY DEF IInv
<1> QED
  BY <1>1, Invariance, PTL

\* The file holds the finished lines of each thread, all of them and in
\* order, and after a normal exit the disk does.
THEOREM NothingLost == Spec => []NothingMissing
<1>1. ASSUME IInv
      PROVE  NothingMissing
  <2> SUFFICES ASSUME process # "aborted", stream = "open"
               PROVE  LET file == IF process = "exited" THEN disk ELSE Written IN
                      \A t \in Threads :
                        /\ {file[i].nr : i \in EndsOf(t, file)} = 1 .. DoneBy(t)
                        /\ \A i, j \in EndsOf(t, file) : i < j => file[i].nr < file[j].nr
    BY DEF NothingMissing
  <2>1. process = "exited" => disk = Written
    BY <1>1, ConcatEmptySeq DEF IInv, Ended, Typed, TypeOK, Written
  <2>2. \A t \in Threads : Numbered(t)
    BY <1>1 DEF IInv, AllNumbered
  <2> QED
    BY <2>1, <2>2 DEF Numbered
<1> QED
  BY <1>1, Invariance, PTL

\* No fatal line that its thread has taken to the abort is missing from the
\* disk when the process is aborted, by that thread or by another.
THEOREM FatalDurable == Spec => []FatalIsDurable
<1>1. IInv => FatalIsDurable
  BY DEF IInv, LineFlushed, FatalIsDurable
<1> QED
  BY <1>1, Invariance, PTL

-----------------------------------------------------------------------------
(* The refinement of LineLog.                                              *)

\* The even chunks, and only they, end a line.
LEMMA EvenEnds ==
  ASSUME IInv
  PROVE  \A i \in DOMAIN Written : Written[i].part = "newline" <=> i % 2 = 0
<1> TAKE i \in DOMAIN Written
<1>1. i \in Nat /\ i >= 1 /\ (i % 2 = 0 \/ i % 2 = 1)
  BY WrittenTyped DEF IInv
<1>2. CASE i % 2 = 1
  BY <1>2 DEF IInv, WholeLines
<1>3. CASE i % 2 = 0
  <2>1. i - 1 \in DOMAIN Written
    BY <1>1, <1>3, WrittenTyped DEF IInv
  <2>2. Written[i - 1] \in Chunks
    BY <2>1, WrittenTyped DEF IInv
  <2>3. Written[i] = [Written[i - 1] EXCEPT !.part = "newline"]
    BY <1>3 DEF IInv, WholeLines
  <2> QED
    BY <1>3, <2>2, <2>3 DEF Chunks
<1> QED
  BY <1>1, <1>2, <1>3

\* The lines of a sequence of chunks, one for every two.
LEMMA LinesTyped ==
  ASSUME NEW chunks \in Seq(Chunks)
  PROVE  /\ Len(Lines(chunks)) = Len(chunks) \div 2
         /\ DOMAIN Lines(chunks) = 1 .. Len(chunks) \div 2
         /\ Len(chunks) \div 2 \in Nat
         /\ \A i \in 1 .. Len(chunks) \div 2 :
              /\ 2 * i \in DOMAIN chunks
              /\ Lines(chunks)[i] = AsLine(chunks[2 * i])
         /\ Lines(chunks) \in Seq([thread : Threads, nr : 1 .. MaxLines, fatal : BOOLEAN])
<1> DEFINE m == Len(chunks) \div 2
<1>1. m \in Nat /\ \A i \in 1 .. m : 2 * i \in 1 .. Len(chunks)
  OBVIOUS
<1>2. DOMAIN chunks = 1 .. Len(chunks)
  OBVIOUS
<1>3. \A i \in 1 .. m : AsLine(chunks[2 * i]) \in [thread : Threads, nr : 1 .. MaxLines, fatal : BOOLEAN]
  <2> TAKE i \in 1 .. m
  <2>1. chunks[2 * i] \in Chunks
    BY <1>1, ElementOfSeq
  <2> QED
    BY <2>1 DEF Chunks, AsLine
<1> HIDE DEF m
<1>4. Lines(chunks) = [i \in 1 .. m |-> AsLine(chunks[2 * i])]
  BY DEF Lines, m
<1>5. Lines(chunks) \in Seq([thread : Threads, nr : 1 .. MaxLines, fatal : BOOLEAN]) /\ Len(Lines(chunks)) = m
  BY <1>1, <1>3, <1>4
<1> QED
  BY <1>1, <1>2, <1>4, <1>5 DEF m

\* LineLog counts the lines of a thread in the log: they are those the thread
\* has finished, since they are numbered from 1.
LEMMA LineCount ==
  ASSUME IInv, stream = "open", NEW t \in Threads
  PROVE  Abstract!LinesOf(t) = DoneBy(t)
<1> DEFINE m == Len(Written) \div 2
           mine == {i \in DOMAIN Lines(Written) : Lines(Written)[i].thread = t}
           number == [i \in mine |-> Written[2 * i].nr]
<1>1. /\ DOMAIN Lines(Written) = 1 .. m /\ m \in Nat
      /\ \A i \in 1 .. m : 2 * i \in DOMAIN Written /\ Lines(Written)[i] = AsLine(Written[2 * i])
  BY LinesTyped, WrittenTyped DEF IInv
<1>2. IsFiniteSet(mine)
  <2>1. mine \subseteq 1 .. m
    BY <1>1
  <2>2. IsFiniteSet(1 .. m)
    BY <1>1, FS_Interval
  <2> QED
    BY <2>1, <2>2, FS_Subset
<1>3. EndsOf(t, Written) = {2 * i : i \in mine}
  <2>1. ASSUME NEW i \in mine
        PROVE  2 * i \in EndsOf(t, Written)
    <3>1. i \in 1 .. m /\ 2 * i \in DOMAIN Written /\ Written[2 * i].thread = t
      BY <1>1 DEF AsLine
    <3>2. (2 * i) % 2 = 0
      BY <1>1, <3>1
    <3> QED
      BY <3>1, <3>2, EvenEnds DEF EndsOf
  <2>2. ASSUME NEW j \in EndsOf(t, Written)
        PROVE  \E i \in mine : j = 2 * i
    <3>1. j \in DOMAIN Written /\ Written[j].thread = t /\ j % 2 = 0
      BY EvenEnds DEF EndsOf
    <3>2. j \in 1 .. Len(Written) /\ Len(Written) \in Nat
      BY <3>1, WrittenTyped DEF IInv
    <3>3. PICK i \in 1 .. m : j = 2 * i
      <4>1. j = 2 * (j \div 2) /\ j \div 2 \in 1 .. m
        BY <3>1, <3>2
      <4> QED
        BY <4>1
    <3> QED
      BY <1>1, <3>1, <3>3 DEF AsLine
  <2> QED
    BY <2>1, <2>2
<1>4. Numbered(t)
  BY DEF IInv, AllNumbered
<1>5. number \in Bijection(mine, 1 .. DoneBy(t))
  <2>1. \A i \in mine : 2 * i \in EndsOf(t, Written) /\ i \in Nat
    BY <1>1, <1>3
  <2>2. number \in [mine -> 1 .. DoneBy(t)]
    BY <1>4, <2>1 DEF Numbered
  <2>3. ASSUME NEW i \in mine, NEW j \in mine, number[i] = number[j]
        PROVE  i = j
    <3>1. ~(Written[2 * i].nr < Written[2 * j].nr) /\ ~(Written[2 * j].nr < Written[2 * i].nr)
      BY <2>2, <2>3
    <3>2. ~(2 * i < 2 * j) /\ ~(2 * j < 2 * i)
      BY <1>4, <2>1, <3>1 DEF Numbered
    <3> QED
      BY <2>1, <3>2
  <2>4. ASSUME NEW k \in 1 .. DoneBy(t)
        PROVE  \E i \in mine : number[i] = k
    <3>1. PICK j \in EndsOf(t, Written) : Written[j].nr = k
      BY <1>4, <2>4 DEF Numbered
    <3> QED
      BY <1>3, <3>1
  <2> HIDE DEF mine, number
  <2>5. number \in Injection(mine, 1 .. DoneBy(t))
    BY <2>2, <2>3, Fun_IsInj
  <2>6. number \in Surjection(mine, 1 .. DoneBy(t))
    BY <2>2, <2>4, Fun_IsSurj
  <2> QED
    BY <2>5, <2>6, Fun_IsBij
<1>6. ExistsBijection(mine, 1 .. DoneBy(t))
  BY <1>5 DEF ExistsBijection
<1>7. Cardinality(mine) = Cardinality(1 .. DoneBy(t))
  <2> HIDE DEF mine
  <2> QED
    BY <1>2, <1>6, FS_Bijection
<1>8. DoneBy(t) \in Int /\ DoneBy(t) >= 0
  <2>1. nr[t] \in 0 .. MaxLines /\ (pc[t] # "idle" => nr[t] >= 1)
    BY DEF IInv, Typed, TypeOK, Begun
  <2> QED
    BY <2>1, MaxLinesNat DEF DoneBy
<1>9. Cardinality(1 .. DoneBy(t)) = DoneBy(t)
  BY <1>8, FS_Interval
<1>10. \A S : Abstract!Cardinality(S) = Cardinality(S)
  BY DEF Abstract!Cardinality, Cardinality, Abstract!IsFiniteSet, IsFiniteSet
<1> QED
  BY <1>7, <1>9, <1>10 DEF Abstract!LinesOf

\* Half of a length, rounded down: what a chunk more makes of it.
LEMMA Half ==
  ASSUME NEW n \in Nat
  PROVE  /\ n \div 2 \in Nat
         /\ n % 2 = 0 => (n + 1) \div 2 = n \div 2
         /\ n % 2 = 1 => (n + 1) \div 2 = n \div 2 + 1 /\ 2 * (n \div 2 + 1) = n + 1
         /\ \A m \in Nat : m <= n => m \div 2 <= n \div 2
OBVIOUS

\* The beginning of the log that has reached the disk only grows, and is
\* never longer than the log.
LEMMA DurableGrows ==
  ASSUME IInv, Typed', Len(disk) <= Len(disk')
  PROVE  Len(Lines(disk'))
           \in Len(Lines(disk)) .. Len(Lines(Written'))
<1>1. disk \in Seq(Chunks) /\ disk' \in Seq(Chunks) /\ Written' \in Seq(Chunks)
      /\ Len(disk') <= Len(Written')
  <2>1. (buffer \in Seq(Chunks))' /\ (disk \in Seq(Chunks))' /\ disk \in Seq(Chunks)
    BY DEF IInv, Typed, TypeOK
  <2> QED
    BY <2>1 DEF Written
<1>2. /\ Len(Lines(disk)) = Len(disk) \div 2
      /\ Len(Lines(disk')) = Len(disk') \div 2
      /\ Len(Lines(Written')) = Len(Written') \div 2
  BY <1>1, LinesTyped
<1>3. Len(disk) \in Nat /\ Len(disk') \in Nat /\ Len(Written') \in Nat
  BY <1>1
<1>4. Len(disk) \div 2 <= Len(disk') \div 2 /\ Len(disk') \div 2 <= Len(Written') \div 2
  BY <1>1, <1>3, Half
<1> QED
  BY <1>2, <1>3, <1>4, Half

\* A text does not change the log, but may push more of it to the disk.
LEMMA TextRefines ==
  ASSUME IInv, Typed', NEW t \in Threads, SendText(t)
  PROVE  Abstract!Persist
<1>0. /\ process = "up" /\ UNCHANGED <<stream, process>>
      /\ stream \in {"open", "closed"}
  BY DEF IInv, Typed, TypeOK, SendText, Write, Goto
<1>1. CASE stream = "closed"
  <2>1. UNCHANGED <<disk, Written>>
    BY <1>1 DEF SendText, Write, Written
  <2>2. Len(Lines(disk')) \in Len(Lines(disk)) .. Len(Lines(Written'))
    BY <2>1, DurableGrows DEF IInv, Typed, TypeOK
  <2> QED
    BY <1>0, <2>1, <2>2 DEF Abstract!Persist
<1>2. CASE stream = "open"
  <2> DEFINE n == Len(Written)
  <2>1. /\ n \in Nat /\ Len(Written') = n + 1
        /\ \A i \in DOMAIN Written : Written'[i] = Written[i]
        /\ pc[t] = "text"
    BY <1>2, SendAppends
  <2>2. Written \in Seq(Chunks) /\ Written' \in Seq(Chunks)
    BY <1>2, WrittenTyped, AppendProperties, SendAppends DEF IInv
  <2>3. n % 2 = 0
    <3>1. \A u \in Threads : pc[u] # "newline"
      BY <2>1 DEF IInv, Owned, MutualExclusion, Critical
    <3>2. ASSUME n % 2 = 1
          PROVE  FALSE
      <4>1. n \in DOMAIN Written
        BY <2>1, <2>2, <3>2
      <4> QED
        BY <3>1, <3>2, <4>1, WrittenTyped DEF IInv, WholeLines
    <3> QED
      BY <2>1, <3>2
  <2>4. Len(Written') \div 2 = n \div 2
    BY <2>1, <2>3, Half
  <2>5. Lines(Written') = Lines(Written)
    BY <2>1, <2>2, <2>4, LinesTyped DEF Lines
  <2>6. Len(disk) <= Len(disk')
    BY <1>2, SendAppends, WriteAppends, ChunkTyped DEF IInv, SendText, Goto
  <2>7. Len(Lines(disk')) \in Len(Lines(disk)) .. Len(Lines(Written'))
    BY <2>6, DurableGrows
  <2> QED
    BY <1>0, <2>5, <2>7 DEF Abstract!Persist
<1> QED
  BY <1>0, <1>1, <1>2

\* A newline that is written appends the line to the log.
LEMMA NewlineRefines ==
  ASSUME IInv, Typed', NEW t \in Threads, SendNewline(t), stream = "open"
  PROVE  Abstract!Append1(t)
<1> DEFINE n == Len(Written)
           line == [thread |-> t, nr |-> DoneBy(t) + 1, fatal |-> fatal[t]]
<1>1. /\ process = "up" /\ UNCHANGED <<stream, process>>
      /\ fatal[t] \in BOOLEAN
  BY DEF IInv, Typed, TypeOK, SendNewline, Write, Goto
<1>2. /\ n \in Nat /\ Len(Written') = n + 1
      /\ \A i \in DOMAIN Written : Written'[i] = Written[i]
      /\ Written'[n + 1] = Chunk(t, "newline")
      /\ Written' = Append(Written, Chunk(t, "newline"))
      /\ Chunk(t, "newline") \in Chunks
      /\ pc[t] = "newline"
  BY SendAppends
<1>3. Written \in Seq(Chunks) /\ Written' \in Seq(Chunks) /\ DOMAIN Written = 1 .. n
  BY <1>2, WrittenTyped, AppendProperties DEF IInv
<1>4. n % 2 = 1
  BY <1>2 DEF IInv, TextAtEnd
<1>5. AsLine(Chunk(t, "newline")) = line
  <2>1. DoneBy(t) + 1 = nr[t]
    BY <1>2, MaxLinesNat DEF IInv, Typed, TypeOK, DoneBy
  <2> QED
    BY <2>1 DEF AsLine, Chunk
<1>6. Lines(Written') = Append(Lines(Written), line)
  <2> DEFINE m == n \div 2
             LineSet == [thread : Threads, nr : 1 .. MaxLines, fatal : BOOLEAN]
  <2>1. /\ m \in Nat /\ Len(Written') \div 2 = m + 1 /\ 2 * (m + 1) = n + 1
    BY <1>2, <1>4, Half
  <2>2. /\ Lines(Written) \in Seq(LineSet) /\ Len(Lines(Written)) = m
        /\ \A i \in 1 .. m : 2 * i \in DOMAIN Written /\ Lines(Written)[i] = AsLine(Written[2 * i])
    BY <1>3, LinesTyped
  <2>3. /\ Lines(Written') \in Seq(LineSet) /\ Len(Lines(Written')) = m + 1
        /\ \A i \in 1 .. m + 1 : Lines(Written')[i] = AsLine(Written'[2 * i])
    BY <1>3, <2>1, LinesTyped
  <2>4. Lines(Written')[m + 1] = line
    <3>1. Lines(Written')[m + 1] = AsLine(Written'[2 * (m + 1)])
      <4> HIDE DEF m
      <4>1. m + 1 \in 1 .. m + 1
        BY <2>1
      <4> QED
        BY <2>3, <4>1
    <3>2. Written'[2 * (m + 1)] = Chunk(t, "newline")
      BY <1>2, <2>1
    <3> QED
      BY <1>5, <3>1, <3>2
  <2>5. ASSUME NEW i \in 1 .. m
        PROVE  Lines(Written')[i] = Lines(Written)[i]
    <3>1. Written'[2 * i] = Written[2 * i] /\ Lines(Written)[i] = AsLine(Written[2 * i])
      BY <1>2, <2>2
    <3>2. i \in 1 .. m + 1
      BY <2>1
    <3> QED
      BY <2>3, <3>1, <3>2
  <2>6. line \in LineSet
    BY <1>2, <1>5 DEF Chunks, AsLine
  <2> HIDE DEF m, line, LineSet
  <2>7. /\ Append(Lines(Written), line) \in Seq(LineSet)
        /\ Len(Append(Lines(Written), line)) = m + 1
        /\ \A i \in 1 .. m : Append(Lines(Written), line)[i] = Lines(Written)[i]
        /\ Append(Lines(Written), line)[m + 1] = line
    BY <2>2, <2>6, AppendProperties
  <2>8. \A i \in 1 .. m + 1 : Lines(Written')[i] = Append(Lines(Written), line)[i]
    BY <2>1, <2>4, <2>5, <2>7
  <2> QED
    BY <2>3, <2>7, <2>8, SeqEqual
<1>7. Len(Lines(disk')) \in Len(Lines(disk)) .. Len(Lines(Written'))
  <2>1. Len(disk) <= Len(disk')
    BY <1>2, WriteAppends DEF IInv, SendNewline
  <2> QED
    BY <2>1, DurableGrows
<1>8. Abstract!LinesOf(t) = DoneBy(t)
  BY LineCount
<1> QED
  BY <1>1, <1>6, <1>7, <1>8 DEF Abstract!Append1

\* A flush makes the log durable, and so does a normal exit.
LEMMA FlushRefines ==
  ASSUME IInv, Typed', (\E t \in Threads : Flush(t)) \/ Exit
  PROVE  Abstract!Persist \/ Abstract!Exit
<1>1. buffer \in Seq(Chunks) /\ disk \in Seq(Chunks) /\ Written \in Seq(Chunks)
  BY WrittenTyped DEF IInv, Typed, TypeOK
<1>2. disk' = Written /\ Written' = Written /\ UNCHANGED stream /\ process = "up"
  BY <1>1, ConcatEmptySeq DEF Flush, Exit, Written, Goto
<1>3. Len(disk) <= Len(disk')
  BY <1>1, <1>2 DEF Written
<1>4. Len(Lines(disk')) \in Len(Lines(disk)) .. Len(Lines(Written'))
  BY <1>3, DurableGrows
<1>5. CASE process' = process
  BY <1>2, <1>4, <1>5 DEF Abstract!Persist
<1>6. CASE process' = "exited"
  BY <1>2, <1>6 DEF Abstract!Exit
<1> QED
  BY <1>5, <1>6 DEF Flush, Exit

\* The process is only aborted when a fatal line is durable.
LEMMA AbortRefines ==
  ASSUME IInv, NEW t \in Threads, Abort(t)
  PROVE  Abstract!Abort
<1>1. /\ process = "up" /\ process' = "aborted" /\ pc[t] = "abort"
      /\ UNCHANGED <<stream, Written, disk>>
  BY DEF Abort, fileVars, Written
<1>2. ASSUME stream = "open"
      PROVE  \E i \in 1 .. Len(Lines(disk)) : Lines(Written)[i].fatal
  <2>1. PICK j \in DOMAIN disk : disk[j] = Chunk(t, "newline")
    BY <1>1, <1>2 DEF IInv, LineFlushed
  <2>2. disk \in Seq(Chunks) /\ Written \in Seq(Chunks)
    BY WrittenTyped DEF IInv, Typed, TypeOK
  <2>3. j \in 1 .. Len(disk) /\ j \in DOMAIN Written /\ Written[j] = Chunk(t, "newline")
    BY <2>1, <2>2, WrittenTyped DEF IInv
  <2>4. j % 2 = 0
    BY <2>3, EvenEnds DEF Chunk
  <2>5. Len(disk) \in Nat /\ Len(Written) \in Nat /\ Len(disk) <= Len(Written)
    BY <2>2, WrittenTyped DEF IInv, Typed, TypeOK
  <2>6. PICK i \in 1 .. Len(disk) \div 2 : j = 2 * i
    BY <2>3, <2>4, <2>5
  <2>7. Len(Lines(disk)) = Len(disk) \div 2 /\ i \in 1 .. Len(Written) \div 2
    BY <2>2, <2>5, <2>6, LinesTyped, Half
  <2>8. Lines(Written)[i] = AsLine(Written[j])
    BY <2>2, <2>6, <2>7, LinesTyped
  <2>9. AsLine(Written[j]).fatal = fatal[t]
    BY <2>3 DEF AsLine, Chunk
  <2>10. fatal[t]
    BY <1>1 DEF IInv, OnlyFatalFlushed, PastNewline
  <2> QED
    BY <2>6, <2>7, <2>8, <2>9, <2>10
<1> QED
  BY <1>1, <1>2 DEF Abstract!Abort

\* Every step of the sink and its threads is a step of LineLog, or none.
LEMMA StepRefines ==
  IInv /\ Typed' /\ [Next]_vars =>
    [Abstract!Next]_<<stream, Lines(Written), Len(Lines(disk)), process>>
<1> SUFFICES ASSUME IInv, Typed', [Next]_vars
             PROVE  [Abstract!Next]_<<stream, Lines(Written), Len(Lines(disk)), process>>
  OBVIOUS
<1>1. ASSUME NEW t \in Threads, SendText(t)
      PROVE  Abstract!Next
  BY <1>1, TextRefines DEF Abstract!Next
<1>2. ASSUME NEW t \in Threads, SendNewline(t), stream = "open"
      PROVE  Abstract!Next
  BY <1>2, NewlineRefines DEF Abstract!Next
<1>3. CASE (\E t \in Threads : Flush(t)) \/ Exit
  BY <1>3, FlushRefines DEF Abstract!Next
<1>4. ASSUME NEW t \in Threads, Abort(t)
      PROVE  Abstract!Next
  BY <1>4, AbortRefines DEF Abstract!Next
<1>5. ASSUME NEW t \in Threads,
             \/ LogCall(t) \/ SendLock(t) \/ SendUnlock(t) \/ FlushLock(t) \/ FlushUnlock(t)
             \/ SendNewline(t) /\ stream # "open"
      PROVE  UNCHANGED <<stream, Written, disk, process>>
  BY <1>5 DEF IInv, Typed, TypeOK, LogCall, SendLock, SendUnlock, FlushLock, FlushUnlock,
     SendNewline, Write, Goto, fileVars, Written
<1>6. CASE UNCHANGED vars
  BY <1>6 DEF vars, Written
<1> QED
  BY <1>1, <1>2, <1>3, <1>4, <1>5, <1>6 DEF Next, Send, FlushSinks

\* file_sink with its mutex, its two writes per line and the flush of
\* LOG(FATAL) keeps what LineLog promises: whole numbered lines, and no abort
\* before a fatal line is durable.
THEOREM Refinement == Spec => ImplementsLineLog
<1>1. Init => Abstract!Init
  <2> SUFFICES ASSUME Init PROVE Abstract!Init
    OBVIOUS
  <2>1. Written = <<>> /\ disk = <<>>
    BY EmptySeq, ConcatEmptySeq DEF Init, Written
  <2>2. Lines(<<>>) = <<>> /\ Len(Lines(<<>>)) = 0
    BY DEF Lines
  <2> QED
    BY <2>1, <2>2 DEF Init, Abstract!Init
<1>2. IInv => Typed
  BY DEF IInv
<1> QED
  BY <1>1, <1>2, StepRefines, Invariance, PTL DEF Spec, ImplementsLineLog, Abstract!Spec

-----------------------------------------------------------------------------
(* The mutex is given back.                                                *)

\* The owner of the mutex is between lock and unlock, where it can go on.
OwnerInside == mutex # NoThread => pc[mutex] \in Critical

\* Whoever waits for the mutex waits for a thread that is inside Send or Flush:
\* the mutex is never left locked, not by the flush of a fatal line either.
THEOREM MutexGivenBack == Spec => []OwnerInside
<1>1. Init => OwnerInside
  BY DEF Init, OwnerInside
<1>2. IInv /\ OwnerInside /\ [Next]_vars => OwnerInside'
  <2> SUFFICES ASSUME IInv, OwnerInside, [Next]_vars  PROVE OwnerInside'
    OBVIOUS
  <2>1. /\ pc \in [Threads -> Places] /\ mutex \in Threads \cup {NoThread}
        /\ \A t \in Threads : pc[t] \in Critical => mutex = t
    BY DEF IInv, Owned, MutualExclusion, Typed, TypeOK
  <2>2. ASSUME NEW t \in Threads, LogCall(t) \/ Send(t) \/ FlushSinks(t)  PROVE OwnerInside'
    <3>1. CASE SendLock(t) \/ FlushLock(t)
      BY <2>1, <3>1 DEF SendLock, FlushLock, Lock, Goto, OwnerInside, Critical
    <3>2. CASE SendUnlock(t) \/ FlushUnlock(t)
      BY <3>2 DEF SendUnlock, FlushUnlock, Unlock, OwnerInside
    <3>3. CASE LogCall(t) \/ SendText(t) \/ SendNewline(t) \/ Flush(t)
      <4>1. /\ mutex' = mutex /\ pc' = [pc EXCEPT ![t] = pc'[t]]
            /\ pc[t] \in Critical => pc'[t] \in Critical
        BY <2>1, <3>3 DEF LogCall, SendText, SendNewline, Flush, Goto, Critical
      <4> QED  BY <2>1, <4>1, NoThreadIsNone DEF OwnerInside
    <3> QED  BY <2>2, <3>1, <3>2, <3>3 DEF Send, FlushSinks
  <2>3. CASE (\E t \in Threads : Abort(t)) \/ Exit \/ UNCHANGED vars
    BY <2>3 DEF Abort, Exit, callVars, vars, OwnerInside
  <2> QED  BY <2>2, <2>3 DEF Next
<1> QED  BY <1>1, <1>2, Invariance, PTL DEF Spec

=============================================================================
