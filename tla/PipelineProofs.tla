--------------------------- MODULE PipelineProofs ---------------------------
(***************************************************************************)
(* Proofs about Pipeline, for every set of adapters and of threads, every  *)
(* number of lines and every size of queue.                                *)
(*                                                                         *)
(* Order: that the file is in the order of each thread is not inductive;   *)
(* the queues have to be in order as well, nothing in a queue may come     *)
(* before what its thread has in the file, and the lines of a thread have  *)
(* to be in one queue only.  Completeness: every line is counted in one    *)
(* place (file, queue, call in progress, dropped), and the stop protocol   *)
(* of each adapter has emptied the queues where NothingLost looks.         *)
(***************************************************************************)
EXTENDS Pipeline, SequenceTheorems, FiniteSetTheorems, TLAPS

-----------------------------------------------------------------------------
(* The types.                                                              *)

\* A thread inside a log call has begun a line.
Begun == \A t \in Threads : pc[t] = "calling" => calls[t] >= 1

\* A thread has dropped no more lines than it has logged.
DroppedFew ==
  \A t \in Threads : dropped[t] + (IF pc[t] = "calling" THEN 1 ELSE 0) <= calls[t]

Typed == TypeOK /\ Begun /\ DroppedFew

\* The calls that main may have to make.
StopCalls == {"halt", "drain", "await", "finish", "poll"}

Configs ==
  [queue : {"shared", "own"}, full : {"block", "grow", "drop"}, wakes : BOOLEAN,
   stop : Seq(StopCalls), exit : Seq(StopCalls)]

\* The stop protocols: boost interrupts its thread and then writes what is
\* left, the others let the background thread finish, two of them only at the
\* end of main, and some have something to do before.
Protocols(a) ==
  IF a = "boost" THEN {[stop |-> <<"halt", "drain">>, exit |-> <<>>]}
  ELSE IF a \in FinishesAfterStop THEN {[stop |-> <<>>, exit |-> <<"finish">>]}
  ELSE {[stop |-> <<"finish">>, exit |-> <<>>],
        [stop |-> <<"await", "finish">>, exit |-> <<>>],
        [stop |-> <<"poll", "finish">>, exit |-> <<>>]}

\* The configuration of each adapter is well-formed and follows one of the
\* protocols.
LEMMA ConfigTyped ==
  ASSUME NEW a \in AllAdapters
  PROVE  /\ Backend(a) \in Configs
         /\ [stop |-> Backend(a).stop, exit |-> Backend(a).exit] \in Protocols(a)
<1>1. /\ <<"halt", "drain">> \in Seq(StopCalls) /\ <<>> \in Seq(StopCalls)
      /\ <<"finish">> \in Seq(StopCalls) /\ <<"await", "finish">> \in Seq(StopCalls)
      /\ <<"poll", "finish">> \in Seq(StopCalls)
  BY DEF StopCalls
<1> USE <1>1 DEF Configs, Protocols, FinishesAfterStop
<1>2. CASE a = "boost"
  BY <1>2 DEF Backend, BoostBackend
<1>3. CASE a = "spdlog"
  BY <1>3 DEF Backend, SpdlogBackend
<1>4. CASE a = "spdlogv2"
  BY <1>4 DEF Backend, SpdlogV2Backend
<1>5. CASE a = "log4cxx"
  BY <1>5 DEF Backend, Log4cxxBackend
<1>6. CASE a = "poco"
  BY <1>6 DEF Backend, PocoBackend
<1>7. CASE a = "g3log"
  BY <1>7 DEF Backend, G3logBackend
<1>8. CASE a = "quill"
  BY <1>8 DEF Backend, QuillBackend
<1>9. CASE a = "quill-bounded"
  BY <1>9 DEF Backend, QuillBoundedBackend
<1>10. CASE a = "fstlog"
  BY <1>10 DEF Backend, FstlogBackend
<1>11. CASE a = "fstlog-mt"
  BY <1>11 DEF Backend, FstlogMtBackend
<1>12. CASE a = "fstlog-lowl"
  BY <1>12 DEF Backend, FstlogLowlBackend
<1> QED
  BY <1>2, <1>3, <1>4, <1>5, <1>6, <1>7, <1>8, <1>9, <1>10, <1>11, <1>12 DEF AllAdapters

LEMMA ConfigOfAdapter ==
  ASSUME Typed
  PROVE  /\ config \in Configs
         /\ [stop |-> config.stop, exit |-> config.exit] \in Protocols(adapter)
         /\ \A t \in Threads : QueueOf(t) \in Owners
BY ConfigTyped, AdaptersKnown DEF Typed, TypeOK, config, QueueOf, Owners

\* The steps of the threads keep the types.
LEMMA ThreadTyped ==
  ASSUME Typed, NEW t \in Threads, Call(t) \/ LogCall(t)
  PROVE  Typed'
<1> USE MaxLinesNat
<1>1. CASE Call(t)
  <2>1. calls' \in [Threads -> 0 .. MaxLines] /\ pc' \in [Threads -> {"idle", "calling"}]
    BY <1>1 DEF Typed, TypeOK, Call
  <2>2. Begun' /\ DroppedFew'
    BY <1>1 DEF Typed, TypeOK, Call, Begun, DroppedFew
  <2> QED
    BY <1>1, <2>1, <2>2 DEF Typed, TypeOK, Call, Owners
<1>2. CASE Push(t)
  <2>1. <<t, calls[t]>> \in Lines
    BY <1>2 DEF Typed, TypeOK, Begun, Push, Lines
  <2>2. QueueOf(t) \in Owners
    BY ConfigOfAdapter
  <2>3. queue' \in [Owners -> Seq(Lines)]
    BY <1>2, <2>1, <2>2, AppendProperties DEF Typed, TypeOK, Push
  <2>4. Begun' /\ DroppedFew'
    BY <1>2 DEF Typed, TypeOK, Push, Begun, DroppedFew
  <2>5. backend' \in {"awake", "asleep", "finishing", "halted"}
    BY <1>2 DEF Typed, TypeOK, Push
  <2>6. pc' \in [Threads -> {"idle", "calling"}]
    BY <1>2 DEF Typed, TypeOK, Push
  <2> QED
    BY <1>2, <2>3, <2>4, <2>5, <2>6 DEF Typed, TypeOK, Push
<1>3. CASE Drop(t)
  <2>1. pc' \in [Threads -> {"idle", "calling"}]
    BY <1>3 DEF Typed, TypeOK, Drop
  <2>2. Begun' /\ DroppedFew'
    BY <1>3 DEF Typed, TypeOK, Drop, Begun, DroppedFew
  <2>3. dropped' \in [Threads -> 0 .. MaxLines]
    BY <1>3 DEF Typed, TypeOK, Drop, DroppedFew
  <2> QED
    BY <1>3, <2>1, <2>2, <2>3 DEF Typed, TypeOK, Drop, Owners
<1> QED
  BY <1>1, <1>2, <1>3 DEF LogCall

\* A line moves from the head of a queue to the end of the file.
LEMMA WriteTyped ==
  ASSUME Typed, NEW o \in DOMAIN queue, WriteFrom(o)
  PROVE  (queue \in [Owners -> Seq(Lines)])' /\ (file \in Seq(Lines))'
<1>1. queue \in [Owners -> Seq(Lines)] /\ file \in Seq(Lines) /\ o \in Owners
  BY DEF Typed, TypeOK
<1>2. queue[o] \in Seq(Lines) /\ queue[o] # <<>>
  BY <1>1 DEF WriteFrom
<1>3. Head(queue[o]) \in Lines /\ Tail(queue[o]) \in Seq(Lines)
  BY <1>2, HeadTailProperties
<1> QED
  BY <1>1, <1>3, AppendProperties DEF WriteFrom

\* The steps of the background thread and of main keep the types.
LEMMA OthersTyped ==
  ASSUME Typed, BackendStep \/ Join \/ MainStep
  PROVE  Typed'
<1>1. UNCHANGED <<adapter, capacity, interval, threadVars>>
  BY DEF BackendStep, MainStep, BackendWrites, BackendSleeps, BackendPolls, BackendHalts,
     Join, Halt, Drain, Await, PollNow, Finish, StopReturns, Exit
<1>2. Begun' /\ DroppedFew'
  BY <1>1 DEF Typed, Begun, DroppedFew, threadVars
<1>3. (queue \in [Owners -> Seq(Lines)])' /\ (file \in Seq(Lines))'
  <2>1. ASSUME UNCHANGED <<queue, file>>
        PROVE  (queue \in [Owners -> Seq(Lines)])' /\ (file \in Seq(Lines))'
    BY <2>1 DEF Typed, TypeOK
  <2>2. UNCHANGED <<queue, file>> \/ \E o \in DOMAIN queue : WriteFrom(o)
    BY DEF BackendStep, MainStep, BackendWrites, BackendSleeps, BackendPolls, BackendHalts,
       Join, Halt, Drain, Await, PollNow, Finish, StopReturns, Exit
  <2> QED
    BY <2>1, <2>2, WriteTyped
<1>4. (todo \in Seq(StopCalls))'
  <2>1. todo \in Seq(StopCalls) /\ config.stop \in Seq(StopCalls) /\ config.exit \in Seq(StopCalls)
    BY ConfigOfAdapter DEF Typed, TypeOK, StopCalls, Configs
  <2>2. \/ UNCHANGED todo
        \/ todo # <<>> /\ todo' = Tail(todo)
        \/ todo' = config.stop
        \/ todo' = config.exit
    BY DEF BackendStep, MainStep, BackendWrites, BackendSleeps, BackendPolls, BackendHalts,
       Join, Halt, Drain, Await, PollNow, Finish, StopReturns, Exit, Done, Doing
  <2> QED
    BY <2>1, <2>2, HeadTailProperties
<1>5. backend' \in {"awake", "asleep", "finishing", "halted"}
  BY DEF Typed, TypeOK, BackendStep, MainStep, BackendWrites, BackendSleeps, BackendPolls,
     BackendHalts, Join, Halt, Drain, Await, PollNow, Finish, StopReturns, Exit
<1>6. main' \in {"logging", "stopping", "stopped", "exited"}
  BY DEF Typed, TypeOK, BackendStep, MainStep, BackendWrites, BackendSleeps, BackendPolls,
     BackendHalts, Join, Halt, Drain, Await, PollNow, Finish, StopReturns, Exit
<1> QED
  BY <1>1, <1>2, <1>3, <1>4, <1>5, <1>6 DEF Typed, TypeOK, threadVars, StopCalls

LEMMA TypedStep == Typed /\ [Next]_vars => Typed'
<1>1. CASE UNCHANGED vars
  BY <1>1 DEF Typed, TypeOK, Begun, DroppedFew, vars, Owners
<1> QED
  BY <1>1, ThreadTyped, OthersTyped DEF Next

LEMMA InitTyped == Init => Typed
<1> SUFFICES ASSUME Init PROVE Typed
  OBVIOUS
<1>1. adapter \in Adapters /\ interval \in {"short", "forever"}
  BY DEF Init, Intervals
<1>2. queue \in [Owners -> Seq(Lines)] /\ file \in Seq(Lines)
  BY DEF Init, Owners
<1> QED
  BY <1>1, <1>2, MaxLinesNat DEF Init, Typed, TypeOK, Begun, DroppedFew

\* The types of the variables: the queues and the file hold lines that have
\* been logged, and no thread drops more than it has logged.
THEOREM TypeCorrect == Spec => []TypeOK
<1>1. Typed => TypeOK
  BY DEF Typed
<1> QED
  BY <1>1, InitTyped, TypedStep, PTL DEF Spec

-----------------------------------------------------------------------------
(* The order of the lines.                                                 *)

\* Of two lines of one thread, k was logged before l.
Before(k, l) == k[1] = l[1] => k[2] < l[2]

QueuesInOrder ==
  \A o \in Owners : \A i, j \in DOMAIN queue[o] :
    i < j => Before(queue[o][i], queue[o][j])

\* What a thread has in the file it logged before what it has in a queue.
FileFirst ==
  \A i \in DOMAIN file : \A o \in Owners : \A j \in DOMAIN queue[o] :
    Before(file[i], queue[o][j])

\* A queue only holds lines of the threads that log into it.
InOwnQueue ==
  \A o \in Owners : \A j \in DOMAIN queue[o] : o = QueueOf(queue[o][j][1])

\* The last line that the thread has in a queue or in the file, at most: the
\* one it is logging is in neither.
Last(t) == IF pc[t] = "calling" THEN calls[t] - 1 ELSE calls[t]

NumbersPast ==
  /\ \A i \in DOMAIN file : file[i][2] <= Last(file[i][1])
  /\ \A o \in Owners : \A j \in DOMAIN queue[o] : queue[o][j][2] <= Last(queue[o][j][1])

Ordered ==
  /\ FileInOrder
  /\ QueuesInOrder
  /\ FileFirst
  /\ InOwnQueue
  /\ NumbersPast

\* The lines in the file and in the queues are lines of threads.
LEMMA LinesTyped ==
  ASSUME Typed
  PROVE  /\ file \in Seq(Lines) /\ DOMAIN file = 1 .. Len(file)
         /\ \A i \in DOMAIN file : file[i] \in Lines
         /\ DOMAIN queue = Owners
         /\ \A o \in Owners : /\ queue[o] \in Seq(Lines)
                              /\ DOMAIN queue[o] = 1 .. Len(queue[o])
                              /\ \A j \in DOMAIN queue[o] : queue[o][j] \in Lines
         /\ \A l \in Lines : l[1] \in Threads /\ l[2] \in 1 .. MaxLines
         /\ \A t \in Threads : Last(t) \in Int
<1>1. file \in Seq(Lines) /\ queue \in [Owners -> Seq(Lines)]
  BY DEF Typed, TypeOK
<1>2. \A l \in Lines : l[1] \in Threads /\ l[2] \in 1 .. MaxLines
  BY DEF Lines
<1>3. \A t \in Threads : Last(t) \in Int
  BY MaxLinesNat DEF Typed, TypeOK, Last
<1> QED
  BY <1>1, <1>2, <1>3, ElementOfSeq

\* A step that moves no line keeps the order, if no thread forgets a line.
LEMMA OrderStays ==
  ASSUME Typed, Ordered, UNCHANGED <<adapter, queue, file>>,
         \A t \in Threads : Last(t)' >= Last(t) /\ Last(t)' \in Int
  PROVE  Ordered'
<1>1. FileInOrder' /\ QueuesInOrder' /\ FileFirst'
  BY DEF Ordered, FileInOrder, QueuesInOrder, FileFirst
<1>2. InOwnQueue'
  BY DEF Ordered, InOwnQueue, QueueOf, config
<1>3. NumbersPast'
  <2>1. ASSUME NEW l \in Lines, l[2] <= Last(l[1])
        PROVE  l[2] <= Last(l[1])'
    <3>1. l[1] \in Threads /\ l[2] \in Int /\ Last(l[1]) \in Int
      BY LinesTyped
    <3> QED
      BY <2>1, <3>1
  <2> QED
    BY <2>1, LinesTyped DEF Ordered, NumbersPast
<1> QED
  BY <1>1, <1>2, <1>3 DEF Ordered

\* A line that is pushed is the newest of its thread, at the end of the queue
\* of its thread.
LEMMA PushOrdered ==
  ASSUME Typed, Ordered, NEW t \in Threads, Push(t)
  PROVE  Ordered'
<1> DEFINE l == <<t, calls[t]>>
           q == QueueOf(t)
           n == Len(queue[q])
<1>1. l \in Lines /\ q \in Owners
  BY ConfigOfAdapter DEF Typed, TypeOK, Begun, Push, Lines
<1>2. queue[q] \in Seq(Lines) /\ n \in Nat /\ DOMAIN queue[q] = 1 .. n
  BY <1>1, LinesTyped
<1>3. /\ queue'[q] = Append(queue[q], l)
      /\ \A o \in Owners : o # q => queue'[o] = queue[o]
  BY <1>1, LinesTyped DEF Push
<1>4. /\ DOMAIN queue'[q] = 1 .. n + 1
      /\ \A j \in 1 .. n : queue'[q][j] = queue[q][j]
      /\ queue'[q][n + 1] = l
  BY <1>1, <1>2, <1>3, AppendProperties
<1>5. UNCHANGED <<adapter, calls, file>> /\ \A u \in Threads : u # t => Last(u)' = Last(u)
  BY DEF Typed, TypeOK, Push, Last
<1>6. Last(t) = calls[t] - 1 /\ Last(t)' = calls[t] /\ calls[t] \in Int
  BY MaxLinesNat DEF Typed, TypeOK, Push, Last
<1>7. ASSUME NEW k \in Lines, k[2] <= Last(k[1])
      PROVE  Before(k, l)
  BY <1>6, <1>7, LinesTyped DEF Before
<1>8. ASSUME NEW o \in Owners, NEW j \in DOMAIN queue'[o]
      PROVE  \/ j \in DOMAIN queue[o] /\ queue'[o][j] = queue[o][j]
             \/ o = q /\ j = n + 1 /\ queue'[o][j] = l
  <2> HIDE DEF l, q, n
  <2>1. CASE o # q
    BY <1>3, <1>8, <2>1
  <2>2. CASE o = q
    <3>1. j \in 1 .. n \/ j = n + 1
      BY <1>2, <1>4, <1>8, <2>2
    <3> QED
      BY <1>2, <1>4, <2>2, <3>1
  <2> QED
    BY <2>1, <2>2
<1> HIDE DEF l, q, n
<1>9. QueuesInOrder'
  <2> SUFFICES ASSUME NEW o \in Owners, NEW i \in DOMAIN queue'[o], NEW j \in DOMAIN queue'[o],
                      i < j
               PROVE  Before(queue'[o][i], queue'[o][j])
    BY DEF QueuesInOrder, Before
  <2>1. i \in DOMAIN queue[o] /\ queue'[o][i] = queue[o][i]
    BY <1>2, <1>4, <1>8
  <2>2. CASE j \in DOMAIN queue[o] /\ queue'[o][j] = queue[o][j]
    BY <2>1, <2>2 DEF Ordered, QueuesInOrder
  <2>3. CASE o = q /\ queue'[o][j] = l
    BY <1>7, <2>1, <2>3, LinesTyped DEF Ordered, NumbersPast
  <2> QED
    BY <1>8, <2>2, <2>3
<1>10. FileFirst'
  <2> SUFFICES ASSUME NEW i \in DOMAIN file, NEW o \in Owners, NEW j \in DOMAIN queue'[o]
               PROVE  Before(file[i], queue'[o][j])
    BY <1>5 DEF FileFirst, Before
  <2>1. Before(file[i], l)
    BY <1>7, LinesTyped DEF Ordered, NumbersPast
  <2> QED
    BY <1>8, <2>1 DEF Ordered, FileFirst
<1>11. InOwnQueue'
  <2>1. \A u : QueueOf(u)' = QueueOf(u)
    BY <1>5 DEF QueueOf, config
  <2>2. q = QueueOf(l[1])
    BY DEF l, q
  <2> SUFFICES ASSUME NEW o \in Owners, NEW j \in DOMAIN queue'[o]
               PROVE  o = QueueOf(queue'[o][j][1])
    BY <2>1 DEF InOwnQueue
  <2> QED
    BY <1>8, <2>2 DEF Ordered, InOwnQueue
<1>12. NumbersPast'
  <2> DEFINE last(u) == IF pc'[u] = "calling" THEN calls'[u] - 1 ELSE calls'[u]
  <2>1. \A u \in Threads \ {t} : last(u) = Last(u)
    BY <1>5 DEF Last
  <2>2. last(t) = calls[t]
    BY <1>6 DEF Last
  <2> HIDE DEF last
  <2>3. ASSUME NEW k \in Lines, k[2] <= Last(k[1])
        PROVE  k[2] <= last(k[1])
    <3>1. k[1] \in Threads /\ k[2] \in Int
      BY LinesTyped
    <3> QED
      BY <1>6, <2>1, <2>2, <2>3, <3>1
  <2>4. l[2] <= last(l[1])
    BY <1>6, <2>2 DEF l
  <2>5. \A i \in DOMAIN file' : file'[i][2] <= last(file'[i][1])
    BY <1>5, <2>3, LinesTyped DEF Ordered, NumbersPast
  <2>6. \A o \in Owners : \A j \in DOMAIN queue'[o] : queue'[o][j][2] <= last(queue'[o][j][1])
    BY <1>8, <2>3, <2>4, LinesTyped DEF Ordered, NumbersPast
  <2> QED
    BY <2>5, <2>6 DEF NumbersPast, Last, last
<1>13. FileInOrder'
  BY <1>5 DEF Ordered, FileInOrder
<1> QED
  BY <1>9, <1>10, <1>11, <1>12, <1>13 DEF Ordered

\* The line that is written was the first in its queue: nothing of its thread
\* waits before it, and what is in the file came earlier.
LEMMA WriteOrdered ==
  ASSUME Typed, Ordered, NEW q \in Owners, WriteFrom(q), UNCHANGED <<adapter, pc, calls>>
  PROVE  Ordered'
<1> DEFINE l == queue[q][1]
           n == Len(file)
<1>1. /\ queue[q] \in Seq(Lines) /\ queue[q] # <<>>
      /\ Head(queue[q]) = l /\ 1 \in DOMAIN queue[q] /\ l \in Lines
  <2>1. queue[q] \in Seq(Lines) /\ queue[q] # <<>> /\ DOMAIN queue[q] = 1 .. Len(queue[q])
    BY LinesTyped DEF WriteFrom
  <2>2. Len(queue[q]) \in Nat \ {0} /\ Head(queue[q]) = queue[q][1]
    BY <2>1, EmptySeq
  <2> QED
    BY <2>1, <2>2, LinesTyped
<1>2. /\ queue'[q] = Tail(queue[q])
      /\ \A o \in Owners : o # q => queue'[o] = queue[o]
      /\ file' = Append(file, l)
  BY <1>1, LinesTyped DEF WriteFrom
<1>3. /\ n \in Nat /\ DOMAIN file = 1 .. n /\ DOMAIN file' = 1 .. n + 1
      /\ \A i \in 1 .. n : file'[i] = file[i]
      /\ file'[n + 1] = l
  BY <1>1, <1>2, LinesTyped, AppendProperties
<1>4. \A j \in DOMAIN queue'[q] : /\ j \in Nat /\ j >= 1 /\ j + 1 \in DOMAIN queue[q]
                                  /\ queue'[q][j] = queue[q][j + 1]
  BY <1>1, <1>2, HeadTailProperties, LinesTyped
<1>5. ASSUME NEW o \in Owners, NEW j \in DOMAIN queue'[o]
      PROVE  \E k \in DOMAIN queue[o] :
               queue'[o][j] = queue[o][k] /\ k = IF o = q THEN j + 1 ELSE j
  BY <1>2, <1>4
<1> HIDE DEF l, n
<1>6. QueuesInOrder'
  <2> SUFFICES ASSUME NEW o \in Owners, NEW i \in DOMAIN queue'[o], NEW j \in DOMAIN queue'[o],
                      i < j
               PROVE  Before(queue'[o][i], queue'[o][j])
    BY DEF QueuesInOrder, Before
  <2>1. CASE o = q
    <3>1. i + 1 \in DOMAIN queue[q] /\ j + 1 \in DOMAIN queue[q] /\ i + 1 < j + 1
      BY <1>4, <2>1
    <3> QED
      BY <1>4, <2>1, <3>1 DEF Ordered, QueuesInOrder
  <2>2. CASE o # q
    BY <1>2, <2>2 DEF Ordered, QueuesInOrder
  <2> QED
    BY <2>1, <2>2
<1>7. FileInOrder'
  <2> SUFFICES ASSUME NEW i \in 1 .. n + 1, NEW j \in 1 .. n + 1, i < j,
                      file'[i][1] = file'[j][1]
               PROVE  file'[i][2] < file'[j][2]
    BY <1>3 DEF FileInOrder
  <2>1. i \in 1 .. n /\ file'[i] = file[i]
    BY <1>3
  <2>2. CASE j \in 1 .. n
    BY <1>3, <2>1, <2>2 DEF Ordered, FileInOrder
  <2>3. CASE j = n + 1
    <3>1. Before(file[i], queue[q][1])
      BY <1>1, <1>3, <2>1 DEF Ordered, FileFirst
    <3> QED
      BY <1>3, <2>1, <2>3, <3>1 DEF Before, l
  <2> QED
    BY <1>3, <2>2, <2>3
<1>8. FileFirst'
  <2> SUFFICES ASSUME NEW i \in 1 .. n + 1, NEW o \in Owners, NEW j \in DOMAIN queue'[o]
               PROVE  Before(file'[i], queue'[o][j])
    BY <1>3 DEF FileFirst, Before
  <2>1. PICK k \in DOMAIN queue[o] :
          queue'[o][j] = queue[o][k] /\ k = IF o = q THEN j + 1 ELSE j
    BY <1>5
  <2>2. CASE i \in 1 .. n
    BY <1>3, <2>1, <2>2 DEF Ordered, FileFirst
  <2>3. CASE i = n + 1
    <3>1. file'[i] = l
      BY <1>3, <2>3
    <3>2. CASE o = q
      <4>1. 1 < k
        BY <1>4, <2>1, <3>2
      <4> QED
        BY <1>1, <2>1, <3>1, <3>2, <4>1 DEF Ordered, QueuesInOrder, l
    <3>3. CASE o # q
      <4>1. o = QueueOf(queue[o][k][1]) /\ q = QueueOf(l[1])
        BY <1>1, <2>1 DEF Ordered, InOwnQueue, l
      <4> QED
        BY <2>1, <3>1, <3>3, <4>1 DEF Before
    <3> QED
      BY <3>2, <3>3
  <2> QED
    BY <1>3, <2>2, <2>3
<1>9. InOwnQueue'
  <2>1. \A u : QueueOf(u)' = QueueOf(u)
    BY DEF QueueOf, config
  <2> SUFFICES ASSUME NEW o \in Owners, NEW j \in DOMAIN queue'[o]
               PROVE  o = QueueOf(queue'[o][j][1])
    BY <2>1 DEF InOwnQueue
  <2> QED
    BY <1>5 DEF Ordered, InOwnQueue
<1>10. NumbersPast'
  <2>1. \A u : Last(u)' = Last(u)
    BY DEF Last
  <2>2. \A i \in 1 .. n + 1 : file'[i][2] <= Last(file'[i][1])
    BY <1>1, <1>3 DEF Ordered, NumbersPast, l
  <2>3. \A o \in Owners : \A j \in DOMAIN queue'[o] : queue'[o][j][2] <= Last(queue'[o][j][1])
    BY <1>5 DEF Ordered, NumbersPast
  <2> QED
    BY <1>3, <2>1, <2>2, <2>3 DEF NumbersPast
<1> QED
  BY <1>6, <1>7, <1>8, <1>9, <1>10 DEF Ordered

LEMMA OrderedStep == Typed /\ Ordered /\ [Next]_vars => Ordered'
<1> SUFFICES ASSUME Typed, Ordered, [Next]_vars
             PROVE  Ordered'
  OBVIOUS
<1>1. ASSUME NEW t \in Threads, Call(t) \/ Drop(t)
      PROVE  Ordered'
  <2>1. UNCHANGED <<adapter, queue, file>>
    BY <1>1 DEF Call, Drop
  <2>2. ASSUME NEW u \in Threads
        PROVE  Last(u)' >= Last(u) /\ Last(u)' \in Int
    <3>1. calls[u] \in Int /\ pc[u] \in {"idle", "calling"}
      BY MaxLinesNat DEF Typed, TypeOK
    <3> QED
      BY <1>1, <3>1 DEF Typed, TypeOK, Call, Drop, Last
  <2> QED
    BY <2>1, <2>2, OrderStays
<1>2. ASSUME NEW t \in Threads, Push(t)
      PROVE  Ordered'
  BY <1>2, PushOrdered
<1>3. ASSUME UNCHANGED <<adapter, pc, calls, queue, file>>
      PROVE  Ordered'
  <2>1. \A u \in Threads : Last(u)' = Last(u)
    BY <1>3 DEF Last
  <2> QED
    BY <1>3, <2>1, LinesTyped, OrderStays
<1>4. ASSUME BackendStep \/ Join \/ MainStep
      PROVE  \/ UNCHANGED <<adapter, pc, calls, queue, file>>
             \/ /\ UNCHANGED <<adapter, pc, calls>>
                /\ \E o \in DOMAIN queue : WriteFrom(o)
  BY <1>4 DEF BackendStep, MainStep, BackendWrites, BackendSleeps, BackendPolls, BackendHalts,
     Join, Halt, Drain, Await, PollNow, Finish, StopReturns, Exit, threadVars
<1>5. ASSUME BackendStep \/ Join \/ MainStep
      PROVE  Ordered'
  BY <1>3, <1>4, <1>5, WriteOrdered, LinesTyped
<1>6. CASE UNCHANGED vars
  BY <1>3, <1>6 DEF vars
<1> QED
  BY <1>1, <1>2, <1>5, <1>6 DEF Next, LogCall

LEMMA InitOrdered == Init => Ordered
BY DEF Init, Ordered, FileInOrder, QueuesInOrder, FileFirst, InOwnQueue, NumbersPast, Owners

\* The lines of one thread are in the file in the order it logged them, each
\* at most once, with a shared queue or one for each thread, whether the
\* background thread writes them or, at the end, the thread of main.
THEOREM OrderKept == Spec => []FileInOrder
<1>1. Ordered => FileInOrder
  BY DEF Ordered
<1> QED
  BY <1>1, InitTyped, TypedStep, InitOrdered, OrderedStep, PTL DEF Spec

-----------------------------------------------------------------------------
(* The lines that wait, as the set that the refinement of AsyncLog maps      *)
(* the queues to.                                                          *)

LEMMA WaitingMember ==
  ASSUME NEW l
  PROVE  l \in Waiting <=> \E o \in Owners : \E j \in DOMAIN queue[o] : queue[o][j] = l
BY DEF Waiting, QueuedIn

\* No line waits exactly if all queues are empty.
LEMMA EmptyWaiting ==
  ASSUME Typed
  PROVE  Empty <=> Waiting = {}
<1>1. ASSUME Empty
      PROVE  Waiting = {}
  <2>1. \A o \in Owners : queue[o] = <<>>
    BY <1>1, LinesTyped DEF Empty
  <2> QED
    BY <2>1 DEF Waiting, QueuedIn
<1>2. ASSUME Waiting = {}, NEW o \in Owners
      PROVE  queue[o] = <<>>
  <2>1. DOMAIN queue[o] = {}
    BY <1>2, WaitingMember
  <2>2. queue[o] \in Seq(Lines) /\ DOMAIN queue[o] = 1 .. Len(queue[o])
    BY LinesTyped
  <2>3. ~(Len(queue[o]) \in Nat \ {0})
    <3>1. ASSUME Len(queue[o]) \in Nat \ {0}
          PROVE  1 \in 1 .. Len(queue[o])
      BY <3>1
    <3> QED
      BY <2>1, <2>2, <3>1
  <2> QED
    BY <2>2, <2>3, EmptySeq
<1> QED
  BY <1>1, <1>2, LinesTyped DEF Empty

\* A push adds one line, newer than all the others of its thread, waiting or
\* written.
LEMMA PushWaits ==
  ASSUME Typed, Ordered, NEW t \in Threads, Push(t)
  PROVE  /\ Waiting' = Waiting \cup {<<t, calls[t]>>}
         /\ <<t, calls[t]>> \in Lines
         /\ \A k \in Waiting : Before(k, <<t, calls[t]>>)
         /\ \A i \in DOMAIN file : Before(file[i], <<t, calls[t]>>)
<1> DEFINE l == <<t, calls[t]>>
           q == QueueOf(t)
           n == Len(queue[q])
<1>1. l \in Lines /\ q \in Owners
  BY ConfigOfAdapter DEF Typed, TypeOK, Begun, Push, Lines
<1>2. queue[q] \in Seq(Lines) /\ n \in Nat /\ DOMAIN queue[q] = 1 .. n
  BY <1>1, LinesTyped
<1>3. /\ queue'[q] = Append(queue[q], l)
      /\ \A o \in Owners : o # q => queue'[o] = queue[o]
  BY <1>1, LinesTyped DEF Push
<1>4. /\ DOMAIN queue'[q] = 1 .. n + 1
      /\ \A j \in 1 .. n : queue'[q][j] = queue[q][j]
      /\ queue'[q][n + 1] = l
  BY <1>1, <1>2, <1>3, AppendProperties
<1>5. Last(t) = calls[t] - 1 /\ calls[t] \in Int
  BY MaxLinesNat DEF Typed, TypeOK, Push, Last
<1>6. ASSUME NEW k \in Lines, k[2] <= Last(k[1])
      PROVE  Before(k, l)
  BY <1>5, <1>6, LinesTyped DEF Before
<1> HIDE DEF l, q, n
<1>7. ASSUME NEW k
      PROVE  (\E o \in Owners : \E j \in DOMAIN queue'[o] : queue'[o][j] = k)
               <=> k \in Waiting \/ k = l
  <2>1. ASSUME NEW o \in Owners, NEW j \in DOMAIN queue'[o], queue'[o][j] = k
        PROVE  k \in Waiting \/ k = l
    BY <1>2, <1>3, <1>4, <2>1, WaitingMember
  <2>2. ASSUME NEW o \in Owners, NEW j \in DOMAIN queue[o], queue[o][j] = k
        PROVE  j \in DOMAIN queue'[o] /\ queue'[o][j] = k
    BY <1>2, <1>3, <1>4, <2>2
  <2>3. n + 1 \in DOMAIN queue'[q]
    BY <1>2, <1>4
  <2> QED
    BY <1>1, <1>4, <2>1, <2>2, <2>3, WaitingMember
<1>8. Waiting' = Waiting \cup {l}
  BY <1>7 DEF Waiting, QueuedIn
<1>9. \A k \in Waiting : Before(k, l)
  <2> TAKE k \in Waiting
  <2>1. k \in Lines /\ k[2] <= Last(k[1])
    BY WaitingMember, LinesTyped DEF Ordered, NumbersPast
  <2> QED
    BY <1>6, <2>1
<1>10. \A i \in DOMAIN file : Before(file[i], l)
  BY <1>6, LinesTyped DEF Ordered, NumbersPast
<1> QED
  BY <1>1, <1>8, <1>9, <1>10 DEF l

\* A write takes one line from those that wait, an oldest of its thread.
LEMMA WriteUnwaits ==
  ASSUME Typed, Ordered, NEW q \in Owners, WriteFrom(q)
  PROVE  \E l \in Waiting :
           /\ l \in Lines
           /\ file' = Append(file, l)
           /\ Waiting' = Waiting \ {l}
           /\ \A k \in Waiting : k # l => Before(l, k)
<1> DEFINE l == queue[q][1]
<1>1. /\ queue[q] \in Seq(Lines) /\ queue[q] # <<>>
      /\ Head(queue[q]) = l /\ 1 \in DOMAIN queue[q] /\ l \in Lines
  <2>1. queue[q] \in Seq(Lines) /\ queue[q] # <<>> /\ DOMAIN queue[q] = 1 .. Len(queue[q])
    BY LinesTyped DEF WriteFrom
  <2>2. Len(queue[q]) \in Nat \ {0} /\ Head(queue[q]) = queue[q][1]
    BY <2>1, EmptySeq
  <2> QED
    BY <2>1, <2>2, LinesTyped
<1>2. /\ queue'[q] = Tail(queue[q])
      /\ \A o \in Owners : o # q => queue'[o] = queue[o]
      /\ file' = Append(file, l)
  BY <1>1, LinesTyped DEF WriteFrom
<1>3. /\ \A j \in DOMAIN queue'[q] : /\ j \in Nat /\ j >= 1 /\ j + 1 \in DOMAIN queue[q]
                                     /\ queue'[q][j] = queue[q][j + 1]
      /\ \A j \in DOMAIN queue[q] : j # 1 =>
           j - 1 \in DOMAIN queue'[q] /\ queue'[q][j - 1] = queue[q][j]
  <2>1. /\ Len(queue'[q]) = Len(queue[q]) - 1 /\ Len(queue[q]) \in Nat
        /\ DOMAIN queue'[q] = 1 .. Len(queue[q]) - 1 /\ DOMAIN queue[q] = 1 .. Len(queue[q])
        /\ \A j \in 1 .. Len(queue[q]) - 1 : queue'[q][j] = queue[q][j + 1]
    BY <1>1, <1>2, HeadTailProperties, LinesTyped
  <2>2. ASSUME NEW j \in DOMAIN queue'[q]
        PROVE  j \in Nat /\ j >= 1 /\ j + 1 \in DOMAIN queue[q] /\ queue'[q][j] = queue[q][j + 1]
    BY <2>1
  <2>3. ASSUME NEW j \in DOMAIN queue[q], j # 1
        PROVE  j - 1 \in DOMAIN queue'[q] /\ queue'[q][j - 1] = queue[q][j]
    <3>1. j - 1 \in 1 .. Len(queue[q]) - 1 /\ (j - 1) + 1 = j
      BY <2>1, <2>3
    <3> QED
      BY <2>1, <3>1
  <2> QED
    BY <2>2, <2>3
<1> HIDE DEF l
<1>4. ASSUME NEW o \in Owners, NEW j \in DOMAIN queue[o], o # q \/ j # 1
      PROVE  queue[o][j] # l /\ Before(l, queue[o][j])
  <2>1. CASE o = q
    <3>1. 1 < j
      BY <1>1, <1>4, <2>1, LinesTyped
    <3>2. Before(l, queue[o][j])
      BY <1>1, <2>1, <3>1 DEF Ordered, QueuesInOrder, l
    <3>3. l[2] \in Int
      BY <1>1, LinesTyped
    <3> QED
      BY <3>2, <3>3 DEF Before
  <2>2. CASE o # q
    <3>1. o = QueueOf(queue[o][j][1]) /\ q = QueueOf(l[1])
      BY <1>1 DEF Ordered, InOwnQueue, l
    <3> QED
      BY <2>2, <3>1 DEF Before
  <2> QED
    BY <2>1, <2>2
<1>5. ASSUME NEW k
      PROVE  (\E o \in Owners : \E j \in DOMAIN queue'[o] : queue'[o][j] = k)
               <=> k \in Waiting /\ k # l
  <2>1. ASSUME NEW o \in Owners, NEW j \in DOMAIN queue'[o], queue'[o][j] = k
        PROVE  k \in Waiting /\ k # l
    <3>1. CASE o = q
      <4>1. j + 1 \in DOMAIN queue[q] /\ j + 1 # 1 /\ queue[q][j + 1] = k
        BY <1>3, <2>1, <3>1
      <4> QED
        BY <1>4, <4>1, WaitingMember
    <3>2. CASE o # q
      BY <1>2, <1>4, <2>1, <3>2, WaitingMember
    <3> QED
      BY <3>1, <3>2
  <2>2. ASSUME NEW o \in Owners, NEW j \in DOMAIN queue[o], queue[o][j] = k, k # l
        PROVE  \E i \in DOMAIN queue'[o] : queue'[o][i] = k
    <3>1. CASE o # q
      BY <1>2, <2>2, <3>1
    <3>2. CASE o = q
      <4>1. j # 1
        BY <1>1, <2>2, <3>2 DEF l
      <4>2. j - 1 \in DOMAIN queue'[q] /\ queue'[q][j - 1] = k
        BY <1>3, <2>2, <3>2, <4>1
      <4> QED
        BY <3>2, <4>2
    <3> QED
      BY <3>1, <3>2
  <2> QED
    BY <2>1, <2>2, WaitingMember
<1>6. Waiting' = Waiting \ {l}
  BY <1>5 DEF Waiting, QueuedIn
<1>7. l \in Waiting
  BY <1>1, WaitingMember DEF l
<1>8. \A k \in Waiting : k # l => Before(l, k)
  BY <1>4, WaitingMember DEF l
<1> QED
  BY <1>1, <1>2, <1>6, <1>7, <1>8

-----------------------------------------------------------------------------
(* Every line is in one place.                                             *)

WaitingOf(t) == {l \in Waiting : l[1] = t}

\* The lines a thread has logged, but for the one it is logging, are in the
\* file, in a queue, or dropped.
Counted(t) ==
  /\ IsFiniteSet(WaitingOf(t))
  /\ InFile(t) + Cardinality(WaitingOf(t)) + dropped[t] = Last(t)

AllCounted == \A t \in Threads : Counted(t)

(* The stop protocols.                                                     *)

\* What sys_stop, or the end of main, may still have to do.
Remaining ==
  IF main = "stopping"
  THEN IF adapter = "boost" THEN {<<"halt", "drain">>, <<"drain">>, <<>>}
       ELSE IF adapter \in FinishesAfterStop THEN {<<>>}
       ELSE {<<"await", "finish">>, <<"poll", "finish">>, <<"finish">>, <<>>}
  ELSE IF main = "stopped" /\ adapter \in FinishesAfterStop
  THEN {<<"finish">>, <<>>}
  ELSE {<<>>}

\* Has the last call been made that has the queues emptied.
ProtocolOver ==
  \/ main = "exited"
  \/ main = "stopped" /\ todo = <<>>
  \/ main = "stopping" /\ todo = <<>> /\ adapter \notin FinishesAfterStop

\* No thread logs any more when the protocol begins; a background thread that
\* has been asked to finish, as opposed to interrupted, has emptied the queues
\* when it halts; the protocol is over with the queues empty.
StopProtocol ==
  /\ main = "logging" => backend \in {"awake", "asleep"}
  /\ main # "logging" => \A t \in Threads : pc[t] = "idle"
  /\ todo \in Remaining
  /\ backend = "halted" /\ adapter # "boost" => Empty
  /\ ProtocolOver => Empty

IInv == Typed /\ Ordered /\ AllCounted /\ StopProtocol

\* A line appended to the file is one more line of its thread.
LEMMA InFileGrows ==
  ASSUME Typed, NEW l \in Lines, NEW t \in Threads, file' = Append(file, l)
  PROVE  InFile(t) \in Nat /\ InFile(t)' = IF l[1] = t THEN InFile(t) + 1 ELSE InFile(t)
<1> DEFINE n == Len(file)
           S == {i \in DOMAIN file : file[i][1] = t}
           T == {i \in DOMAIN file' : file'[i][1] = t}
<1>1. file \in Seq(Lines) /\ n \in Nat /\ DOMAIN file = 1 .. n
  BY LinesTyped
<1>2. /\ DOMAIN file' = 1 .. n + 1
      /\ \A i \in 1 .. n : file'[i] = file[i]
      /\ file'[n + 1] = l
  BY <1>1, AppendProperties
<1>3. IsFiniteSet(S) /\ n + 1 \notin S
  <2>1. IsFiniteSet(1 .. n) /\ S \subseteq 1 .. n /\ n + 1 \notin 1 .. n
    BY <1>1, FS_Interval
  <2> HIDE DEF S
  <2> QED
    BY <2>1, FS_Subset
<1>4. T = IF l[1] = t THEN S \cup {n + 1} ELSE S
  BY <1>1, <1>2
<1>5. InFile(t) = Cardinality(S) /\ InFile(t)' = Cardinality(T)
  BY DEF InFile
<1> HIDE DEF S, T, n
<1> QED
  BY <1>3, <1>4, <1>5, FS_AddElement, FS_CardinalityType

LEMMA InFileNat ==
  ASSUME Typed, NEW t \in Threads
  PROVE  InFile(t) \in Nat
<1> DEFINE S == {i \in DOMAIN file : file[i][1] = t}
<1>1. IsFiniteSet(DOMAIN file) /\ S \subseteq DOMAIN file
  BY LinesTyped, FS_Interval
<1>2. InFile(t) = Cardinality(S)
  BY DEF InFile
<1> HIDE DEF S
<1> QED
  BY <1>1, <1>2, FS_Subset, FS_CardinalityType

\* Calls and drops move a line that is in no queue.
LEMMA LogCounted ==
  ASSUME Typed, Ordered, AllCounted, NEW t \in Threads, Call(t) \/ LogCall(t)
  PROVE  AllCounted'
<1>1. UNCHANGED file /\ \A u : InFile(u)' = InFile(u)
  BY DEF Call, LogCall, Push, Drop, InFile
<1>2. calls[t] \in Int /\ \A u \in Threads : dropped[u] \in Int
  BY MaxLinesNat DEF Typed, TypeOK
<1>3. ASSUME NEW u \in Threads
      PROVE  Counted(u)'
  <2>1. /\ IsFiniteSet(WaitingOf(u))
        /\ InFile(u) + Cardinality(WaitingOf(u)) + dropped[u] = Last(u)
        /\ Cardinality(WaitingOf(u)) \in Nat
    BY <1>3, FS_CardinalityType DEF AllCounted, Counted
  <2>2. InFile(u) \in Nat
    BY InFileNat
  <2>3. CASE Call(t) \/ Drop(t)
    <3>1. WaitingOf(u)' = WaitingOf(u)
      BY <2>3 DEF Call, Drop, WaitingOf, Waiting, QueuedIn
    <3>2. Last(u)' - dropped'[u] = Last(u) - dropped[u]
      <4>1. calls[u] \in Int /\ dropped[u] \in Int
        BY MaxLinesNat DEF Typed, TypeOK
      <4>2. CASE u = t
        <5>1. CASE Call(t)
          BY <4>1, <4>2, <5>1 DEF Typed, TypeOK, Call, Last
        <5>2. CASE Drop(t)
          BY <4>1, <4>2, <5>2 DEF Typed, TypeOK, Drop, Last
        <5> QED
          BY <2>3, <5>1, <5>2
      <4>3. CASE u # t
        BY <2>3, <4>3 DEF Typed, TypeOK, Call, Drop, Last
      <4> QED
        BY <4>2, <4>3
    <3>3. dropped'[u] \in Int /\ Last(u)' \in Int /\ Last(u) \in Int
      BY <1>2, <2>3, LinesTyped, MaxLinesNat DEF Typed, TypeOK, Call, Drop, Last
    <3> QED
      BY <1>1, <1>2, <2>1, <2>2, <3>1, <3>2, <3>3 DEF Counted
  <2>4. CASE Push(t)
    <3> DEFINE l == <<t, calls[t]>>
    <3>1. /\ Waiting' = Waiting \cup {l} /\ l \in Lines
          /\ \A k \in Waiting : Before(k, l)
      BY <2>4, PushWaits
    <3>2. dropped' = dropped
      BY <2>4 DEF Push
    <3>3. CASE u = t
      <4>1. l \notin Waiting
        BY <1>2, <3>1 DEF Before
      <4>2. WaitingOf(u)' = WaitingOf(u) \cup {l} /\ l \notin WaitingOf(u)
        BY <3>1, <3>3, <4>1 DEF WaitingOf
      <4>3. Last(u)' = Last(u) + 1
        BY <1>2, <2>4, <3>3 DEF Typed, TypeOK, Push, Last
      <4>4. /\ IsFiniteSet(WaitingOf(u)')
            /\ Cardinality(WaitingOf(u)') = Cardinality(WaitingOf(u)) + 1
        BY <2>1, <4>2, FS_AddElement
      <4> QED
        BY <1>1, <1>2, <2>1, <2>2, <3>2, <4>3, <4>4 DEF Counted
    <3>4. CASE u # t
      <4>1. WaitingOf(u)' = WaitingOf(u)
        BY <3>1, <3>4 DEF WaitingOf
      <4>2. Last(u)' = Last(u)
        BY <2>4, <3>4 DEF Typed, TypeOK, Push, Last
      <4> QED
        BY <1>1, <2>1, <3>2, <4>1, <4>2 DEF Counted
    <3> QED
      BY <3>3, <3>4
  <2> QED
    BY <2>3, <2>4 DEF LogCall
<1> QED
  BY <1>3 DEF AllCounted

\* A write moves one line from a queue to the file.
LEMMA WriteCounted ==
  ASSUME Typed, Ordered, AllCounted, NEW q \in Owners, WriteFrom(q),
         UNCHANGED <<pc, calls, dropped>>
  PROVE  AllCounted'
<1>1. \A u : Last(u)' = Last(u) /\ dropped'[u] = dropped[u]
  BY DEF Last
<1>2. PICK l \in Waiting : l \in Lines /\ file' = Append(file, l) /\ Waiting' = Waiting \ {l}
  BY WriteUnwaits
<1>3. ASSUME NEW u \in Threads
      PROVE  Counted(u)'
  <2>1. /\ IsFiniteSet(WaitingOf(u))
        /\ InFile(u) + Cardinality(WaitingOf(u)) + dropped[u] = Last(u)
        /\ Cardinality(WaitingOf(u)) \in Nat
    BY <1>3, FS_CardinalityType DEF AllCounted, Counted
  <2>2. InFile(u) \in Nat /\ InFile(u)' = IF l[1] = u THEN InFile(u) + 1 ELSE InFile(u)
    BY <1>2, InFileGrows
  <2>3. dropped[u] \in Int
    BY MaxLinesNat DEF Typed, TypeOK
  <2>4. CASE l[1] = u
    <3>1. WaitingOf(u)' = WaitingOf(u) \ {l} /\ l \in WaitingOf(u)
      BY <1>2, <2>4 DEF WaitingOf
    <3>2. /\ IsFiniteSet(WaitingOf(u)')
          /\ Cardinality(WaitingOf(u)') = Cardinality(WaitingOf(u)) - 1
      BY <2>1, <3>1, FS_RemoveElement
    <3> QED
      BY <1>1, <2>1, <2>2, <2>3, <2>4, <3>2 DEF Counted
  <2>5. CASE l[1] # u
    <3>1. WaitingOf(u)' = WaitingOf(u)
      BY <1>2, <2>5 DEF WaitingOf
    <3> QED
      BY <1>1, <2>1, <2>2, <2>5, <3>1 DEF Counted
  <2> QED
    BY <2>4, <2>5
<1> QED
  BY <1>3 DEF AllCounted

LEMMA CountedStep == Typed /\ Ordered /\ AllCounted /\ [Next]_vars => AllCounted'
<1> SUFFICES ASSUME Typed, Ordered, AllCounted, [Next]_vars
             PROVE  AllCounted'
  OBVIOUS
<1>1. ASSUME UNCHANGED <<pc, calls, dropped, queue, file>>
      PROVE  AllCounted'
  BY <1>1 DEF AllCounted, Counted, WaitingOf, Waiting, QueuedIn, InFile, Last
<1>2. ASSUME BackendStep \/ Join \/ MainStep
      PROVE  \/ UNCHANGED <<pc, calls, dropped, queue, file>>
             \/ /\ UNCHANGED <<pc, calls, dropped>>
                /\ \E o \in DOMAIN queue : WriteFrom(o)
  BY <1>2 DEF BackendStep, MainStep, BackendWrites, BackendSleeps, BackendPolls, BackendHalts,
     Join, Halt, Drain, Await, PollNow, Finish, StopReturns, Exit, threadVars
<1>3. ASSUME BackendStep \/ Join \/ MainStep
      PROVE  AllCounted'
  BY <1>1, <1>2, <1>3, WriteCounted, LinesTyped
<1>4. CASE UNCHANGED vars
  BY <1>1, <1>4 DEF vars
<1> QED
  BY <1>3, <1>4, LogCounted DEF Next

LEMMA InitCounted == Init => AllCounted
<1> SUFFICES ASSUME Init, NEW t \in Threads
             PROVE  Counted(t)
  BY DEF AllCounted
<1>1. WaitingOf(t) = {} /\ {i \in DOMAIN file : file[i][1] = t} = {}
  BY DEF Init, WaitingOf, Waiting, QueuedIn, Owners
<1> QED
  BY <1>1, FS_EmptySet DEF Init, Counted, InFile, Last

-----------------------------------------------------------------------------
(* The stop protocols empty the queues.                                    *)

\* While a thread logs, the protocol has not begun.
LEMMA LogStops ==
  ASSUME Typed, StopProtocol, NEW t \in Threads, Call(t) \/ LogCall(t)
  PROVE  StopProtocol'
<1>1. main = "logging" /\ main' = "logging" /\ UNCHANGED <<adapter, todo>>
  BY DEF StopProtocol, Call, LogCall, Push, Drop
<1>2. backend' \in {"awake", "asleep"}
  BY <1>1 DEF StopProtocol, Call, LogCall, Push, Drop
<1>3. todo' \in Remaining'
  BY <1>1 DEF StopProtocol, Remaining
<1> QED
  BY <1>1, <1>2, <1>3 DEF StopProtocol, ProtocolOver

LEMMA BackendStops ==
  ASSUME Typed, StopProtocol, BackendStep
  PROVE  StopProtocol'
<1>1. UNCHANGED <<adapter, pc, main, todo>>
  BY DEF BackendStep, BackendWrites, BackendSleeps, BackendPolls, BackendHalts, threadVars
<1>2. todo' \in Remaining' /\ (ProtocolOver' <=> ProtocolOver)
  BY <1>1 DEF StopProtocol, Remaining, ProtocolOver
<1>3. Empty => UNCHANGED queue
  BY DEF BackendStep, BackendWrites, BackendSleeps, BackendPolls, BackendHalts, Empty, WriteFrom
<1>4. main = "logging" => backend' \in {"awake", "asleep"}
  BY DEF StopProtocol, BackendStep, BackendWrites, BackendSleeps, BackendPolls, BackendHalts
<1>5. backend' = "halted" => Empty \/ backend = "halted"
  BY DEF BackendStep, BackendWrites, BackendSleeps, BackendPolls, BackendHalts
<1>6. Empty => Empty'
  BY <1>3 DEF Empty
<1> QED
  BY <1>1, <1>2, <1>4, <1>5, <1>6 DEF StopProtocol

\* The calls that are left after each call of main.
LEMMA RemainingStep ==
  ASSUME Typed, StopProtocol, MainStep \/ Join
  PROVE  todo' \in Remaining'
<1>1. /\ adapter' = adapter /\ todo \in Remaining
      /\ [stop |-> config.stop, exit |-> config.exit] \in Protocols(adapter)
  BY ConfigOfAdapter DEF StopProtocol, MainStep, Join, Halt, Drain, Await, PollNow, Finish,
     StopReturns, Exit
<1>2. CASE Join
  BY <1>1, <1>2 DEF Join, Remaining, Protocols
<1>3. CASE StopReturns
  BY <1>1, <1>3 DEF StopReturns, Remaining, Protocols, FinishesAfterStop
<1>4. CASE Exit
  BY <1>1, <1>4 DEF Exit, Remaining
<1>5. CASE Halt \/ Drain \/ Await \/ PollNow \/ Finish
  <2>1. main' = main /\ todo # <<>> /\ (todo' = todo \/ todo' = Tail(todo))
    <3>1. CASE Drain
      BY <3>1 DEF Drain, Done, Doing
    <3>2. CASE Finish
      BY <3>2 DEF Finish, Done, Doing
    <3>3. CASE Halt \/ Await \/ PollNow
      BY <3>3 DEF Halt, Await, PollNow, Done, Doing
    <3> QED
      BY <1>5, <3>1, <3>2, <3>3
  <2>2. CASE todo' = todo
    BY <1>1, <2>1, <2>2 DEF Remaining
  <2>3. CASE todo' = Tail(todo)
    <3>1. /\ Tail(<<"halt", "drain">>) = <<"drain">> /\ Tail(<<"drain">>) = <<>>
          /\ Tail(<<"await", "finish">>) = <<"finish">>
          /\ Tail(<<"poll", "finish">>) = <<"finish">> /\ Tail(<<"finish">>) = <<>>
      OBVIOUS
    <3> QED
      BY <1>1, <2>1, <2>3, <3>1 DEF Remaining
  <2> QED
    BY <2>1, <2>2, <2>3
<1> QED
  BY <1>2, <1>3, <1>4, <1>5 DEF MainStep

\* The calls of main: the one that ends a protocol leaves the queues empty.
LEMMA MainStops ==
  ASSUME Typed, StopProtocol, MainStep \/ Join
  PROVE  StopProtocol'
<1>1. todo' \in Remaining'
  BY RemainingStep
<1>2. UNCHANGED <<adapter, pc>>
  BY DEF MainStep, Join, Halt, Drain, Await, PollNow, Finish, StopReturns, Exit, threadVars
<1>3. main' # "logging" /\ \A t \in Threads : pc'[t] = "idle"
  <2>1. CASE Join
    BY <2>1 DEF Join, threadVars
  <2>2. CASE StopReturns \/ Exit
    BY <1>2, <2>2 DEF StopProtocol, StopReturns, Exit
  <2>3. CASE Halt \/ Drain \/ Await \/ PollNow \/ Finish
    <3>1. todo # <<>> /\ main' = main
      BY <2>3 DEF Halt, Drain, Await, PollNow, Finish, Doing
    <3>2. main # "logging"
      BY <3>1 DEF StopProtocol, Remaining
    <3> QED
      BY <1>2, <3>1, <3>2 DEF StopProtocol
  <2> QED
    BY <2>1, <2>2, <2>3 DEF MainStep
<1>4. Empty => UNCHANGED queue
  BY DEF MainStep, Join, Halt, Drain, Await, PollNow, Finish, StopReturns, Exit
<1>5. Empty => Empty'
  BY <1>4 DEF Empty
<1>6. backend' = "halted" /\ adapter # "boost" => Empty
  <2>1. backend' = "halted" => backend = "halted" \/ Halt
    BY DEF MainStep, Join, Drain, Await, PollNow, Finish, StopReturns, Exit
  <2>2. Halt => adapter = "boost"
    BY DEF StopProtocol, Halt, Doing, Remaining
  <2> QED
    BY <2>1, <2>2 DEF StopProtocol
<1>7. ProtocolOver' => Empty
  <2> SUFFICES ASSUME ProtocolOver'
               PROVE  Empty
    OBVIOUS
  <2>1. CASE Join
    <3>1. main' = "stopping" /\ todo' = config.stop
      BY <2>1 DEF Join
    <3>2. adapter \notin FinishesAfterStop => config.stop # <<>>
      BY ConfigOfAdapter DEF Protocols
    <3> QED
      BY <1>2, <3>1, <3>2 DEF ProtocolOver
  <2>2. CASE StopReturns
    <3>1. main = "stopping" /\ todo = <<>> /\ main' = "stopped" /\ todo' = config.exit
      BY <2>2 DEF StopReturns
    <3>2. adapter \in FinishesAfterStop => config.exit # <<>>
      BY ConfigOfAdapter DEF Protocols, FinishesAfterStop
    <3> QED
      BY <1>2, <3>1, <3>2 DEF ProtocolOver, StopProtocol
  <2>3. CASE Exit
    BY <2>3 DEF Exit, ProtocolOver, StopProtocol
  <2>4. CASE Halt
    <3>1. adapter = "boost" /\ todo = <<"halt", "drain">> /\ main = "stopping"
      BY <2>4 DEF StopProtocol, Halt, Doing, Remaining
    <3>2. todo' = <<"drain">> /\ main' = main
      BY <2>4, <3>1 DEF Halt, Done
    <3> QED
      BY <3>1, <3>2 DEF ProtocolOver
  <2>5. CASE Drain
    <3>1. Empty \/ UNCHANGED <<adapter, main, todo>>
      BY <2>5 DEF Drain
    <3> QED
      BY <3>1 DEF ProtocolOver, StopProtocol
  <2>6. CASE Await
    BY <2>6 DEF Await
  <2>7. CASE PollNow
    <3>1. todo = <<"poll", "finish">> /\ main = "stopping"
      BY <2>7 DEF StopProtocol, PollNow, Doing, Remaining
    <3>2. todo' = <<"finish">> /\ main' = main
      BY <2>7, <3>1 DEF PollNow, Done
    <3> QED
      BY <3>1, <3>2 DEF ProtocolOver
  <2>8. CASE Finish
    <3>1. adapter # "boost"
      BY <2>8 DEF StopProtocol, Finish, Doing, Remaining, FinishesAfterStop
    <3>2. UNCHANGED <<adapter, main, todo>> \/ backend = "halted"
      BY <2>8 DEF Finish
    <3> QED
      BY <3>1, <3>2 DEF ProtocolOver, StopProtocol
  <2> QED
    BY <2>1, <2>2, <2>3, <2>4, <2>5, <2>6, <2>7, <2>8 DEF MainStep
<1> QED
  BY <1>1, <1>2, <1>3, <1>5, <1>6, <1>7 DEF StopProtocol

LEMMA StopStep == Typed /\ StopProtocol /\ [Next]_vars => StopProtocol'
<1>1. UNCHANGED vars /\ StopProtocol => StopProtocol'
  BY DEF StopProtocol, vars, Remaining, ProtocolOver, Empty
<1> QED
  BY <1>1, LogStops, BackendStops, MainStops DEF Next

LEMMA InitStop == Init => StopProtocol
BY DEF Init, StopProtocol, Remaining, ProtocolOver, Empty

LEMMA Invariance == Spec => []IInv
<1>1. Init => IInv
  BY InitTyped, InitOrdered, InitCounted, InitStop DEF IInv
<1>2. IInv /\ [Next]_vars => IInv'
  BY TypedStep, OrderedStep, CountedStep, StopStep DEF IInv
<1> QED
  BY <1>1, <1>2, PTL DEF Spec

\* The stop protocol of every adapter is complete: when sys_stop has returned
\* (for spdlogv2 and g3log, when the program has ended) every line that a
\* thread logged is in the file or was dropped by a low latency call.
THEOREM NothingIsLost == Spec => []NothingLost
<1>1. IInv => NothingLost
  <2> SUFFICES ASSUME IInv, NEW t \in Threads,
                      main = "exited" \/ (main = "stopped" /\ adapter \notin FinishesAfterStop)
               PROVE  InFile(t) + dropped[t] = calls[t]
    BY DEF NothingLost
  <2>1. Empty /\ pc[t] = "idle"
    BY DEF IInv, StopProtocol, ProtocolOver, Remaining
  <2>2. WaitingOf(t) = {}
    BY <2>1, EmptyWaiting DEF IInv, WaitingOf
  <2>3. InFile(t) \in Nat /\ dropped[t] \in Int
    BY InFileNat, MaxLinesNat DEF IInv, Typed, TypeOK
  <2> QED
    BY <2>1, <2>2, <2>3, FS_EmptySet DEF IInv, AllCounted, Counted, Last
<1> QED
  BY <1>1, Invariance, PTL

-----------------------------------------------------------------------------
(* The refinement of AsyncLog.                                             *)

\* A push is Accept, a write is Write, the end of main is End; everything else
\* changes neither the lines that wait nor the file.
LEMMA StepsRefine == IInv /\ [Next]_vars => [Abstract!Next]_(Abstract!vars)
<1> SUFFICES ASSUME IInv, [Next]_vars
             PROVE  [Abstract!Next]_(Abstract!vars)
  OBVIOUS
<1> USE DEF Abstract!vars, Abstract!Next
<1>1. ASSUME UNCHANGED <<queue, file>>, (main' = "exited") = (main = "exited")
      PROVE  UNCHANGED Abstract!vars
  BY <1>1 DEF Waiting, QueuedIn
<1>2. ASSUME NEW t \in Threads, Call(t) \/ Drop(t)
      PROVE  UNCHANGED Abstract!vars
  BY <1>1, <1>2 DEF Call, Drop
<1>3. ASSUME NEW t \in Threads, Push(t)
      PROVE  Abstract!Next
  <2> DEFINE l == <<t, calls[t]>>
  <2>1. /\ Waiting' = Waiting \cup {l} /\ l \in Lines
        /\ \A k \in Waiting : Before(k, l)
        /\ \A i \in DOMAIN file : Before(file[i], l)
    BY <1>3, PushWaits DEF IInv
  <2>2. main # "exited" /\ UNCHANGED <<main, file>>
    BY <1>3 DEF IInv, StopProtocol, Push
  <2> HIDE DEF l
  <2>3. Abstract!Accept(l)
    BY <2>1, <2>2 DEF Abstract!Accept, Abstract!Earlier, Before
  <2> QED
    BY <2>1, <2>2, <2>3
<1>4. ASSUME NEW q \in Owners, WriteFrom(q), UNCHANGED main
      PROVE  Abstract!Next
  <2>1. PICK l \in Waiting : /\ l \in Lines
                             /\ file' = Append(file, l)
                             /\ Waiting' = Waiting \ {l}
                             /\ \A k \in Waiting : k # l => Before(l, k)
    BY <1>4, WriteUnwaits DEF IInv
  <2>2. main # "exited"
    BY <1>4, LinesTyped DEF IInv, StopProtocol, ProtocolOver, Empty, WriteFrom
  <2>3. ASSUME NEW k \in Waiting
        PROVE  ~(k[1] = l[1] /\ k[2] < l[2])
    <3>1. k \in Lines
      BY WaitingMember, LinesTyped DEF IInv
    <3>2. k[2] \in Int /\ l[2] \in Int
      BY <2>1, <3>1, LinesTyped DEF IInv
    <3> QED
      BY <2>1, <3>2 DEF Before
  <2>4. Abstract!Write(l)
    BY <1>4, <2>1, <2>3 DEF Abstract!Write, Abstract!Earlier
  <2> QED
    BY <2>1, <2>2, <2>4
<1>5. ASSUME BackendStep \/ Join \/ MainStep
      PROVE  [Abstract!Next]_(Abstract!vars)
  <2>1. CASE Exit
    <3>1. Waiting = {}
      BY <2>1, EmptyWaiting DEF IInv, StopProtocol, ProtocolOver, Exit
    <3>2. main # "exited" /\ main' = "exited" /\ UNCHANGED <<queue, file>>
      BY <2>1 DEF Exit
    <3>3. Waiting' = Waiting
      BY <3>2 DEF Waiting, QueuedIn
    <3>4. Abstract!End
      BY <3>1, <3>2, <3>3 DEF Abstract!End
    <3> QED
      BY <3>2, <3>4
  <2>2. CASE ~Exit
    <3>1. \/ UNCHANGED <<queue, file>>
          \/ UNCHANGED main /\ \E q \in DOMAIN queue : WriteFrom(q)
      BY <1>5 DEF BackendStep, MainStep, BackendWrites, BackendSleeps, BackendPolls,
         BackendHalts, Join, Halt, Drain, Await, PollNow, Finish, StopReturns, Exit
    <3>2. (main' = "exited") = (main = "exited")
      BY <1>5, <2>2 DEF BackendStep, MainStep, BackendWrites, BackendSleeps, BackendPolls,
         BackendHalts, Join, Halt, Drain, Await, PollNow, Finish, StopReturns
    <3> QED
      BY <1>1, <1>4, <3>1, <3>2, LinesTyped DEF IInv
  <2> QED
    BY <2>1, <2>2
<1>6. CASE UNCHANGED vars
  BY <1>1, <1>6 DEF vars
<1> QED
  BY <1>2, <1>3, <1>5, <1>6 DEF Next, LogCall

\* Whatever queue an adapter configures and whatever its sys_stop calls, the
\* program does what AsyncLog promises: a line waits after the earlier ones of
\* its thread, is written once and in its turn, and none is left at the end.
THEOREM Refinement == Spec => ImplementsAsyncLog
<1>1. Init => Abstract!Init
  BY DEF Init, Abstract!Init, Waiting, QueuedIn, Owners
<1> QED
  BY <1>1, StepsRefine, Invariance, PTL DEF Spec, ImplementsAsyncLog, Abstract!Spec

-----------------------------------------------------------------------------
(* Nobody waits for a thread that does not come.                           *)

\* A background thread that pushes wake never sleeps over a line: no wake-up
\* is lost between the push of a caller and the sleep of the thread.
WokenUp == config.wakes /\ backend = "asleep" => Empty

\* Only quill can be told to sleep for ever.
IntervalRight == interval \in Intervals(adapter)

\* quill's flush_log awaits a backend that has not been told to stop, and
\* boost's flush, which writes to the file, begins when the feeding thread no
\* longer does.
CallsInOrder ==
  /\ Doing("await") => backend \in {"awake", "asleep"}
  /\ Doing("drain") => backend = "halted"

\* A log call that waits at a full queue waits for a background thread that
\* is awake, or whose sleep will be over: but for quill-bounded with
\* buffer_flush_time 0.
CallersServed ==
  \A t \in Threads : pc[t] = "calling" /\ config.full = "block" /\ Full(QueueOf(t)) =>
    \/ backend = "awake"
    \/ /\ backend = "asleep" /\ ~config.wakes
       /\ interval = "short" \/ adapter = "quill-bounded"

Served == WokenUp /\ IntervalRight /\ CallsInOrder

LEMMA LogServes ==
  ASSUME Typed, StopProtocol, Served, NEW t \in Threads, Call(t) \/ LogCall(t)
  PROVE  Served'
<1>1. /\ UNCHANGED <<adapter, interval, todo>> /\ main = "logging"
      /\ config' = config
  BY DEF StopProtocol, Call, LogCall, Push, Drop, config
<1>2. WokenUp'
  <2>1. CASE Push(t)
    BY <1>1, <2>1 DEF Push, WokenUp
  <2>2. CASE Call(t) \/ Drop(t)
    <3>1. UNCHANGED <<backend, queue>>
      BY <2>2 DEF Call, Drop
    <3> QED  BY <1>1, <3>1 DEF Served, WokenUp, Empty
  <2> QED  BY <2>1, <2>2 DEF LogCall
<1>3. todo = <<>>
  BY <1>1 DEF StopProtocol, Remaining
<1> QED  BY <1>1, <1>2, <1>3 DEF Served, IntervalRight, CallsInOrder, Doing

LEMMA BackendServes ==
  ASSUME Typed, StopProtocol, Served, BackendStep
  PROVE  Served'
<1>1. /\ UNCHANGED <<adapter, interval, todo, main>> /\ config' = config
      /\ Empty => UNCHANGED queue
  BY DEF BackendStep, BackendWrites, BackendSleeps, BackendPolls, BackendHalts, config, Empty,
     WriteFrom
<1>2. /\ backend' = "asleep" => Empty
      /\ backend = "halted" => backend' = "halted"
      /\ backend \in {"awake", "asleep"} => backend' \in {"awake", "asleep"}
  BY DEF BackendStep, BackendWrites, BackendSleeps, BackendPolls, BackendHalts
<1>3. WokenUp'
  BY <1>1, <1>2 DEF WokenUp, Empty
<1> QED  BY <1>1, <1>2, <1>3 DEF Served, IntervalRight, CallsInOrder, Doing

LEMMA MainServes ==
  ASSUME Typed, StopProtocol, Served, MainStep \/ Join
  PROVE  Served'
<1>1. /\ UNCHANGED <<adapter, interval>> /\ config' = config
      /\ Empty => UNCHANGED queue
      /\ backend' = "asleep" => backend = "asleep" /\ UNCHANGED queue
  BY DEF MainStep, Join, Halt, Drain, Await, PollNow, Finish, StopReturns, Exit, config,
     CallsInOrder, Served
<1>2. WokenUp'
  BY <1>1 DEF Served, WokenUp, Empty
<1>3. CallsInOrder'
  <2>1. todo \in Remaining /\ todo' \in Remaining'
    BY RemainingStep DEF StopProtocol
  <2>2. CASE Join
    BY <2>1, <2>2, ConfigOfAdapter
       DEF Join, StopProtocol, CallsInOrder, Doing, Protocols
  <2>3. CASE StopReturns \/ Exit
    <3>1. ~Doing("await")' /\ ~Doing("drain")'
      BY <2>1, <2>3 DEF StopReturns, Exit, Remaining, Doing
    <3> QED  BY <3>1 DEF CallsInOrder
  <2>4. CASE Halt
    <3>1. backend' = "halted" /\ ~Doing("await")'
      BY <2>1, <2>4 DEF Halt, Done, Doing, Remaining
    <3> QED  BY <3>1 DEF CallsInOrder
  <2>5. CASE Drain
    BY <2>1, <2>5 DEF Drain, Done, Doing, Remaining, Served, CallsInOrder
  <2>6. CASE Await \/ PollNow
    <3>1. ~Doing("await")' /\ ~Doing("drain")'
      BY <2>1, <2>6 DEF Await, PollNow, Done, Remaining, Doing
    <3> QED  BY <3>1 DEF CallsInOrder
  <2>7. CASE Finish
    <3>1. todo = <<"finish">> /\ (todo' = todo \/ todo' = Tail(todo))
      BY <2>1, <2>7 DEF Finish, Done, Remaining, Doing
    <3>2. Tail(<<"finish">>) = <<>> /\ Head(<<"finish">>) = "finish"
      OBVIOUS
    <3>3. ~Doing("await")' /\ ~Doing("drain")'
      BY <3>1, <3>2 DEF Doing
    <3> QED  BY <3>3 DEF CallsInOrder
  <2> QED  BY <2>2, <2>3, <2>4, <2>5, <2>6, <2>7 DEF MainStep
<1> QED  BY <1>1, <1>2, <1>3 DEF Served, IntervalRight

\* Whatever the interleaving, a log call that waits at a full queue waits for a
\* background thread that is awake or will wake by itself (quill-bounded with
\* buffer_flush_time 0 excepted), flush_log waits for a backend that has not been
\* stopped, and the file is never written by two threads at once.
THEOREM NobodyAbandoned == Spec => [](CallersServed /\ CallsInOrder)
<1>1. Init => Served
  BY DEF Init, Served, WokenUp, IntervalRight, CallsInOrder, Doing
<1>2. IInv /\ Served /\ [Next]_vars => Served'
  <2> SUFFICES ASSUME IInv, Served, [Next]_vars  PROVE Served'
    OBVIOUS
  <2>1. CASE UNCHANGED vars
    BY <2>1 DEF vars, Served, WokenUp, IntervalRight, CallsInOrder, Doing, Empty, config
  <2> QED  BY <2>1, LogServes, BackendServes, MainServes DEF Next, IInv
<1>3. IInv /\ Served => CallersServed
  <2> SUFFICES ASSUME IInv, Served, NEW t \in Threads,
                      pc[t] = "calling", config.full = "block", Full(QueueOf(t))
               PROVE  \/ backend = "awake"
                      \/ /\ backend = "asleep" /\ ~config.wakes
                         /\ interval = "short" \/ adapter = "quill-bounded"
    BY DEF CallersServed
  <2>1. main = "logging" /\ backend \in {"awake", "asleep"}
    BY DEF IInv, StopProtocol, Typed, TypeOK
  <2>2. ~Empty
    <3>1. /\ QueueOf(t) \in DOMAIN queue /\ capacity \in Nat \ {0}
          /\ Len(queue[QueueOf(t)]) >= capacity
      BY ConfigOfAdapter, CapacitiesPositive DEF IInv, Typed, TypeOK, Full
    <3> QED  BY <3>1 DEF Empty
  <2>3. interval = "short" \/ adapter = "quill-bounded"
    <3>1. adapter = "quill" => config.full = "grow"
      BY DEF config, Backend, QuillBackend
    <3> QED  BY <3>1 DEF Served, IntervalRight, Intervals
  <2> QED  BY <2>1, <2>2, <2>3 DEF Served, WokenUp
<1> QED  BY <1>1, <1>2, <1>3, Invariance, PTL DEF Spec, Served

=============================================================================
