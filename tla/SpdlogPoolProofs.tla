-------------------------- MODULE SpdlogPoolProofs --------------------------
(***************************************************************************)
(* Proofs about SpdlogPool, for every set of threads and of ids, every     *)
(* number of lines and every size of queue.                                *)
(*                                                                         *)
(* The pool has one worker, so what it has written, the line in its hand   *)
(* and the queue are one sequence, the trail, to which log calls append    *)
(* and along which the worker moves.  That the trail is in the order of    *)
(* each thread and that it has every line that was not dropped is kept by  *)
(* every step; the rest is the end of the pool: who holds it, and where    *)
(* the message is that ends the worker.                                    *)
(***************************************************************************)
EXTENDS SpdlogPool, SequenceTheorems, FiniteSetTheorems, TLAPS

-----------------------------------------------------------------------------
(* The inductive invariant.                                                *)

\* A thread that posts a line has begun it, and has dropped other lines.
Begun ==
  \A t \in Threads :
    /\ pc[t] \in {"posting", "returning"} => calls[t] >= 1
    /\ dropped[t] + (IF pc[t] = "posting" THEN 1 ELSE 0) <= calls[t]

\* The worker has a line in its hand exactly while it writes.
HandRight == \A w \in Workers : worker[w] = "writing" <=> hand[w] # <<>>

Typed == TypeOK /\ Begun /\ HandRight

\* An id has had one object if its name is registered, else none.
NamesRight == \A i \in Ids : builds[i] = IF i \in names THEN 1 ELSE 0

\* The registry holds the pool until sys_stop, and every logger object there
\* is before that has a pointer to it.
HolderRight ==
  /\ registered <=> main = "running"
  /\ registered => \A t \in Threads : id[t] # NoId => bound[t]

\* The pool is being destroyed, or has been, when nobody holds it, and only
\* then is the worker told to stop.
CloseRight ==
  /\ Closing => Holders = {}
  /\ told > 0 => Holders = {}
  /\ PoolGone => told > 0 /\ worker[1] = "halted"

\* The message that ends the worker is the last in the queue.
TerminateLast ==
  /\ \A k \in DOMAIN queue : queue[k] = Terminate => k = Len(queue) /\ told > 0
  /\ told > 0 /\ worker[1] # "halted" => queue # <<>> /\ queue[Len(queue)] = Terminate
  /\ worker[1] = "halted" => told > 0 /\ queue = <<>>

Trail == (file \o hand[1]) \o queue

\* The last line that the thread has in the trail, at most.
Last(t) == IF pc[t] = "posting" THEN calls[t] - 1 ELSE calls[t]

\* Of two lines of one thread, k was logged before l.
Before(k, l) == k[1] = l[1] => k[2] < l[2]

TrailOrdered ==
  /\ \A i, j \in DOMAIN Trail :
       i < j /\ Trail[i] # Terminate /\ Trail[j] # Terminate => Before(Trail[i], Trail[j])
  /\ \A i \in DOMAIN Trail : Trail[i] # Terminate => Trail[i][2] <= Last(Trail[i][1])

InTrail(t) == {k \in DOMAIN Trail : Trail[k] # Terminate /\ Trail[k][1] = t}

\* Every line is in the trail or dropped, but for the one being posted.
TrailCounted == \A t \in Threads : Cardinality(InTrail(t)) + dropped[t] = Last(t)

\* No line is dropped before sys_stop.
NoneDropped == main = "running" => \A t \in Threads : dropped[t] = 0

IInv ==
  /\ Typed
  /\ NamesRight /\ HolderRight /\ CloseRight /\ TerminateLast
  /\ TrailOrdered /\ TrailCounted
  /\ NoneDropped

-----------------------------------------------------------------------------
(* The types.                                                              *)

Messages == Lines \cup {Terminate}

LEMMA OneWorker == Workers = {1} /\ PoolWorkers = 1
BY DEF Workers, PoolWorkers

LEMMA TerminateIsNoLine == Terminate \notin Lines /\ Terminate \in Messages /\ Lines \subseteq Messages
BY DEF Terminate, Lines, Messages

LEMMA SequencesTyped ==
  ASSUME Typed
  PROVE  /\ file \in Seq(Messages) /\ file \in Seq(Lines)
         /\ hand[1] \in Seq(Messages) /\ hand[1] \in Seq(Lines)
         /\ hand[1] = <<>> \/ \E l \in Lines : hand[1] = <<l>>
         /\ queue \in Seq(Messages)
<1>1. file \in Seq(Lines) /\ queue \in Seq(Messages) /\ hand[1] \in {<<>>} \cup {<<l>> : l \in Lines}
  BY OneWorker DEF Typed, TypeOK, Messages
<1>2. hand[1] \in Seq(Lines)
  <2>1. \A l \in Lines : <<l>> \in Seq(Lines)
    OBVIOUS
  <2> QED
    BY <1>1, <2>1, EmptySeq
<1> QED
  BY <1>1, <1>2, TerminateIsNoLine, SeqMonotonic

\* The log calls and the logger objects.
LEMMA ThreadTyped ==
  ASSUME Typed, NEW t \in Threads,
         \/ \E i \in Ids : Build(t, i) \/ BuildThrows(t, i)
         \/ Destroy(t) \/ Call(t) \/ LogCall(t)
  PROVE  Typed'
<1> USE MaxLinesNat DEF objects, workers
<1>1. ASSUME NEW i \in Ids, Build(t, i) \/ BuildThrows(t, i)
      PROVE  Typed'
  <2>1. CASE Build(t, i)
    <3>1. builds' \in [Ids -> Nat] /\ names' \subseteq Ids
      BY <2>1 DEF Typed, TypeOK, Build
    <3>2. id' \in [Threads -> Ids \cup {NoId}] /\ bound' \in [Threads -> BOOLEAN]
      BY <2>1 DEF Typed, TypeOK, Build
    <3> QED
      BY <2>1, <3>1, <3>2 DEF Typed, TypeOK, Build, Begun, HandRight
  <2>2. CASE BuildThrows(t, i)
    <3>1. pc' \in [Threads -> {"idle", "posting", "returning", "closing", "threw"}]
      BY <2>2 DEF Typed, TypeOK, BuildThrows
    <3> QED
      BY <2>2, <3>1 DEF Typed, TypeOK, BuildThrows, Begun, HandRight
  <2> QED
    BY <1>1, <2>1, <2>2
<1>2. CASE Destroy(t)
  <2>1. id' \in [Threads -> Ids \cup {NoId}]
    BY <1>2 DEF Typed, TypeOK, Destroy
  <2> QED
    BY <1>2, <2>1 DEF Typed, TypeOK, Destroy, Begun, HandRight
<1>3. CASE Call(t)
  <2>1. calls' \in [Threads -> 0 .. MaxLines]
    BY <1>3 DEF Typed, TypeOK, Call
  <2>2. dropped' \in [Threads -> 0 .. MaxLines]
    <3>1. dropped[t] + 1 \in 0 .. MaxLines
      BY <1>3 DEF Typed, TypeOK, Call, Begun
    <3>2. dropped' = [dropped EXCEPT ![t] = @ + 1] \/ dropped' = dropped
      BY <1>3 DEF Call
    <3> QED
      BY <3>1, <3>2 DEF Typed, TypeOK
  <2>3. pc' \in [Threads -> {"idle", "posting", "returning", "closing", "threw"}]
    BY <1>3 DEF Typed, TypeOK, Call
  <2>4. Begun'
    BY <1>3 DEF Typed, TypeOK, Call, Begun
  <2> QED
    BY <1>3, <2>1, <2>2, <2>3, <2>4 DEF Typed, TypeOK, Call, HandRight
<1>4. CASE Post(t)
  <2>1. <<t, calls[t]>> \in Lines
    BY <1>4 DEF Typed, TypeOK, Begun, Post, Lines
  <2>2. queue' \in Seq(Messages) /\ Len(queue') = Len(queue) + 1 /\ Len(queue) \in Nat
    BY <1>4, <2>1, SequencesTyped, TerminateIsNoLine, AppendProperties, LenProperties DEF Post
  <2>3. Len(queue') <= capacity
    BY <1>4, <2>2, CapacitiesNat DEF Typed, TypeOK, Post, Full
  <2>4. pc' \in [Threads -> {"idle", "posting", "returning", "closing", "threw"}]
    BY <1>4 DEF Typed, TypeOK, Post
  <2>5. Begun'
    BY <1>4 DEF Typed, TypeOK, Post, Begun
  <2> QED
    BY <1>4, <2>2, <2>3, <2>4, <2>5 DEF Typed, TypeOK, Post, HandRight, Messages
<1>5. CASE Return(t)
  <2>1. pc' \in [Threads -> {"idle", "posting", "returning", "closing", "threw"}]
    BY <1>5 DEF Typed, TypeOK, Return
  <2> QED
    BY <1>5, <2>1 DEF Typed, TypeOK, Return, Begun, HandRight
<1> QED
  BY <1>1, <1>2, <1>3, <1>4, <1>5 DEF LogCall

\* The end of the pool.
LEMMA EndTyped ==
  ASSUME Typed, SysStop \/ TellWorker \/ Joined
  PROVE  Typed'
<1> USE DEF objects, workers
<1>1. CASE SysStop
  BY <1>1 DEF Typed, TypeOK, SysStop, Begun, HandRight
<1>2. CASE TellWorker
  <2>1. queue' \in Seq(Messages) /\ Len(queue') = Len(queue) + 1 /\ Len(queue) \in Nat
    BY <1>2, SequencesTyped, TerminateIsNoLine, AppendProperties, LenProperties DEF TellWorker
  <2>2. Len(queue') <= capacity
    BY <1>2, <2>1, CapacitiesNat DEF Typed, TypeOK, TellWorker, Full
  <2>3. told' \in 0 .. PoolWorkers
    BY <1>2 DEF Typed, TypeOK, TellWorker, PoolWorkers
  <2> QED
    BY <1>2, <2>1, <2>2, <2>3 DEF Typed, TypeOK, TellWorker, Begun, HandRight, Messages
<1>3. CASE Joined
  <2>1. pc' \in [Threads -> {"idle", "posting", "returning", "closing", "threw"}]
    BY <1>3 DEF Typed, TypeOK, Joined
  <2>2. Begun'
    BY <1>3 DEF Typed, TypeOK, Joined, Begun
  <2> QED
    BY <1>3, <2>1, <2>2 DEF Typed, TypeOK, Joined, HandRight
<1> QED
  BY <1>1, <1>2, <1>3

\* The worker.
LEMMA WorkerTyped ==
  ASSUME Typed, NEW w \in Workers, Take(w) \/ Write(w)
  PROVE  Typed'
<1> USE DEF objects, workers
<1>1. CASE Take(w)
  <2>1. queue \in Seq(Messages) /\ queue # <<>>
    BY <1>1, SequencesTyped DEF Take
  <2>2. /\ Head(queue) \in Messages /\ queue' \in Seq(Messages)
        /\ Len(queue') = Len(queue) - 1 /\ Len(queue) \in Nat
    BY <1>1, <2>1, HeadTailProperties, LenProperties DEF Take
  <2>3. Len(queue') <= capacity
    BY <2>2, CapacitiesNat DEF Typed, TypeOK
  <2>4. CASE Head(queue) = Terminate
    <3>1. worker' = [worker EXCEPT ![w] = "halted"] /\ hand' = hand
      BY <1>1, <2>4 DEF Take
    <3>2. HandRight'
      BY <1>1, <3>1 DEF Typed, TypeOK, HandRight, Take
    <3> QED
      BY <1>1, <2>2, <2>3, <3>1, <3>2 DEF Typed, TypeOK, Take, Begun, Messages
  <2>5. CASE Head(queue) # Terminate
    <3>1. /\ worker' = [worker EXCEPT ![w] = "writing"]
          /\ hand' = [hand EXCEPT ![w] = <<Head(queue)>>] /\ Head(queue) \in Lines
      BY <1>1, <2>2, <2>5 DEF Take, Messages
    <3>2. HandRight'
      BY <1>1, <3>1 DEF Typed, TypeOK, HandRight
    <3>3. hand' \in [Workers -> {<<>>} \cup {<<l>> : l \in Lines}]
      BY <3>1 DEF Typed, TypeOK
    <3> QED
      BY <1>1, <2>2, <2>3, <3>1, <3>2, <3>3 DEF Typed, TypeOK, Take, Begun, Messages
  <2> QED
    BY <2>4, <2>5
<1>2. CASE Write(w)
  <2>1. file' \in Seq(Lines)
    BY <1>2, OneWorker, SequencesTyped, ConcatProperties DEF Write
  <2>2. hand' \in [Workers -> {<<>>} \cup {<<l>> : l \in Lines}]
    BY <1>2 DEF Typed, TypeOK, Write
  <2>3. worker' \in [Workers -> {"waiting", "writing", "halted"}]
    BY <1>2 DEF Typed, TypeOK, Write
  <2>4. HandRight'
    BY <1>2 DEF Typed, TypeOK, HandRight, Write
  <2> QED
    BY <1>2, <2>1, <2>2, <2>3, <2>4 DEF Typed, TypeOK, Write, Begun
<1> QED
  BY <1>1, <1>2

LEMMA TypedStep == Typed /\ [Next]_vars => Typed'
<1>1. ASSUME Typed, UNCHANGED vars
      PROVE  Typed'
  BY <1>1 DEF vars, objects, workers, Typed, TypeOK, Begun, HandRight
<1> QED
  BY <1>1, ThreadTyped, EndTyped, WorkerTyped DEF Next

LEMMA InitTyped == Init => Typed
<1> SUFFICES ASSUME Init PROVE Typed
  OBVIOUS
<1>1. queue \in Seq(Messages) /\ file \in Seq(Lines) /\ Len(queue) = 0
  BY DEF Init
<1> QED
  BY <1>1, MaxLinesNat, CapacitiesNat, OneWorker DEF Init, Typed, TypeOK, Begun, HandRight, Messages

\* The types of the variables: no more lines in the queue than it has room
\* for, and no thread loses more lines than it has logged.
THEOREM TypeCorrect == Spec => []TypeOK
<1>1. Typed => TypeOK
  BY DEF Typed
<1> QED
  BY <1>1, InitTyped, TypedStep, PTL DEF Spec

-----------------------------------------------------------------------------
(* Names, holders, and the end of the pool.                                *)

LEMMA NamesStep == Typed /\ NamesRight /\ [Next]_vars => NamesRight'
<1> SUFFICES ASSUME Typed, NamesRight, [Next]_vars
             PROVE  NamesRight'
  OBVIOUS
<1>1. ASSUME UNCHANGED <<names, builds>>
      PROVE  NamesRight'
  BY <1>1 DEF NamesRight
<1>2. ASSUME NEW t \in Threads, NEW i \in Ids, Build(t, i)
      PROVE  NamesRight'
  BY <1>2 DEF Typed, TypeOK, NamesRight, Build
<1>3. CASE SysStop
  BY <1>3 DEF NamesRight, SysStop
<1>4. ASSUME NEW t \in Threads, NEW i \in Ids, BuildThrows(t, i)
      PROVE  NamesRight'
  BY <1>1, <1>4 DEF BuildThrows, objects
<1>5. ASSUME NEW t \in Threads, Destroy(t) \/ Call(t) \/ LogCall(t)
      PROVE  NamesRight'
  BY <1>1, <1>5 DEF Destroy, Call, LogCall, Post, Return, objects
<1>6. CASE TellWorker \/ Joined \/ \E w \in Workers : Take(w) \/ Write(w)
  BY <1>1, <1>6 DEF TellWorker, Joined, Take, Write, objects
<1>7. CASE UNCHANGED vars
  BY <1>1, <1>7 DEF vars, objects
<1> QED
  BY <1>2, <1>3, <1>4, <1>5, <1>6, <1>7 DEF Next

LEMMA HolderStep ==
  Typed /\ HolderRight /\ NoneDropped /\ [Next]_vars => HolderRight' /\ NoneDropped'
<1> SUFFICES ASSUME Typed, HolderRight, NoneDropped, [Next]_vars
             PROVE  HolderRight' /\ NoneDropped'
  OBVIOUS
<1>1. ASSUME UNCHANGED <<registered, id, bound, dropped>>,
             (main' = "running") = (main = "running")
      PROVE  HolderRight' /\ NoneDropped'
  BY <1>1 DEF HolderRight, NoneDropped
<1>2. ASSUME NEW t \in Threads, NEW i \in Ids, Build(t, i)
      PROVE  HolderRight' /\ NoneDropped'
  <2>1. ASSUME registered, NEW u \in Threads, id'[u] # NoId
        PROVE  bound'[u]
    BY <1>2, <2>1 DEF Typed, TypeOK, HolderRight, Build
  <2> QED
    BY <1>2, <2>1 DEF HolderRight, NoneDropped, Build
<1>3. ASSUME NEW t \in Threads, Destroy(t)
      PROVE  HolderRight' /\ NoneDropped'
  <2>1. ASSUME registered, NEW u \in Threads, id'[u] # NoId
        PROVE  bound'[u]
    BY <1>3, <2>1 DEF Typed, TypeOK, HolderRight, Destroy
  <2> QED
    BY <1>3, <2>1 DEF HolderRight, NoneDropped, Destroy
<1>4. ASSUME NEW t \in Threads, Call(t)
      PROVE  HolderRight' /\ NoneDropped'
  <2>1. main = "running" => bound[t] /\ Holders # {}
    BY <1>4 DEF HolderRight, Call, Holders
  <2> QED
    BY <1>4, <2>1 DEF HolderRight, NoneDropped, Call, objects
<1>5. CASE SysStop
  BY <1>5 DEF HolderRight, NoneDropped, SysStop
<1>6. ASSUME NEW t \in Threads, LogCall(t) \/ \E i \in Ids : BuildThrows(t, i)
      PROVE  HolderRight' /\ NoneDropped'
  BY <1>1, <1>6 DEF LogCall, Post, Return, BuildThrows, objects
<1>7. CASE TellWorker \/ Joined \/ \E w \in Workers : Take(w) \/ Write(w)
  BY <1>1, <1>7 DEF TellWorker, Joined, Take, Write, objects
<1>8. CASE UNCHANGED vars
  BY <1>1, <1>8 DEF vars, objects
<1> QED
  BY <1>2, <1>3, <1>4, <1>5, <1>6, <1>7, <1>8 DEF Next

\* Nobody holds the pool: the registry has given it up, and no thread is
\* between the begin of a log call and its end.
LEMMA NoHolders ==
  Holders = {} <=> ~registered /\ \A t \in Threads : pc[t] \notin {"posting", "returning"}
BY DEF Holders

\* Once nobody holds the pool, nobody will.
LEMMA NoHoldersStay ==
  ASSUME Typed, [Next]_vars, Holders = {}
  PROVE  Holders' = {}
<1>1. ~registered /\ \A t \in Threads : pc[t] \notin {"posting", "returning"}
  BY NoHolders
<1>2. ASSUME UNCHANGED registered, \A t \in Threads : pc'[t] \notin {"posting", "returning"}
      PROVE  Holders' = {}
  BY <1>1, <1>2 DEF Holders
<1>3. ASSUME NEW t \in Threads, \E i \in Ids : Build(t, i) \/ BuildThrows(t, i)
      PROVE  Holders' = {}
  BY <1>1, <1>2, <1>3 DEF Typed, TypeOK, Build, BuildThrows, objects
<1>4. ASSUME NEW t \in Threads, Destroy(t) \/ Call(t) \/ LogCall(t)
      PROVE  Holders' = {}
  BY <1>1, <1>2, <1>4 DEF Typed, TypeOK, Destroy, Call, LogCall, Post, Return, objects
<1>5. CASE SysStop
  BY <1>1, <1>5 DEF SysStop, Holders
<1>6. CASE TellWorker \/ Joined \/ \E w \in Workers : Take(w) \/ Write(w)
  BY <1>1, <1>2, <1>6 DEF Typed, TypeOK, TellWorker, Joined, Take, Write, objects
<1>7. CASE UNCHANGED vars
  BY <1>1, <1>2, <1>7 DEF vars, objects
<1> QED
  BY <1>3, <1>4, <1>5, <1>6, <1>7 DEF Next

\* The pool begins to be destroyed when its last holder gives it up.
LEMMA CloseStep ==
  ASSUME Typed, HolderRight, CloseRight, [Next]_vars
  PROVE  CloseRight'
<1>1. Closing' => Closing \/ Holders' = {}
  <2> SUFFICES ASSUME Closing', ~Closing
               PROVE  Holders' = {}
    OBVIOUS
  <2>1. SysStop \/ \E t \in Threads : Return(t)
    <3>1. ASSUME main' = main \/ main' # "closing", \A t \in Threads : pc'[t] = "closing" => pc[t] = "closing"
          PROVE  FALSE
      BY <3>1 DEF Closing
    <3>2. ASSUME NEW t \in Threads,
                 \/ \E i \in Ids : Build(t, i) \/ BuildThrows(t, i)
                 \/ Destroy(t) \/ Call(t) \/ Post(t)
          PROVE  FALSE
      <4>1. main' = main
        BY <3>2 DEF Build, BuildThrows, Destroy, Call, Post
      <4>2. \A u \in Threads : pc'[u] = "closing" => pc[u] = "closing"
        BY <3>2 DEF Typed, TypeOK, Build, BuildThrows, Destroy, Call, Post
      <4> QED
        BY <3>1, <4>1, <4>2
    <3>3. CASE TellWorker \/ Joined \/ \E w \in Workers : Take(w) \/ Write(w)
      BY <3>1, <3>3 DEF Typed, TypeOK, TellWorker, Joined, Take, Write, Closing
    <3>4. CASE UNCHANGED vars
      BY <3>1, <3>4 DEF vars
    <3> QED
      BY <3>2, <3>3, <3>4 DEF Next, LogCall
  <2>2. CASE SysStop
    <3>1. main' = "closing" /\ Holders = {Main} /\ registered' = FALSE /\ pc' = pc
      BY <2>2 DEF SysStop, Closing
    <3> QED
      BY <3>1, MainIsNoThread DEF Holders
  <2>3. ASSUME NEW t \in Threads, Return(t)
        PROVE  Holders' = {}
    <3>1. pc'[t] = "closing" /\ Holders = {t} /\ \A u \in Threads : u # t => pc'[u] = pc[u]
      BY <2>3 DEF Typed, TypeOK, Return, Closing
    <3>2. ~registered /\ ~registered'
      BY <2>3, <3>1, MainIsNoThread DEF Return, objects, Holders
    <3>3. \A u \in Threads : pc'[u] \notin {"posting", "returning"}
      BY <3>1 DEF Holders
    <3> QED
      BY <3>2, <3>3 DEF Holders
  <2> QED
    BY <2>1, <2>2, <2>3
<1>2. told' > 0 => told > 0 \/ Closing
  BY DEF Next, Build, BuildThrows, Destroy, Call, LogCall, Post, Return, SysStop, TellWorker,
     Joined, Take, Write, vars
<1>3. told > 0 => told' > 0
  BY DEF Typed, TypeOK, Next, Build, BuildThrows, Destroy, Call, LogCall, Post, Return,
     SysStop, TellWorker, Joined, Take, Write, vars
<1>4. worker[1] = "halted" => worker'[1] = "halted"
  BY OneWorker DEF Typed, TypeOK, Next, Build, BuildThrows, Destroy, Call, LogCall, Post,
     Return, SysStop, TellWorker, Joined, Take, Write, vars, workers
<1>5. PoolGone' => told' > 0 /\ worker'[1] = "halted"
  <2> SUFFICES ASSUME PoolGone', ~PoolGone
               PROVE  told' > 0 /\ worker'[1] = "halted"
    BY <1>3, <1>4 DEF CloseRight
  <2>1. Holders' = {} /\ ~registered' /\ ~Closing'
    BY DEF PoolGone
  <2>2. CASE Joined
    BY <2>2, OneWorker DEF Joined, workers
  <2>3. CASE ~Joined
    <3>1. Holders = {}
      <4> SUFFICES ASSUME Holders # {}
                   PROVE  FALSE
        OBVIOUS
      <4>1. registered \/ \E t \in Threads : pc[t] \in {"posting", "returning"}
        BY DEF Holders
      <4>2. ~registered' /\ \A t \in Threads : pc'[t] \notin {"posting", "returning"}
        BY <2>1 DEF Holders
      <4>3. SysStop \/ \E t \in Threads : Return(t)
        <5>1. ASSUME NEW t \in Threads,
                     \/ \E i \in Ids : Build(t, i) \/ BuildThrows(t, i)
                     \/ Destroy(t) \/ Call(t) \/ Post(t)
              PROVE  FALSE
          <6>1. registered' = registered
            BY <5>1 DEF Build, BuildThrows, Destroy, Call, Post, objects
          <6>2. \A u \in Threads :
                  pc[u] \in {"posting", "returning"} => pc'[u] \in {"posting", "returning"}
            BY <5>1 DEF Typed, TypeOK, Build, BuildThrows, Destroy, Call, Post
          <6> QED
            BY <4>1, <4>2, <6>1, <6>2
        <5>2. CASE TellWorker \/ \E w \in Workers : Take(w) \/ Write(w)
          BY <4>1, <4>2, <5>2 DEF TellWorker, Take, Write, objects
        <5>3. CASE UNCHANGED vars
          BY <4>1, <4>2, <5>3 DEF vars, objects
        <5> QED
          BY <2>3, <5>1, <5>2, <5>3 DEF Next, LogCall
      <4>4. CASE SysStop
        <5>1. main' = "closing" \/ Holders # {Main}
          BY <4>4 DEF SysStop
        <5>2. Holders = {Main}
          BY <4>2, <4>4 DEF SysStop, HolderRight, Holders
        <5> QED
          BY <2>1, <5>1, <5>2 DEF Closing
      <4>5. ASSUME NEW t \in Threads, Return(t)
            PROVE  FALSE
        <5>1. ~registered /\ \A u \in Threads : u # t => pc[u] \notin {"posting", "returning"}
          BY <4>2, <4>5 DEF Typed, TypeOK, Return, objects
        <5>2. Holders = {t}
          BY <4>5, <5>1 DEF Holders, Return
        <5>3. pc'[t] = "closing"
          BY <4>5, <5>2 DEF Typed, TypeOK, Return
        <5> QED
          BY <2>1, <5>3 DEF Closing
      <4> QED
        BY <4>3, <4>4, <4>5
    <3>2. ~registered
      BY <3>1 DEF Holders
    <3>3. Closing
      BY <3>1, <3>2 DEF PoolGone
    <3>4. Closing'
      <4>1. ASSUME NEW t \in Threads,
                   \/ \E i \in Ids : Build(t, i) \/ BuildThrows(t, i)
                   \/ Destroy(t) \/ Call(t) \/ LogCall(t)
            PROVE  Closing'
        <5>1. main' = main
          BY <4>1 DEF Build, BuildThrows, Destroy, Call, LogCall, Post, Return
        <5>2. \A u \in Threads : pc[u] = "closing" => pc'[u] = "closing"
          BY <4>1 DEF Typed, TypeOK, Build, BuildThrows, Destroy, Call, LogCall, Post, Return
        <5> QED
          BY <3>3, <5>1, <5>2 DEF Closing
      <4>2. ~SysStop
        BY <3>2 DEF HolderRight, SysStop
      <4>3. CASE TellWorker \/ \E w \in Workers : Take(w) \/ Write(w)
        BY <3>3, <4>3 DEF Closing, TellWorker, Take, Write
      <4>4. CASE UNCHANGED vars
        BY <3>3, <4>4 DEF Closing, vars
      <4> QED
        BY <2>3, <4>1, <4>2, <4>3, <4>4 DEF Next
    <3> QED
      BY <2>1, <3>4
  <2> QED
    BY <2>2, <2>3
<1> QED
  BY <1>1, <1>2, <1>5, NoHoldersStay DEF CloseRight

\* What the queue ends with.
LEMMA TerminateStep ==
  ASSUME Typed, CloseRight, TerminateLast, [Next]_vars
  PROVE  TerminateLast'
<1> DEFINE n == Len(queue)
<1>1. queue \in Seq(Messages) /\ n \in Nat /\ DOMAIN queue = 1 .. n /\ told \in 0 .. 1
  BY SequencesTyped, LenProperties, OneWorker DEF Typed, TypeOK
<1>2. ASSUME UNCHANGED <<queue, told>>, (worker'[1] = "halted") = (worker[1] = "halted")
      PROVE  TerminateLast'
  BY <1>2 DEF TerminateLast
<1>3. ASSUME NEW t \in Threads,
             \/ \E i \in Ids : Build(t, i) \/ BuildThrows(t, i)
             \/ Destroy(t) \/ Call(t) \/ Return(t)
      PROVE  TerminateLast'
  BY <1>2, <1>3 DEF Build, BuildThrows, Destroy, Call, Return, workers
<1>4. ASSUME NEW t \in Threads, Post(t)
      PROVE  TerminateLast'
  <2>1. told = 0 /\ worker[1] # "halted" /\ told' = told /\ worker' = worker
    BY <1>1, <1>4 DEF CloseRight, TerminateLast, Post, Holders, workers
  <2>2. /\ <<t, calls[t]>> \in Messages /\ <<t, calls[t]>> # Terminate
        /\ queue' = Append(queue, <<t, calls[t]>>)
    BY <1>4, TerminateIsNoLine DEF Post, Typed, TypeOK, Begun, Lines
  <2>3. /\ DOMAIN queue' = 1 .. n + 1 /\ \A k \in 1 .. n : queue'[k] = queue[k]
        /\ queue'[n + 1] = <<t, calls[t]>>
    BY <1>1, <2>2, AppendProperties, LenProperties
  <2> QED
    BY <1>1, <2>1, <2>2, <2>3 DEF TerminateLast
<1>5. CASE SysStop \/ Joined
  BY <1>2, <1>5 DEF SysStop, Joined, workers
<1>6. CASE TellWorker
  <2>1. told = 0 /\ told' = 1 /\ worker' = worker /\ worker[1] # "halted"
    BY <1>1, <1>6, OneWorker DEF TellWorker, TerminateLast, workers
  <2>2. /\ Len(queue') = n + 1
        /\ DOMAIN queue' = 1 .. n + 1 /\ \A k \in 1 .. n : queue'[k] = queue[k]
        /\ queue'[n + 1] = Terminate
    BY <1>1, <1>6, TerminateIsNoLine, AppendProperties, LenProperties DEF TellWorker
  <2> QED
    BY <1>1, <2>1, <2>2 DEF TerminateLast
<1>7. CASE Take(1)
  <2>1. /\ queue # <<>> /\ worker[1] = "waiting" /\ queue' = Tail(queue) /\ told' = told
        /\ Head(queue) = queue[1] /\ n > 0
    BY <1>1, <1>7, EmptySeq DEF Take
  <2>2. /\ Len(queue') = n - 1
        /\ DOMAIN queue' = 1 .. n - 1 /\ \A k \in 1 .. n - 1 : queue'[k] = queue[k + 1]
        /\ queue' \in Seq(Messages)
    BY <1>1, <2>1, HeadTailProperties, LenProperties
  <2>3. CASE Head(queue) = Terminate
    <3>1. n = 1 /\ told > 0
      BY <1>1, <2>1, <2>3 DEF TerminateLast
    <3>2. queue' = <<>>
      BY <2>2, <3>1, EmptySeq
    <3>3. worker'[1] = "halted"
      BY <1>7, <2>3, OneWorker DEF Take, Typed, TypeOK
    <3> QED
      BY <2>1, <3>1, <3>2, <3>3 DEF TerminateLast
  <2>4. CASE Head(queue) # Terminate
    <3>1. worker'[1] = "writing"
      BY <1>7, <2>4, OneWorker DEF Take, Typed, TypeOK
    <3>2. \A k \in DOMAIN queue' : queue'[k] = Terminate => k = n - 1 /\ told' > 0
      BY <1>1, <2>1, <2>2 DEF TerminateLast
    <3>3. ASSUME told' > 0
          PROVE  queue' # <<>> /\ queue'[n - 1] = Terminate
      <4>1. queue[n] = Terminate
        BY <2>1, <3>3 DEF TerminateLast
      <4>2. n > 1
        BY <1>1, <2>1, <2>4, <4>1
      <4>3. Len(queue') > 0
        BY <1>1, <2>2, <4>2
      <4>4. queue'[n - 1] = queue[n]
        BY <1>1, <2>2, <4>2
      <4> QED
        BY <4>1, <4>3, <4>4, EmptySeq
    <3> QED
      BY <2>1, <2>2, <3>1, <3>2, <3>3 DEF TerminateLast
  <2> QED
    BY <2>3, <2>4
<1>8. CASE Write(1)
  BY <1>2, <1>8, OneWorker DEF Write, Typed, TypeOK
<1>9. CASE UNCHANGED vars
  BY <1>2, <1>9 DEF vars, workers
<1> QED
  BY <1>3, <1>4, <1>5, <1>6, <1>7, <1>8, <1>9, OneWorker DEF Next, LogCall

-----------------------------------------------------------------------------
(* The trail.                                                              *)

LEMMA TrailTyped ==
  ASSUME Typed
  PROVE  /\ Trail \in Seq(Messages) /\ DOMAIN Trail = 1 .. Len(Trail) /\ Len(Trail) \in Nat
         /\ \A i \in DOMAIN Trail : Trail[i] # Terminate => Trail[i] \in Lines
         /\ \A l \in Lines : l[1] \in Threads /\ l[2] \in 1 .. MaxLines
         /\ \A t \in Threads : Last(t) \in Int
         /\ \A t \in Threads : IsFiniteSet(InTrail(t))
<1>1. Trail \in Seq(Messages)
  BY SequencesTyped, ConcatProperties DEF Trail
<1>2. DOMAIN Trail = 1 .. Len(Trail) /\ Len(Trail) \in Nat
  BY <1>1, LenProperties
<1>3. \A i \in DOMAIN Trail : Trail[i] # Terminate => Trail[i] \in Lines
  BY <1>1, <1>2, ElementOfSeq DEF Messages
<1>4. \A t \in Threads : IsFiniteSet(InTrail(t))
  <2>1. IsFiniteSet(DOMAIN Trail)
    BY <1>2, FS_Interval
  <2>2. \A t \in Threads : InTrail(t) \subseteq DOMAIN Trail
    BY DEF InTrail
  <2> QED
    BY <2>1, <2>2, FS_Subset
<1>5. \A t \in Threads : Last(t) \in Int
  BY MaxLinesNat DEF Typed, TypeOK, Last
<1>6. \A l \in Lines : l[1] \in Threads /\ l[2] \in 1 .. MaxLines
  BY DEF Lines
<1> QED
  BY <1>1, <1>2, <1>3, <1>4, <1>5, <1>6

\* Where the three parts are in the trail.
LEMMA TrailParts ==
  ASSUME Typed
  PROVE  LET f == Len(file)  h == Len(hand[1]) IN
         /\ f \in Nat /\ h \in Nat /\ DOMAIN file = 1 .. f /\ DOMAIN queue = 1 .. Len(queue)
         /\ Len(Trail) = f + h + Len(queue)
         /\ \A i \in DOMAIN file : i \in DOMAIN Trail /\ Trail[i] = file[i]
         /\ \A l \in Lines : hand[1] = <<l>> => /\ h = 1 /\ f + 1 \in DOMAIN Trail
                                                /\ Trail[f + 1] = l
         /\ hand[1] = <<>> => h = 0
         /\ \A i \in DOMAIN queue : f + h + i \in DOMAIN Trail /\ Trail[f + h + i] = queue[i]
<1> DEFINE f == Len(file)
           h == Len(hand[1])
<1>1. /\ file \in Seq(Messages) /\ hand[1] \in Seq(Messages) /\ queue \in Seq(Messages)
      /\ hand[1] = <<>> \/ \E l \in Lines : hand[1] = <<l>>
  BY SequencesTyped
<1>2. /\ f \in Nat /\ h \in Nat /\ Len(queue) \in Nat
      /\ DOMAIN file = 1 .. f /\ DOMAIN queue = 1 .. Len(queue)
  BY <1>1, LenProperties
<1>3. /\ file \o hand[1] \in Seq(Messages) /\ Len(file \o hand[1]) = f + h
      /\ \A i \in 1 .. f + h : (file \o hand[1])[i] = IF i <= f THEN file[i] ELSE hand[1][i - f]
  BY <1>1, ConcatProperties
<1>4. /\ Len(Trail) = f + h + Len(queue) /\ DOMAIN Trail = 1 .. Len(Trail)
      /\ \A i \in 1 .. f + h + Len(queue) :
           Trail[i] = IF i <= f + h THEN (file \o hand[1])[i] ELSE queue[i - (f + h)]
  BY <1>1, <1>3, ConcatProperties, TrailTyped DEF Trail
<1>5. \A l : hand[1] = <<l>> => h = 1 /\ hand[1][1] = l
  OBVIOUS
<1>6. hand[1] = <<>> => h = 0
  BY EmptySeq
<1> HIDE DEF f, h
<1>7. \A i \in DOMAIN file : i \in DOMAIN Trail /\ Trail[i] = file[i]
  BY <1>2, <1>3, <1>4
<1>8. \A l \in Lines : hand[1] = <<l>> => f + 1 \in DOMAIN Trail /\ Trail[f + 1] = l
  BY <1>2, <1>3, <1>4, <1>5
<1>9. \A i \in DOMAIN queue : f + h + i \in DOMAIN Trail /\ Trail[f + h + i] = queue[i]
  BY <1>2, <1>4
<1> QED
  BY <1>2, <1>4, <1>5, <1>6, <1>7, <1>8, <1>9 DEF f, h

\* What is put into the queue is put at the end of the trail.
LEMMA TrailAppended ==
  ASSUME Typed, NEW e \in Messages, queue' = Append(queue, e), UNCHANGED <<file, hand>>
  PROVE  Trail' = Append(Trail, e)
<1> DEFINE s == file \o hand[1]
<1>1. s \in Seq(Messages) /\ queue \in Seq(Messages) /\ <<e>> \in Seq(Messages)
  BY SequencesTyped, ConcatProperties
<1>2. Trail' = s \o (queue \o <<e>>)
  BY <1>1, AppendIsConcat DEF Trail
<1>4. Trail \in Seq(Messages) /\ Trail = s \o queue
  BY TrailTyped DEF Trail
<1> HIDE DEF s
<1>3. s \o (queue \o <<e>>) = (s \o queue) \o <<e>>
  BY <1>1, ConcatAssociative
<1> QED
  BY <1>2, <1>3, <1>4, AppendIsConcat

\* The worker moves along the trail; only the message that ends it vanishes.
LEMMA TrailTaken ==
  ASSUME Typed, TerminateLast, Take(1)
  PROVE  Trail' = Trail \/ Trail = Append(Trail', Terminate)
<1>1. /\ file \in Seq(Messages) /\ queue \in Seq(Messages) /\ queue # <<>>
      /\ Head(queue) = queue[1] /\ Len(queue) \in Nat \ {0} /\ DOMAIN queue = 1 .. Len(queue)
      /\ hand[1] = <<>>
  BY SequencesTyped, EmptySeq, LenProperties, OneWorker DEF Take, Typed, HandRight
<1>2. /\ Head(queue) \in Messages /\ Tail(queue) \in Seq(Messages)
      /\ Len(Tail(queue)) = Len(queue) - 1
  BY <1>1, HeadTailProperties
<1>3. <<Head(queue)>> \in Seq(Messages)
  BY <1>2
<1>4. queue = <<Head(queue)>> \o Tail(queue)
  <2>1. /\ <<Head(queue)>> \o Tail(queue) \in Seq(Messages)
        /\ Len(<<Head(queue)>> \o Tail(queue)) = Len(queue)
        /\ \A i \in 1 .. Len(queue) : (<<Head(queue)>> \o Tail(queue))[i] =
             IF i <= 1 THEN <<Head(queue)>>[i] ELSE Tail(queue)[i - 1]
    BY <1>1, <1>2, <1>3, ConcatProperties
  <2>2. \A i \in 1 .. Len(queue) - 1 : Tail(queue)[i] = queue[i + 1]
    BY <1>1, <1>2, HeadTailProperties
  <2>3. \A i \in 1 .. Len(queue) : (<<Head(queue)>> \o Tail(queue))[i] = queue[i]
    BY <1>1, <2>1, <2>2
  <2> QED
    BY <1>1, <2>1, <2>3, SeqEqual
<1>5. file \o <<>> = file
  BY <1>1, ConcatEmptySeq
<1>6. Trail = file \o queue
  BY <1>1, <1>5 DEF Trail
<1>7. CASE Head(queue) # Terminate
  <2>1. hand'[1] = <<Head(queue)>> /\ file' = file /\ queue' = Tail(queue)
    BY <1>7, OneWorker DEF Take, Typed, TypeOK
  <2>2. Trail' = (file \o <<Head(queue)>>) \o Tail(queue)
    BY <2>1 DEF Trail
  <2>3. Trail' = file \o (<<Head(queue)>> \o Tail(queue))
    BY <1>1, <1>2, <1>3, <2>2, ConcatAssociative
  <2> QED
    BY <1>4, <1>6, <2>3
<1>8. CASE Head(queue) = Terminate
  <2>1. hand'[1] = <<>> /\ file' = file /\ queue' = Tail(queue)
    BY <1>1, <1>8 DEF Take
  <2>2. Len(queue) = 1
    BY <1>1, <1>8 DEF TerminateLast
  <2>3. Tail(queue) = <<>>
    <3>1. Len(Tail(queue)) = 0
      BY <1>2, <2>2
    <3> QED
      BY <1>2, <3>1, EmptySeq
  <2>4. Trail' = file
    BY <1>5, <2>1, <2>3 DEF Trail
  <2>5. queue = <<Terminate>>
    BY <1>3, <1>4, <1>8, <2>3, ConcatEmptySeq
  <2> QED
    BY <1>1, <1>6, <2>4, <2>5, AppendIsConcat, TerminateIsNoLine
<1> QED
  BY <1>7, <1>8

LEMMA TrailWritten ==
  ASSUME Typed, Write(1)
  PROVE  Trail' = Trail
<1>1. file' = file \o hand[1] /\ hand'[1] = <<>> /\ queue' = queue
  BY OneWorker DEF Write, Typed, TypeOK
<1>2. file \o hand[1] \in Seq(Messages)
  BY SequencesTyped, ConcatProperties
<1> QED
  BY <1>1, <1>2, ConcatEmptySeq DEF Trail

\* Steps that only put or take the last message leave the lines of the trail
\* where they are.
LEMMA TrailAlike ==
  ASSUME Typed, Typed', TrailOrdered, TrailCounted,
         \/ Trail' = Trail
         \/ Trail' = Append(Trail, Terminate)
         \/ Trail = Append(Trail', Terminate),
         \A t \in Threads : Last(t)' - dropped'[t] = Last(t) - dropped[t] /\ Last(t)' >= Last(t)
  PROVE  TrailOrdered' /\ TrailCounted'
<1>1. Trail \in Seq(Messages) /\ DOMAIN Trail = 1 .. Len(Trail) /\ Len(Trail) \in Nat
  BY TrailTyped
<1>2. Trail' \in Seq(Messages) /\ DOMAIN Trail' = 1 .. Len(Trail') /\ Len(Trail') \in Nat
  <2>1. Typed' => (Trail \in Seq(Messages) /\ DOMAIN Trail = 1 .. Len(Trail)
                     /\ Len(Trail) \in Nat)'
    BY TrailTyped, PTL
  <2> QED
    BY <2>1 DEF Messages
<1>3. ASSUME NEW i
      PROVE  (i \in DOMAIN Trail' /\ Trail'[i] # Terminate)
               <=> (i \in DOMAIN Trail /\ Trail[i] # Terminate)
  <2>1. CASE Trail' = Trail
    BY <2>1
  <2>2. CASE Trail' = Append(Trail, Terminate)
    BY <1>1, <1>2, <2>2, TerminateIsNoLine, AppendProperties
  <2>3. CASE Trail = Append(Trail', Terminate)
    BY <1>1, <1>2, <2>3, TerminateIsNoLine, AppendProperties
  <2> QED
    BY <2>1, <2>2, <2>3
<1>4. ASSUME NEW i \in DOMAIN Trail, i \in DOMAIN Trail'
      PROVE  Trail'[i] = Trail[i]
  <2>1. CASE Trail' = Trail
    BY <2>1
  <2>2. CASE Trail' = Append(Trail, Terminate)
    BY <1>1, <1>2, <1>4, <2>2, TerminateIsNoLine, AppendProperties
  <2>3. CASE Trail = Append(Trail', Terminate)
    BY <1>1, <1>2, <1>4, <2>3, TerminateIsNoLine, AppendProperties
  <2> QED
    BY <2>1, <2>2, <2>3
<1> DEFINE T == Trail'
           last(u) == IF pc'[u] = "posting" THEN calls'[u] - 1 ELSE calls'[u]
<1>5. \A u : last(u) = Last(u)'
  BY DEF Last
<1>6. TrailOrdered'
  <2>1. \A i, j \in DOMAIN T :
          i < j /\ T[i] # Terminate /\ T[j] # Terminate => Before(T[i], T[j])
    BY <1>3, <1>4 DEF TrailOrdered
  <2>2. \A i \in DOMAIN T : T[i] # Terminate => T[i][2] <= last(T[i][1])
    <3> SUFFICES ASSUME NEW i \in DOMAIN T, T[i] # Terminate
                 PROVE  T[i][2] <= last(T[i][1])
      OBVIOUS
    <3>1. i \in DOMAIN Trail /\ Trail[i] # Terminate /\ T[i] = Trail[i]
      BY <1>3, <1>4
    <3>2. Trail[i] \in Lines /\ Trail[i][1] \in Threads /\ Trail[i][2] \in Int
      <4>1. Trail[i] \in Lines
        BY <3>1, TrailTyped
      <4>2. \A l \in Lines : l[1] \in Threads /\ l[2] \in Int
        BY MaxLinesNat DEF Lines
      <4> QED
        BY <4>1, <4>2
    <3>3. Trail[i][2] <= Last(Trail[i][1])
      BY <3>1 DEF TrailOrdered
    <3>4. \A u \in Threads : last(u) \in Int /\ Last(u) \in Int /\ last(u) >= Last(u)
      <4>1. \A u \in Threads : Last(u)' \in Int /\ Last(u) \in Int
        BY MaxLinesNat DEF Typed, TypeOK, Last
      <4>2. \A u \in Threads : Last(u)' >= Last(u)
        OBVIOUS
      <4> QED
        BY <1>5, <4>1, <4>2
    <3> HIDE DEF T, last
    <3> QED
      BY <3>1, <3>2, <3>3, <3>4
  <2> QED
    BY <2>1, <2>2 DEF TrailOrdered, Last, Before
<1>7. TrailCounted'
  <2> SUFFICES ASSUME NEW t \in Threads
               PROVE  Cardinality(InTrail(t))' + dropped'[t] = Last(t)'
    BY DEF TrailCounted
  <2>1. InTrail(t)' = InTrail(t)
    BY <1>3, <1>4 DEF InTrail
  <2>2. Cardinality(InTrail(t)) \in Nat
    BY TrailTyped, FS_CardinalityType
  <2>3. /\ Last(t) \in Int /\ Last(t)' \in Int /\ dropped[t] \in Int /\ dropped'[t] \in Int
    BY MaxLinesNat, TrailTyped DEF Typed, TypeOK, Last
  <2> QED
    BY <2>1, <2>2, <2>3 DEF TrailCounted
<1> QED
  BY <1>6, <1>7

\* A line that is posted is the newest of its thread.
LEMMA PostAppends ==
  ASSUME Typed, TrailOrdered, NEW t \in Threads, Post(t)
  PROVE  LET l == <<t, calls[t]>> IN
         /\ l \in Lines /\ l # Terminate
         /\ Trail' = Append(Trail, l)
         /\ \A i \in DOMAIN Trail : Trail[i] # Terminate => Before(Trail[i], l)
<1> DEFINE l == <<t, calls[t]>>
<1>1. l \in Lines /\ l # Terminate /\ l \in Messages
  BY TerminateIsNoLine DEF Post, Typed, TypeOK, Begun, Lines
<1>2. Trail' = Append(Trail, l)
  BY <1>1, TrailAppended DEF Post, workers
<1>3. Last(t) = calls[t] - 1 /\ calls[t] \in Int
  BY MaxLinesNat DEF Post, Typed, TypeOK, Last
<1>4. ASSUME NEW i \in DOMAIN Trail, Trail[i] # Terminate
      PROVE  Before(Trail[i], l)
  <2>1. Trail[i][2] <= Last(Trail[i][1])
    BY <1>4 DEF TrailOrdered
  <2>2. Trail[i] \in Lines
    BY <1>4, TrailTyped
  <2>3. Trail[i][2] \in Int
    BY <2>2, MaxLinesNat DEF Lines
  <2> QED
    BY <1>3, <2>1, <2>3 DEF Before
<1> QED
  BY <1>1, <1>2, <1>4

LEMMA PostKeepsTrail ==
  ASSUME Typed, TrailOrdered, TrailCounted, NEW t \in Threads, Post(t)
  PROVE  TrailOrdered' /\ TrailCounted'
<1> DEFINE l == <<t, calls[t]>>
           n == Len(Trail)
           T == Trail'
           last(u) == IF pc'[u] = "posting" THEN calls'[u] - 1 ELSE calls'[u]
<1>1. /\ l \in Lines /\ l # Terminate /\ T = Append(Trail, l)
      /\ \A i \in DOMAIN Trail : Trail[i] # Terminate => Before(Trail[i], l)
  BY PostAppends
<1>2. Trail \in Seq(Messages) /\ DOMAIN Trail = 1 .. n /\ n \in Nat
  BY TrailTyped
<1>3. DOMAIN T = 1 .. n + 1 /\ (\A i \in 1 .. n : T[i] = Trail[i]) /\ T[n + 1] = l
  BY <1>1, <1>2, TerminateIsNoLine, AppendProperties, LenProperties
<1>4. /\ \A u \in Threads : Last(u) \in Int /\ Last(u)' \in Int
      /\ last(t) = calls[t] /\ Last(t) = calls[t] - 1 /\ calls[t] \in Int
      /\ \A u \in Threads \ {t} : last(u) = Last(u)
      /\ \A u : last(u) = Last(u)'
  BY MaxLinesNat DEF Post, Typed, TypeOK, Last
<1> HIDE DEF n
<1>5. TrailOrdered'
  <2>1. \A i, j \in DOMAIN T :
          i < j /\ T[i] # Terminate /\ T[j] # Terminate => Before(T[i], T[j])
    <3> SUFFICES ASSUME NEW i \in 1 .. n + 1, NEW j \in 1 .. n + 1, i < j,
                        T[i] # Terminate, T[j] # Terminate
                 PROVE  Before(T[i], T[j])
      BY <1>3
    <3>1. i \in DOMAIN Trail /\ T[i] = Trail[i]
      BY <1>2, <1>3
    <3>2. CASE j = n + 1
      BY <1>1, <1>3, <3>1, <3>2
    <3>3. CASE j \in 1 .. n
      BY <1>2, <1>3, <3>1, <3>3 DEF TrailOrdered
    <3> QED
      BY <1>2, <3>2, <3>3
  <2>2. \A i \in DOMAIN T : T[i] # Terminate => T[i][2] <= last(T[i][1])
    <3> SUFFICES ASSUME NEW i \in 1 .. n + 1, T[i] # Terminate
                 PROVE  T[i][2] <= last(T[i][1])
      BY <1>3
    <3>1. CASE i = n + 1
      BY <1>3, <1>4, <3>1
    <3>2. CASE i \in 1 .. n
      <4>1. T[i] = Trail[i] /\ Trail[i] \in Lines /\ Trail[i][2] <= Last(Trail[i][1])
        BY <1>2, <1>3, <3>2, TrailTyped DEF TrailOrdered
      <4>2. Trail[i][1] \in Threads /\ Trail[i][2] \in Int
        BY <4>1, MaxLinesNat DEF Lines
      <4> HIDE DEF T, l, last
      <4> QED
        BY <1>4, <4>1, <4>2
    <3> QED
      BY <1>2, <3>1, <3>2
  <2> QED
    BY <2>1, <2>2 DEF TrailOrdered, Last, Before
<1>6. TrailCounted'
  <2> SUFFICES ASSUME NEW u \in Threads
               PROVE  Cardinality(InTrail(u))' + dropped'[u] = Last(u)'
    BY DEF TrailCounted
  <2>1. /\ IsFiniteSet(InTrail(u)) /\ Cardinality(InTrail(u)) \in Nat
        /\ Cardinality(InTrail(u)) + dropped[u] = Last(u)
    BY TrailTyped, FS_CardinalityType DEF TrailCounted
  <2>2. dropped'[u] = dropped[u] /\ dropped[u] \in Int
    BY MaxLinesNat DEF Post, Typed, TypeOK
  <2>3. CASE u = t
    <3>1. InTrail(u)' = InTrail(u) \cup {n + 1} /\ n + 1 \notin InTrail(u)
      BY <1>1, <1>2, <1>3, <2>3 DEF InTrail
    <3>2. Cardinality(InTrail(u)') = Cardinality(InTrail(u)) + 1
      BY <2>1, <3>1, FS_AddElement
    <3> QED
      BY <1>4, <2>1, <2>2, <2>3, <3>2
  <2>4. CASE u # t
    <3>1. InTrail(u)' = InTrail(u)
      BY <1>1, <1>2, <1>3, <2>4 DEF InTrail
    <3> QED
      BY <1>4, <2>1, <2>2, <2>4, <3>1
  <2> QED
    BY <2>3, <2>4
<1> QED
  BY <1>5, <1>6

\* No other step moves a line into the trail: a call that begins has its line
\* in its hand or drops it.
LEMMA LastSteady ==
  ASSUME Typed, [Next]_vars, \A t \in Threads : ~Post(t)
  PROVE  \A u \in Threads : Last(u)' - dropped'[u] = Last(u) - dropped[u] /\ Last(u)' >= Last(u)
<1>1. \A u \in Threads : calls[u] \in Int /\ dropped[u] \in Int
  BY MaxLinesNat DEF Typed, TypeOK
<1>2. ASSUME UNCHANGED <<calls, dropped>>,
             \A u \in Threads : (pc'[u] = "posting") = (pc[u] = "posting"),
             NEW u \in Threads
      PROVE  Last(u)' - dropped'[u] = Last(u) - dropped[u] /\ Last(u)' >= Last(u)
  BY <1>1, <1>2 DEF Last
<1>3. ASSUME NEW t \in Threads,
             \/ \E i \in Ids : Build(t, i) \/ BuildThrows(t, i)
             \/ Destroy(t) \/ Return(t)
      PROVE  UNCHANGED <<calls, dropped>>
             /\ \A u \in Threads : (pc'[u] = "posting") = (pc[u] = "posting")
  BY <1>3 DEF Typed, TypeOK, Build, BuildThrows, Destroy, Return
<1>4. CASE SysStop \/ TellWorker \/ Joined \/ \E w \in Workers : Take(w) \/ Write(w)
  <2>1. UNCHANGED <<calls, dropped>> /\ \A u \in Threads : (pc'[u] = "posting") = (pc[u] = "posting")
    BY <1>4 DEF Typed, TypeOK, SysStop, TellWorker, Joined, Take, Write
  <2> QED
    BY <1>2, <2>1
<1>5. CASE UNCHANGED vars
  BY <1>2, <1>5 DEF vars
<1>6. ASSUME NEW t \in Threads, Call(t), NEW u \in Threads
      PROVE  Last(u)' - dropped'[u] = Last(u) - dropped[u] /\ Last(u)' >= Last(u)
  <2>1. CASE u # t
    BY <1>1, <1>6, <2>1 DEF Typed, TypeOK, Call, Last
  <2>2. CASE u = t
    <3>1. calls'[t] = calls[t] + 1 /\ Last(t) = calls[t]
      BY <1>6 DEF Typed, TypeOK, Call, Last
    <3>2. CASE pc'[t] = "posting"
      <4>1. dropped'[t] = dropped[t]
        BY <1>6, <3>2 DEF Typed, TypeOK, Call
      <4> QED
        BY <1>1, <2>2, <3>1, <3>2, <4>1 DEF Last
    <3>3. CASE pc'[t] # "posting"
      <4>1. dropped'[t] = dropped[t] + 1
        BY <1>6, <3>3 DEF Typed, TypeOK, Call
      <4> QED
        BY <1>1, <2>2, <3>1, <3>3, <4>1 DEF Last
    <3> QED
      BY <3>2, <3>3
  <2> QED
    BY <2>1, <2>2
<1> QED
  BY <1>2, <1>3, <1>4, <1>5, <1>6 DEF Next, LogCall

\* How each step changes the trail.
LEMMA TrailSteps ==
  ASSUME Typed, TerminateLast, [Next]_vars, \A t \in Threads : ~Post(t)
  PROVE  \/ Trail' = Trail
         \/ Trail' = Append(Trail, Terminate)
         \/ Trail = Append(Trail', Terminate)
<1>1. CASE UNCHANGED <<file, hand, queue>>
  BY <1>1 DEF Trail
<1>2. CASE TellWorker
  BY <1>2, TrailAppended, TerminateIsNoLine DEF TellWorker, workers
<1>3. CASE Take(1)
  BY <1>3, TrailTaken
<1>4. CASE Write(1)
  BY <1>4, TrailWritten
<1>5. ASSUME NEW t \in Threads,
             \/ \E i \in Ids : Build(t, i) \/ BuildThrows(t, i)
             \/ Destroy(t) \/ Call(t) \/ Return(t)
      PROVE  UNCHANGED <<file, hand, queue>>
  BY <1>5 DEF Build, BuildThrows, Destroy, Call, Return, workers
<1>6. CASE SysStop \/ Joined
  BY <1>1, <1>6 DEF SysStop, Joined, workers
<1>7. CASE UNCHANGED vars
  BY <1>1, <1>7 DEF vars, workers
<1> QED
  BY <1>1, <1>2, <1>3, <1>4, <1>5, <1>6, <1>7, OneWorker DEF Next, LogCall

LEMMA TrailStep ==
  ASSUME Typed, TerminateLast, TrailOrdered, TrailCounted, [Next]_vars
  PROVE  TrailOrdered' /\ TrailCounted'
<1>1. ASSUME NEW t \in Threads, Post(t)
      PROVE  TrailOrdered' /\ TrailCounted'
  BY <1>1, PostKeepsTrail
<1>2. CASE \A t \in Threads : ~Post(t)
  <2>1. Typed'
    BY TypedStep
  <2> QED
    BY <1>2, <2>1, TrailSteps, LastSteady, TrailAlike
<1> QED
  BY <1>1, <1>2

LEMMA InitIInv == Init => IInv
<1> SUFFICES ASSUME Init PROVE IInv
  OBVIOUS
<1>1. Typed
  BY InitTyped
<1>2. file = <<>> /\ hand[1] = <<>> /\ queue = <<>> /\ worker[1] = "waiting"
  BY OneWorker DEF Init
<1>3. Trail = <<>>
  BY <1>2, SequencesTyped, <1>1, ConcatEmptySeq DEF Trail
<1>4. TrailOrdered
  BY <1>3 DEF TrailOrdered
<1>5. \A t \in Threads : InTrail(t) = {}
  BY <1>3 DEF InTrail
<1>6. TrailCounted
  <2>1. \A t \in Threads : dropped[t] = 0 /\ Last(t) = 0
    BY DEF Init, Last
  <2>2. Cardinality({}) = 0
    BY FS_EmptySet
  <2> QED
    BY <1>5, <2>1, <2>2 DEF TrailCounted
<1>7. NamesRight /\ HolderRight /\ NoneDropped
  BY DEF Init, NamesRight, HolderRight, NoneDropped
<1>8. CloseRight /\ TerminateLast
  BY <1>2 DEF Init, CloseRight, TerminateLast, Closing, PoolGone
<1> QED
  BY <1>1, <1>4, <1>6, <1>7, <1>8 DEF IInv

LEMMA Invariance == Spec => []IInv
<1>1. IInv /\ [Next]_vars => IInv'
  BY TypedStep, NamesStep, HolderStep, CloseStep, TerminateStep, TrailStep DEF IInv
<1> QED
  BY <1>1, InitIInv, PTL DEF Spec

-----------------------------------------------------------------------------
(* What the invariant means for the users of the pool.                     *)

\* The file sink without a lock is never shared: there is one worker, and it
\* is not inside the sink when the pool has been destroyed.
THEOREM SinkHasOneThread == Spec => []SinkUnshared
<1>1. IInv => SinkUnshared
  BY OneWorker DEF IInv, CloseRight, SinkUnshared
<1> QED
  BY <1>1, Invariance, PTL

\* Between two emptyings of the registry an id is good for one logger object.
THEOREM IdUsedOnce == Spec => []OneObjectPerId
<1>1. IInv => OneObjectPerId
  BY DEF IInv, NamesRight, OneObjectPerId
<1> QED
  BY <1>1, Invariance, PTL

\* When sys_stop has returned and no thread is inside a log call, every line
\* whose call found the pool is in the file, whichever thread destroyed the
\* pool; and no line is dropped before sys_stop.
THEOREM Drained == Spec => []StopDrains
<1>1. IInv => StopDrains
  <2> SUFFICES ASSUME IInv, main = "stopped", \A t \in Threads : pc[t] \in {"idle", "threw"}
               PROVE  queue = <<>> /\ \A t \in Threads : InFile(t) + dropped[t] = calls[t]
    BY DEF IInv, NoneDropped, StopDrains
  <2>1. PoolGone
    BY DEF IInv, HolderRight, PoolGone, Holders, Closing
  <2>2. worker[1] = "halted" /\ queue = <<>> /\ hand[1] = <<>>
    BY <2>1, OneWorker DEF IInv, CloseRight, TerminateLast, Typed, HandRight
  <2>3. Trail = file
    BY <2>2, SequencesTyped, ConcatEmptySeq DEF IInv, Trail
  <2>4. ASSUME NEW t \in Threads
        PROVE  InFile(t) + dropped[t] = calls[t]
    <3>1. \A k \in DOMAIN file : file[k] # Terminate
      <4>1. file \in Seq(Lines)
        BY SequencesTyped DEF IInv
      <4> QED
        BY <4>1, ElementOfSeq, LenProperties, TerminateIsNoLine
    <3>2. InTrail(t) = {k \in DOMAIN file : file[k][1] = t}
      BY <2>3, <3>1 DEF InTrail
    <3>3. Last(t) = calls[t]
      BY DEF Last
    <3> QED
      BY <3>2, <3>3 DEF IInv, TrailCounted, InFile
  <2> QED
    BY <2>2, <2>4
<1> QED
  BY <1>1, Invariance, PTL

-----------------------------------------------------------------------------
(* The refinement of AsyncLog.                                             *)

LEMMA GoneOrNot == PoolGone \in BOOLEAN /\ PoolGone' \in BOOLEAN
BY DEF PoolGone

LEMMA WaitingMember ==
  ASSUME Typed, NEW l
  PROVE  l \in Waiting <=> l \in Lines /\ (hand[1] = <<l>> \/ \E i \in DOMAIN queue : queue[i] = l)
BY OneWorker DEF Waiting

\* What waits is in the trail, after what has been written.
LEMMA WaitingInTrail ==
  ASSUME Typed, NEW l \in Waiting
  PROVE  /\ l \in Lines /\ l # Terminate
         /\ \E i \in DOMAIN Trail : i > Len(file) /\ Trail[i] = l
<1>1. l \in Lines /\ l # Terminate
  BY WaitingMember, TerminateIsNoLine
<1>2. CASE hand[1] = <<l>>
  <2>1. Len(file) + 1 \in DOMAIN Trail /\ Trail[Len(file) + 1] = l /\ Len(file) \in Nat
    BY <1>1, <1>2, TrailParts
  <2> QED
    BY <1>1, <2>1
<1>3. ASSUME NEW i \in DOMAIN queue, queue[i] = l
      PROVE  \E k \in DOMAIN Trail : k > Len(file) /\ Trail[k] = l
  <2>1. /\ Len(file) + Len(hand[1]) + i \in DOMAIN Trail
        /\ Trail[Len(file) + Len(hand[1]) + i] = l
        /\ Len(file) \in Nat /\ Len(hand[1]) \in Nat /\ i \in Nat /\ i >= 1
    BY <1>3, TrailParts
  <2>2. Len(file) + Len(hand[1]) + i > Len(file)
    BY <2>1
  <2> QED
    BY <2>1, <2>2
<1> QED
  BY <1>1, <1>2, <1>3, WaitingMember

\* A log call that posts its line is Accept.
LEMMA PostRefines ==
  ASSUME IInv, IInv', NEW t \in Threads, Post(t)
  PROVE  Abstract!Next
<1> DEFINE l == <<t, calls[t]>>
<1>1. /\ l \in Lines /\ l # Terminate
      /\ \A i \in DOMAIN Trail : Trail[i] # Terminate => Before(Trail[i], l)
  BY PostAppends DEF IInv
<1>2. queue' = Append(queue, l) /\ UNCHANGED <<file, hand, registered>>
  BY <1>1 DEF Post, workers, objects
<1>3. ~PoolGone /\ ~PoolGone'
  <2>1. t \in Holders /\ t \in Holders'
    BY DEF IInv, Typed, TypeOK, Post, Holders
  <2> QED
    BY <2>1 DEF PoolGone
<1>4. Waiting' = Waiting \cup {l}
  <2>1. queue \in Seq(Messages) /\ l \in Messages
    BY <1>1, SequencesTyped, TerminateIsNoLine DEF IInv
  <2>2. /\ DOMAIN queue = 1 .. Len(queue) /\ DOMAIN queue' = 1 .. Len(queue) + 1
        /\ Len(queue) \in Nat
        /\ \A i \in 1 .. Len(queue) : queue'[i] = queue[i]
        /\ queue'[Len(queue) + 1] = l
    BY <1>2, <2>1, AppendProperties, LenProperties
  <2> HIDE DEF l
  <2>3. ASSUME NEW k
        PROVE  (\E i \in DOMAIN queue' : queue'[i] = k)
                 <=> k = l \/ \E i \in DOMAIN queue : queue[i] = k
    <3>1. ASSUME NEW i \in DOMAIN queue', queue'[i] = k
          PROVE  k = l \/ \E j \in DOMAIN queue : queue[j] = k
      <4>1. i \in 1 .. Len(queue) \/ i = Len(queue) + 1
        BY <2>2
      <4> QED
        BY <2>2, <3>1, <4>1
    <3>2. ASSUME NEW i \in DOMAIN queue, queue[i] = k
          PROVE  i \in DOMAIN queue' /\ queue'[i] = k
      BY <2>2, <3>2
    <3>3. Len(queue) + 1 \in DOMAIN queue'
      BY <2>2
    <3> QED
      BY <2>2, <3>1, <3>2, <3>3
  <2> QED
    BY <1>1, <1>2, <2>3 DEF Waiting
<1>5. \A k \in Waiting : Before(k, l)
  BY <1>1, WaitingInTrail DEF IInv
<1>6. \A i \in DOMAIN file : Before(file[i], l)
  <2>1. \A i \in DOMAIN file : file[i] \in Lines
    BY SequencesTyped, LenProperties, ElementOfSeq DEF IInv
  <2>2. \A i \in DOMAIN file : i \in DOMAIN Trail /\ Trail[i] = file[i]
    BY TrailParts DEF IInv
  <2> HIDE DEF l
  <2>3. \A i \in DOMAIN file : Trail[i] # Terminate
    BY <2>1, <2>2, TerminateIsNoLine
  <2> QED
    BY <1>1, <2>2, <2>3
<1> HIDE DEF l
<1>7. Abstract!Accept(l)
  BY <1>2, <1>3, <1>4, <1>5, <1>6, GoneOrNot DEF Abstract!Accept, Abstract!Earlier, Before
<1> QED
  BY <1>1, <1>3, <1>7 DEF Abstract!Next

\* The worker that writes is Write: an older line of the thread would be
\* before this one in the trail.
LEMMA WriteRefines ==
  ASSUME IInv, IInv', Write(1)
  PROVE  Abstract!Next
<1>1. PICK l \in Lines : hand[1] = <<l>>
  BY SequencesTyped, OneWorker DEF IInv, Typed, HandRight, Write
<1>2. /\ file' = Append(file, l) /\ hand'[1] = <<>> /\ queue' = queue
      /\ worker'[1] = "waiting" /\ worker[1] = "writing"
  <2>1. file' = file \o <<l>> /\ file \in Seq(Lines)
    BY <1>1, SequencesTyped DEF IInv, Write
  <2> QED
    BY <1>1, <2>1, AppendIsConcat, OneWorker DEF IInv, Typed, TypeOK, Write
<1>3. ~PoolGone /\ ~PoolGone'
  BY <1>2 DEF IInv, CloseRight
<1>4. /\ Len(file) \in Nat /\ Len(file) + 1 \in DOMAIN Trail /\ Trail[Len(file) + 1] = l
      /\ Len(hand[1]) = 1
      /\ \A i \in DOMAIN queue : /\ Len(file) + 1 + i \in DOMAIN Trail /\ i \in Nat /\ i >= 1
                                 /\ Trail[Len(file) + 1 + i] = queue[i]
  BY <1>1, TrailParts DEF IInv
<1>5. ASSUME NEW k \in Waiting, k # l
      PROVE  Before(l, k)
  <2>1. PICK i \in DOMAIN queue : queue[i] = k
    BY <1>1, <1>5, WaitingMember DEF IInv
  <2>2. k # Terminate /\ l # Terminate
    BY <1>1, <1>5, WaitingInTrail, TerminateIsNoLine DEF IInv
  <2>3. Len(file) + 1 < Len(file) + 1 + i
    BY <1>4
  <2> QED
    BY <1>4, <2>1, <2>2, <2>3 DEF IInv, TrailOrdered
<1>6. \A i \in DOMAIN queue : queue[i] # l
  <2> SUFFICES ASSUME NEW i \in DOMAIN queue, queue[i] = l
               PROVE  FALSE
    OBVIOUS
  <2>1. Len(file) + 1 < Len(file) + 1 + i /\ l # Terminate
    BY <1>1, <1>4, TerminateIsNoLine
  <2>2. Before(l, l)
    BY <1>4, <2>1 DEF IInv, TrailOrdered
  <2>3. l[2] \in Int
    BY <1>1, MaxLinesNat DEF Lines
  <2> QED
    BY <2>2, <2>3 DEF Before
<1>7. l \in Waiting /\ Waiting' = Waiting \ {l}
  <2>1. l \in Waiting
    BY <1>1, WaitingMember DEF IInv
  <2>2. ASSUME NEW k
        PROVE  (k \in Lines /\ \E i \in DOMAIN queue : queue[i] = k) <=> k \in Waiting /\ k # l
    BY <1>1, <1>6, WaitingMember DEF IInv
  <2>3. Waiting' = {k \in Lines : \E i \in DOMAIN queue : queue[i] = k}
    <3>1. \A k : <<>> # <<k>>
      OBVIOUS
    <3> QED
      BY <1>2, <3>1, OneWorker DEF Waiting
  <2> QED
    BY <2>1, <2>2, <2>3
<1>8. \A k \in Waiting : ~(k[1] = l[1] /\ k[2] < l[2])
  <2> SUFFICES ASSUME NEW k \in Waiting
               PROVE  ~(k[1] = l[1] /\ k[2] < l[2])
    OBVIOUS
  <2>1. k \in Lines
    BY WaitingInTrail DEF IInv
  <2>2. k[2] \in Int /\ l[2] \in Int
    BY <1>1, <2>1, MaxLinesNat DEF Lines
  <2> QED
    BY <1>5, <2>2 DEF Before
<1>9. Abstract!Write(l)
  BY <1>2, <1>3, <1>7, <1>8, GoneOrNot DEF Abstract!Write, Abstract!Earlier
<1> QED
  BY <1>1, <1>3, <1>9 DEF Abstract!Next

\* Every other step leaves what waits and what is written as it is; the one
\* that completes the destruction of the pool is End.
LEMMA OtherRefines ==
  ASSUME IInv, IInv', UNCHANGED file, Waiting' = Waiting, PoolGone => PoolGone'
  PROVE  [Abstract!Next]_(Abstract!vars)
<1>1. CASE PoolGone' = PoolGone
  BY <1>1 DEF Abstract!vars
<1>2. CASE ~PoolGone /\ PoolGone'
  <2>1. worker'[1] = "halted" /\ queue' = <<>> /\ hand'[1] = <<>>
    BY <1>2, OneWorker DEF IInv, CloseRight, TerminateLast, Typed, HandRight
  <2>2. Waiting' = {}
    BY <2>1, OneWorker DEF Waiting
  <2> QED
    BY <1>2, <2>2, GoneOrNot DEF Abstract!Next, Abstract!End
<1> QED
  BY <1>1, <1>2, GoneOrNot

\* A pool that has been destroyed stays so.
LEMMA PoolGoneStays ==
  ASSUME IInv, [Next]_vars, PoolGone
  PROVE  PoolGone'
<1>1. Holders' = {} /\ ~registered'
  <2>1. Holders' = {}
    BY NoHoldersStay DEF IInv, PoolGone
  <2> QED
    BY <2>1 DEF Holders
<1>2. ~Closing'
  <2>1. main # "closing" /\ main # "running" /\ \A t \in Threads : pc[t] \notin {"closing", "returning"}
    BY DEF IInv, HolderRight, PoolGone, Closing, Holders
  <2>2. main' # "closing"
    BY <2>1 DEF Next, Build, BuildThrows, Destroy, Call, LogCall, Post, Return, SysStop,
       TellWorker, Joined, Take, Write, vars
  <2>3. ASSUME NEW u \in Threads
        PROVE  pc'[u] # "closing"
    BY <2>1, <2>3 DEF IInv, Typed, TypeOK, Next, Build, BuildThrows, Destroy, Call, LogCall,
       Post, Return, SysStop, TellWorker, Joined, Take, Write, vars
  <2> QED
    BY <2>2, <2>3 DEF Closing
<1> QED
  BY <1>1, <1>2 DEF PoolGone

\* Taking a line moves it from the queue to the hand.
LEMMA TakeKeepsWaiting ==
  ASSUME IInv, Take(1)
  PROVE  Waiting' = Waiting
<1>1. /\ queue \in Seq(Messages) /\ queue # <<>> /\ hand[1] = <<>>
      /\ Len(queue) \in Nat \ {0} /\ DOMAIN queue = 1 .. Len(queue)
      /\ Head(queue) = queue[1] /\ queue' = Tail(queue)
  BY SequencesTyped, EmptySeq, LenProperties, OneWorker DEF IInv, Take, Typed, HandRight
<1>2. /\ DOMAIN queue' = 1 .. Len(queue) - 1
      /\ \A i \in 1 .. Len(queue) - 1 : queue'[i] = queue[i + 1]
  BY <1>1, HeadTailProperties, LenProperties
<1>3. ASSUME NEW k
      PROVE  (\E i \in DOMAIN queue : queue[i] = k)
               <=> k = Head(queue) \/ \E i \in DOMAIN queue' : queue'[i] = k
  <2>1. ASSUME NEW i \in DOMAIN queue, queue[i] = k, i # 1
        PROVE  i - 1 \in DOMAIN queue' /\ queue'[i - 1] = k
    BY <1>1, <1>2, <2>1
  <2>2. ASSUME NEW i \in DOMAIN queue', queue'[i] = k
        PROVE  i + 1 \in DOMAIN queue /\ queue[i + 1] = k
    BY <1>1, <1>2, <2>2
  <2>3. 1 \in DOMAIN queue /\ queue[1] = Head(queue)
    BY <1>1
  <2> QED
    BY <2>1, <2>2, <2>3
<1>4. CASE Head(queue) = Terminate
  <2>1. hand' = hand
    BY <1>4 DEF Take
  <2> QED
    BY <1>1, <1>3, <1>4, <2>1, OneWorker, TerminateIsNoLine DEF Waiting
<1>5. CASE Head(queue) # Terminate
  <2>1. hand'[1] = <<Head(queue)>>
    BY <1>5, OneWorker DEF IInv, Typed, TypeOK, Take
  <2>2. \A k : (hand'[1] = <<k>> <=> k = Head(queue)) /\ hand[1] # <<k>>
    BY <1>1, <2>1
  <2>3. ASSUME NEW k
        PROVE  (hand'[1] = <<k>> \/ \E i \in DOMAIN queue' : queue'[i] = k)
                 <=> (hand[1] = <<k>> \/ \E i \in DOMAIN queue : queue[i] = k)
    BY <1>3, <2>2
  <2>4. \A k : /\ (\E w \in Workers : hand[w] = <<k>>) <=> hand[1] = <<k>>
               /\ (\E w \in Workers : hand'[w] = <<k>>) <=> hand'[1] = <<k>>
    BY OneWorker
  <2> QED
    BY <2>3, <2>4 DEF Waiting
<1> QED
  BY <1>4, <1>5

LEMMA StepsRefine == IInv /\ IInv' /\ [Next]_vars => [Abstract!Next]_(Abstract!vars)
<1> SUFFICES ASSUME IInv, IInv', [Next]_vars
             PROVE  [Abstract!Next]_(Abstract!vars)
  OBVIOUS
<1>1. ASSUME NEW t \in Threads, Post(t)
      PROVE  Abstract!Next
  BY <1>1, PostRefines
<1>2. CASE Write(1)
  BY <1>2, WriteRefines
<1>3. ASSUME UNCHANGED file, Waiting' = Waiting
      PROVE  [Abstract!Next]_(Abstract!vars)
  BY <1>3, PoolGoneStays, OtherRefines
<1>4. CASE Take(1)
  BY <1>3, <1>4, TakeKeepsWaiting DEF Take
<1>5. CASE TellWorker
  <2>1. queue' = Append(queue, Terminate) /\ hand' = hand /\ file' = file
    BY <1>5 DEF TellWorker, workers
  <2>2. /\ DOMAIN queue = 1 .. Len(queue) /\ DOMAIN queue' = 1 .. Len(queue) + 1
        /\ Len(queue) \in Nat
        /\ \A i \in 1 .. Len(queue) : queue'[i] = queue[i]
        /\ queue'[Len(queue) + 1] = Terminate
    BY <2>1, SequencesTyped, TerminateIsNoLine, AppendProperties, LenProperties DEF IInv
  <2>3. ASSUME NEW k \in Lines
        PROVE  (\E i \in DOMAIN queue' : queue'[i] = k) <=> (\E i \in DOMAIN queue : queue[i] = k)
    BY <2>2, TerminateIsNoLine
  <2> QED
    BY <1>3, <2>1, <2>3 DEF Waiting
<1>6. CASE SysStop \/ Joined
  BY <1>3, <1>6 DEF SysStop, Joined, workers, Waiting
<1>7. ASSUME NEW t \in Threads,
             \/ \E i \in Ids : Build(t, i) \/ BuildThrows(t, i)
             \/ Destroy(t) \/ Call(t) \/ Return(t)
      PROVE  [Abstract!Next]_(Abstract!vars)
  <2>1. UNCHANGED <<file, hand, queue>>
    BY <1>7 DEF Build, BuildThrows, Destroy, Call, Return, workers
  <2> QED
    BY <1>3, <2>1 DEF Waiting
<1>8. CASE UNCHANGED vars
  BY <1>3, <1>8 DEF vars, workers, Waiting
<1> QED
  BY <1>1, <1>2, <1>4, <1>5, <1>6, <1>7, <1>8, OneWorker DEF Next, LogCall

\* Through any interleaving of logger objects that come and go, log calls and
\* sys_stop, the pool does what AsyncLog promises: a line waits after the
\* earlier ones of its thread, is written once and in its turn, and none is
\* left, or accepted, when the pool has been destroyed.
THEOREM Refinement == Spec => ImplementsAsyncLog
<1>1. Init => Abstract!Init
  <2> SUFFICES ASSUME Init PROVE Abstract!Init
    OBVIOUS
  <2>1. Waiting = {}
    BY OneWorker DEF Init, Waiting
  <2>2. PoolGone = FALSE
    BY DEF Init, PoolGone
  <2>3. file = <<>>
    BY DEF Init
  <2> QED
    BY <2>1, <2>2, <2>3 DEF Abstract!Init
<1> QED
  BY <1>1, StepsRefine, Invariance, PTL DEF Spec, ImplementsAsyncLog, Abstract!Spec

-----------------------------------------------------------------------------
(* Nobody waits for a worker that does not come.                           *)

\* A log call, and the destructor of the pool, only put something into the
\* queue while the worker is there to make room for it; and a destructor that
\* has told the worker to stop does not join one that waits for a message.
WorkerThere ==
  /\ \A t \in Threads : pc[t] \in {"posting", "returning"} => worker[1] # "halted"
  /\ Closing /\ told = 0 => worker[1] # "halted"
  /\ Closing /\ told > 0 /\ worker[1] = "waiting" => queue # <<>>

\* However log calls, logger objects and sys_stop interleave, no thread waits
\* for a worker that has ended or that itself waits for a message.
THEOREM WorkerAwaited == Spec => []WorkerThere
<1>1. IInv => WorkerThere
  BY OneWorker DEF IInv, Typed, TypeOK, CloseRight, TerminateLast, Holders, WorkerThere
<1> QED  BY <1>1, Invariance, PTL

=============================================================================
