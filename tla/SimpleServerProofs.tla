------------------------ MODULE SimpleServerProofs ------------------------
(***************************************************************************)
(* Proofs about SimpleServer, for any number of workers, any ring length   *)
(* and any number of connections.                                          *)
(***************************************************************************)
EXTENDS SimpleServer, SequenceTheorems, TLAPS

\* The ring never holds more than its length, and its indices are in order.
RingBounds == tail <= head /\ head - tail <= ARRAY_SIZE

\* Between the test and pthread_cond_wait a thread holds the mutex, so what it
\* has seen of the ring is still true: a worker that is about to wait, waits
\* for an empty ring.
WaitsUnderMutex ==
    /\ \A w \in Workers : pc[w] = "wait" => owner = w /\ head = tail
    /\ pc["master"] = "wait" => owner = "master"

\* The inductive invariant.
IInv == TypeOK /\ RingBounds /\ WaitsUnderMutex /\ WorkNeverStranded

-----------------------------------------------------------------------------
\* An index reduced modulo the length of the ring is a slot of the ring.
LEMMA SlotInRing ==
    \A i \in Nat : i % ARRAY_SIZE \in 0..(ARRAY_SIZE - 1)
  BY SimpleServerAssumption

\* Signalling a condition of the master leaves every worker where it is.
LEMMA SignalMasterOnly ==
    ASSUME NEW next \in [Threads -> WorkerPC \cup MasterPC \cup MainPC],
           SignalEmpty(next) \/ SignalCond(next)
    PROVE  /\ pc' \in [Threads -> WorkerPC \cup MasterPC \cup MainPC]
           /\ \A w \in Workers : pc'[w] = next[w]
           /\ pc'["master"] # "wait" \/ next["master"] = "wait"
  BY SimpleServerAssumption DEF SignalEmpty, SignalCond, Threads, MasterPC

\* Signalling "full" wakes a waiting worker if there is one and moves nobody
\* else, so afterwards some worker does not wait.
LEMMA SignalFullWakesOne ==
    ASSUME NEW next \in [Threads -> WorkerPC \cup MasterPC \cup MainPC],
           SignalFull(next)
    PROVE  /\ pc' \in [Threads -> WorkerPC \cup MasterPC \cup MainPC]
           /\ pc'["master"] = next["master"]
           /\ \A w \in Workers : pc'[w] = "wait" => next[w] = "wait"
           /\ \E w \in Workers : pc'[w] # "full"
  BY SimpleServerAssumption DEF SignalFull, Threads, WorkerPC

\* The initial state satisfies the inductive invariant.
LEMMA InitIInv == Init => IInv
  BY SimpleServerAssumption
  DEF Init, IInv, TypeOK, RingBounds, WaitsUnderMutex, WorkNeverStranded,
      Threads, WorkerPC, MasterPC, MainPC
\* Every step of every thread preserves the inductive invariant.
LEMMA NextIInv == IInv /\ [Next]_vars => IInv'
<1> SUFFICES ASSUME IInv, [Next]_vars PROVE IInv'
  OBVIOUS
<1> USE SimpleServerAssumption
<1> DEFINE Labels == WorkerPC \cup MasterPC \cup MainPC
<1> USE DEF IInv, TypeOK, RingBounds, WaitsUnderMutex, WorkNeverStranded, Threads
<1>1. ASSUME NEW w \in Workers, GrabBlock(w) PROVE IInv'
  BY <1>1, SMTT(30) DEF GrabBlock, Goto, ring, WorkerPC
<1>2. ASSUME NEW w \in Workers, GrabWait(w) PROVE IInv'
  BY <1>2, SMTT(30) DEF GrabWait, Goto, ring, WorkerPC
<1>3. ASSUME NEW w \in Workers, GrabTake(w) PROVE IInv'
  <2>1. [pc EXCEPT ![w] = "ret"] \in [Threads -> Labels]
    BY DEF WorkerPC
  <2>2. /\ pc' \in [Threads -> Labels]
        /\ \A v \in Workers : pc'[v] = [pc EXCEPT ![w] = "ret"][v]
        /\ pc'["master"] = "wait" => pc["master"] = "wait"
    BY <1>3, <2>1, SignalMasterOnly, ZenonT(30) DEF GrabTake
  <2>3. queue[tail % ARRAY_SIZE] \in 0..MaxSocks
    <3>1. tail \in Nat
      OBVIOUS
    <3>2. tail % ARRAY_SIZE \in 0..(ARRAY_SIZE - 1)
      BY <3>1, SlotInRing
    <3> DEFINE slot == tail % ARRAY_SIZE
    <3> HIDE DEF slot
    <3>3. queue[slot] \in 0..MaxSocks
      BY <3>2 DEF slot
    <3> QED
      BY <3>3 DEF slot
  <2>5. ASSUME head > tail PROVE TypeOK' /\ RingBounds'
    <3> DEFINE wrap == IF tail + 1 > ARRAY_SIZE THEN ARRAY_SIZE ELSE 0
    <3>1. tail' = tail + 1 - wrap /\ head' = head - wrap
      BY <1>3, <2>5, SMTT(30) DEF GrabTake, TakeSocket
    <3>2. /\ tail' \in 0..ARRAY_SIZE /\ head' \in 0..(2 * ARRAY_SIZE)
          /\ RingBounds'
      BY <2>5, <3>1
    <3> DEFINE s == queue[tail % ARRAY_SIZE]
    <3>3. sock' = [sock EXCEPT ![w] = s] /\ taken' = Append(taken, s)
      BY <1>3, <2>5, SMTT(30) DEF GrabTake, TakeSocket
    <3>4. s \in 0..MaxSocks
      BY <2>3
    <3> HIDE DEF s
    <3>5. sock' \in [Workers -> 0..MaxSocks] /\ taken' \in Seq(0..MaxSocks)
      BY <3>3, <3>4
    <3> QED
      BY <1>3, <2>2, <3>2, <3>5, ZenonT(30) DEF GrabTake
  <2>6. ASSUME ~(head > tail) PROVE TypeOK' /\ RingBounds'
    BY <1>3, <2>2, <2>6, SMTT(30) DEF GrabTake, TakeSocket
  <2>4. WaitsUnderMutex' /\ WorkNeverStranded'
    BY <1>3, <2>2, SMTT(30) DEF GrabTake
  <2> QED
    BY <2>4, <2>5, <2>6
<1>4. ASSUME NEW w \in Workers, GrabReturn(w) PROVE IInv'
  BY <1>4, SMTT(30) DEF GrabReturn, Goto, ring, WorkerPC
<1>5. ASSUME NEW w \in Workers, HandleRequest(w) PROVE IInv'
  BY <1>5, SMTT(30) DEF HandleRequest, Goto, ring, WorkerPC
<1>6. ASSUME NEW w \in Workers, WorkerExit(w) PROVE IInv'
  <2>1. [pc EXCEPT ![w] = "done"] \in [Threads -> Labels]
    BY DEF WorkerPC
  <2>2. /\ pc' \in [Threads -> Labels]
        /\ \A v \in Workers : pc'[v] = [pc EXCEPT ![w] = "done"][v]
        /\ pc'["master"] = "wait" => pc["master"] = "wait"
    BY <1>6, <2>1, SignalMasterOnly, ZenonT(30) DEF WorkerExit
  <2> QED
    BY <1>6, <2>2, SMTT(30) DEF WorkerExit, ring
<1>7. CASE Accept
  BY <1>7, SMTT(30) DEF Accept, Goto, ring, MasterPC
<1>8. CASE AcceptCheck
  BY <1>8, SMTT(30) DEF AcceptCheck, Goto, ring, MasterPC
<1>9. CASE PutBlock
  BY <1>9, SMTT(30) DEF PutBlock, Goto, ring, MasterPC
<1>10. CASE PutWait
  BY <1>10, SMTT(30) DEF PutWait, Goto, ring, MasterPC
<1>11. CASE PutSocket
  <2>1. [pc EXCEPT !["master"] = "accept"] \in [Threads -> Labels]
    BY DEF MasterPC
  <2>2. /\ pc' \in [Threads -> Labels]
        /\ pc'["master"] = "accept"
        /\ \A w \in Workers : pc'[w] = "wait" => pc[w] = "wait"
        /\ \E w \in Workers : pc'[w] # "full"
    BY <1>11, <2>1, SignalFullWakesOne, ZenonT(30) DEF PutSocket
  <2>3. TypeOK' /\ RingBounds'
    <3>1. /\ tail' = tail /\ head' \in {head, head + 1}
          /\ head' = head + 1 => head - tail < ARRAY_SIZE
      BY <1>11, SMTT(30) DEF PutSocket
    <3>2. head' \in 0..(2 * ARRAY_SIZE) /\ RingBounds'
      <4>1. CASE head' = head
        BY <3>1, <4>1
      <4>2. CASE head' = head + 1
        BY <3>1, <4>2
      <4> QED
        BY <3>1, <4>1, <4>2
    <3> DEFINE slot == head % ARRAY_SIZE
    <3>3. queue' \in {queue, [queue EXCEPT ![slot] = new]}
      BY <1>11, SMTT(30) DEF PutSocket
    <3> HIDE DEF slot
    <3>4. queue' \in [0..(ARRAY_SIZE - 1) -> 0..MaxSocks]
      BY <3>3
    <3> QED
      BY <1>11, <2>2, <3>1, <3>2, <3>4, ZenonT(30) DEF PutSocket
  <2>4. WaitsUnderMutex'
    BY <1>11, <2>2, SMTT(30) DEF PutSocket
  <2> QED
    BY <2>2, <2>3, <2>4
<1>12. CASE Broadcast
  BY <1>12, SMTT(30) DEF Broadcast, ring, MasterPC, WorkerPC
<1>13. CASE Join
  BY <1>13, SMTT(30) DEF Join, Goto, ring, MasterPC
<1>14. CASE MasterExit
  BY <1>14, SMTT(30) DEF MasterExit, Goto, ring, MasterPC
<1>15. CASE Main
  <2>1. CASE StartMaster
    BY <2>1, SMTT(30) DEF StartMaster, ring, MainPC, MasterPC
  <2>2. CASE StartWorker
    <3>1. pc' \in [Threads -> Labels]
      BY <2>2, ZenonT(30) DEF StartWorker, Goto, MainPC, WorkerPC
    <3>2. /\ \A w \in Workers : pc'[w] \in {pc[w], "lock"}
          /\ pc'["master"] = pc["master"]
      BY <2>2, SMTT(30) DEF StartWorker, Goto
    <3>3. UNCHANGED <<stop_flag, head, tail, queue, num_threads, owner, sock,
                      new, accepted, taken, destroyed>>
      BY <2>2, SMTT(30) DEF StartWorker, ring
    <3> QED
      BY <3>1, <3>2, <3>3
  <2>3. CASE CountWorker
    BY <2>3, SMTT(30) DEF CountWorker, Goto, ring, MainPC
  <2>4. CASE MainLoop
    BY <2>4, SMTT(30) DEF MainLoop, Goto, ring, MainPC
  <2>5. CASE Cleanup
    BY <2>5, SMTT(30) DEF Cleanup, Goto, ring, MainPC
  <2> QED
    BY <1>15, <2>1, <2>2, <2>3, <2>4, <2>5 DEF Main
<1>16. CASE catch_int
  BY <1>16 DEF catch_int, ring
<1>17. CASE SpuriousWakeup
  BY <1>17, SMTT(30) DEF SpuriousWakeup, Goto, ring, MasterPC, WorkerPC
<1>18. CASE UNCHANGED vars
  BY <1>18 DEF vars
<1> QED
  BY <1>1, <1>2, <1>3, <1>4, <1>5, <1>6, <1>7, <1>8, <1>9, <1>10, <1>11,
     <1>12, <1>13, <1>14, <1>15, <1>16, <1>17, <1>18 DEF Next, Worker, Master

\* grab_work and process_socket keep every variable in its type; in particular
\* the ring indices stay within twice the length of the ring.
THEOREM TypeCorrect == Spec => []TypeOK
<1>1. IInv => TypeOK
  BY DEF IInv
<1> QED
  BY InitIInv, NextIInv, <1>1, PTL DEF Spec

\* process_socket signals "full" once for each socket and grab_work tests the
\* ring under the mutex: a socket never waits while every worker waits too.
THEOREM NeverStranded == Spec => []WorkNeverStranded
<1>1. IInv => WorkNeverStranded
  BY DEF IInv
<1> QED
  BY InitIInv, NextIInv, <1>1, PTL DEF Spec

-----------------------------------------------------------------------------
(* The ring as a sequence, and the refinement *)

\* The slot of an index, which is never beyond twice the length of the ring.
LEMMA Slot ==
    \A i \in 0..(2 * ARRAY_SIZE) :
        i % ARRAY_SIZE = IF i < ARRAY_SIZE THEN i
                         ELSE IF i < 2 * ARRAY_SIZE THEN i - ARRAY_SIZE ELSE 0
  BY SimpleServerAssumption

\* A function from 1 to n is a sequence of n elements.
LEMMA FunctionIsSeq ==
    ASSUME NEW S, NEW n \in Nat, NEW f \in [1..n -> S]
    PROVE  f \in Seq(S) /\ Len(f) = n
  OBVIOUS

\* The sockets in the ring, as a sequence.
LEMMA WaitingIsSeq ==
    ASSUME TypeOK, RingBounds
    PROVE  /\ Waiting \in Seq(0..MaxSocks) /\ Len(Waiting) = head - tail
           /\ DOMAIN Waiting = 1..(head - tail)
           /\ \A i \in 1..(head - tail) : Waiting[i] = queue[(tail + i - 1) % ARRAY_SIZE]
  <1> DEFINE k == head - tail
  <1>1. k \in Nat
    BY SimpleServerAssumption DEF TypeOK, RingBounds
  <1>2. \A i \in 1..k : queue[(tail + i - 1) % ARRAY_SIZE] \in 0..MaxSocks
    <2> SUFFICES ASSUME NEW i \in 1..k PROVE queue[(tail + i - 1) % ARRAY_SIZE] \in 0..MaxSocks
      OBVIOUS
    <2> DEFINE j == tail + i - 1
    <2>1. j \in Nat
      BY <1>1, SimpleServerAssumption DEF TypeOK
    <2>2. j % ARRAY_SIZE \in 0..(ARRAY_SIZE - 1)
      BY <2>1, SlotInRing
    <2> DEFINE slot == j % ARRAY_SIZE
    <2> HIDE DEF slot
    <2>3. queue[slot] \in 0..MaxSocks
      BY <2>2 DEF slot, TypeOK
    <2> QED BY <2>3 DEF slot
  <1> HIDE DEF k
  <1>3. [i \in 1..k |-> queue[(tail + i - 1) % ARRAY_SIZE]] \in Seq(0..MaxSocks)
    BY <1>1, <1>2
  <1> QED BY <1>1, <1>3 DEF Waiting, k

\* The ring a socket is put into.
LEMMA PutAppends ==
    ASSUME TypeOK, RingBounds, head - tail < ARRAY_SIZE, tail' = tail, head' = head + 1,
           queue' = [queue EXCEPT ![head % ARRAY_SIZE] = new]
    PROVE  Waiting' = Append(Waiting, new)
  <1> DEFINE k == head - tail
             f == [i \in 1..(k + 1) |-> queue'[(tail + i - 1) % ARRAY_SIZE]]
  <1>1. k \in 0..(ARRAY_SIZE - 1) /\ tail \in 0..ARRAY_SIZE /\ head = tail + k
    BY SimpleServerAssumption DEF TypeOK, RingBounds
  <1>2. head % ARRAY_SIZE \in 0..(ARRAY_SIZE - 1)
    <2>1. head \in Nat
      BY SimpleServerAssumption DEF TypeOK
    <2> QED BY <2>1, SlotInRing
  <1>3. queue'[head % ARRAY_SIZE] = new
    BY <1>2 DEF TypeOK
  <1>4. ASSUME NEW i \in 1..k
        PROVE  queue'[(tail + i - 1) % ARRAY_SIZE] = queue[(tail + i - 1) % ARRAY_SIZE]
    <2> DEFINE j == tail + i - 1
    <2>1. j \in 0..(2 * ARRAY_SIZE) /\ j \in Nat /\ head \in 0..(2 * ARRAY_SIZE)
      BY <1>1, SimpleServerAssumption
    <2>2. j < head /\ head - j < ARRAY_SIZE
      BY <1>1, SimpleServerAssumption
    <2> HIDE DEF j
    <2>3. j % ARRAY_SIZE # head % ARRAY_SIZE
      BY <2>1, <2>2, Slot, SimpleServerAssumption
    <2>4. j % ARRAY_SIZE \in 0..(ARRAY_SIZE - 1)
      BY <2>1, SlotInRing
    <2>5. queue'[j % ARRAY_SIZE] = queue[j % ARRAY_SIZE]
      BY <2>3, <2>4 DEF TypeOK
    <2> QED BY <2>5 DEF j
  <1>5. Waiting' = f
    <2>1. head' - tail' = k + 1
      BY <1>1, SimpleServerAssumption
    <2> QED BY <2>1 DEF Waiting
  <1>6. /\ Waiting \in Seq(0..MaxSocks) /\ Len(Waiting) = k
        /\ \A i \in 1..k : Waiting[i] = queue[(tail + i - 1) % ARRAY_SIZE]
    BY WaitingIsSeq
  <1>7. tail + (k + 1) - 1 = head
    BY <1>1, SimpleServerAssumption
  <1>8. f[k + 1] = new
    BY <1>1, <1>3, <1>7
  <1>9. \A i \in 1..k : f[i] = Waiting[i]
    BY <1>1, <1>4, <1>6
  <1>10. DOMAIN f = 1..(k + 1) /\ f = [i \in 1..(k + 1) |-> f[i]]
    OBVIOUS
  <1> HIDE DEF f, k
  <1>11. f = Append(Waiting, new)
    <2>1. k \in Nat /\ new \in 0..MaxSocks
      BY <1>1, SimpleServerAssumption DEF TypeOK
    <2>2. /\ Append(Waiting, new) \in Seq(0..MaxSocks)
          /\ Len(Append(Waiting, new)) = k + 1
          /\ \A i \in 1..k : Append(Waiting, new)[i] = Waiting[i]
          /\ Append(Waiting, new)[k + 1] = new
      BY <1>6, <2>1, AppendProperties
    <2>3. \A i \in 1..(k + 1) : f[i] = Append(Waiting, new)[i]
      <3>1. \A i \in 1..(k + 1) : i \in 1..k \/ i = k + 1
        BY <2>1
      <3> QED BY <1>8, <1>9, <2>2, <3>1
    <2>4. \A i \in 1..(k + 1) : f[i] \in 0..MaxSocks
      BY <2>1, <2>2, <2>3, ElementOfSeq
    <2>5. f \in Seq(0..MaxSocks) /\ Len(f) = k + 1
      <3>1. f \in [1..(k + 1) -> 0..MaxSocks] /\ k + 1 \in Nat
        BY <1>10, <2>1, <2>4
      <3> QED BY <3>1, FunctionIsSeq
    <2> QED BY <2>2, <2>3, <2>5, SeqEqual
  <1> QED BY <1>5, <1>11

\* The ring a socket is taken from.
LEMMA TakeRemoves ==
    ASSUME TypeOK, RingBounds, NEW w \in Workers, head > tail, TakeSocket(w), queue' = queue
    PROVE  /\ Waiting # <<>> /\ Head(Waiting) = queue[tail % ARRAY_SIZE]
           /\ Waiting' = Tail(Waiting)
           /\ sock' = [sock EXCEPT ![w] = Head(Waiting)]
           /\ taken' = Append(taken, Head(Waiting))
  <1> DEFINE k == head - tail
             wrap == IF tail + 1 > ARRAY_SIZE THEN ARRAY_SIZE ELSE 0
             f == [i \in 1..(k - 1) |-> queue[(tail + 1 - wrap + i - 1) % ARRAY_SIZE]]
  <1>1. k \in 1..ARRAY_SIZE /\ tail \in 0..ARRAY_SIZE
    BY SimpleServerAssumption DEF TypeOK, RingBounds
  <1>2. /\ tail' = tail + 1 - wrap /\ head' = head - wrap
        /\ sock' = [sock EXCEPT ![w] = queue[tail % ARRAY_SIZE]]
        /\ taken' = Append(taken, queue[tail % ARRAY_SIZE])
    BY DEF TakeSocket
  <1>3. /\ Waiting \in Seq(0..MaxSocks) /\ Len(Waiting) = k
        /\ \A i \in 1..k : Waiting[i] = queue[(tail + i - 1) % ARRAY_SIZE]
    BY WaitingIsSeq
  <1>4. Waiting # <<>> /\ Head(Waiting) = queue[tail % ARRAY_SIZE]
    <2>1. tail + 1 - 1 = tail /\ 1 \in 1..k
      BY <1>1, SimpleServerAssumption
    <2>2. Waiting[1] = queue[tail % ARRAY_SIZE]
      BY <1>3, <2>1
    <2> QED BY <1>1, <1>3, <2>2
  <1>5. Waiting' = f
    <2>1. head' - tail' = k - 1
      BY <1>1, <1>2, SimpleServerAssumption DEF TypeOK
    <2> QED BY <1>2, <2>1 DEF Waiting
  <1>6. ASSUME NEW i \in 1..(k - 1)
        PROVE  f[i] = Waiting[i + 1]
    <2> DEFINE a == tail + 1 - wrap + i - 1
               b == tail + (i + 1) - 1
    <2>1. a \in 0..(2 * ARRAY_SIZE) /\ b \in 0..(2 * ARRAY_SIZE)
      BY <1>1, SimpleServerAssumption
    <2>2. b = a \/ (b = a + ARRAY_SIZE /\ a < ARRAY_SIZE)
      BY <1>1, SimpleServerAssumption
    <2>3. f[i] = queue[a % ARRAY_SIZE] /\ i + 1 \in 1..k
      BY <1>1
    <2>4. Waiting[i + 1] = queue[b % ARRAY_SIZE]
      BY <1>3, <2>3
    <2> HIDE DEF a, b
    <2>5. a % ARRAY_SIZE = b % ARRAY_SIZE
      BY <2>1, <2>2, Slot, SimpleServerAssumption
    <2> QED BY <2>3, <2>4, <2>5
  <1>7. DOMAIN f = 1..(k - 1) /\ f = [i \in 1..(k - 1) |-> f[i]]
    OBVIOUS
  <1> HIDE DEF f, k
  <1>8. f = Tail(Waiting)
    <2>1. k - 1 \in Nat
      BY <1>1, SimpleServerAssumption
    <2>2. /\ Tail(Waiting) \in Seq(0..MaxSocks) /\ Len(Tail(Waiting)) = k - 1
          /\ \A i \in 1..(k - 1) : Tail(Waiting)[i] = Waiting[i + 1]
      BY <1>3, <1>4, HeadTailProperties
    <2>3. \A i \in 1..(k - 1) : f[i] = Tail(Waiting)[i]
      BY <1>6, <2>2
    <2>4. \A i \in 1..(k - 1) : f[i] \in 0..MaxSocks
      BY <2>1, <2>2, <2>3, ElementOfSeq
    <2>5. f \in Seq(0..MaxSocks) /\ Len(f) = k - 1
      <3>1. f \in [1..(k - 1) -> 0..MaxSocks]
        BY <1>7, <2>1, <2>4
      <3> QED BY <2>1, <3>1, FunctionIsSeq
    <2> QED BY <2>2, <2>3, <2>5, SeqEqual
  <1> QED BY <1>2, <1>4, <1>5, <1>8

-----------------------------------------------------------------------------
\* The master has accepted a socket and not yet put it into the ring.
Pending == pc["master"] \in {"accepted", "put", "wait", "empty"}

\* The worker has a socket that it may come to serve.
Holds(w) == pc[w] = "handle" \/ (pc[w] = "ret" /\ stop_flag = 0)

\* A socket is in one place: with the master, in the ring or with a worker.
OnePlace ==
    /\ Pending => new \in 1..accepted
    /\ \A i \in DOMAIN Waiting :
          /\ Waiting[i] \in 1..accepted
          /\ Pending => Waiting[i] # new
          /\ \A j \in DOMAIN Waiting : i # j => Waiting[i] # Waiting[j]
    /\ \A w \in Workers : Holds(w) =>
          /\ sock[w] \in 1..accepted
          /\ Pending => sock[w] # new
          /\ \A i \in DOMAIN Waiting : Waiting[i] # sock[w]
          /\ \A v \in Workers \ {w} : Holds(v) => sock[v] # sock[w]

\* The steps that leave the sockets where they are.
Still ==
    /\ UNCHANGED <<ring, taken, sock, new, accepted>>
    /\ Pending' => Pending
    /\ \A w \in Workers : Holds(w)' => Holds(w)

\* A step puts a socket into the ring, takes one out, accepts one, or leaves
\* them all where they are.
LEMMA StepKinds ==
    ASSUME IInv, Next
    PROVE  \/ Still
           \/ \E w \in Workers : GrabTake(w) /\ head > tail
           \/ PutSocket /\ head - tail < ARRAY_SIZE
           \/ Accept /\ stop_flag = 0 /\ accepted' = accepted + 1
  <1> USE SimpleServerAssumption DEF Still, Pending, Holds
  <1>0. pc \in [Threads -> WorkerPC \cup MasterPC \cup MainPC] /\ head \in Int /\ tail \in Int
        /\ tail <= head /\ head - tail <= ARRAY_SIZE
    BY DEF IInv, TypeOK, RingBounds
  <1>1. ASSUME NEW w \in Workers, GrabBlock(w) \/ GrabWait(w) \/ GrabReturn(w) \/ HandleRequest(w)
        PROVE  Still
    BY <1>0, <1>1 DEF GrabBlock, GrabWait, GrabReturn, HandleRequest, Goto, ring, Threads
  <1>2. ASSUME NEW w \in Workers, WorkerExit(w) PROVE Still
    <2>1. [pc EXCEPT ![w] = "done"] \in [Threads -> WorkerPC \cup MasterPC \cup MainPC]
      BY <1>0 DEF WorkerPC
    <2>2. /\ \A v \in Workers : pc'[v] = [pc EXCEPT ![w] = "done"][v]
          /\ pc'["master"] \in {pc["master"], "join"}
      BY <1>0, <1>2, <2>1 DEF WorkerExit, SignalCond, Threads
    <2> QED BY <1>0, <1>2, <2>2 DEF WorkerExit, ring, Threads
  <1>3. ASSUME NEW w \in Workers, GrabTake(w), ~(head > tail) PROVE Still
    <2>1. head = tail /\ stop_flag # 0 /\ stop_flag' = stop_flag
      BY <1>0, <1>3 DEF GrabTake
    <2>2. /\ \A v \in Workers : pc'[v] = [pc EXCEPT ![w] = "ret"][v]
          /\ pc'["master"] \in {pc["master"], "put"}
          /\ pc'["master"] = "put" => pc["master"] \in {"put", "empty"}
      BY <1>0, <1>3 DEF GrabTake, SignalEmpty, Threads
    <2>3. UNCHANGED <<ring, taken, sock, new, accepted>>
      BY <1>3 DEF GrabTake, TakeSocket, ring
    <2> QED BY <1>0, <2>1, <2>2, <2>3 DEF Threads
  <1>4. CASE AcceptCheck \/ PutBlock \/ PutWait \/ Join \/ MasterExit
    BY <1>0, <1>4 DEF AcceptCheck, PutBlock, PutWait, Join, MasterExit, Goto, ring, Threads
  <1>5. CASE Accept
    BY <1>0, <1>5 DEF Accept, Goto, ring, Threads
  <1>6. CASE PutSocket /\ ~(head - tail < ARRAY_SIZE)
    <2>1. /\ pc'["master"] = "accept"
          /\ \A v \in Workers : pc'[v] \in {pc[v], "lock"}
      BY <1>0, <1>6 DEF PutSocket, SignalFull, Threads
    <2> QED BY <1>6, <2>1 DEF PutSocket, ring
  <1>7. CASE Broadcast
    BY <1>0, <1>7 DEF Broadcast, ring, Threads
  <1>8. CASE Main
    <2>1. /\ \A v \in Workers : pc'[v] \in {pc[v], "lock"}
          /\ pc'["master"] \in {pc["master"], "accept"}
      BY <1>0, <1>8 DEF Main, StartMaster, StartWorker, CountWorker, MainLoop, Cleanup, Goto, Threads
    <2>2. UNCHANGED <<ring, taken, sock, new, accepted>> /\ (stop_flag' = 0 => stop_flag = 0)
      BY <1>8 DEF Main, StartMaster, StartWorker, CountWorker, MainLoop, Cleanup, ring
    <2> QED BY <2>1, <2>2
  <1>9. CASE catch_int
    BY <1>9 DEF catch_int, ring
  <1>10. CASE SpuriousWakeup
    <2>1. /\ \A v \in Workers : pc'[v] \in {pc[v], "lock"}
          /\ pc'["master"] \in {pc["master"], "put", "join"}
          /\ pc'["master"] = "put" => pc["master"] \in {"put", "empty"}
      BY <1>0, <1>10 DEF SpuriousWakeup, Goto, Threads
    <2> QED BY <1>10, <2>1 DEF SpuriousWakeup, ring
  <1> QED BY <1>1, <1>2, <1>3, <1>4, <1>5, <1>6, <1>7, <1>8, <1>9, <1>10 DEF Next, Worker, Master

\* Such a step keeps every socket in one place.
LEMMA StillKeeps == OnePlace /\ Still => OnePlace'
  <1> SUFFICES ASSUME OnePlace, Still PROVE OnePlace'
    OBVIOUS
  <1>1. Waiting' = Waiting
    BY DEF Still, ring, Waiting
  <1> QED BY <1>1 DEF OnePlace, Still

\* The socket at the tail goes from the ring to the worker that takes it.
LEMMA TakeKeeps ==
    ASSUME IInv, OnePlace, NEW w \in Workers, GrabTake(w), head > tail
    PROVE  OnePlace'
  <1> DEFINE W == Waiting
             k == Len(Waiting)
  <1>1. /\ W # <<>> /\ W' = Tail(W) /\ sock' = [sock EXCEPT ![w] = Head(W)]
    BY TakeRemoves DEF IInv, GrabTake
  <1>2. W \in Seq(0..MaxSocks) /\ DOMAIN W = 1..k /\ k \in Nat
    BY WaitingIsSeq DEF IInv
  <1>3. k # 0 /\ Head(W) = W[1]
    BY <1>1, <1>2
  <1>4. DOMAIN W' = 1..(k - 1) /\ \A i \in 1..(k - 1) : W'[i] = W[i + 1]
    BY <1>1, <1>2, <1>3
  <1> HIDE DEF k
  <1>5. \A i \in DOMAIN W' : i + 1 \in DOMAIN W /\ i + 1 # 1 /\ W'[i] = W[i + 1]
    BY <1>2, <1>3, <1>4
  <1>6. 1 \in DOMAIN W
    BY <1>2, <1>3
  <1>7. \A i, j \in DOMAIN W' : i # j => i + 1 # j + 1
    BY <1>2, <1>4
  <1>8. /\ pc \in [Threads -> WorkerPC \cup MasterPC \cup MainPC] /\ w \in Threads
        /\ sock \in [Workers -> 0..MaxSocks]
    BY DEF IInv, TypeOK, Threads
  <1>9. /\ new' = new /\ accepted' = accepted /\ stop_flag' = stop_flag /\ pc[w] = "lock"
        /\ \A v \in Workers : pc'[v] = [pc EXCEPT ![w] = "ret"][v]
        /\ pc'["master"] = "put" \/ pc'["master"] = pc["master"]
        /\ pc'["master"] = "put" => pc["master"] \in {"put", "empty"}
    BY <1>8, SimpleServerAssumption DEF GrabTake, SignalEmpty, Threads
  <1>10. /\ Pending' => Pending
         /\ \A v \in Workers \ {w} : Holds(v)' => Holds(v) /\ sock'[v] = sock[v]
         /\ sock'[w] = W[1]
    BY <1>1, <1>3, <1>8, <1>9 DEF Pending, Holds, Threads
  <1> HIDE DEF W
  <1>11. /\ Pending => new \in 1..accepted
         /\ \A i \in DOMAIN W :
              /\ W[i] \in 1..accepted
              /\ Pending => W[i] # new
              /\ \A j \in DOMAIN W : i # j => W[i] # W[j]
         /\ \A v \in Workers : Holds(v) =>
              /\ sock[v] \in 1..accepted
              /\ Pending => sock[v] # new
              /\ \A i \in DOMAIN W : W[i] # sock[v]
              /\ \A u \in Workers \ {v} : Holds(u) => sock[u] # sock[v]
    BY DEF OnePlace, W
  <1>12. \A i \in DOMAIN W' :
              /\ W'[i] \in 1..accepted
              /\ Pending => W'[i] # new
              /\ W'[i] # W[1]
              /\ \A j \in DOMAIN W' : i # j => W'[i] # W'[j]
    BY <1>5, <1>6, <1>7, <1>11
  <1>13. \A v \in Workers : Holds(v) => W[1] # sock[v] /\ \A i \in DOMAIN W' : W'[i] # sock[v]
    BY <1>5, <1>6, <1>11
  <1>14. W[1] \in 1..accepted /\ (Pending => W[1] # new)
    BY <1>6, <1>11
  <1>15. ASSUME NEW v \in Workers, Holds(v)'
         PROVE  /\ sock'[v] \in 1..accepted'
                /\ Pending' => sock'[v] # new'
                /\ \A i \in DOMAIN W' : W'[i] # sock'[v]
                /\ \A u \in Workers \ {v} : Holds(u)' => sock'[u] # sock'[v]
    <2>1. CASE v = w
      BY <1>9, <1>10, <1>12, <1>13, <1>14, <2>1
    <2>2. CASE v # w
      BY <1>9, <1>10, <1>11, <1>13, <1>15, <2>2
    <2> QED BY <2>1, <2>2
  <1> QED BY <1>9, <1>10, <1>11, <1>12, <1>15 DEF OnePlace, W

\* The master's socket goes into the ring, and the master has it no longer.
LEMMA PutKeeps ==
    ASSUME IInv, OnePlace, PutSocket, head - tail < ARRAY_SIZE
    PROVE  OnePlace'
  <1> DEFINE W == Waiting
             k == Len(Waiting)
  <1>1. W' = Append(W, new) /\ new \in 0..MaxSocks
    BY PutAppends DEF IInv, PutSocket, TypeOK
  <1>2. W \in Seq(0..MaxSocks) /\ DOMAIN W = 1..k /\ k \in Nat
    BY WaitingIsSeq DEF IInv
  <1>3. /\ DOMAIN W' = 1..(k + 1) /\ W'[k + 1] = new
        /\ \A i \in 1..k : W'[i] = W[i]
    BY <1>1, <1>2
  <1> HIDE DEF k
  <1>4. \A i \in DOMAIN W' : i = k + 1 \/ (i \in DOMAIN W /\ W'[i] = W[i])
    BY <1>2, <1>3
  <1>5. /\ pc'["master"] = "accept" /\ pc["master"] = "put"
        /\ \A v \in Workers : pc'[v] \in {pc[v], "lock"}
        /\ UNCHANGED <<stop_flag, sock, new, accepted>>
    BY SimpleServerAssumption DEF PutSocket, SignalFull, Threads, IInv, TypeOK
  <1>6. ~Pending' /\ Pending /\ \A v \in Workers : Holds(v)' => Holds(v)
    BY <1>5 DEF Pending, Holds
  <1> HIDE DEF W
  <1>7. /\ new \in 1..accepted
        /\ \A i \in DOMAIN W :
             /\ W[i] \in 1..accepted /\ W[i] # new
             /\ \A j \in DOMAIN W : i # j => W[i] # W[j]
        /\ \A v \in Workers : Holds(v) =>
             /\ sock[v] \in 1..accepted /\ sock[v] # new
             /\ \A i \in DOMAIN W : W[i] # sock[v]
             /\ \A u \in Workers \ {v} : Holds(u) => sock[u] # sock[v]
    BY <1>6 DEF OnePlace, W
  <1>8. \A i \in DOMAIN W' :
             /\ W'[i] \in 1..accepted
             /\ \A j \in DOMAIN W' : i # j => W'[i] # W'[j]
    BY <1>3, <1>4, <1>7
  <1>9. \A v \in Workers : Holds(v) => \A i \in DOMAIN W' : W'[i] # sock[v]
    BY <1>3, <1>4, <1>7
  <1> QED BY <1>5, <1>6, <1>7, <1>8, <1>9 DEF OnePlace, W

\* A socket just accepted is one nobody has.
LEMMA AcceptKeeps ==
    ASSUME IInv, OnePlace, Accept, accepted' = accepted + 1
    PROVE  OnePlace'
  <1>1. /\ new' = accepted + 1 /\ accepted \in Nat
        /\ UNCHANGED <<stop_flag, sock, head, tail, queue>>
        /\ \A v \in Workers : pc'[v] = pc[v]
    BY SimpleServerAssumption DEF Accept, Goto, ring, IInv, TypeOK, Threads
  <1>2. Waiting' = Waiting /\ \A v \in Workers : Holds(v)' <=> Holds(v)
    BY <1>1 DEF Waiting, Holds
  <1>3. /\ new' \in 1..accepted' /\ 1..accepted \subseteq 1..accepted'
        /\ new' \notin 1..accepted
    BY <1>1
  <1> QED BY <1>1, <1>2, <1>3 DEF OnePlace

\* At the start nobody has a socket.
LEMMA InitOnePlace == Init => OnePlace
  <1> SUFFICES ASSUME Init PROVE OnePlace
    OBVIOUS
  <1>1. Waiting = <<>> /\ DOMAIN Waiting = {}
    BY DEF Init, Waiting
  <1>2. ~Pending /\ \A w \in Workers : ~Holds(w)
    BY SimpleServerAssumption DEF Init, Pending, Holds, Threads
  <1> QED BY <1>1, <1>2 DEF OnePlace

\* Every step keeps every socket in one place.
LEMMA NextOnePlace == IInv /\ OnePlace /\ [Next]_vars => OnePlace'
  <1> SUFFICES ASSUME IInv, OnePlace, [Next]_vars PROVE OnePlace'
    OBVIOUS
  <1>1. CASE Next
    BY <1>1, StepKinds, StillKeeps, TakeKeeps, PutKeeps, AcceptKeeps
  <1>2. CASE UNCHANGED vars
    BY <1>2, StillKeeps DEF vars, Still, ring, Pending, Holds
  <1> QED BY <1>1, <1>2

\* Two workers never serve the same socket: process_socket puts a socket into
\* the ring once, and grab_work takes each slot once, across the reset of the
\* indices when the tail passes the end of the ring.
THEOREM OwnSocket == Spec => []ServesItsOwnSocket
  <1>1. IInv /\ OnePlace => ServesItsOwnSocket
    <2> SUFFICES ASSUME IInv, OnePlace PROVE ServesItsOwnSocket
      OBVIOUS
    <2>1. \A w \in Workers : pc[w] = "handle" => Holds(w)
      BY DEF Holds
    <2>2. 1..accepted \subseteq Sockets
      BY SimpleServerAssumption DEF IInv, TypeOK, Sockets
    <2> QED BY <2>1, <2>2 DEF ServesItsOwnSocket, OnePlace
  <1> QED
    BY InitIInv, NextIInv, InitOnePlace, NextOnePlace, <1>1, PTL DEF Spec

\* process_socket and grab_work with their indices, mutex and conditions are a
\* bounded queue: what is put in comes out once, in the order it went in, and
\* the ring never holds more than its length.
THEOREM Refines == Spec => ImplementsWorkQueue
  <1>1. Init => Abstract!Init
    BY DEF Init, Abstract!Init, Waiting
  <1>2. IInv /\ OnePlace /\ [Next]_vars => [Abstract!Next]_(Abstract!vars)
    <2> SUFFICES ASSUME IInv, OnePlace, [Next]_vars
                 PROVE  Abstract!Next \/ UNCHANGED <<Waiting, taken>>
      BY DEF Abstract!vars
    <2>1. CASE Still \/ UNCHANGED vars
      BY <2>1 DEF Still, ring, vars, Waiting
    <2>2. ASSUME NEW w \in Workers, GrabTake(w), head > tail PROVE Abstract!Next
      BY <2>2, TakeRemoves DEF IInv, GrabTake, Abstract!Next, Abstract!Take
    <2>3. CASE PutSocket /\ head - tail < ARRAY_SIZE
      <3>1. Waiting' = Append(Waiting, new) /\ taken' = taken /\ Len(Waiting) < ARRAY_SIZE
        BY <2>3, PutAppends, WaitingIsSeq DEF IInv, PutSocket
      <3>2. new \in Sockets
        BY <2>3, SimpleServerAssumption DEF PutSocket, OnePlace, Pending, IInv, TypeOK, Sockets
      <3> QED BY <3>1, <3>2 DEF Abstract!Next, Abstract!Put
    <2>4. CASE Accept /\ accepted' = accepted + 1
      BY <2>4 DEF Accept, ring, Waiting
    <2> QED BY <2>1, <2>2, <2>3, <2>4, StepKinds
  <1> QED
    BY InitIInv, NextIInv, InitOnePlace, NextOnePlace, <1>1, <1>2, PTL
    DEF Spec, ImplementsWorkQueue, Abstract!Spec
=============================================================================
