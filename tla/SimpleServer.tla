--------------------------- MODULE SimpleServer ---------------------------
(***************************************************************************)
(* The multi-threaded TCP server of example/util/simple_server.c, used by  *)
(* the example EST server and EST proxy: a main thread that starts the     *)
(* others and destroys the EST context when it returns, a master thread    *)
(* that accepts connections, and workers that serve them.  They share a    *)
(* ring of sockets under one mutex, three condition variables and a stop   *)
(* flag that a signal handler writes without the mutex.                    *)
(*                                                                         *)
(* A critical section that does not block is one step.  The steps are cut  *)
(* where stop_flag is read, because it may change under a held mutex, and  *)
(* where a thread has decided to wait and has not yet begun to.            *)
(***************************************************************************)
EXTENDS Integers, Sequences, FiniteSets

CONSTANTS
    Workers,       \* the worker threads (NUM_WORKER_THREADS of them)
    ARRAY_SIZE,    \* length of the ring, 20 in the code
    MaxSocks       \* bound: connections accepted in one behaviour

ASSUME SimpleServerAssumption ==
    /\ ARRAY_SIZE \in Nat \ {0}
    /\ MaxSocks \in Nat
    /\ IsFiniteSet(Workers) /\ Workers # {}
    /\ {"none", "main", "master"} \cap Workers = {}

VARIABLES
    stop_flag,     \* 0 running, 1 asked to stop, 2 master finished
    head, tail,    \* ring indices, written under the mutex
    queue,         \* the ring
    num_threads,   \* workers counted by main and not yet gone
    owner,         \* the thread that holds the mutex between two steps
    pc,            \* where each thread is
    sock,          \* the socket each worker took last (0: none)
    new,           \* the socket the master accepted last
    accepted,      \* how many sockets accept() has returned
    taken,         \* history: sockets taken from the ring, in order
    destroyed      \* what was destroyed: "mutex" by master, "ctx" by main

ring == <<head, tail, queue>>
vars == <<stop_flag, head, tail, queue, num_threads, owner, pc, sock, new,
          accepted, taken, destroyed>>

Threads == Workers \cup {"main", "master"}
Sockets == 1..MaxSocks

WorkerPC == {"none", "lock", "wait", "full", "ret", "handle", "bye", "done"}
MasterPC == {"none", "accept", "accepted", "put", "wait", "empty",
             "broadcast", "join", "cond", "destroy", "done"}
MainPC   == {"master", "start", "count", "loop", "cleanup", "done"}

Init ==
    /\ stop_flag = 0
    /\ head = 0 /\ tail = 0
    /\ queue = [i \in 0..(ARRAY_SIZE - 1) |-> 0]
    /\ num_threads = 0
    /\ owner = "none"
    /\ pc = [t \in Threads |-> IF t = "main" THEN "master" ELSE "none"]
    /\ sock = [w \in Workers |-> 0]
    /\ new = 0
    /\ accepted = 0
    /\ taken = <<>>
    /\ destroyed = {}

Goto(t, label) == pc' = [pc EXCEPT ![t] = label]

(***************************************************************************)
(* pthread_cond_signal: one of the threads waiting on the condition, if    *)
(* there is one, goes back to the mutex.  Each condition has the waiting   *)
(* label and the label at which its loop takes the mutex again.            *)
(***************************************************************************)
SignalFull(next) ==
    LET waiting == {w \in Workers : next[w] = "full"}
    IN  IF waiting = {} THEN pc' = next
        ELSE \E w \in waiting : pc' = [next EXCEPT ![w] = "lock"]

SignalEmpty(next) ==
    pc' = IF next["master"] = "empty" THEN [next EXCEPT !["master"] = "put"]
                                      ELSE next

SignalCond(next) ==
    pc' = IF next["master"] = "cond" THEN [next EXCEPT !["master"] = "join"]
                                     ELSE next

-----------------------------------------------------------------------------
(* Worker threads *)

\* Lines 68-77: take the oldest socket and keep the indices aligned.
TakeSocket(w) ==
    IF head > tail
    THEN LET wrap == IF tail + 1 > ARRAY_SIZE THEN ARRAY_SIZE ELSE 0
         IN  /\ sock' = [sock EXCEPT ![w] = queue[tail % ARRAY_SIZE]]
             /\ taken' = Append(taken, queue[tail % ARRAY_SIZE])
             /\ tail' = tail + 1 - wrap
             /\ head' = head - wrap
    ELSE UNCHANGED <<sock, taken, tail, head>>

\* grab_work found the ring empty: it will wait, the mutex still held.
GrabBlock(w) ==
    /\ pc[w] = "lock" /\ owner = "none"
    /\ head = tail /\ stop_flag = 0
    /\ owner' = w
    /\ Goto(w, "wait")
    /\ UNCHANGED <<stop_flag, ring, num_threads, sock, new, accepted, taken,
                   destroyed>>

\* pthread_cond_wait(&full): release the mutex and join the waiters.
GrabWait(w) ==
    /\ pc[w] = "wait"
    /\ owner' = "none"
    /\ Goto(w, "full")
    /\ UNCHANGED <<stop_flag, ring, num_threads, sock, new, accepted, taken,
                   destroyed>>

\* grab_work leaves its loop, takes a socket if there is one, wakes master.
GrabTake(w) ==
    /\ pc[w] = "lock" /\ owner = "none"
    /\ ~(head = tail /\ stop_flag = 0)
    /\ TakeSocket(w)
    /\ SignalEmpty([pc EXCEPT ![w] = "ret"])
    /\ UNCHANGED <<stop_flag, queue, num_threads, owner, new, accepted,
                   destroyed>>

\* Mutant: the result of grab_work is not tested.
ReturnAlwaysHandles(w) ==
    /\ pc[w] = "ret"
    /\ Goto(w, "handle")
    /\ UNCHANGED <<stop_flag, ring, num_threads, owner, sock, new, accepted,
                   taken, destroyed>>

\* return !stop_flag, read after the mutex was released.
GrabReturn(w) ==
    /\ pc[w] = "ret"
    /\ Goto(w, IF stop_flag = 0 THEN "handle" ELSE "bye")
    /\ UNCHANGED <<stop_flag, ring, num_threads, owner, sock, new, accepted,
                   taken, destroyed>>

\* est_server_handle_request returns and the socket is closed.
HandleRequest(w) ==
    /\ pc[w] = "handle"
    /\ Goto(w, "lock")
    /\ UNCHANGED <<stop_flag, ring, num_threads, owner, sock, new, accepted,
                   taken, destroyed>>

\* The worker tells the master that it is finishing.
WorkerExit(w) ==
    /\ pc[w] = "bye" /\ owner = "none"
    /\ num_threads' = num_threads - 1
    /\ SignalCond([pc EXCEPT ![w] = "done"])
    /\ UNCHANGED <<stop_flag, ring, owner, sock, new, accepted, taken,
                   destroyed>>

-----------------------------------------------------------------------------
(* Master thread *)

\* accept() returned a connection, or the loop test saw the stop flag.
Accept ==
    /\ pc["master"] = "accept"
    /\ \/ /\ stop_flag = 0 /\ accepted < MaxSocks
          /\ accepted' = accepted + 1
          /\ new' = accepted + 1
          /\ Goto("master", "accepted")
       \/ /\ stop_flag # 0
          /\ Goto("master", "broadcast")
          /\ UNCHANGED <<new, accepted>>
    /\ UNCHANGED <<stop_flag, ring, num_threads, owner, sock, taken, destroyed>>

\* The flag is read again; a connection accepted meanwhile is left as it is.
AcceptCheck ==
    /\ pc["master"] = "accepted"
    /\ Goto("master", IF stop_flag = 0 THEN "put" ELSE "accept")
    /\ UNCHANGED <<stop_flag, ring, num_threads, owner, sock, new, accepted,
                   taken, destroyed>>

RingFull == head - tail >= ARRAY_SIZE

PutBlock ==
    /\ pc["master"] = "put" /\ owner = "none"
    /\ stop_flag = 0 /\ RingFull
    /\ owner' = "master"
    /\ Goto("master", "wait")
    /\ UNCHANGED <<stop_flag, ring, num_threads, sock, new, accepted, taken,
                   destroyed>>

PutWait ==
    /\ pc["master"] = "wait"
    /\ owner' = "none"
    /\ Goto("master", "empty")
    /\ UNCHANGED <<stop_flag, ring, num_threads, sock, new, accepted, taken,
                   destroyed>>

\* Mutants: nobody is told of the socket; the socket is stored after head was
\* incremented.
PutSocketSilently ==
    /\ pc["master"] = "put" /\ owner = "none"
    /\ ~(stop_flag = 0 /\ RingFull)
    /\ IF head - tail < ARRAY_SIZE
       THEN /\ queue' = [queue EXCEPT ![head % ARRAY_SIZE] = new]
            /\ head' = head + 1
       ELSE UNCHANGED <<queue, head>>
    /\ Goto("master", "accept")
    /\ UNCHANGED <<stop_flag, tail, num_threads, owner, sock, new, accepted,
                   taken, destroyed>>

PutSocketTooFar ==
    /\ pc["master"] = "put" /\ owner = "none"
    /\ ~(stop_flag = 0 /\ RingFull)
    /\ IF head - tail < ARRAY_SIZE
       THEN /\ queue' = [queue EXCEPT ![(head + 1) % ARRAY_SIZE] = new]
            /\ head' = head + 1
       ELSE UNCHANGED <<queue, head>>
    /\ SignalFull([pc EXCEPT !["master"] = "accept"])
    /\ UNCHANGED <<stop_flag, tail, num_threads, owner, sock, new, accepted,
                   taken, destroyed>>

\* process_socket leaves its loop, queues the socket if there is room.
PutSocket ==
    /\ pc["master"] = "put" /\ owner = "none"
    /\ ~(stop_flag = 0 /\ RingFull)
    /\ IF head - tail < ARRAY_SIZE
       THEN /\ queue' = [queue EXCEPT ![head % ARRAY_SIZE] = new]
            /\ head' = head + 1
       ELSE UNCHANGED <<queue, head>>
    /\ SignalFull([pc EXCEPT !["master"] = "accept"])
    /\ UNCHANGED <<stop_flag, tail, num_threads, owner, sock, new, accepted,
                   taken, destroyed>>

\* pthread_cond_broadcast(&full), without the mutex.
Broadcast ==
    /\ pc["master"] = "broadcast"
    /\ pc' = [t \in Threads |->
                CASE t = "master" -> "join"
                  [] t \in Workers /\ pc[t] = "full" -> "lock"
                  [] OTHER -> pc[t]]
    /\ UNCHANGED <<stop_flag, ring, num_threads, owner, sock, new, accepted,
                   taken, destroyed>>

\* Wait until num_threads has dropped to zero.
Join ==
    /\ pc["master"] = "join" /\ owner = "none"
    /\ Goto("master", IF num_threads > 0 THEN "cond" ELSE "destroy")
    /\ UNCHANGED <<stop_flag, ring, num_threads, owner, sock, new, accepted,
                   taken, destroyed>>

\* Destroy the mutex and the conditions, and report with stop_flag = 2.
MasterExit ==
    /\ pc["master"] = "destroy"
    /\ destroyed' = destroyed \cup {"mutex"}
    /\ stop_flag' = 2
    /\ Goto("master", "done")
    /\ UNCHANGED <<ring, num_threads, owner, sock, new, accepted, taken>>

-----------------------------------------------------------------------------
(* Main thread and the signal handler *)

StartMaster ==
    /\ pc["main"] = "master"
    /\ pc' = [pc EXCEPT !["main"] = "start", !["master"] = "accept"]
    /\ UNCHANGED <<stop_flag, ring, num_threads, owner, sock, new, accepted,
                   taken, destroyed>>

\* pthread_create of one more worker, or the end of the loop (also when
\* pthread_create fails for the rest of them).
StartWorker ==
    /\ pc["main"] = "start"
    /\ \/ \E w \in Workers :
            /\ pc[w] = "none"
            /\ pc' = [pc EXCEPT !["main"] = "count", ![w] = "lock"]
       \/ /\ \E w \in Workers : pc[w] # "none"
          /\ Goto("main", "loop")
    /\ UNCHANGED <<stop_flag, ring, num_threads, owner, sock, new, accepted,
                   taken, destroyed>>

\* num_threads++ under the mutex, after the worker already runs.
CountWorker ==
    /\ pc["main"] = "count" /\ owner = "none"
    /\ num_threads' = num_threads + 1
    /\ Goto("main", "start")
    /\ UNCHANGED <<stop_flag, ring, owner, sock, new, accepted, taken,
                   destroyed>>

\* Return when the flag is set; with a delay, main sets it itself.
MainLoop ==
    /\ pc["main"] = "loop"
    /\ \/ stop_flag # 0 /\ UNCHANGED stop_flag
       \/ stop_flag' = 1
    /\ Goto("main", "cleanup")
    /\ UNCHANGED <<ring, num_threads, owner, sock, new, accepted, taken,
                   destroyed>>

\* cleanup() of the application: est_server_stop, est_destroy.
Cleanup ==
    /\ pc["main"] = "cleanup"
    /\ destroyed' = destroyed \cup {"ctx"}
    /\ Goto("main", "done")
    /\ UNCHANGED <<stop_flag, ring, num_threads, owner, sock, new, accepted,
                   taken>>

\* SIGINT: the handler is installed before any thread exists.
catch_int ==
    /\ stop_flag = 0
    /\ stop_flag' = 1
    /\ UNCHANGED <<ring, num_threads, owner, pc, sock, new, accepted, taken,
                   destroyed>>

\* POSIX lets a wait return without a signal.
SpuriousWakeup ==
    /\ \/ \E w \in Workers : pc[w] = "full" /\ Goto(w, "lock")
       \/ pc["master"] = "empty" /\ Goto("master", "put")
       \/ pc["master"] = "cond" /\ Goto("master", "join")
    /\ UNCHANGED <<stop_flag, ring, num_threads, owner, sock, new, accepted,
                   taken, destroyed>>

-----------------------------------------------------------------------------
Worker(w) ==
    \/ GrabBlock(w) \/ GrabWait(w) \/ GrabTake(w) \/ GrabReturn(w)
    \/ HandleRequest(w) \/ WorkerExit(w)

Master ==
    \/ Accept \/ AcceptCheck \/ PutBlock \/ PutWait \/ PutSocket
    \/ Broadcast \/ Join \/ MasterExit

Main == StartMaster \/ StartWorker \/ CountWorker \/ MainLoop \/ Cleanup

Next ==
    \/ \E w \in Workers : Worker(w)
    \/ Master
    \/ Main
    \/ catch_int
    \/ SpuriousWakeup

Spec == Init /\ [][Next]_vars

\* Every thread that can run is scheduled, a request is served in the end, and
\* a thread that finds the mutex free again and again gets it (SF); nobody
\* promises a signal, a delay, a connection or a spurious wakeup.
Fairness ==
    /\ \A w \in Workers : SF_vars(Worker(w))
    /\ SF_vars(AcceptCheck \/ PutBlock \/ PutWait \/ PutSocket)
    /\ WF_vars(stop_flag # 0 /\ Accept)
    /\ SF_vars(Broadcast \/ Join \/ MasterExit)
    /\ SF_vars(StartMaster \/ StartWorker \/ CountWorker)

FairSpec == Spec /\ Fairness

-----------------------------------------------------------------------------
(* Properties *)

\* Every variable holds what its C declaration and use allow; in particular
\* both ring indices stay below twice the array length for ever.
TypeOK ==
    /\ stop_flag \in 0..2
    /\ tail \in 0..ARRAY_SIZE
    /\ head \in 0..(2 * ARRAY_SIZE)
    /\ queue \in [0..(ARRAY_SIZE - 1) -> 0..MaxSocks]
    /\ num_threads \in Int
    /\ owner \in Threads \cup {"none"}
    /\ pc \in [Threads -> WorkerPC \cup MasterPC \cup MainPC]
    /\ sock \in [Workers -> 0..MaxSocks]
    /\ new \in 0..MaxSocks
    /\ accepted \in 0..MaxSocks
    /\ taken \in Seq(0..MaxSocks)
    /\ destroyed \subseteq {"mutex", "ctx"}

\* The sockets in the ring, oldest first.
Waiting == [i \in 1..(head - tail) |-> queue[(tail + i - 1) % ARRAY_SIZE]]

\* grab_work and process_socket: the aligned ring is a bounded FIFO queue.
\* Nothing is lost, repeated, reordered or overwritten.
Abstract == INSTANCE WorkQueue WITH
    Capacity <- ARRAY_SIZE, Sockets <- Sockets, queued <- Waiting, taken <- taken
ImplementsWorkQueue == Abstract!Spec

\* grab_work, line 89 and 95: a worker that serves a request serves the socket
\* it has just taken, and no socket is served by two workers or served while
\* it still waits in the ring.
ServesItsOwnSocket ==
    \A w \in Workers : pc[w] = "handle" =>
        /\ sock[w] \in Sockets
        /\ \A v \in Workers \ {w} : pc[v] = "handle" => sock[v] # sock[w]
        /\ \A i \in DOMAIN Waiting : Waiting[i] # sock[w]

\* process_socket signals one waiter per socket: whenever a socket waits, some
\* worker is on its way to the ring (or is not yet started).
WorkNeverStranded ==
    head # tail => \E w \in Workers : pc[w] # "full"

\* Every accepted socket that was queued is taken by a worker, unless the
\* server is asked to stop.
QueuedSocketsAreTaken ==
    \A s \in Sockets :
        (\E i \in DOMAIN Waiting : Waiting[i] = s)
            ~> (stop_flag # 0 \/ \E i \in DOMAIN taken : taken[i] = s)

\* "Notify all the workers that it's time to shutdown" and "Wait for the
\* workers to finish" (lines 242 and 245): a stop request ends the master.
StopCompletes == (stop_flag # 0 /\ pc["master"] # "none") ~> (pc["master"] = "done")
=============================================================================
