----------------------------- MODULE ThreadPool -----------------------------
(***************************************************************************)
(* The server process of the cloud disk: the main thread, which accepts    *)
(* connections and queues them, and the pool of worker threads, each of    *)
(* which takes a queued connection and serves it until its client leaves.  *)
(*                                                                         *)
(*   server/src/main.c        main thread: accept path and exit path       *)
(*   server/src/TaskQueue.c   the linked list of tasks                     *)
(*   server/src/ThreadPool.c  thread_func, the workers' loop               *)
(*   server/src/UserFunc.c    only its start (signal handlers) and its end *)
(*                                                                         *)
(* One action is one step between two operations other threads can see:    *)
(* a lock, an unlock, a wait, a broadcast, or a critical section's body.   *)
(***************************************************************************)
EXTENDS Naturals, Sequences, FiniteSets

CONSTANTS
    Workers,    \* the threads of the pool (PTHREAD_NUM of them)
    Main,       \* the main thread
    Nodes,      \* addresses calloc can return for a task node
    Null,       \* the null pointer; also the owner of a free mutex
    MaxConns    \* bound: connections accepted in a behaviour

ASSUME MainAssumption == Main \notin Workers /\ Main # Null
ASSUME NullAssumption == Null \notin Workers \cup Nodes
ASSUME MaxConnsAssumption == MaxConns \in Nat

VARIABLES
    mutex,        \* task_queue.queue_mutex: its owner, Null when free
    queue_len, pHead, pTail, exit_flag,   \* the other fields of task_queue
    heap,         \* the addresses calloc returned and nobody freed
    pNext,        \* task_node_t.pNext of every address
    user_cfd,     \* task_node_t.user_cfd: the number of the connection
    mpc,          \* where the main thread is
    mTask,        \* main's local pTask
    wpc,          \* where each worker is
    pTask,        \* each worker's local pTask
    get_success,  \* each worker's local get_success
    sighandler,   \* the function the process's signals run
    conns,        \* history: connections accepted so far
    fifo          \* history: the queued nodes, oldest first

queueVars == <<queue_len, pHead, pTail, pNext, fifo>>
taskVars  == <<heap, user_cfd, conns>>
mainVars  == <<mpc, mTask, exit_flag>>
localVars == <<pTask, get_success, sighandler>>
vars == <<mutex, queueVars, taskVars, mainVars, wpc, localVars>>

MainPCs == {"epoll", "lock", "insert", "broadcast", "unlock", "exitlock",
            "exitflag", "exitunlock", "exitbroadcast", "join", "exited", "dead"}
WorkerPCs == {"lock", "check", "asleep", "woken", "get", "unlock",
              "start", "session", "flag", "over"}

(***************************************************************************)
(* calloc'ed pool memory, TaskQueueInit, and ThreadPoolCreate's threads at *)
(* the top of thread_func.  The parent process that only waits for this    *)
(* one and the pipe of the exit signal are in ExitSignal.                  *)
(***************************************************************************)
Init ==
    /\ mutex = Null
    /\ queue_len = 0 /\ pHead = Null /\ pTail = Null /\ exit_flag = 0
    /\ heap = {}
    /\ pNext = [n \in Nodes |-> Null]
    /\ user_cfd = [n \in Nodes |-> 0]
    /\ mpc = "epoll" /\ mTask = Null
    /\ wpc = [w \in Workers |-> "lock"]
    /\ pTask = [w \in Workers |-> Null]
    /\ get_success = [w \in Workers |-> 0]
    /\ sighandler = "sigfunc"
    /\ conns = 0
    /\ fifo = <<>>

\* Threads run as long as the process does.
Alive == mpc \notin {"exited", "dead"}

Lock(t)   == mutex = Null /\ mutex' = t
Unlock(t) == mutex = t /\ mutex' = Null

\* pthread_cond_broadcast: every thread in pthread_cond_wait has to lock again.
Broadcast ==
    wpc' = [w \in Workers |-> IF wpc[w] = "asleep" THEN "woken" ELSE wpc[w]]

-----------------------------------------------------------------------------
(***************************************************************************)
(* The main thread: accept path.                                           *)
(***************************************************************************)
Accept ==
    /\ mpc = "epoll"
    /\ conns < MaxConns
    /\ \E n \in Nodes \ heap :
          /\ heap' = heap \cup {n}
          /\ pNext' = [pNext EXCEPT ![n] = Null]
          /\ user_cfd' = [user_cfd EXCEPT ![n] = conns + 1]
          /\ mTask' = n
    /\ conns' = conns + 1
    /\ mpc' = "lock"
    /\ UNCHANGED <<mutex, queue_len, pHead, pTail, fifo, exit_flag, wpc, localVars>>

\* accept() fails (too many descriptors, for one): main returns -1 and the
\* process ends with its sessions.
AcceptError ==
    /\ mpc = "epoll"
    /\ mpc' = "dead"
    /\ UNCHANGED <<mutex, queueVars, taskVars, mTask, exit_flag, wpc, localVars>>

MainLock ==
    /\ mpc = "lock"
    /\ Lock(Main)
    /\ mpc' = "insert"
    /\ UNCHANGED <<queueVars, taskVars, mTask, exit_flag, wpc, localVars>>

\* Faulty variant: inserts at the head, so that the list is a stack.
InsertAtHead ==
    /\ mpc = "insert"
    /\ pHead' = mTask
    /\ pNext' = [pNext EXCEPT ![mTask] = pHead]
    /\ pTail' = IF queue_len = 0 THEN mTask ELSE pTail
    /\ queue_len' = queue_len + 1
    /\ fifo' = Append(fifo, mTask)
    /\ mpc' = "broadcast"
    /\ UNCHANGED <<mutex, taskVars, mTask, exit_flag, wpc, localVars>>


InsertTaskQueue ==
    /\ mpc = "insert"
    /\ IF queue_len = 0
       THEN pHead' = mTask /\ UNCHANGED pNext
       ELSE pNext' = [pNext EXCEPT ![pTail] = mTask] /\ UNCHANGED pHead
    /\ pTail' = mTask
    /\ queue_len' = queue_len + 1
    /\ fifo' = Append(fifo, mTask)
    /\ mpc' = "broadcast"
    /\ UNCHANGED <<mutex, taskVars, mTask, exit_flag, wpc, localVars>>

MainBroadcast ==
    /\ mpc = "broadcast"
    /\ Broadcast
    /\ mpc' = "unlock"
    /\ UNCHANGED <<mutex, queueVars, taskVars, mTask, exit_flag, localVars>>

MainUnlock ==
    /\ mpc = "unlock"
    /\ Unlock(Main)
    /\ mpc' = "epoll"
    /\ mTask' = Null
    /\ UNCHANGED <<queueVars, taskVars, exit_flag, wpc, localVars>>

(***************************************************************************)
(* The main thread: exit path, taken when signal 10 reached the parent     *)
(* process and its handler wrote to the pipe.  The broadcast comes after   *)
(* the unlock.                                                             *)
(***************************************************************************)
ExitSignal ==
    /\ mpc = "epoll"
    /\ mpc' = "exitlock"
    /\ UNCHANGED <<mutex, queueVars, taskVars, mTask, exit_flag, wpc, localVars>>

ExitLock ==
    /\ mpc = "exitlock"
    /\ Lock(Main)
    /\ mpc' = "exitflag"
    /\ UNCHANGED <<queueVars, taskVars, mTask, exit_flag, wpc, localVars>>

SetExitFlag ==
    /\ mpc = "exitflag"
    /\ exit_flag' = 1
    /\ mpc' = "exitunlock"
    /\ UNCHANGED <<mutex, queueVars, taskVars, mTask, wpc, localVars>>

ExitUnlock ==
    /\ mpc = "exitunlock"
    /\ Unlock(Main)
    /\ mpc' = "exitbroadcast"
    /\ UNCHANGED <<queueVars, taskVars, mTask, exit_flag, wpc, localVars>>

ExitBroadcast ==
    /\ mpc = "exitbroadcast"
    /\ Broadcast
    /\ mpc' = "join"
    /\ UNCHANGED <<mutex, queueVars, taskVars, mTask, exit_flag, localVars>>

\* pthread_join of every worker, in order, then exit(0).
Join ==
    /\ mpc = "join"
    /\ \A w \in Workers : wpc[w] = "over"
    /\ mpc' = "exited"
    /\ UNCHANGED <<mutex, queueVars, taskVars, mTask, exit_flag, wpc, localVars>>

\* Once a session has run UserFunc, every signal but 28 and SIGPIPE runs
\* sig_func, which exits: SIGSEGV in a session and signal 10 to this process too.
SignalExit ==
    /\ Alive
    /\ sighandler = "sig_func"
    /\ mpc' = "dead"
    /\ UNCHANGED <<mutex, queueVars, taskVars, mTask, exit_flag, wpc, localVars>>

-----------------------------------------------------------------------------
(***************************************************************************)
(* A worker: thread_func.                                                  *)
(***************************************************************************)
Goto(w, pc) == wpc' = [wpc EXCEPT ![w] = pc]

WorkerLock(w) ==
    /\ Alive
    /\ wpc[w] = "lock"
    /\ Lock(w)
    /\ Goto(w, "check")
    /\ UNCHANGED <<queueVars, taskVars, mainVars, localVars>>

\* Faulty variant: waits for a broadcast without looking at the queue first.
CheckNothing(w) ==
    /\ Alive
    /\ wpc[w] = "check"
    /\ Unlock(w)
    /\ Goto(w, "asleep")
    /\ UNCHANGED <<queueVars, taskVars, mainVars, localVars>>

\* `if(0 == queue_len) pthread_cond_wait`: an if, not a loop, and the exit flag
\* is not looked at.  The wait releases the mutex and sleeps in one step.
CheckQueue(w) ==
    /\ Alive
    /\ wpc[w] = "check"
    /\ \/ queue_len = 0 /\ Unlock(w) /\ Goto(w, "asleep")
       \/ queue_len # 0 /\ UNCHANGED mutex /\ Goto(w, "get")
    /\ UNCHANGED <<queueVars, taskVars, mainVars, localVars>>

\* pthread_cond_wait may return without a broadcast.
SpuriousWake(w) ==
    /\ Alive
    /\ wpc[w] = "asleep"
    /\ Goto(w, "woken")
    /\ UNCHANGED <<mutex, queueVars, taskVars, mainVars, localVars>>

\* Faulty variant: the wait in a while loop that tests the queue only.
RelockAndRecheck(w) ==
    /\ Alive
    /\ wpc[w] = "woken"
    /\ Lock(w)
    /\ Goto(w, "check")
    /\ UNCHANGED <<queueVars, taskVars, mainVars, localVars>>

\* The second half of pthread_cond_wait: lock again, then return.
Relock(w) ==
    /\ Alive
    /\ wpc[w] = "woken"
    /\ Lock(w)
    /\ Goto(w, "get")
    /\ UNCHANGED <<queueVars, taskVars, mainVars, localVars>>

\* The part of GetTaskNode the faulty variants share.
Unlink(w, node, tail) ==
    /\ Alive
    /\ wpc[w] = "get"
    /\ queue_len # 0
    /\ pTask' = [pTask EXCEPT ![w] = node]
    /\ pHead' = pNext[pHead]
    /\ pNext' = [pNext EXCEPT ![pHead] = Null]
    /\ queue_len' = queue_len - 1
    /\ pTail' = tail
    /\ fifo' = Tail(fifo)
    /\ get_success' = [get_success EXCEPT ![w] = 1]
    /\ Goto(w, "unlock")
    /\ UNCHANGED <<mutex, taskVars, mainVars, sighandler>>

\* Faulty variant: reads the head after moving it.
GetSecond(w) == Unlink(w, pNext[pHead], IF queue_len = 1 THEN Null ELSE pTail)

\* Faulty variant: leaves the tail pointer of an emptied list.
GetKeepingTail(w) == Unlink(w, pHead, pTail)

\* Faulty variant: decrements the length of an empty list too.
GetBelowZero(w) ==
    /\ Alive
    /\ wpc[w] = "get"
    /\ queue_len = 0
    /\ queue_len' = queue_len - 1
    /\ get_success' = [get_success EXCEPT ![w] = 0]
    /\ Goto(w, "unlock")
    /\ UNCHANGED <<mutex, pTask, pHead, pTail, pNext, fifo, taskVars, mainVars, sighandler>>


GetTaskNode(w) ==
    /\ Alive
    /\ wpc[w] = "get"
    /\ \/ /\ queue_len # 0
          /\ pTask' = [pTask EXCEPT ![w] = pHead]
          /\ pHead' = pNext[pHead]
          /\ pNext' = [pNext EXCEPT ![pHead] = Null]
          /\ queue_len' = queue_len - 1
          /\ pTail' = IF queue_len' = 0 THEN Null ELSE pTail
          /\ fifo' = Tail(fifo)
          /\ get_success' = [get_success EXCEPT ![w] = 1]
       \/ /\ queue_len = 0
          /\ get_success' = [get_success EXCEPT ![w] = 0]
          /\ UNCHANGED <<pTask, queueVars>>
    /\ Goto(w, "unlock")
    /\ UNCHANGED <<mutex, taskVars, mainVars, sighandler>>

WorkerUnlock(w) ==
    /\ Alive
    /\ wpc[w] = "unlock"
    /\ Unlock(w)
    /\ Goto(w, IF get_success[w] = 1 THEN "start" ELSE "flag")
    /\ UNCHANGED <<queueVars, taskVars, mainVars, localVars>>

\* UserFunc begins by taking over the signal handlers of the whole process.
UserFuncBegins(w) ==
    /\ Alive
    /\ wpc[w] = "start"
    /\ sighandler' = "sig_func"
    /\ Goto(w, "session")
    /\ UNCHANGED <<mutex, queueVars, taskVars, mainVars, pTask, get_success>>

\* UserFunc returns (its client left); the node is freed and forgotten.
UserFuncEnds(w) ==
    /\ Alive
    /\ wpc[w] = "session"
    /\ heap' = heap \ {pTask[w]}
    /\ pTask' = [pTask EXCEPT ![w] = Null]
    /\ Goto(w, "flag")
    /\ UNCHANGED <<mutex, queueVars, user_cfd, conns, mainVars, get_success, sighandler>>

\* The exit flag is read without the mutex.
ReadExitFlag(w) ==
    /\ Alive
    /\ wpc[w] = "flag"
    /\ Goto(w, IF exit_flag = 1 THEN "over" ELSE "lock")
    /\ UNCHANGED <<mutex, queueVars, taskVars, mainVars, localVars>>

-----------------------------------------------------------------------------
MainStep ==
    \/ MainLock \/ InsertTaskQueue \/ MainBroadcast \/ MainUnlock
    \/ ExitLock \/ SetExitFlag \/ ExitUnlock \/ ExitBroadcast \/ Join

WorkerStep(w) ==
    \/ WorkerLock(w) \/ CheckQueue(w) \/ Relock(w) \/ GetTaskNode(w)
    \/ WorkerUnlock(w) \/ UserFuncBegins(w) \/ UserFuncEnds(w) \/ ReadExitFlag(w)

Environment ==
    \/ Accept \/ AcceptError \/ ExitSignal \/ SignalExit
    \/ \E w \in Workers : SpuriousWake(w)

Next == MainStep \/ Environment \/ \E w \in Workers : WorkerStep(w)

Spec == Init /\ [][Next]_vars

(***************************************************************************)
(* The kernel runs every thread that can run, and gives a mutex that keeps *)
(* being released to everyone who keeps asking for it: weak fairness for   *)
(* the steps of a thread, strong fairness for the two steps that lock.     *)
(* UserFuncEnds is among them: a client does leave in the end.             *)
(***************************************************************************)
Fairness ==
    /\ WF_vars(MainStep) /\ SF_vars(MainLock \/ ExitLock)
    /\ \A w \in Workers :
          WF_vars(WorkerStep(w)) /\ SF_vars(WorkerLock(w) \/ Relock(w))

FairSpec == Spec /\ Fairness

-----------------------------------------------------------------------------
(***************************************************************************)
(* Properties.                                                             *)
(***************************************************************************)
\* Every variable holds a value of its C type.
TypeOK ==
    /\ mutex \in Workers \cup {Main, Null}
    /\ queue_len \in Nat
    /\ pHead \in Nodes \cup {Null} /\ pTail \in Nodes \cup {Null}
    /\ exit_flag \in {0, 1}
    /\ heap \in SUBSET Nodes
    /\ pNext \in [Nodes -> Nodes \cup {Null}]
    /\ user_cfd \in [Nodes -> Nat]
    /\ mpc \in MainPCs /\ mTask \in Nodes \cup {Null}
    /\ wpc \in [Workers -> WorkerPCs]
    /\ pTask \in [Workers -> Nodes \cup {Null}]
    /\ get_success \in [Workers -> {0, 1}]
    /\ sighandler \in {"sigfunc", "sig_func"}
    /\ conns \in Nat
    /\ fifo \in Seq(Nodes)

\* The linked list of TaskQueue.c is the FIFO of the nodes inserted and not yet
\* taken: pHead, pTail, every pNext and queue_len agree, and it ends in NULL.
QueueWellFormed ==
    /\ queue_len = Len(fifo)
    /\ fifo = <<>> => pHead = Null /\ pTail = Null
    /\ fifo # <<>> => pHead = fifo[1] /\ pTail = fifo[Len(fifo)] /\ pNext[pTail] = Null
    /\ \A i \in 1..Len(fifo) : i < Len(fifo) => pNext[fifo[i]] = fifo[i+1]

Queued == {fifo[i] : i \in 1..Len(fifo)}

\* Main has filled a node and not yet put it in the list.
Holding == mTask # Null /\ mTask \notin Queued

\* A task node has one owner at a time: the list, one worker, or main before it
\* inserts it.  A node in use is allocated (nobody reads freed memory), is in
\* the list once, and is the only one of its connection.
ExclusiveOwnership ==
    /\ Queued \subseteq heap
    /\ \A i, j \in 1..Len(fifo) : fifo[i] = fifo[j] => i = j
    /\ mpc \in {"lock", "insert"} => mTask \in heap \ Queued
    /\ \A w \in Workers : pTask[w] # Null =>
          /\ pTask[w] \in heap \ Queued
          /\ pTask[w] # mTask
          /\ \A v \in Workers : pTask[v] = pTask[w] => v = w
    /\ \A n, m \in heap : user_cfd[n] = user_cfd[m] => n = m

\* No lost wakeup on the accept path: while a task is queued no worker sleeps,
\* except between main's insertion and its broadcast under the same mutex.
NoLostWakeup ==
    queue_len > 0 /\ mpc \notin {"broadcast", "dead"} =>
        \A w \in Workers : wpc[w] # "asleep"

\* The strengthening that makes these invariants inductive.
\* Who is inside a critical section owns the mutex.
Locking ==
    /\ mpc \in {"insert", "broadcast", "unlock", "exitflag", "exitunlock"} => mutex = Main
    /\ \A w \in Workers : wpc[w] \in {"check", "get", "unlock"} => mutex = w

\* The locals: main has a task on its accept path only, and it is in the list from
\* the insertion on; a worker has one from GetTaskNode to the free.
Locals ==
    /\ mpc \in {"lock", "insert"} =>
          mTask # Null /\ user_cfd[mTask] = conns /\ pNext[mTask] = Null
    /\ mpc \in {"broadcast", "unlock"} => mTask \in Queued
    /\ mTask # Null => mpc \in {"lock", "insert", "broadcast", "unlock", "dead"}
    /\ \A w \in Workers :
          /\ pTask[w] # Null => wpc[w] \in {"unlock", "start", "session"}
          /\ wpc[w] \in {"start", "session"} => pTask[w] # Null
          /\ wpc[w] = "unlock" => (pTask[w] # Null <=> get_success[w] = 1)

\* Connections in use are numbered from 1 to conns.
Numbering == \A n \in heap : user_cfd[n] \in 1..conns

IInv ==
    /\ TypeOK /\ Locking /\ Locals /\ Numbering
    /\ QueueWellFormed /\ ExclusiveOwnership /\ NoLostWakeup

\* The pool keeps the promise of Dispatch: exactly-once delivery, in the order of
\* acceptance, one connection per worker.
D == INSTANCE Dispatch WITH
        accepted <- IF Holding THEN conns - 1 ELSE conns,
        waiting  <- [i \in 1..Len(fifo) |-> user_cfd[fifo[i]]],
        serving  <- [w \in Workers |-> IF pTask[w] = Null THEN 0 ELSE user_cfd[pTask[w]]]
ImplementsDispatch == D!Spec

\* A queued connection is taken by a worker, unless the server stops first,
\* although every worker may be busy when it arrives.
EveryTaskTaken ==
    \A c \in 1..MaxConns :
        (\E n \in Queued : user_cfd[n] = c) ~>
            (exit_flag = 1 \/ mpc = "dead" \/ \A n \in Queued : user_cfd[n] # c)

\* An ordered shutdown (main.c, "wait for the threads to exit") completes if no
\* worker is on its way to sleep when main broadcasts: those that sleep are
\* woken, leave GetTaskNode with or without a task, and see the flag.
ShutdownFromIdle ==
    (mpc = "exitbroadcast" /\ \A w \in Workers : wpc[w] \notin {"lock", "check"}) ~> ~Alive

\* What main.c line 83 says: after the exit flag and the broadcast main waits for
\* the threads, they exit, and the process ends.  A worker that read the flag
\* just before it was set goes back to sleep after the broadcast instead.
ShutdownCompletes == (exit_flag = 1) ~> ~Alive
=============================================================================
