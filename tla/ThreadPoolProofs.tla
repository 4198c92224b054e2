-------------------------- MODULE ThreadPoolProofs --------------------------
(***************************************************************************)
(* Proofs about ThreadPool, for any number of workers, node addresses and  *)
(* connections.  IInv is inductive: every step keeps each of its parts     *)
(* (StepTypeOK ... StepNoLostWakeup), two lemmas say what the two list     *)
(* operations do, and the theorems at the end follow.                      *)
(***************************************************************************)
EXTENDS ThreadPool, SequenceTheorems, TLAPS

\* The steps that touch neither the list nor the heap.
Quiet ==
    \/ AcceptError \/ MainLock \/ MainBroadcast \/ MainUnlock
    \/ ExitSignal \/ ExitLock \/ SetExitFlag \/ ExitUnlock \/ ExitBroadcast
    \/ Join \/ SignalExit
    \/ \E w \in Workers :
          \/ WorkerLock(w) \/ CheckQueue(w) \/ SpuriousWake(w) \/ Relock(w)
          \/ WorkerUnlock(w) \/ UserFuncBegins(w) \/ ReadExitFlag(w)

\* A step is quiet or one of the four that move a node.
LEMMA StepCases ==
    ASSUME Next
    PROVE  \/ Quiet \/ Accept \/ InsertTaskQueue
           \/ \E w \in Workers : GetTaskNode(w) \/ UserFuncEnds(w)
BY DEF Next, MainStep, Environment, WorkerStep, Quiet

LEMMA QuietKeeps ==
    ASSUME Quiet
    PROVE  /\ UNCHANGED <<queue_len, pHead, pTail, pNext, fifo, heap, user_cfd, conns, pTask>>
           /\ Queued' = Queued
<1>1. UNCHANGED <<queue_len, pHead, pTail, pNext, fifo, heap, user_cfd, conns, pTask>>
  BY DEF Quiet, AcceptError, MainLock, MainBroadcast, MainUnlock, ExitSignal,
         ExitLock, SetExitFlag, ExitUnlock, ExitBroadcast, Join, SignalExit,
         WorkerLock, CheckQueue, SpuriousWake, Relock, WorkerUnlock,
         UserFuncBegins, ReadExitFlag, queueVars, taskVars, localVars
<1>2. QED BY <1>1 DEF Queued

-----------------------------------------------------------------------------
(***************************************************************************)
(* What the list operations do.                                            *)
(***************************************************************************)
\* The queued nodes are nodes, and a nonempty list has its first in it.
LEMMA QueuedNodes ==
    ASSUME TypeOK
    PROVE  /\ Len(fifo) \in Nat
           /\ \A i \in 1..Len(fifo) : fifo[i] \in Nodes /\ fifo[i] \in Queued
           /\ Queued \subseteq Nodes
           /\ fifo = <<>> <=> Len(fifo) = 0
<1>1. fifo \in Seq(Nodes) BY DEF TypeOK
<1>2. Len(fifo) \in Nat /\ \A i \in 1..Len(fifo) : fifo[i] \in Nodes
  BY <1>1, LenProperties, ElementOfSeq
<1>3. fifo = <<>> <=> Len(fifo) = 0
  BY <1>1, EmptySeq
<1>4. QED BY <1>2, <1>3 DEF Queued

\* InsertTaskQueue adds main's node at the end.
LEMMA InsertEffect ==
    ASSUME IInv, InsertTaskQueue
    PROVE  /\ mTask \in Nodes /\ mTask \notin Queued /\ mTask # Null
           /\ fifo' \in Seq(Nodes)
           /\ Len(fifo') = Len(fifo) + 1
           /\ \A i \in 1..Len(fifo) : fifo'[i] = fifo[i]
           /\ fifo'[Len(fifo) + 1] = mTask
           /\ Queued' = Queued \cup {mTask}
<1>1. mTask \in Nodes /\ mTask \notin Queued /\ mTask # Null
  BY DEF IInv, TypeOK, ExclusiveOwnership, InsertTaskQueue, Locals
<1>2. fifo \in Seq(Nodes) /\ fifo' = Append(fifo, mTask)
  BY DEF IInv, TypeOK, InsertTaskQueue
<1>3. /\ fifo' \in Seq(Nodes)
      /\ Len(fifo') = Len(fifo) + 1
      /\ \A i \in 1..Len(fifo) : fifo'[i] = fifo[i]
      /\ fifo'[Len(fifo) + 1] = mTask
  BY <1>1, <1>2, AppendProperties
<1>4. Len(fifo) \in Nat BY <1>2, LenProperties
<1>5. Queued' = Queued \cup {mTask}
  <2>1. 1..Len(fifo') = 1..Len(fifo) \cup {Len(fifo) + 1} BY <1>3, <1>4
  <2>2. QED BY <2>1, <1>3, <1>4 DEF Queued
<1>6. QED BY <1>1, <1>3, <1>5

\* GetTaskNode on a list that is not empty takes the node at its head, which
\* leaves the list, and moves the others up.
LEMMA TakeEffect ==
    ASSUME IInv, NEW w \in Workers, GetTaskNode(w), queue_len # 0
    PROVE  /\ pHead = fifo[1] /\ pHead \in Queued /\ pHead \in Nodes /\ pHead # Null
           /\ Len(fifo) >= 1 /\ fifo # <<>>
           /\ fifo' = Tail(fifo)
           /\ fifo' \in Seq(Nodes)
           /\ Len(fifo') = Len(fifo) - 1
           /\ \A i \in 1..Len(fifo') : fifo'[i] = fifo[i + 1]
           /\ Queued' = Queued \ {pHead}
           /\ pTask' = [pTask EXCEPT ![w] = pHead]
<1>1. fifo' = Tail(fifo) /\ pTask' = [pTask EXCEPT ![w] = pHead]
  BY DEF GetTaskNode
<1>2. fifo \in Seq(Nodes) BY DEF IInv, TypeOK
<1>3. Len(fifo) \in Nat /\ Len(fifo) # 0 /\ fifo # <<>> /\ pHead = fifo[1]
  BY QueuedNodes DEF IInv, QueueWellFormed
<1>4. /\ fifo' \in Seq(Nodes)
      /\ Len(fifo') = Len(fifo) - 1
      /\ \A i \in 1..Len(fifo') : fifo'[i] = fifo[i + 1]
  BY <1>1, <1>2, <1>3, HeadTailProperties
<1>5. 1 \in 1..Len(fifo) BY <1>3
<1>6. pHead \in Nodes /\ pHead \in Queued
  BY <1>3, <1>5, QueuedNodes DEF IInv
<1>7. pHead # Null BY <1>6, NullAssumption
<1>8. Queued' = Queued \ {pHead}
  <2>1. \A i, j \in 1..Len(fifo) : fifo[i] = fifo[j] => i = j
    BY DEF IInv, ExclusiveOwnership
  <2>2. \A i \in 1..Len(fifo') : fifo'[i] \in Queued /\ fifo'[i] # pHead
    BY <2>1, <1>3, <1>4, <1>5 DEF Queued
  <2>3. ASSUME NEW n \in Queued, n # pHead
        PROVE  \E i \in 1..Len(fifo') : fifo'[i] = n
    <3>1. PICK i \in 1..Len(fifo) : fifo[i] = n BY <2>3 DEF Queued
    <3>2. i # 1 BY <3>1, <1>3, <2>3
    <3>3. i - 1 \in 1..Len(fifo') /\ (i - 1) + 1 = i BY <3>2, <1>3, <1>4
    <3>4. QED BY <3>1, <3>3, <1>4
  <2>4. QED BY <2>2, <2>3 DEF Queued
<1>9. QED BY <1>1, <1>3, <1>4, <1>6, <1>7, <1>8

-----------------------------------------------------------------------------
(***************************************************************************)
(* Each part of IInv is kept by every step.                                *)
(***************************************************************************)
LEMMA StepTypeOK ==
    ASSUME IInv, Next
    PROVE  TypeOK'
<1>0. TypeOK BY DEF IInv
<1>1. CASE Quiet
  <2> DEFINE Rest == /\ mpc' \in MainPCs /\ mTask' \in Nodes \cup {Null} /\ exit_flag' \in {0, 1}
                    /\ wpc' \in [Workers -> WorkerPCs]
                    /\ get_success' \in [Workers -> {0, 1}]
                    /\ mutex' \in Workers \cup {Main, Null}
                    /\ sighandler' \in {"sigfunc", "sig_func"}
  <2>1. ASSUME AcceptError \/ ExitSignal \/ SignalExit \/ Join \/ SetExitFlag PROVE Rest
    BY <1>0, <2>1
    DEF TypeOK, AcceptError, ExitSignal, SignalExit, Join, SetExitFlag, localVars, MainPCs
  <2>2. ASSUME MainLock \/ MainUnlock \/ ExitLock \/ ExitUnlock PROVE Rest
    BY <1>0, <2>2
    DEF TypeOK, MainLock, MainUnlock, ExitLock, ExitUnlock, Lock, Unlock, localVars, MainPCs
  <2>3. ASSUME MainBroadcast \/ ExitBroadcast PROVE Rest
    BY <1>0, <2>3
    DEF TypeOK, MainBroadcast, ExitBroadcast, Broadcast, localVars, MainPCs, WorkerPCs
  <2>4. ASSUME NEW w \in Workers,
               WorkerLock(w) \/ CheckQueue(w) \/ Relock(w) \/ WorkerUnlock(w)
        PROVE  Rest
    BY <1>0, <2>4
    DEF TypeOK, WorkerLock, CheckQueue, Relock, WorkerUnlock, Goto, Lock, Unlock,
        mainVars, localVars, WorkerPCs
  <2>5. ASSUME NEW w \in Workers, SpuriousWake(w) \/ UserFuncBegins(w) \/ ReadExitFlag(w)
        PROVE  Rest
    BY <1>0, <2>5
    DEF TypeOK, SpuriousWake, UserFuncBegins, ReadExitFlag, Goto, mainVars, localVars, WorkerPCs
  <2>6. Rest BY <1>1, <2>1, <2>2, <2>3, <2>4, <2>5 DEF Quiet
  <2>7. QED BY <1>0, <1>1, <2>6, QuietKeeps DEF TypeOK
<1>2. CASE Accept
  BY <1>0, <1>2 DEF TypeOK, Accept, localVars, MainPCs
<1>3. CASE InsertTaskQueue
  <2>1. mTask \in Nodes /\ fifo' \in Seq(Nodes) BY <1>3, InsertEffect
  <2>2. QED BY <1>0, <1>3, <2>1 DEF TypeOK, InsertTaskQueue, taskVars, localVars, MainPCs
<1>4. ASSUME NEW w \in Workers, GetTaskNode(w), queue_len # 0 PROVE TypeOK'
  <2>1. pHead \in Nodes /\ fifo' \in Seq(Nodes) BY <1>4, TakeEffect
  <2>2. queue_len' \in Nat /\ queue_len' = queue_len - 1
    BY <1>0, <1>4 DEF TypeOK, GetTaskNode
  <2>3. /\ pHead' \in Nodes \cup {Null} /\ pTail' \in Nodes \cup {Null}
        /\ pNext' \in [Nodes -> Nodes \cup {Null}]
        /\ pTask' \in [Workers -> Nodes \cup {Null}]
        /\ get_success' \in [Workers -> {0, 1}]
    BY <1>0, <1>4, <2>1 DEF TypeOK, GetTaskNode
  <2>4. wpc' \in [Workers -> WorkerPCs]
    BY <1>0, <1>4 DEF TypeOK, GetTaskNode, Goto, WorkerPCs
  <2>5. QED BY <1>0, <1>4, <2>1, <2>2, <2>3, <2>4
        DEF TypeOK, GetTaskNode, taskVars, mainVars
<1>5. ASSUME NEW w \in Workers, GetTaskNode(w), queue_len = 0 PROVE TypeOK'
  BY <1>0, <1>5 DEF TypeOK, GetTaskNode, queueVars, taskVars, mainVars, Goto, WorkerPCs
<1>6. ASSUME NEW w \in Workers, UserFuncEnds(w) PROVE TypeOK'
  BY <1>0, <1>6 DEF TypeOK, UserFuncEnds, queueVars, mainVars, Goto, WorkerPCs
<1>7. QED BY <1>1, <1>2, <1>3, <1>4, <1>5, <1>6, StepCases

\* Nobody enters a critical section without the mutex.
LEMMA StepLocking ==
    ASSUME IInv, Next
    PROVE  Locking'
<1>0. TypeOK /\ Locking BY DEF IInv
<1>1. CASE MainStep
  <2>1. wpc \in [Workers -> WorkerPCs] /\ Main \notin Workers /\ Null \notin Workers /\ Main # Null
    BY <1>0, MainAssumption, NullAssumption DEF TypeOK
  <2>2. CASE MainLock \/ ExitLock
    BY <1>0, <2>1, <2>2 DEF Locking, MainLock, ExitLock, Lock
  <2>3. CASE MainUnlock \/ ExitUnlock
    BY <1>0, <2>1, <2>3 DEF Locking, MainUnlock, ExitUnlock, Unlock
  <2>4. CASE InsertTaskQueue \/ SetExitFlag \/ Join
    BY <1>0, <2>1, <2>4 DEF Locking, InsertTaskQueue, SetExitFlag, Join
  <2>5. CASE MainBroadcast \/ ExitBroadcast
    <3>1. \A w \in Workers : wpc'[w] \in {"check", "get", "unlock"} => wpc'[w] = wpc[w]
      BY <2>5 DEF MainBroadcast, ExitBroadcast, Broadcast
    <3>2. QED BY <1>0, <2>5, <3>1 DEF Locking, MainBroadcast, ExitBroadcast
  <2>6. QED BY <1>1, <2>2, <2>3, <2>4, <2>5 DEF MainStep
<1>2. CASE Environment
  <2>1. CASE Accept \/ AcceptError \/ ExitSignal \/ SignalExit
    BY <1>0, <2>1 DEF Locking, Accept, AcceptError, ExitSignal, SignalExit, queueVars
  <2>2. ASSUME NEW w \in Workers, SpuriousWake(w) PROVE Locking'
    BY <1>0, <2>2 DEF Locking, TypeOK, SpuriousWake, Goto, mainVars
  <2>3. QED BY <1>2, <2>1, <2>2 DEF Environment
<1>3. ASSUME NEW w \in Workers, WorkerStep(w) PROVE Locking'
  <2>1. wpc \in [Workers -> WorkerPCs] /\ Main \notin Workers /\ Null \notin Workers /\ Main # Null
    BY <1>0, MainAssumption, NullAssumption DEF TypeOK
  <2>2. CASE WorkerLock(w)
    BY <1>0, <2>1, <2>2 DEF Locking, WorkerLock, Goto, Lock, mainVars
  <2>3. CASE CheckQueue(w)
    <3>1. /\ mutex = w => mutex' \in {w, Null}
          /\ wpc' = [wpc EXCEPT ![w] = wpc'[w]] /\ mpc' = mpc
          /\ mutex' = w \/ wpc'[w] = "asleep"
          /\ mutex = w
      BY <1>0, <2>1, <2>3 DEF Locking, CheckQueue, Goto, Unlock, mainVars
    <3>2. QED BY <1>0, <2>1, <3>1 DEF Locking
  <2>4. CASE Relock(w)
    BY <1>0, <2>1, <2>4 DEF Locking, Relock, Goto, Lock, mainVars
  <2>5. CASE GetTaskNode(w)
    <3>1. wpc[w] = "get" /\ wpc' = [wpc EXCEPT ![w] = "unlock"] /\ UNCHANGED <<mutex, mpc>>
      BY <2>5 DEF GetTaskNode, Goto, mainVars
    <3>2. QED BY <1>0, <2>1, <3>1 DEF Locking
  <2>6. CASE WorkerUnlock(w)
    BY <1>0, <2>1, <2>6 DEF Locking, WorkerUnlock, Goto, Unlock, mainVars
  <2>7. CASE UserFuncBegins(w)
    BY <1>0, <2>1, <2>7 DEF Locking, UserFuncBegins, Goto, mainVars
  <2>8. CASE UserFuncEnds(w)
    BY <1>0, <2>1, <2>8 DEF Locking, UserFuncEnds, Goto, mainVars
  <2>9. CASE ReadExitFlag(w)
    BY <1>0, <2>1, <2>9 DEF Locking, ReadExitFlag, Goto, mainVars
  <2>10. QED BY <1>3, <2>2, <2>3, <2>4, <2>5, <2>6, <2>7, <2>8, <2>9 DEF WorkerStep
<1>4. QED BY <1>1, <1>2, <1>3 DEF Next

\* The list keeps its shape.
LEMMA StepQueueWellFormed ==
    ASSUME IInv, Next
    PROVE  QueueWellFormed'
<1>0. TypeOK /\ QueueWellFormed /\ ExclusiveOwnership BY DEF IInv
<1>1. CASE Quiet
  BY <1>0, <1>1, QuietKeeps DEF QueueWellFormed
<1>2. CASE Accept
  <2>1. PICK n \in Nodes \ heap : pNext' = [pNext EXCEPT ![n] = Null]
    BY <1>2 DEF Accept
  <2>2. \A i \in 1..Len(fifo) : fifo[i] # n /\ fifo[i] \in Nodes
    BY <1>0, <2>1, QueuedNodes DEF ExclusiveOwnership
  <2>3. \A i \in 1..Len(fifo) : pNext'[fifo[i]] = pNext[fifo[i]]
    BY <1>0, <2>1, <2>2 DEF TypeOK
  <2>4. UNCHANGED <<queue_len, pHead, pTail, fifo>> BY <1>2 DEF Accept
  <2>5. fifo # <<>> => Len(fifo) \in 1..Len(fifo) BY <1>0, QueuedNodes
  <2>6. QED BY <1>0, <2>3, <2>4, <2>5 DEF QueueWellFormed
<1>3. CASE InsertTaskQueue
  <2>1. /\ mTask \in Nodes /\ mTask \notin Queued
        /\ Len(fifo') = Len(fifo) + 1
        /\ \A i \in 1..Len(fifo) : fifo'[i] = fifo[i]
        /\ fifo'[Len(fifo) + 1] = mTask
        /\ fifo' \in Seq(Nodes)
    BY <1>3, InsertEffect
  <2>2. /\ Len(fifo) \in Nat
        /\ \A i \in 1..Len(fifo) : fifo[i] \in Nodes /\ fifo[i] # mTask
        /\ fifo = <<>> <=> Len(fifo) = 0
    BY <1>0, <2>1, QueuedNodes
  <2>3. fifo' # <<>> BY <2>1, <2>2, EmptySeq
  <2>4. pTail' = mTask /\ queue_len' = queue_len + 1 BY <1>3 DEF InsertTaskQueue
  <2>5. pNext[mTask] = Null /\ pNext \in [Nodes -> Nodes \cup {Null}]
    BY <1>0, <1>3 DEF IInv, Locals, InsertTaskQueue, TypeOK
  <2>6. CASE queue_len = 0
    <3>1. pHead' = mTask /\ pNext' = pNext /\ Len(fifo) = 0
      BY <1>0, <1>3, <2>6 DEF InsertTaskQueue, QueueWellFormed
    <3>2. QED BY <3>1, <2>1, <2>2, <2>3, <2>4, <2>5, <2>6 DEF QueueWellFormed
  <2>7. CASE queue_len # 0
    <3>1. pHead' = pHead /\ pNext' = [pNext EXCEPT ![pTail] = mTask]
      BY <1>3, <2>7 DEF InsertTaskQueue
    <3>2. fifo # <<>> /\ pHead = fifo[1] /\ pTail = fifo[Len(fifo)] /\ Len(fifo) > 0
      BY <1>0, <2>2, <2>7 DEF QueueWellFormed
    <3>3. 1 \in 1..Len(fifo) /\ Len(fifo) \in 1..Len(fifo) BY <2>2, <3>2
    <3>4. pTail \in Nodes /\ pTail # mTask BY <2>2, <3>2, <3>3
    <3>5. pNext'[pTail] = mTask /\ pNext'[mTask] = Null
      BY <2>1, <2>5, <3>1, <3>4
    <3>6. \A i \in 1..Len(fifo) : i < Len(fifo) => pNext'[fifo[i]] = fifo[i+1]
      <4>1. \A i, j \in 1..Len(fifo) : fifo[i] = fifo[j] => i = j
        BY <1>0 DEF ExclusiveOwnership
      <4>2. \A i \in 1..Len(fifo) : i < Len(fifo) => fifo[i] # pTail
        BY <4>1, <3>2, <3>3
      <4>3. QED BY <4>2, <1>0, <2>2, <2>5, <3>1 DEF QueueWellFormed
    <3>7. \A i \in 1..Len(fifo') : i < Len(fifo') => pNext'[fifo'[i]] = fifo'[i+1]
      <4>1. SUFFICES ASSUME NEW i \in 1..Len(fifo'), i < Len(fifo')
                     PROVE  pNext'[fifo'[i]] = fifo'[i+1]
        OBVIOUS
      <4>2. i \in 1..Len(fifo) BY <4>1, <2>1, <2>2
      <4>2a. fifo'[i] = fifo[i] BY <4>2, <2>1
      <4>3. CASE i = Len(fifo)
        BY <4>2a, <4>3, <2>1, <3>2, <3>5
      <4>4. CASE i < Len(fifo)
        <5>1. i + 1 \in 1..Len(fifo) BY <4>4, <2>2
        <5>2. QED BY <4>2, <4>2a, <4>4, <5>1, <2>1, <3>6
      <4>5. QED BY <4>2, <4>3, <4>4, <2>2
    <3>8. fifo'[1] = fifo[1] BY <2>1, <3>3
    <3>9. QED BY <1>0, <2>1, <2>2, <2>3, <2>4, <3>1, <3>2, <3>5, <3>7, <3>8
              DEF QueueWellFormed
  <2>8. QED BY <2>6, <2>7
<1>4. ASSUME NEW w \in Workers, GetTaskNode(w), queue_len # 0 PROVE QueueWellFormed'
  <2>1. /\ pHead = fifo[1] /\ pHead \in Nodes
        /\ Len(fifo) >= 1 /\ fifo # <<>>
        /\ fifo' \in Seq(Nodes)
        /\ Len(fifo') = Len(fifo) - 1
        /\ \A i \in 1..Len(fifo') : fifo'[i] = fifo[i + 1]
    BY <1>4, TakeEffect
  <2>2. /\ pHead' = pNext[pHead]
        /\ pNext' = [pNext EXCEPT ![pHead] = Null]
        /\ queue_len' = queue_len - 1
        /\ pTail' = IF queue_len' = 0 THEN Null ELSE pTail
    BY <1>4 DEF GetTaskNode
  <2>3. /\ Len(fifo) \in Nat /\ \A i \in 1..Len(fifo) : fifo[i] \in Nodes
        /\ queue_len = Len(fifo)
        /\ pTail = fifo[Len(fifo)] /\ pNext[pTail] = Null
        /\ \A i \in 1..Len(fifo) : i < Len(fifo) => pNext[fifo[i]] = fifo[i+1]
        /\ pNext \in [Nodes -> Nodes \cup {Null}]
    BY <1>0, <2>1, QueuedNodes DEF QueueWellFormed, TypeOK
  <2>4. queue_len' = Len(fifo') BY <2>1, <2>2, <2>3
  <2>5. fifo' = <<>> <=> Len(fifo') = 0 BY <2>1, EmptySeq
  <2>6. fifo' = <<>> => pHead' = Null /\ pTail' = Null
    BY <2>1, <2>2, <2>3, <2>4, <2>5
  <2>7. \A i, j \in 1..Len(fifo) : fifo[i] = fifo[j] => i = j
    BY <1>0 DEF ExclusiveOwnership
  <2>8. \A i \in 1..Len(fifo') :
           /\ i + 1 \in 1..Len(fifo) /\ fifo'[i] = fifo[i + 1]
           /\ fifo[i + 1] # pHead /\ pNext'[fifo'[i]] = pNext[fifo[i + 1]]
    <3>1. SUFFICES ASSUME NEW i \in 1..Len(fifo')
                   PROVE /\ i + 1 \in 1..Len(fifo) /\ fifo'[i] = fifo[i + 1]
                         /\ fifo[i + 1] # pHead /\ pNext'[fifo'[i]] = pNext[fifo[i + 1]]
      OBVIOUS
    <3>2. i + 1 \in 1..Len(fifo) /\ 1 \in 1..Len(fifo) /\ i + 1 # 1 BY <2>1, <2>3
    <3>3. fifo'[i] = fifo[i + 1] BY <2>1
    <3>4. fifo[i + 1] # pHead BY <3>2, <2>1, <2>7
    <3>5. fifo[i + 1] \in Nodes BY <3>2, <2>3
    <3>6. QED BY <3>2, <3>3, <3>4, <3>5, <2>1, <2>2, <2>3
  <2>9. fifo' # <<>> =>
           pHead' = fifo'[1] /\ pTail' = fifo'[Len(fifo')] /\ pNext'[pTail'] = Null
    <3>1. SUFFICES ASSUME fifo' # <<>>
                   PROVE pHead' = fifo'[1] /\ pTail' = fifo'[Len(fifo')] /\ pNext'[pTail'] = Null
      OBVIOUS
    <3>2. 1 \in 1..Len(fifo') /\ Len(fifo') \in 1..Len(fifo')
      BY <3>1, <2>1, <2>3, <2>5
    <3>3. pHead' = fifo'[1] BY <3>2, <2>1, <2>2, <2>3
    <3>4. pTail' = pTail /\ pTail = fifo[Len(fifo)] /\ fifo'[Len(fifo')] = fifo[Len(fifo)]
      BY <3>2, <2>1, <2>2, <2>3, <2>4
    <3>5. QED BY <3>2, <3>3, <3>4, <2>3, <2>8
  <2>10. \A i \in 1..Len(fifo') : i < Len(fifo') => pNext'[fifo'[i]] = fifo'[i+1]
    <3>1. SUFFICES ASSUME NEW i \in 1..Len(fifo'), i < Len(fifo')
                   PROVE  pNext'[fifo'[i]] = fifo'[i+1]
      OBVIOUS
    <3>2. i + 1 \in 1..Len(fifo') /\ i + 1 < Len(fifo) BY <3>1, <2>1, <2>3
    <3>3. QED BY <3>2, <2>3, <2>8
  <2>11. QED BY <2>4, <2>6, <2>9, <2>10 DEF QueueWellFormed
<1>5. ASSUME NEW w \in Workers, GetTaskNode(w), queue_len = 0 PROVE QueueWellFormed'
  BY <1>0, <1>5 DEF GetTaskNode, queueVars, QueueWellFormed
<1>6. ASSUME NEW w \in Workers, UserFuncEnds(w) PROVE QueueWellFormed'
  BY <1>0, <1>6 DEF UserFuncEnds, queueVars, QueueWellFormed
<1>7. QED BY <1>1, <1>2, <1>3, <1>4, <1>5, <1>6, StepCases

\* Connection numbers in use stay within those given out.
LEMMA StepNumbering ==
    ASSUME IInv, Next
    PROVE  Numbering'
<1>0. TypeOK /\ Numbering BY DEF IInv
<1>1. CASE Quiet
  BY <1>0, <1>1, QuietKeeps DEF Numbering
<1>2. CASE Accept
  <2>1. PICK n \in Nodes \ heap :
           heap' = heap \cup {n} /\ user_cfd' = [user_cfd EXCEPT ![n] = conns + 1]
    BY <1>2 DEF Accept
  <2>2. conns' = conns + 1 /\ conns \in Nat BY <1>0, <1>2 DEF Accept, TypeOK
  <2>3. \A m \in heap : user_cfd'[m] = user_cfd[m]
    BY <1>0, <2>1 DEF TypeOK
  <2>4. user_cfd'[n] = conns + 1 BY <1>0, <2>1 DEF TypeOK
  <2>5. QED BY <1>0, <2>1, <2>2, <2>3, <2>4 DEF Numbering
<1>3. CASE InsertTaskQueue
  BY <1>0, <1>3 DEF Numbering, InsertTaskQueue, taskVars
<1>4. ASSUME NEW w \in Workers, GetTaskNode(w) PROVE Numbering'
  BY <1>0, <1>4 DEF Numbering, GetTaskNode, taskVars
<1>5. ASSUME NEW w \in Workers, UserFuncEnds(w) PROVE Numbering'
  BY <1>0, <1>5 DEF Numbering, UserFuncEnds
<1>6. QED BY <1>1, <1>2, <1>3, <1>4, <1>5, StepCases

\* A task is queued behind a sleeping worker only until main's broadcast.
LEMMA StepNoLostWakeup ==
    ASSUME IInv, Next
    PROVE  NoLostWakeup'
<1>0. TypeOK /\ NoLostWakeup BY DEF IInv
<1>1. CASE Quiet
  <2>1. queue_len' = queue_len BY <1>1, QuietKeeps
  <2>2. CASE MainBroadcast \/ ExitBroadcast
    BY <2>2 DEF MainBroadcast, ExitBroadcast, Broadcast, NoLostWakeup
  <2>3. CASE AcceptError \/ MainLock \/ MainUnlock \/ ExitSignal \/ ExitLock
               \/ SetExitFlag \/ ExitUnlock \/ Join \/ SignalExit
    BY <1>0, <2>1, <2>3
    DEF AcceptError, MainLock, MainUnlock, ExitSignal, ExitLock, SetExitFlag,
        ExitUnlock, Join, SignalExit, NoLostWakeup
  <2>4. ASSUME NEW w \in Workers, CheckQueue(w) PROVE NoLostWakeup'
    <3>1. queue_len # 0 => wpc' = [wpc EXCEPT ![w] = "get"]
      BY <2>4 DEF CheckQueue, Goto
    <3>2. mpc' = mpc BY <2>4 DEF CheckQueue, mainVars
    <3>3. QED BY <1>0, <2>1, <3>1, <3>2 DEF NoLostWakeup, TypeOK
  <2>5. ASSUME NEW w \in Workers,
               \/ WorkerLock(w) \/ SpuriousWake(w) \/ Relock(w)
               \/ WorkerUnlock(w) \/ UserFuncBegins(w) \/ ReadExitFlag(w)
        PROVE  NoLostWakeup'
    <3>1. \E pc \in WorkerPCs \ {"asleep"} : wpc' = [wpc EXCEPT ![w] = pc]
      BY <2>5 DEF WorkerLock, SpuriousWake, Relock, WorkerUnlock, UserFuncBegins,
                  ReadExitFlag, Goto, WorkerPCs
    <3>2. mpc' = mpc
      BY <2>5 DEF WorkerLock, SpuriousWake, Relock, WorkerUnlock, UserFuncBegins,
                  ReadExitFlag, mainVars
    <3>3. QED BY <1>0, <2>1, <3>1, <3>2 DEF NoLostWakeup, TypeOK
  <2>6. QED BY <1>1, <2>2, <2>3, <2>4, <2>5 DEF Quiet
<1>2. CASE Accept
  BY <1>0, <1>2 DEF Accept, NoLostWakeup
<1>3. CASE InsertTaskQueue
  BY <1>3 DEF InsertTaskQueue, NoLostWakeup
<1>4. ASSUME NEW w \in Workers, GetTaskNode(w) PROVE NoLostWakeup'
  <2>1. queue_len' > 0 => queue_len > 0
    BY <1>0, <1>4 DEF GetTaskNode, TypeOK, queueVars
  <2>2. wpc' = [wpc EXCEPT ![w] = "unlock"] /\ mpc' = mpc
    BY <1>4 DEF GetTaskNode, Goto, mainVars
  <2>3. QED BY <1>0, <2>1, <2>2 DEF NoLostWakeup, TypeOK
<1>5. ASSUME NEW w \in Workers, UserFuncEnds(w) PROVE NoLostWakeup'
  <2>1. queue_len' = queue_len /\ wpc' = [wpc EXCEPT ![w] = "flag"] /\ mpc' = mpc
    BY <1>5 DEF UserFuncEnds, Goto, mainVars, queueVars
  <2>2. QED BY <1>0, <2>1 DEF NoLostWakeup, TypeOK
<1>6. QED BY <1>1, <1>2, <1>3, <1>4, <1>5, StepCases

\* Who holds which node follows the program counters.
LEMMA StepLocals ==
    ASSUME IInv, Next
    PROVE  Locals'
<1>0. TypeOK /\ Locals /\ Locking /\ ExclusiveOwnership BY DEF IInv
<1> DEFINE OfMain ==
      /\ mpc \in {"lock", "insert"} =>
            mTask # Null /\ user_cfd[mTask] = conns /\ pNext[mTask] = Null
      /\ mpc \in {"broadcast", "unlock"} => mTask \in Queued
      /\ mTask # Null => mpc \in {"lock", "insert", "broadcast", "unlock", "dead"}
<1> DEFINE OfWorker(w) ==
      /\ pTask[w] # Null => wpc[w] \in {"unlock", "start", "session"}
      /\ wpc[w] \in {"start", "session"} => pTask[w] # Null
      /\ wpc[w] = "unlock" => (pTask[w] # Null <=> get_success[w] = 1)
<1>a. OfMain /\ \A w \in Workers : OfWorker(w) BY <1>0 DEF Locals
<1>b. ASSUME OfMain', \A w \in Workers : OfWorker(w)' PROVE Locals'
  BY <1>b DEF Locals
<1>1. CASE Quiet
  <2>1. UNCHANGED <<pNext, user_cfd, conns, pTask>> /\ Queued' = Queued
    BY <1>1, QuietKeeps
  <2>2. CASE \/ AcceptError \/ MainLock \/ MainUnlock \/ ExitSignal \/ ExitLock
             \/ SetExitFlag \/ ExitUnlock \/ Join \/ SignalExit
    <3>1. wpc' = wpc /\ get_success' = get_success
      BY <2>2 DEF AcceptError, MainLock, MainUnlock, ExitSignal, ExitLock, SetExitFlag,
                  ExitUnlock, Join, SignalExit, localVars
    <3>2. OfMain'
      BY <1>a, <2>1, <2>2
      DEF AcceptError, MainLock, MainUnlock, ExitSignal, ExitLock, SetExitFlag,
          ExitUnlock, Join, SignalExit
    <3>3. QED BY <1>a, <1>b, <2>1, <3>1, <3>2
  <2>3. CASE MainBroadcast \/ ExitBroadcast
    <3>1. \A w \in Workers : /\ wpc'[w] = wpc[w] \/ (wpc[w] = "asleep" /\ wpc'[w] = "woken")
                             /\ get_success'[w] = get_success[w]
      BY <2>3 DEF MainBroadcast, ExitBroadcast, Broadcast, localVars
    <3>2. OfMain'
      BY <1>a, <2>1, <2>3 DEF MainBroadcast, ExitBroadcast
    <3>3. \A w \in Workers : OfWorker(w)'
      BY <1>a, <2>1, <3>1
    <3>4. QED BY <1>b, <3>2, <3>3
  <2>4. ASSUME NEW v \in Workers,
               \/ WorkerLock(v) \/ CheckQueue(v) \/ SpuriousWake(v) \/ Relock(v)
               \/ WorkerUnlock(v) \/ UserFuncBegins(v) \/ ReadExitFlag(v)
        PROVE  Locals'
    <3>1. UNCHANGED <<mpc, mTask, get_success>>
      BY <2>4 DEF WorkerLock, CheckQueue, SpuriousWake, Relock, WorkerUnlock,
                  UserFuncBegins, ReadExitFlag, mainVars, localVars
    <3>2. OfMain' BY <1>a, <2>1, <3>1
    <3>3. \/ /\ wpc[v] \in {"lock", "check", "asleep", "woken", "flag"}
             /\ \E pc \in {"check", "asleep", "get", "woken", "over", "lock"} :
                   wpc' = [wpc EXCEPT ![v] = pc]
          \/ /\ wpc[v] = "unlock"
             /\ wpc' = [wpc EXCEPT ![v] = IF get_success[v] = 1 THEN "start" ELSE "flag"]
          \/ wpc[v] = "start" /\ wpc' = [wpc EXCEPT ![v] = "session"]
      BY <2>4 DEF WorkerLock, CheckQueue, SpuriousWake, Relock, WorkerUnlock,
                  UserFuncBegins, ReadExitFlag, Goto
    <3>4. \A w \in Workers : OfWorker(w)'
      BY <1>0, <1>a, <2>1, <3>1, <3>3 DEF TypeOK
    <3>5. QED BY <1>b, <3>2, <3>4
  <2>5. QED BY <1>1, <2>2, <2>3, <2>4 DEF Quiet
<1>2. CASE Accept
  <2>1. PICK n \in Nodes \ heap :
           /\ mTask' = n /\ pNext' = [pNext EXCEPT ![n] = Null]
           /\ user_cfd' = [user_cfd EXCEPT ![n] = conns + 1]
    BY <1>2 DEF Accept
  <2>2. mpc' = "lock" /\ conns' = conns + 1 /\ UNCHANGED <<wpc, pTask, get_success>>
    BY <1>2 DEF Accept, localVars
  <2>3. n # Null BY NullAssumption
  <2>4. OfMain' BY <1>0, <2>1, <2>2, <2>3 DEF TypeOK
  <2>5. QED BY <1>a, <1>b, <2>2, <2>4
<1>3. CASE InsertTaskQueue
  <2>1. mTask \in Queued' BY <1>3, InsertEffect
  <2>2. mpc' = "broadcast" /\ UNCHANGED <<mTask, wpc, pTask, get_success>>
    BY <1>3 DEF InsertTaskQueue, localVars
  <2>3. OfMain' BY <2>1, <2>2
  <2>4. QED BY <1>a, <1>b, <2>2, <2>3
<1>4. ASSUME NEW v \in Workers, GetTaskNode(v) PROVE Locals'
  <2>1. wpc[v] = "get" /\ mutex = v /\ mpc \notin {"insert", "broadcast", "unlock"}
    BY <1>0, <1>4, MainAssumption DEF GetTaskNode, Locking
  <2>2. UNCHANGED <<mpc, mTask, user_cfd, conns>> /\ wpc' = [wpc EXCEPT ![v] = "unlock"]
    BY <1>4 DEF GetTaskNode, mainVars, taskVars, Goto
  <2>3. CASE queue_len # 0
    <3>1. pHead \in Nodes /\ pHead # Null /\ pTask' = [pTask EXCEPT ![v] = pHead]
      BY <1>4, <2>3, TakeEffect
    <3>2. /\ pNext' = [pNext EXCEPT ![pHead] = Null]
          /\ get_success' = [get_success EXCEPT ![v] = 1]
      BY <1>4, <2>3 DEF GetTaskNode
    <3>3. OfMain' BY <1>0, <1>a, <2>1, <2>2, <3>1, <3>2 DEF TypeOK
    <3>4. \A w \in Workers : OfWorker(w)'
      BY <1>0, <1>a, <2>1, <2>2, <3>1, <3>2 DEF TypeOK
    <3>5. QED BY <1>b, <3>3, <3>4
  <2>4. CASE queue_len = 0
    <3>1. /\ UNCHANGED <<pTask, pNext, fifo>>
          /\ get_success' = [get_success EXCEPT ![v] = 0]
      BY <1>4, <2>4 DEF GetTaskNode, queueVars
    <3>2. OfMain' BY <1>a, <2>2, <3>1 DEF Queued
    <3>3. \A w \in Workers : OfWorker(w)'
      BY <1>0, <1>a, <2>1, <2>2, <3>1 DEF TypeOK
    <3>4. QED BY <1>b, <3>2, <3>3
  <2>5. QED BY <2>3, <2>4
<1>5. ASSUME NEW v \in Workers, UserFuncEnds(v) PROVE Locals'
  <2>1. /\ UNCHANGED <<mpc, mTask, user_cfd, conns, pNext, fifo, get_success>>
        /\ wpc' = [wpc EXCEPT ![v] = "flag"] /\ pTask' = [pTask EXCEPT ![v] = Null]
    BY <1>5 DEF UserFuncEnds, mainVars, queueVars, Goto
  <2>2. OfMain' BY <1>a, <2>1 DEF Queued
  <2>3. \A w \in Workers : OfWorker(w)' BY <1>0, <1>a, <2>1 DEF TypeOK
  <2>4. QED BY <1>b, <2>2, <2>3
<1>6. QED BY <1>1, <1>2, <1>3, <1>4, <1>5, StepCases

\* A node keeps a single owner, and stays allocated while it has one.
LEMMA StepExclusiveOwnership ==
    ASSUME IInv, Next
    PROVE  ExclusiveOwnership'
<1>0. TypeOK /\ ExclusiveOwnership /\ Locals /\ Locking /\ Numbering BY DEF IInv
<1>1. CASE Quiet
  <2>1. UNCHANGED <<fifo, heap, user_cfd, pTask>> /\ Queued' = Queued
    BY <1>1, QuietKeeps
  <2>2. mpc' \in {"lock", "insert"} => mpc \in {"lock", "insert"}
    BY <1>1
    DEF Quiet, AcceptError, MainLock, MainBroadcast, MainUnlock, ExitSignal,
        ExitLock, SetExitFlag, ExitUnlock, ExitBroadcast, Join, SignalExit,
        WorkerLock, CheckQueue, SpuriousWake, Relock, WorkerUnlock,
        UserFuncBegins, ReadExitFlag, mainVars
  <2>3. mTask' = mTask \/ mTask' = Null
    BY <1>1
    DEF Quiet, AcceptError, MainLock, MainBroadcast, MainUnlock, ExitSignal,
        ExitLock, SetExitFlag, ExitUnlock, ExitBroadcast, Join, SignalExit,
        WorkerLock, CheckQueue, SpuriousWake, Relock, WorkerUnlock,
        UserFuncBegins, ReadExitFlag, mainVars
  <2>4. mpc' \in {"lock", "insert"} => mTask' = mTask
    BY <1>1
    DEF Quiet, AcceptError, MainLock, MainBroadcast, MainUnlock, ExitSignal,
        ExitLock, SetExitFlag, ExitUnlock, ExitBroadcast, Join, SignalExit,
        WorkerLock, CheckQueue, SpuriousWake, Relock, WorkerUnlock,
        UserFuncBegins, ReadExitFlag, mainVars
  <2>5. QED BY <1>0, <2>1, <2>2, <2>3, <2>4 DEF ExclusiveOwnership
<1>2. CASE Accept
  <2>1. PICK n \in Nodes \ heap :
           /\ heap' = heap \cup {n} /\ mTask' = n
           /\ user_cfd' = [user_cfd EXCEPT ![n] = conns + 1]
    BY <1>2 DEF Accept
  <2>2. UNCHANGED <<fifo, pTask>> /\ Queued' = Queued
    BY <1>2 DEF Accept, localVars, Queued
  <2>3. n \notin Queued BY <1>0 DEF ExclusiveOwnership
  <2>4. \A w \in Workers : pTask[w] # Null => pTask[w] # n
    BY <1>0 DEF ExclusiveOwnership
  <2>5. conns \in Nat /\ user_cfd'[n] = conns + 1 BY <1>0, <2>1 DEF TypeOK
  <2>6. \A m \in heap : user_cfd'[m] = user_cfd[m] /\ user_cfd'[m] # user_cfd'[n]
    BY <1>0, <2>1, <2>5 DEF TypeOK, Numbering
  <2>7. \A k, m \in heap' : user_cfd'[k] = user_cfd'[m] => k = m
    BY <1>0, <2>1, <2>6 DEF ExclusiveOwnership
  <2>8. QED BY <1>0, <2>1, <2>2, <2>3, <2>4, <2>7 DEF ExclusiveOwnership
<1>3. CASE InsertTaskQueue
  <2>1. /\ mTask \in Nodes /\ mTask \notin Queued
        /\ Len(fifo') = Len(fifo) + 1
        /\ \A i \in 1..Len(fifo) : fifo'[i] = fifo[i]
        /\ fifo'[Len(fifo) + 1] = mTask
        /\ Queued' = Queued \cup {mTask}
    BY <1>3, InsertEffect
  <2>2. /\ Len(fifo) \in Nat
        /\ \A i \in 1..Len(fifo) : fifo[i] \in Queued
    BY <1>0, QueuedNodes
  <2>3. \A i, j \in 1..Len(fifo') : fifo'[i] = fifo'[j] => i = j
    <3>1. SUFFICES ASSUME NEW i \in 1..Len(fifo'), NEW j \in 1..Len(fifo'),
                          fifo'[i] = fifo'[j]
                   PROVE  i = j
      OBVIOUS
    <3>2. \A k \in 1..Len(fifo') : k \in 1..Len(fifo) \/ k = Len(fifo) + 1
      BY <2>1, <2>2
    <3>3. CASE i \in 1..Len(fifo) /\ j \in 1..Len(fifo)
      BY <1>0, <2>1, <3>1, <3>3 DEF ExclusiveOwnership
    <3>4. QED BY <2>1, <2>2, <3>1, <3>2, <3>3
  <2>4. mpc = "insert" /\ mpc' = "broadcast" /\ UNCHANGED <<heap, user_cfd, mTask, pTask>>
    BY <1>3 DEF InsertTaskQueue, taskVars, localVars
  <2>5. mTask \in heap BY <1>0, <2>4 DEF ExclusiveOwnership
  <2>6. QED BY <1>0, <2>1, <2>3, <2>4, <2>5 DEF ExclusiveOwnership
<1>4. ASSUME NEW v \in Workers, GetTaskNode(v), queue_len # 0 PROVE ExclusiveOwnership'
  <2>1. /\ pHead \in Queued /\ pHead \in Nodes
        /\ Len(fifo') = Len(fifo) - 1
        /\ \A i \in 1..Len(fifo') : fifo'[i] = fifo[i + 1]
        /\ Queued' = Queued \ {pHead}
        /\ pTask' = [pTask EXCEPT ![v] = pHead]
    BY <1>4, TakeEffect
  <2>2. Len(fifo) \in Nat BY <1>0, QueuedNodes
  <2>3. \A i, j \in 1..Len(fifo') : fifo'[i] = fifo'[j] => i = j
    <3>1. SUFFICES ASSUME NEW i \in 1..Len(fifo'), NEW j \in 1..Len(fifo'),
                          fifo'[i] = fifo'[j]
                   PROVE  i = j
      OBVIOUS
    <3>2. i + 1 \in 1..Len(fifo) /\ j + 1 \in 1..Len(fifo) BY <2>1, <2>2
    <3>3. fifo[i + 1] = fifo[j + 1] BY <2>1, <3>1
    <3>4. i + 1 = j + 1 BY <1>0, <3>2, <3>3 DEF ExclusiveOwnership
    <3>5. QED BY <3>4
  <2>4. UNCHANGED <<mpc, mTask, heap, user_cfd>>
    BY <1>4 DEF GetTaskNode, mainVars, taskVars
  <2>5. mpc \notin {"insert", "broadcast", "unlock", "dead"}
    BY <1>0, <1>4, MainAssumption DEF GetTaskNode, Locking, Alive
  <2>6. pHead # mTask
    <3>1. CASE mTask = Null BY <2>1, <3>1, NullAssumption
    <3>2. CASE mTask # Null
      BY <1>0, <2>1, <2>5, <3>2 DEF Locals, ExclusiveOwnership
    <3>3. QED BY <3>1, <3>2
  <2>7. \A w \in Workers : w # v => pTask'[w] = pTask[w] /\ pTask[w] # pHead
    <3>1. SUFFICES ASSUME NEW w \in Workers, w # v
                   PROVE  pTask'[w] = pTask[w] /\ pTask[w] # pHead
      OBVIOUS
    <3>2. pTask'[w] = pTask[w] BY <1>0, <2>1, <3>1 DEF TypeOK
    <3>3. pHead # Null BY <2>1, NullAssumption
    <3>4. QED BY <1>0, <2>1, <3>2, <3>3 DEF ExclusiveOwnership
  <2>8. pTask'[v] = pHead BY <1>0, <2>1 DEF TypeOK
  <2>9. ASSUME NEW w \in Workers, pTask'[w] # Null
        PROVE  /\ pTask'[w] \in heap' \ Queued'
               /\ pTask'[w] # mTask'
               /\ \A u \in Workers : pTask'[u] = pTask'[w] => u = w
    <3>1. CASE w = v
      BY <1>0, <2>1, <2>4, <2>6, <2>7, <2>8, <3>1 DEF ExclusiveOwnership
    <3>2. CASE w # v
      BY <1>0, <2>1, <2>4, <2>7, <2>8, <2>9, <3>2 DEF ExclusiveOwnership
    <3>3. QED BY <3>1, <3>2
  <2>10. QED BY <1>0, <2>1, <2>3, <2>4, <2>9 DEF ExclusiveOwnership
<1>5. ASSUME NEW v \in Workers, GetTaskNode(v), queue_len = 0 PROVE ExclusiveOwnership'
  <2>1. UNCHANGED <<mpc, mTask, heap, user_cfd, fifo, pTask>> /\ Queued' = Queued
    BY <1>5 DEF GetTaskNode, mainVars, taskVars, queueVars, Queued
  <2>2. QED BY <1>0, <2>1 DEF ExclusiveOwnership
<1>6. ASSUME NEW v \in Workers, UserFuncEnds(v) PROVE ExclusiveOwnership'
  <2>1. /\ UNCHANGED <<mpc, mTask, user_cfd, fifo>> /\ Queued' = Queued
        /\ heap' = heap \ {pTask[v]} /\ pTask' = [pTask EXCEPT ![v] = Null]
        /\ wpc[v] = "session"
    BY <1>6 DEF UserFuncEnds, mainVars, queueVars, Queued
  <2>2. pTask[v] # Null BY <1>0, <2>1 DEF Locals
  <2>3. /\ pTask[v] \notin Queued /\ pTask[v] # mTask
        /\ \A u \in Workers : pTask[u] = pTask[v] => u = v
    BY <1>0, <2>2 DEF ExclusiveOwnership
  <2>4. \A w \in Workers : pTask'[w] # Null => w # v /\ pTask'[w] = pTask[w]
    BY <1>0, <2>1 DEF TypeOK
  <2>5. ASSUME NEW w \in Workers, pTask'[w] # Null
        PROVE  /\ pTask'[w] \in heap' \ Queued'
               /\ pTask'[w] # mTask'
               /\ \A u \in Workers : pTask'[u] = pTask'[w] => u = w
    BY <1>0, <2>1, <2>3, <2>4, <2>5 DEF ExclusiveOwnership
  <2>6. QED BY <1>0, <2>1, <2>3, <2>5 DEF ExclusiveOwnership
<1>7. QED BY <1>1, <1>2, <1>3, <1>4, <1>5, <1>6, StepCases

-----------------------------------------------------------------------------
(***************************************************************************)
(* The results.                                                            *)
(***************************************************************************)
LEMMA InitIInv ==
    ASSUME Init
    PROVE  IInv
<1>1. TypeOK BY EmptySeq DEF Init, TypeOK, MainPCs, WorkerPCs
<1>2. fifo = <<>> /\ Len(fifo) = 0 /\ 1..Len(fifo) = {} /\ Queued = {}
  BY EmptySeq DEF Init, Queued
<1>3. QueueWellFormed BY <1>2 DEF Init, QueueWellFormed
<1>4. ExclusiveOwnership BY <1>2 DEF Init, ExclusiveOwnership
<1>5. Locking /\ Locals /\ Numbering /\ NoLostWakeup
  BY DEF Init, Locking, Locals, Numbering, NoLostWakeup
<1>6. QED BY <1>1, <1>3, <1>4, <1>5 DEF IInv

LEMMA StepIInv ==
    ASSUME IInv, [Next]_vars
    PROVE  IInv'
<1>1. CASE Next
  BY <1>1, StepTypeOK, StepLocking, StepLocals, StepNumbering, StepQueueWellFormed,
     StepExclusiveOwnership, StepNoLostWakeup DEF IInv
<1>2. CASE UNCHANGED vars
  BY <1>2 DEF vars, queueVars, taskVars, mainVars, localVars, IInv, TypeOK, Locking,
              Locals, Numbering, QueueWellFormed, ExclusiveOwnership, NoLostWakeup, Queued
<1>3. QED BY <1>1, <1>2

\* The inductive invariant: what every reachable state of the pool satisfies.
THEOREM Inductive == Spec => []IInv
<1>1. Init => IInv BY InitIInv
<1>2. IInv /\ [Next]_vars => IInv' BY StepIInv
<1>3. QED BY <1>1, <1>2, PTL DEF Spec

\* Every variable keeps its C type, for any pool.
THEOREM TypeCorrect == Spec => []TypeOK
<1>1. IInv => TypeOK BY DEF IInv
<1>2. QED BY <1>1, Inductive, PTL

\* The linked list of TaskQueue.c never loses, repeats or reorders a node.
THEOREM ListCorrect == Spec => []QueueWellFormed
<1>1. IInv => QueueWellFormed BY DEF IInv
<1>2. QED BY <1>1, Inductive, PTL

\* No task node has two owners or is used after it is freed.
THEOREM SingleOwner == Spec => []ExclusiveOwnership
<1>1. IInv => ExclusiveOwnership BY DEF IInv
<1>2. QED BY <1>1, Inductive, PTL

\* No worker sleeps through a queued task.
THEOREM NoSleeperLeft == Spec => []NoLostWakeup
<1>1. IInv => NoLostWakeup BY DEF IInv
<1>2. QED BY <1>1, Inductive, PTL

-----------------------------------------------------------------------------
(***************************************************************************)
(* The pool implements Dispatch.  Under the mapping of D, InsertTaskQueue  *)
(* is Arrive, GetTaskNode of a list that is not empty is Hand,             *)
(* UserFuncEnds is Finish, and every other step is a stutter.              *)
(***************************************************************************)
Accepted == IF Holding THEN conns - 1 ELSE conns
Waiting  == [i \in 1..Len(fifo) |-> user_cfd[fifo[i]]]
Serving  == [w \in Workers |-> IF pTask[w] = Null THEN 0 ELSE user_cfd[pTask[w]]]

\* The connections of a sequence of nodes are a sequence of numbers as long.
LEMMA ConnectionSeq ==
    ASSUME NEW f \in Seq(Nodes), NEW cfd \in [Nodes -> Nat],
           NEW conn, conn = [i \in 1..Len(f) |-> cfd[f[i]]]
    PROVE  conn \in Seq(Nat) /\ Len(conn) = Len(f)
<1>1. Len(f) \in Nat /\ \A i \in 1..Len(f) : f[i] \in Nodes
  BY LenProperties, ElementOfSeq
<1>2. conn \in [1..Len(f) -> Nat] BY <1>1
<1>3. conn \in Seq(Nat) BY <1>1, <1>2, SeqDef
<1>4. Len(conn) \in Nat /\ DOMAIN conn = 1..Len(conn) /\ DOMAIN conn = 1..Len(f)
  BY <1>2, <1>3, LenProperties
<1>5. QED BY <1>1, <1>3, <1>4

\* Waiting is such a sequence, in every state and in the next one.
LEMMA WaitingSeq ==
    ASSUME IInv
    PROVE  /\ Waiting \in Seq(Nat) /\ Len(Waiting) = Len(fifo)
           /\ \A i \in 1..Len(fifo) : Waiting[i] = user_cfd[fifo[i]]
<1>1. fifo \in Seq(Nodes) /\ user_cfd \in [Nodes -> Nat] BY DEF IInv, TypeOK
<1>2. QED BY <1>1, ConnectionSeq DEF Waiting

LEMMA WaitingSeqNext ==
    ASSUME IInv, Next
    PROVE  /\ Waiting' \in Seq(Nat) /\ Len(Waiting') = Len(fifo')
           /\ \A i \in 1..Len(fifo') : Waiting'[i] = user_cfd'[fifo'[i]]
<1>1. fifo' \in Seq(Nodes) /\ user_cfd' \in [Nodes -> Nat]
  BY StepTypeOK DEF TypeOK
<1>2. QED BY <1>1, ConnectionSeq DEF Waiting

\* A step that keeps what is in the list, the connections of allocated nodes and
\* the workers' nodes keeps what Dispatch sees of them.
LEMMA SameView ==
    ASSUME IInv, fifo' = fifo, pTask' = pTask,
           \A n \in heap : user_cfd'[n] = user_cfd[n]
    PROVE  Waiting' = Waiting /\ Serving' = Serving
<1>1. \A i \in 1..Len(fifo) : fifo[i] \in heap
  BY QueuedNodes DEF IInv, ExclusiveOwnership
<1>2. \A w \in Workers : pTask[w] # Null => pTask[w] \in heap
  BY DEF IInv, ExclusiveOwnership
<1>3. QED BY <1>1, <1>2 DEF Waiting, Serving

LEMMA InsertIsArrive ==
    ASSUME IInv, InsertTaskQueue
    PROVE  /\ Accepted' = Accepted + 1
           /\ Waiting' = Append(Waiting, Accepted + 1)
           /\ Serving' = Serving
<1>1. /\ mTask \in Nodes /\ mTask \notin Queued /\ mTask # Null
      /\ fifo' \in Seq(Nodes)
      /\ Len(fifo') = Len(fifo) + 1
      /\ \A i \in 1..Len(fifo) : fifo'[i] = fifo[i]
      /\ fifo'[Len(fifo) + 1] = mTask
      /\ Queued' = Queued \cup {mTask}
  BY InsertEffect
<1>2. UNCHANGED <<mTask, user_cfd, conns, pTask>>
  BY DEF InsertTaskQueue, taskVars, localVars
<1>3. user_cfd[mTask] = conns /\ conns \in Nat
  BY DEF IInv, Locals, InsertTaskQueue, TypeOK
<1>4. Accepted = conns - 1 /\ Accepted' = conns
  BY <1>1, <1>2 DEF Accepted, Holding
<1>5. Accepted + 1 = conns BY <1>3, <1>4
<1>6. Next /\ Len(fifo) \in Nat
  BY QueuedNodes DEF IInv, Next, MainStep
<1>7. /\ Waiting \in Seq(Nat) /\ Len(Waiting) = Len(fifo)
      /\ \A i \in 1..Len(fifo) : Waiting[i] = user_cfd[fifo[i]]
  BY WaitingSeq
<1>8. /\ Waiting' \in Seq(Nat) /\ Len(Waiting') = Len(fifo) + 1
      /\ \A i \in 1..Len(fifo) + 1 : Waiting'[i] = user_cfd[fifo'[i]]
  <2>1. /\ Waiting' \in Seq(Nat) /\ Len(Waiting') = Len(fifo')
        /\ \A i \in 1..Len(fifo') : Waiting'[i] = user_cfd'[fifo'[i]]
    BY <1>6, WaitingSeqNext
  <2>2. QED BY <2>1, <1>1, <1>2
<1>9. /\ Append(Waiting, conns) \in Seq(Nat)
      /\ Len(Append(Waiting, conns)) = Len(fifo) + 1
      /\ \A i \in 1..Len(fifo) : Append(Waiting, conns)[i] = Waiting[i]
      /\ Append(Waiting, conns)[Len(fifo) + 1] = conns
  BY <1>3, <1>7, AppendProperties
<1>10. \A i \in 1..Len(fifo) + 1 : i \in 1..Len(fifo) \/ i = Len(fifo) + 1
  BY <1>6
<1>11. \A i \in 1..Len(fifo) + 1 : Waiting'[i] = Append(Waiting, conns)[i]
  BY <1>1, <1>3, <1>7, <1>8, <1>9, <1>10
<1>12. Waiting' = Append(Waiting, conns) BY <1>8, <1>9, <1>11, SeqEqual
<1>13. Serving' = Serving BY <1>2 DEF Serving
<1>14. QED BY <1>4, <1>5, <1>12, <1>13

LEMMA TakeIsHand ==
    ASSUME IInv, NEW w \in Workers, GetTaskNode(w), queue_len # 0
    PROVE  /\ Serving[w] = 0 /\ Waiting # <<>>
           /\ Serving' = [Serving EXCEPT ![w] = Head(Waiting)]
           /\ Waiting' = Tail(Waiting)
           /\ Accepted' = Accepted
<1>1. /\ pHead = fifo[1] /\ pHead \in Queued /\ pHead \in Nodes /\ pHead # Null
      /\ Len(fifo) >= 1 /\ fifo' = Tail(fifo)
      /\ Len(fifo') = Len(fifo) - 1
      /\ \A i \in 1..Len(fifo') : fifo'[i] = fifo[i + 1]
      /\ Queued' = Queued \ {pHead}
      /\ pTask' = [pTask EXCEPT ![w] = pHead]
  BY TakeEffect
<1>2. UNCHANGED <<mpc, mTask, user_cfd, conns>>
  BY DEF GetTaskNode, mainVars, taskVars
<1>3. TypeOK /\ Next /\ Len(fifo) \in Nat
  BY QueuedNodes DEF IInv, Next, WorkerStep
<1>4. /\ Waiting \in Seq(Nat) /\ Len(Waiting) = Len(fifo)
      /\ \A i \in 1..Len(fifo) : Waiting[i] = user_cfd[fifo[i]]
  BY WaitingSeq
<1>5. /\ Waiting' \in Seq(Nat) /\ Len(Waiting') = Len(fifo')
      /\ \A i \in 1..Len(fifo') : Waiting'[i] = user_cfd'[fifo'[i]]
  BY <1>3, WaitingSeqNext
<1>6. Waiting # <<>> BY <1>1, <1>4, EmptySeq
<1>7. /\ Tail(Waiting) \in Seq(Nat) /\ Len(Tail(Waiting)) = Len(fifo')
      /\ \A i \in 1..Len(fifo') : Tail(Waiting)[i] = Waiting[i + 1]
  BY <1>1, <1>4, <1>6, HeadTailProperties
<1>8. \A i \in 1..Len(fifo') : Waiting'[i] = Tail(Waiting)[i]
  <2>1. SUFFICES ASSUME NEW i \in 1..Len(fifo') PROVE Waiting'[i] = Tail(Waiting)[i]
    OBVIOUS
  <2>2. i + 1 \in 1..Len(fifo) BY <1>1, <1>3
  <2>3. Tail(Waiting)[i] = user_cfd[fifo[i + 1]] BY <2>2, <1>4, <1>7
  <2>4. Waiting'[i] = user_cfd[fifo'[i]] BY <1>2, <1>5
  <2>5. QED BY <2>3, <2>4, <1>1
<1>9. Waiting' = Tail(Waiting) BY <1>5, <1>7, <1>8, SeqEqual
<1>10. pTask[w] = Null BY DEF IInv, Locals, GetTaskNode
<1>11. Serving[w] = 0 BY <1>10 DEF Serving
<1>12. Head(Waiting) = user_cfd[pHead]
  <2>1. 1 \in 1..Len(fifo) BY <1>1, <1>3
  <2>2. Waiting[1] = user_cfd[pHead] BY <2>1, <1>1, <1>4
  <2>3. QED BY <2>2
<1>13. Serving' = [Serving EXCEPT ![w] = Head(Waiting)]
  BY <1>1, <1>2, <1>3, <1>12 DEF Serving, TypeOK
<1>14. Accepted' = Accepted
  <2>1. pHead # mTask
    <3>1. ExclusiveOwnership' BY StepExclusiveOwnership DEF Next, WorkerStep
    <3>2. pTask'[w] = pHead BY <1>1, <1>3 DEF TypeOK
    <3>3. QED BY <3>1, <3>2, <1>1, <1>2 DEF ExclusiveOwnership
  <2>2. QED BY <2>1, <1>1, <1>2 DEF Accepted, Holding
<1>15. QED BY <1>6, <1>9, <1>11, <1>13, <1>14

LEMMA EndIsFinish ==
    ASSUME IInv, NEW w \in Workers, UserFuncEnds(w)
    PROVE  /\ Serving[w] # 0
           /\ Serving' = [Serving EXCEPT ![w] = 0]
           /\ Accepted' = Accepted /\ Waiting' = Waiting
<1>1. /\ UNCHANGED <<mTask, user_cfd, conns, fifo>> /\ Queued' = Queued
      /\ pTask' = [pTask EXCEPT ![w] = Null] /\ wpc[w] = "session"
  BY DEF UserFuncEnds, mainVars, queueVars, Queued
<1>2. pTask[w] # Null /\ pTask[w] \in heap
  BY <1>1 DEF IInv, Locals, ExclusiveOwnership
<1>3. user_cfd[pTask[w]] # 0 BY <1>2 DEF IInv, Numbering, TypeOK
<1>4. Serving[w] # 0 BY <1>2, <1>3 DEF Serving
<1>5. Serving' = [Serving EXCEPT ![w] = 0]
  BY <1>1 DEF Serving, IInv, TypeOK
<1>6. Accepted' = Accepted /\ Waiting' = Waiting
  BY <1>1 DEF Accepted, Holding, Waiting
<1>7. QED BY <1>4, <1>5, <1>6

LEMMA AcceptIsStutter ==
    ASSUME IInv, Accept
    PROVE  Accepted' = Accepted /\ Waiting' = Waiting /\ Serving' = Serving
<1>1. PICK n \in Nodes \ heap :
         mTask' = n /\ user_cfd' = [user_cfd EXCEPT ![n] = conns + 1]
  BY DEF Accept
<1>2. UNCHANGED <<fifo, pTask>> /\ Queued' = Queued /\ conns' = conns + 1 /\ conns \in Nat
  BY DEF Accept, localVars, Queued, IInv, TypeOK
<1>3. \A m \in heap : user_cfd'[m] = user_cfd[m] BY <1>1 DEF IInv, TypeOK
<1>4. Waiting' = Waiting /\ Serving' = Serving BY <1>2, <1>3, SameView
<1>5. ~Holding BY DEF Accept, IInv, Locals, Holding
<1>6. Holding'
  BY <1>1, <1>2, NullAssumption DEF Holding, IInv, ExclusiveOwnership
<1>7. Accepted' = Accepted BY <1>2, <1>5, <1>6 DEF Accepted
<1>8. QED BY <1>4, <1>7

LEMMA QuietIsStutter ==
    ASSUME IInv, Quiet
    PROVE  Accepted' = Accepted /\ Waiting' = Waiting /\ Serving' = Serving
<1>1. UNCHANGED <<fifo, user_cfd, conns, pTask>> /\ Queued' = Queued BY QuietKeeps
<1>2. Waiting' = Waiting /\ Serving' = Serving BY <1>1, SameView
<1>3. CASE MainUnlock
  <2>1. mTask \in Queued BY <1>3 DEF MainUnlock, IInv, Locals
  <2>2. mTask' = Null BY <1>3 DEF MainUnlock
  <2>3. ~Holding /\ ~Holding' BY <2>1, <2>2 DEF Holding
  <2>4. QED BY <1>1, <1>2, <2>3 DEF Accepted
<1>4. CASE ~MainUnlock
  <2>1. mTask' = mTask
    BY <1>4 DEF Quiet, AcceptError, MainLock, MainBroadcast, ExitSignal,
         ExitLock, SetExitFlag, ExitUnlock, ExitBroadcast, Join, SignalExit,
         WorkerLock, CheckQueue, SpuriousWake, Relock, WorkerUnlock,
         UserFuncBegins, ReadExitFlag, mainVars
  <2>2. QED BY <1>1, <1>2, <2>1 DEF Accepted, Holding
<1>5. QED BY <1>3, <1>4

\* Each connection reaches exactly one worker, in the order of acceptance.
THEOREM DispatchImplemented == Spec => ImplementsDispatch
<1> USE DEF D!Next, D!Arrive, D!Hand, D!Finish, D!dvars
<1>1. Init => D!Init
  <2>1. SUFFICES ASSUME Init PROVE D!Init OBVIOUS
  <2>2. IInv BY <2>1, InitIInv
  <2>3. Len(fifo) = 0 /\ Len(fifo) \in Nat BY <2>1, EmptySeq DEF Init
  <2>4. Waiting = <<>> BY <2>2, <2>3, WaitingSeq, EmptySeq
  <2>5. Accepted = 0 /\ Serving = [w \in Workers |-> 0]
    BY <2>1 DEF Init, Accepted, Holding, Serving
  <2>6. QED BY <2>4, <2>5 DEF D!Init, Waiting, Accepted, Serving
<1>2. IInv /\ [Next]_vars => [D!Next]_(D!dvars)
  <2>1. SUFFICES ASSUME IInv, [Next]_vars PROVE [D!Next]_(D!dvars) OBVIOUS
  <2>2. ASSUME Accepted' = Accepted, Waiting' = Waiting, Serving' = Serving
        PROVE  [D!Next]_(D!dvars)
    BY <2>2 DEF Accepted, Waiting, Serving
  <2>3. CASE InsertTaskQueue
    BY <2>1, <2>3, InsertIsArrive DEF Accepted, Waiting, Serving
  <2>4. ASSUME NEW w \in Workers, GetTaskNode(w), queue_len # 0
        PROVE  [D!Next]_(D!dvars)
    BY <2>1, <2>4, TakeIsHand DEF Accepted, Waiting, Serving
  <2>5. ASSUME NEW w \in Workers, GetTaskNode(w), queue_len = 0
        PROVE  [D!Next]_(D!dvars)
    <3>1. UNCHANGED <<mTask, conns, user_cfd, fifo, pTask>> /\ Queued' = Queued
      BY <2>5 DEF GetTaskNode, mainVars, taskVars, queueVars, Queued
    <3>2. QED BY <2>2, <3>1 DEF Accepted, Holding, Waiting, Serving
  <2>6. ASSUME NEW w \in Workers, UserFuncEnds(w)
        PROVE  [D!Next]_(D!dvars)
    BY <2>1, <2>6, EndIsFinish DEF Accepted, Waiting, Serving
  <2>7. CASE Accept
    BY <2>1, <2>2, <2>7, AcceptIsStutter
  <2>8. CASE Quiet
    BY <2>1, <2>2, <2>8, QuietIsStutter
  <2>9. CASE UNCHANGED vars
    BY <2>2, <2>9 DEF vars, queueVars, taskVars, mainVars, localVars,
                      Accepted, Holding, Queued, Waiting, Serving
  <2>10. QED BY <2>1, <2>3, <2>4, <2>5, <2>6, <2>7, <2>8, <2>9, StepCases
<1>3. QED BY <1>1, <1>2, Inductive, PTL DEF Spec, D!Spec, ImplementsDispatch
=============================================================================
