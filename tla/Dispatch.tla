------------------------------ MODULE Dispatch ------------------------------
(***************************************************************************)
(* What the thread pool of the disk server promises, without its mutex,    *)
(* condition variable or linked list: every accepted connection is handed  *)
(* to exactly one worker, in the order of acceptance, and a worker serves  *)
(* one connection at a time (README: "a thread corresponds to a user").    *)
(***************************************************************************)
EXTENDS Naturals, Sequences

CONSTANTS Workers   \* the threads of the pool

VARIABLES
    accepted,       \* how many connections were put at the workers' disposal
    waiting,        \* those no worker has taken, oldest first
    serving         \* the connection each worker serves, 0 when it is idle

dvars == <<accepted, waiting, serving>>

Init ==
    /\ accepted = 0
    /\ waiting = <<>>
    /\ serving = [w \in Workers |-> 0]

Arrive ==
    /\ accepted' = accepted + 1
    /\ waiting' = Append(waiting, accepted + 1)
    /\ UNCHANGED serving

Hand(w) ==
    /\ serving[w] = 0
    /\ waiting # <<>>
    /\ serving' = [serving EXCEPT ![w] = Head(waiting)]
    /\ waiting' = Tail(waiting)
    /\ UNCHANGED accepted

Finish(w) ==
    /\ serving[w] # 0
    /\ serving' = [serving EXCEPT ![w] = 0]
    /\ UNCHANGED <<accepted, waiting>>

Next == Arrive \/ \E w \in Workers : Hand(w) \/ Finish(w)

Spec == Init /\ [][Next]_dvars
=============================================================================
