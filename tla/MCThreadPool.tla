---------------------------- MODULE MCThreadPool ----------------------------
(***************************************************************************)
(* ThreadPool for TLC: two or three workers, and fewer task nodes than     *)
(* connections, so that freed addresses come back from calloc.             *)
(***************************************************************************)
EXTENDS ThreadPool, TLC

CONSTANTS w1, w2, w3, n1, n2, n3, main, null

TwoWorkers   == {w1, w2}
ThreeWorkers == {w1, w2, w3}
TwoNodes     == {n1, n2}
ThreeNodes   == {n1, n2, n3}

\* Workers are interchangeable, and so are addresses (safety runs only).
Interchangeable == Permutations(ThreeWorkers) \cup Permutations(ThreeNodes)
=============================================================================
