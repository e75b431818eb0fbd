---------------------------- MODULE MCThreadPool ----------------------------
(***************************************************************************)
(* Small instances of ThreadPool.  Task t3 is submitted by the thread_func *)
(* of t1, the others by clients.                                           *)
(***************************************************************************)
EXTENDS ThreadPool, TLC

CONSTANTS t1, t3

MCChild == [t \in Tasks |-> IF t = t1 THEN t3 ELSE NoTask]

(* The workers run the same code and are nowhere told apart.               *)
WorkerSymmetry == Permutations(Workers)
=============================================================================
