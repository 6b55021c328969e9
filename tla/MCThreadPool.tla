---------------------------- MODULE MCThreadPool ----------------------------
(* ThreadPool with few tasks and threads.                                  *)
EXTENDS ThreadPool, TLC

CONSTANTS t1, t2, t3, w1, w2, w3, w4, w5, w6

Tasks       == {t1, t2, t3}
FourWorkers == {w1, w2, w3, w4}
SixWorkers  == {w1, w2, w3, w4, w5, w6}

(* Tasks are interchangeable, and so are threads.  Safety runs only.       *)
SixSymmetry == Permutations(Tasks) \cup Permutations(SixWorkers)
=============================================================================
