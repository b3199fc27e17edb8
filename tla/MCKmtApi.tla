------------------------------ MODULE MCKmtApi ------------------------------
(* Three slots and four threads, so that the pool can be full; two         *)
(* semaphores, one of them created with a unit and signalled up to two.    *)
EXTENDS KmtApi, TLC

CONSTANTS t1, t2, t3, sem, other

MCThreads == {launchd, t1, t2, t3}
MCSems == {sem, other}
MCInitialCount == [s \in MCSems |-> IF s = sem THEN 1 ELSE 0]
MCMaxCount == [s \in MCSems |-> IF s = sem THEN 2 ELSE 1]
MCLocks == {thread_lock, semaphore_lock, kernel_memory_lock}
Symmetry == Permutations({t1, t2, t3})
=============================================================================
