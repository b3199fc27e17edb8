----------------------------- MODULE MCSemTest -----------------------------
(* Two units and five braces: the producer can be two braces ahead, and    *)
(* both semaphores run empty.                                              *)
EXTENDS SemTest

MCThreads == {launchd, producer, consumer}
MCSems == {empty, fill}
MCInitialCount == [s \in MCSems |-> IF s = empty THEN 2 ELSE 0]
MCLocks == {thread_lock, semaphore_lock, kernel_memory_lock}
=============================================================================
