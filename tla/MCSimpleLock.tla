---------------------------- MODULE MCSimpleLock ----------------------------
(* Two kernel threads and the boot context, three locks nested freely.     *)
EXTENDS SimpleLock

CONSTANTS boot, t1, t2, thread, memory, console, nobody

MCContexts == {boot, t1, t2}
MCLocks == {thread, memory, console}
=============================================================================
