----------------------------- MODULE Semaphore -----------------------------
(***************************************************************************)
(* What the callers of kmt_sem_wait and kmt_sem_signal are promised: a     *)
(* wait ends by taking one unit, a signal adds one, and a unit that is     *)
(* there again and again does not find the same crowd waiting for ever.    *)
(* Who of the crowd gets it is not promised.  Where threads may be torn    *)
(* down in a wait (KillSpec), theirs may also end without a unit; the      *)
(* count is not touched then.                                              *)
(***************************************************************************)
EXTENDS Integers

CONSTANTS Threads, NULL, Sems, InitialCount

VARIABLES
    count,          \* units of each semaphore
    waiting         \* the semaphore a thread is in kmt_sem_wait for, or NULL

vars == <<count, waiting>>

Init ==
    /\ count = InitialCount
    /\ waiting = [t \in Threads |-> NULL]

Request(t, s) ==
    /\ waiting[t] = NULL
    /\ waiting' = [waiting EXCEPT ![t] = s]
    /\ UNCHANGED count

Pass(t, s) ==
    /\ waiting[t] = s
    /\ count[s] > 0
    /\ count' = [count EXCEPT ![s] = @ - 1]
    /\ waiting' = [waiting EXCEPT ![t] = NULL]

Signal(s) ==
    /\ count' = [count EXCEPT ![s] = @ + 1]
    /\ UNCHANGED waiting

(* The thread was torn down, and starts again where it waits for nothing.  *)
Quit(t) ==
    /\ waiting[t] # NULL
    /\ waiting' = [waiting EXCEPT ![t] = NULL]
    /\ UNCHANGED count

Next ==
    \E s \in Sems :
        \/ Signal(s)
        \/ \E t \in Threads : Request(t, s) \/ Pass(t, s)

Spec == Init /\ [][Next]_vars

KillSpec == Init /\ [][Next \/ \E t \in Threads : Quit(t)]_vars

(* A unit that is repeatedly there while threads wait is taken.            *)
Progress == \A s \in Sems : SF_vars(\E t \in Threads : Pass(t, s))

FairSpec == Spec /\ Progress
=============================================================================
