------------------------------ MODULE SemTest ------------------------------
(***************************************************************************)
(* unit_test/sem_test.c on the kernel threads: launchd creates a consumer  *)
(* and a producer, which exchange units over two semaphores and print a    *)
(* brace for each, waits until both have finished, and kills them.         *)
(***************************************************************************)
EXTENDS Kmt

CONSTANTS
    producer, consumer,
    empty, fill,                \* the semaphores
    SEM_TEST_MAX_BRACES

ASSUME TestAssumption ==
    /\ {producer, consumer} \subseteq Threads \ {launchd}
    /\ producer # consumer
    /\ Sems = {empty, fill} /\ empty # fill
    /\ InitialCount[fill] = 0
    /\ SEM_TEST_MAX_BRACES \in Nat

VARIABLES
    counter,        \* closing braces printed
    opened,         \* opening braces printed
    complete,       \* the test's flags, here a set of threads
    next            \* the statement each thread comes to next

testVars == <<counter, opened, complete, next>>

vars == <<intr_flag, lock_status, lockcount, release_intr, lock_warned,
          mode, thread_pool, current_thread_index, current, stack, sleep,
          current_waiting, count, pc, arg, slot, ret, counter, opened, complete, next>>

Init ==
    /\ KmtInit
    /\ counter = 0
    /\ opened = 0
    /\ complete = {}
    /\ next = [t \in Threads |-> IF t = launchd THEN "create consumer" ELSE "loop"]

-----------------------------------------------------------------------------
(* Thread t is at statement s of the test and goes on to statement s2.     *)
Statement(t, s, s2) ==
    /\ next[t] = s
    /\ next' = [next EXCEPT ![t] = s2]

(* A statement of the test that calls nothing in kmt.c.                    *)
Plain(t) ==
    /\ At(t, "out")
    /\ UNCHANGED <<mode, thread_pool, dispatchVars, stack, semVars, pc, arg, slot, ret, lockVars>>

Loop(t) ==
    /\ Plain(t)
    /\ counter < SEM_TEST_MAX_BRACES
    /\ Statement(t, "loop", "wait")
    /\ UNCHANGED <<counter, opened, complete>>

Complete(t) ==
    /\ Plain(t)
    /\ counter >= SEM_TEST_MAX_BRACES
    /\ Statement(t, "loop", "while (1)")
    /\ complete' = complete \cup {t}
    /\ UNCHANGED <<counter, opened>>

Producer ==
    \/ /\ SemWaitCall(producer, empty)
       /\ Statement(producer, "wait", "print")
       /\ UNCHANGED <<counter, opened, complete>>
    \/ /\ Plain(producer)
       /\ Statement(producer, "print", "signal")
       /\ opened' = opened + 1
       /\ UNCHANGED <<counter, complete>>
    \/ /\ SemSignalCall(producer, fill)
       /\ Statement(producer, "signal", "loop")
       /\ UNCHANGED <<counter, opened, complete>>

Consumer ==
    \/ /\ SemWaitCall(consumer, fill)
       /\ Statement(consumer, "wait", "print")
       /\ UNCHANGED <<counter, opened, complete>>
    \/ /\ Plain(consumer)
       /\ Statement(consumer, "print", "signal")
       /\ counter' = counter + 1
       /\ UNCHANGED <<opened, complete>>
    \/ /\ SemSignalCall(consumer, empty)
       /\ Statement(consumer, "signal", "loop")
       /\ UNCHANGED <<counter, opened, complete>>

(* sem_test itself, run by launchd                                         *)
Main ==
    /\ \/ /\ CreateCall(launchd, consumer)
          /\ Statement(launchd, "create consumer", "create producer")
       \/ /\ CreateCall(launchd, producer)
          /\ Statement(launchd, "create producer", "poll")
       \/ /\ Plain(launchd)
          /\ {producer, consumer} \subseteq complete
          /\ Statement(launchd, "poll", "kill consumer")
       \/ /\ TeardownCall(launchd, consumer)
          /\ Statement(launchd, "kill consumer", "kill producer")
       \/ /\ TeardownCall(launchd, producer)
          /\ Statement(launchd, "kill producer", "while (1)")
    /\ UNCHANGED <<counter, opened, complete>>

ThreadStep(t) ==
    \/ Proceed(t) /\ UNCHANGED testVars
    \/ t = launchd /\ Main
    \/ t \in {producer, consumer} /\ (Loop(t) \/ Complete(t))
    \/ t = producer /\ Producer
    \/ t = consumer /\ Consumer

Interrupt == TimerInterrupt /\ UNCHANGED testVars

Next == Interrupt \/ \E t \in Threads : ThreadStep(t)

(* As in VfsGate: the timer goes on, and a thread that is dispatched again *)
(* and again executes the next statement of its program.                   *)
Fairness ==
    /\ SF_vars(Interrupt)
    /\ \A t \in Threads : SF_vars(ThreadStep(t))

Spec == Init /\ [][Next]_vars /\ Fairness

-----------------------------------------------------------------------------
(* Units move between the two semaphores and the hands of the two threads; *)
(* a lost wakeup, a doubled signal or a torn count would change the sum.   *)
(* So the braces printed are a prefix of a balanced sequence, nested no    *)
(* deeper than the value of semaphore empty.                               *)
Holding(t) ==
    IF \/ next[t] = "print" /\ pc[t] = "out"
       \/ next[t] = "signal"
       \/ pc[t] = "signal_post"
      THEN 1 ELSE 0

UnitsConserved ==
    /\ count[empty] + count[fill] + Holding(producer) + Holding(consumer) = InitialCount[empty]
    /\ opened \in counter..(counter + InitialCount[empty])

(* The test ends: nobody is left asleep on a semaphore that will not be    *)
(* signalled any more, and both threads are out of the pool again.         *)
Terminates == <>(next[launchd] = "while (1)" /\ Pooled = {launchd})
=============================================================================
