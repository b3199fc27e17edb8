--------------------------- MODULE SemTestProofs ---------------------------
(***************************************************************************)
(* Proofs about SemTest, for any number of braces, any initial count of    *)
(* semaphore empty, any size of the pool and any threads beside the two:   *)
(* the units of the semaphores are conserved, and the test makes no call   *)
(* that KmtApi leaves out.                                                 *)
(***************************************************************************)
EXTENDS SemTest, KmtApi, TLAPS

Waiting == {"wait_test", "wait_spin"}
Statements == {"loop", "wait", "print", "signal", "while (1)"}

(* A unit that t has taken and printed no brace for; one it has printed    *)
(* its brace for and not given back.                                       *)
Before(t) == IF next[t] = "print" /\ pc[t] = "out" THEN 1 ELSE 0
After(t) == IF next[t] = "signal" \/ pc[t] = "signal_post" THEN 1 ELSE 0

Waits(t) == IF t = producer THEN empty ELSE fill
Signals(t) == IF t = producer THEN fill ELSE empty

(* Thread t waits on semaphore w and signals semaphore s, each where its   *)
(* program says.                                                           *)
Client(t, w, s) ==
    /\ next[t] \in Statements
    /\ pc[t] \in {"out", "signal_post"} \cup Waiting
    /\ pc[t] \in Waiting => arg[t] = w /\ next[t] = "print"
    /\ pc[t] = "signal_post" => arg[t] = s /\ next[t] = "loop"

OfThreads(f) == f = [t \in Threads |-> f[t]]

TestType ==
    /\ counter \in Nat /\ opened \in Nat
    /\ count \in [Sems -> Nat]
    /\ OfThreads(pc) /\ OfThreads(arg) /\ OfThreads(next)

(* The braces that are open have their unit on the way to the consumer;    *)
(* all the other units are on the way to the producer.                     *)
Balance ==
    /\ opened = counter + count[fill] + After(producer) + Before(consumer)
    /\ count[empty] + count[fill] + Before(producer) + After(producer)
         + Before(consumer) + After(consumer) = InitialCount[empty]

OthersApart ==
    \A t \in Threads \ {producer, consumer} : pc[t] \notin Waiting \cup {"signal_post"}

TestInv ==
    /\ TestType
    /\ Client(producer, empty, fill)
    /\ Client(consumer, fill, empty)
    /\ OthersApart
    /\ Balance

-----------------------------------------------------------------------------
LEMMA TwoThreads ==
    /\ producer \in Threads /\ consumer \in Threads /\ launchd \in Threads
    /\ producer # consumer /\ launchd # producer /\ launchd # consumer
    /\ empty \in Sems /\ fill \in Sems /\ empty # fill /\ Sems = {empty, fill}
    /\ InitialCount[empty] \in Nat /\ InitialCount[fill] = 0
  BY TestAssumption, ThreadAssumption, CountAssumption

IsUpdate(g, f, t, v) == g = [f EXCEPT ![t] = v]

LEMMA Updated ==
    ASSUME NEW f, OfThreads(f), NEW g, NEW t \in Threads, NEW v, IsUpdate(g, f, t, v)
    PROVE  OfThreads(g) /\ \A u \in Threads : g[u] = IF u = t THEN v ELSE f[u]
  <1>1. g = [u \in Threads |-> IF u = t THEN v ELSE f[u]]
    BY DEF OfThreads, IsUpdate
  <1>2. \A u \in Threads : g[u] = IF u = t THEN v ELSE f[u]
    BY <1>1
  <1>3. OfThreads(g)
    BY <1>1, <1>2 DEF OfThreads
  <1> QED
    BY <1>2, <1>3

(* Thread t goes to point p with argument a.                               *)
Goes(t, p, a) ==
    /\ OfThreads(pc') /\ OfThreads(arg')
    /\ \A u \in Threads : /\ pc'[u] = IF u = t THEN p ELSE pc[u]
                          /\ arg'[u] = IF u = t THEN a ELSE arg[u]

LEMMA CallGoes ==
    ASSUME TestInv, NEW t \in Threads, NEW l, NEW p, NEW a, Call(t, l, p, a)
    PROVE  Goes(t, p, a) /\ count' = count /\ pc[t] = "out"
  <1>1. IsUpdate(pc', pc, t, p) /\ IsUpdate(arg', arg, t, a) /\ pc[t] = "out"
    BY DEF Call, At, IsUpdate
  <1>2. count' = count
    BY DEF Call, semVars
  <1>3. OfThreads(pc) /\ OfThreads(arg)
    BY DEF TestInv, TestType
  <1>4. OfThreads(pc') /\ \A u \in Threads : pc'[u] = IF u = t THEN p ELSE pc[u]
    BY <1>1, <1>3, Updated
  <1>5. OfThreads(arg') /\ \A u \in Threads : arg'[u] = IF u = t THEN a ELSE arg[u]
    BY <1>1, <1>3, Updated
  <1> QED
    BY <1>1, <1>2, <1>4, <1>5 DEF Goes

LEMMA GotoGoes ==
    ASSUME TestInv, NEW t \in Threads, NEW p, Goto(t, p)
    PROVE  Goes(t, p, arg[t])
  <1>1. IsUpdate(pc', pc, t, p) /\ arg' = arg
    BY DEF Goto, IsUpdate
  <1>2. OfThreads(pc) /\ OfThreads(arg)
    BY DEF TestInv, TestType
  <1>3. OfThreads(pc') /\ \A u \in Threads : pc'[u] = IF u = t THEN p ELSE pc[u]
    BY <1>1, <1>2, Updated
  <1> QED
    BY <1>1, <1>2, <1>3 DEF Goes

LEMMA ReturnGoes ==
    ASSUME TestInv, NEW t \in Threads, NEW v, Return(t, v)
    PROVE  Goes(t, "out", NULL)
  <1>1. IsUpdate(pc', pc, t, "out") /\ IsUpdate(arg', arg, t, NULL)
    BY DEF Return, IsUpdate
  <1>2. OfThreads(pc) /\ OfThreads(arg)
    BY DEF TestInv, TestType
  <1>3. OfThreads(pc') /\ \A u \in Threads : pc'[u] = IF u = t THEN "out" ELSE pc[u]
    BY <1>1, <1>2, Updated
  <1>4. OfThreads(arg') /\ \A u \in Threads : arg'[u] = IF u = t THEN NULL ELSE arg[u]
    BY <1>1, <1>2, Updated
  <1> QED
    BY <1>3, <1>4 DEF Goes

(* A thread other than the two does something else.                        *)
LEMMA StepElsewhere ==
    ASSUME TestInv, NEW t \in Threads, t # producer, t # consumer,
           NEW p, p \notin Waiting \cup {"signal_post"}, NEW a, Goes(t, p, a),
           count' = count, opened' = opened, counter' = counter,
           OfThreads(next'), \A u \in Threads : u # t => next'[u] = next[u]
    PROVE  TestInv'
  <1>1. \A u \in {producer, consumer} : pc'[u] = pc[u] /\ arg'[u] = arg[u] /\ next'[u] = next[u]
    BY TwoThreads DEF Goes
  <1>2. TestType'
    BY DEF TestInv, TestType, Goes
  <1>3. Client(producer, empty, fill)' /\ Client(consumer, fill, empty)'
    BY <1>1 DEF TestInv, Client
  <1>4. OthersApart'
    BY DEF TestInv, OthersApart, Goes
  <1>5. Balance'
    BY <1>1 DEF TestInv, Balance, Before, After
  <1> QED
    BY <1>2, <1>3, <1>4, <1>5 DEF TestInv

(* One of the two goes on: what it holds, and what is in the semaphores,   *)
(* keep the balance.                                                       *)
LEMMA StepClient ==
    ASSUME TestInv, NEW t \in {producer, consumer}, NEW p, NEW a, Goes(t, p, a),
           OfThreads(next'), \A u \in Threads : u # t => next'[u] = next[u],
           opened' \in Nat, counter' \in Nat, count' \in [Sems -> Nat],
           Client(t, Waits(t), Signals(t))',
           Balance'
    PROVE  TestInv'
  <1>1. TestType'
    BY DEF TestInv, TestType, Goes
  <1>2. \A u \in {producer, consumer} \ {t} :
           pc'[u] = pc[u] /\ arg'[u] = arg[u] /\ next'[u] = next[u]
    BY TwoThreads DEF Goes
  <1>3. Client(producer, empty, fill)' /\ Client(consumer, fill, empty)'
    <2>1. CASE t = producer
      <3>1. Client(producer, empty, fill)'
        BY <2>1 DEF Waits, Signals
      <3>2. Client(consumer, fill, empty)'
        BY <1>2, <2>1, TwoThreads DEF TestInv, Client
      <3> QED
        BY <3>1, <3>2
    <2>2. CASE t = consumer
      <3>1. Client(consumer, fill, empty)'
        BY <2>2, TwoThreads DEF Waits, Signals
      <3>2. Client(producer, empty, fill)'
        BY <1>2, <2>2, TwoThreads DEF TestInv, Client
      <3> QED
        BY <3>1, <3>2
    <2> QED
      BY <2>1, <2>2
  <1>4. OthersApart'
    BY DEF TestInv, OthersApart, Goes
  <1> QED
    BY <1>1, <1>3, <1>4 DEF TestInv
-----------------------------------------------------------------------------
LEMMA NextSame ==
    ASSUME TestInv, UNCHANGED testVars
    PROVE  /\ OfThreads(next') /\ \A u \in Threads : next'[u] = next[u]
           /\ opened' = opened /\ counter' = counter
           /\ opened \in Nat /\ counter \in Nat
  BY DEF TestInv, TestType, testVars, OfThreads

LEMMA StatementNext ==
    ASSUME TestInv, NEW t \in Threads, NEW s, NEW s2, Statement(t, s, s2)
    PROVE  /\ next[t] = s /\ OfThreads(next')
           /\ \A u \in Threads : next'[u] = IF u = t THEN s2 ELSE next[u]
  <1>1. next[t] = s /\ IsUpdate(next', next, t, s2)
    BY DEF Statement, IsUpdate
  <1>2. OfThreads(next)
    BY DEF TestInv, TestType
  <1> QED
    BY <1>1, <1>2, Updated

LEMMA PlainGoes ==
    ASSUME TestInv, NEW t \in Threads, Plain(t)
    PROVE  Goes(t, "out", arg[t]) /\ count' = count /\ pc[t] = "out"
  <1>1. pc' = pc /\ arg' = arg /\ count' = count /\ pc[t] = "out"
    BY DEF Plain, At, semVars
  <1> QED
    BY <1>1 DEF Goes, TestInv, TestType, OfThreads

(* What is not about the semaphores is not done by the two.                *)
LEMMA Apart ==
    ASSUME TestInv, NEW t \in Threads, pc[t] \notin {"out", "signal_post"} \cup Waiting
    PROVE  t # producer /\ t # consumer
  BY DEF TestInv, Client

LEMMA ProceedElsewhere ==
    ASSUME TestInv, NEW t \in Threads, UNCHANGED testVars,
           \/ CreateFull(t) \/ CreateFind(t) \/ CreateStack(t)
           \/ TeardownMissing(t) \/ TeardownFind(t) \/ TeardownFree(t) \/ TeardownDrop(t)
    PROVE  TestInv'
  <1>1. pc[t] \in ThreadSection /\ count' = count
    BY DEF CreateFull, CreateFind, CreateStack, TeardownMissing, TeardownFind,
           TeardownFree, TeardownDrop, At, semVars, ThreadSection
  <1>2. t # producer /\ t # consumer
    BY <1>1, Apart DEF ThreadSection, Waiting
  <1>3. \/ \E v : Return(t, v)
        \/ \E p \in ThreadSection : Goto(t, p)
    BY DEF CreateFull, CreateFind, CreateStack, TeardownMissing, TeardownFind,
           TeardownFree, TeardownDrop, ThreadSection
  <1>4. \E p, a : Goes(t, p, a) /\ p \notin Waiting \cup {"signal_post"}
    BY <1>3, ReturnGoes, GotoGoes DEF ThreadSection, Waiting
  <1> QED
    BY <1>1, <1>2, <1>4, NextSame, StepElsewhere

(* A thread that is made stood outside of the semaphores already.          *)
LEMMA StepCreateMake ==
    ASSUME TestInv, NEW t \in Threads, UNCHANGED testVars, CreateMake(t),
           arg[t] \in Threads, pc[arg[t]] = "out"
    PROVE  TestInv'
  <1> DEFINE u == arg[t]
  <1>1. /\ pc[t] = "create_make" /\ count' = count
        /\ pc' = [pc EXCEPT ![t] = "out", ![u] = "out"]
        /\ arg' = [arg EXCEPT ![t] = NULL, ![u] = NULL]
    BY DEF CreateMake, ReturnAndRestart, At
  <1>2. t # producer /\ t # consumer
    BY <1>1, Apart DEF Waiting
  <1> HIDE DEF u
  <1>3. OfThreads(pc) /\ OfThreads(arg)
    BY DEF TestInv, TestType
  <1>4. /\ OfThreads(pc') /\ OfThreads(arg')
        /\ \A v \in Threads : /\ pc'[v] = IF v = t THEN "out" ELSE pc[v]
                              /\ v # t /\ v # u => arg'[v] = arg[v]
    BY <1>1, <1>3 DEF OfThreads, u
  <1>5. TestType'
    BY <1>1, <1>4, NextSame DEF TestInv, TestType
  <1>6. \A v \in {producer, consumer} : pc'[v] = pc[v] /\ next'[v] = next[v]
                                         /\ (pc[v] # "out" => arg'[v] = arg[v])
    BY <1>2, <1>4, NextSame, TwoThreads DEF u
  <1>7. Client(producer, empty, fill)' /\ Client(consumer, fill, empty)'
    BY <1>6 DEF TestInv, Client, Waiting
  <1>8. OthersApart'
    BY <1>4 DEF TestInv, OthersApart, Waiting
  <1>9. Balance'
    BY <1>1, <1>6, NextSame DEF TestInv, Balance, Before, After
  <1> QED
    BY <1>5, <1>7, <1>8, <1>9 DEF TestInv

(* One of the two, by what it waits for and what it signals.               *)
LEMMA ClientOf ==
    ASSUME TestInv, NEW t \in Threads, pc[t] \in {"signal_post"} \cup Waiting
    PROVE  /\ t \in {producer, consumer}
           /\ Client(t, Waits(t), Signals(t))
  BY TwoThreads DEF TestInv, OthersApart, Waits, Signals

LEMMA StepWait ==
    ASSUME TestInv, NEW t \in Threads, UNCHANGED testVars, WaitSleep(t) \/ WaitSpin(t)
    PROVE  TestInv'
  <1>1. pc[t] \in Waiting /\ count' = count
    BY DEF WaitSleep, WaitSpin, At, semVars, Waiting
  <1>2. PICK p \in Waiting : Goto(t, p)
    BY DEF WaitSleep, WaitSpin, Waiting
  <1>3. Goes(t, p, arg[t])
    BY <1>2, GotoGoes
  <1>4. /\ t \in {producer, consumer}
        /\ Client(t, Waits(t), Signals(t))
    BY <1>1, ClientOf
  <1>5. Client(t, Waits(t), Signals(t))'
    BY <1>1, <1>2, <1>3, <1>4, NextSame DEF Client, Goes, Waiting
  <1>6. \A u \in Threads : (After(u))' = After(u) /\ (Before(u))' = Before(u)
    BY <1>1, <1>2, <1>3, NextSame DEF After, Before, Goes, Waiting
  <1>7. Balance'
    BY <1>1, <1>6, NextSame, TwoThreads DEF TestInv, Balance
  <1>8. count' \in [Sems -> Nat]
    BY <1>1 DEF TestInv, TestType
  <1> QED
    BY <1>3, <1>4, <1>5, <1>7, <1>8, NextSame, StepClient

(* One more in hand, one less in the semaphore.                            *)
LEMMA StepWaitPass ==
    ASSUME TestInv, NEW t \in Threads, UNCHANGED testVars, WaitPass(t)
    PROVE  TestInv'
  <1>1. pc[t] \in Waiting /\ pc[t] = "wait_test" /\ count[arg[t]] # 0
        /\ count' = [count EXCEPT ![arg[t]] = @ - 1] /\ Return(t, 0)
    BY DEF WaitPass, At, Waiting
  <1>2. Goes(t, "out", NULL)
    BY <1>1, ReturnGoes
  <1>3. /\ t \in {producer, consumer}
        /\ Client(t, Waits(t), Signals(t))
    BY <1>1, ClientOf
  <1>4. arg[t] = Waits(t) /\ next[t] = "print"
    BY <1>1, <1>3 DEF Client
  <1>5. count \in [Sems -> Nat]
    BY DEF TestInv, TestType
  <1>6. count' \in [Sems -> Nat] /\ \A s \in Sems : count'[s] = IF s = arg[t] THEN count[s] - 1 ELSE count[s]
    BY <1>1, <1>4, <1>5, TwoThreads DEF Waits, Signals
  <1>7. Client(t, Waits(t), Signals(t))'
    BY <1>2, <1>4, NextSame DEF Client, Goes, Waiting, Statements
  <1>8. /\ Before(t) = 0 /\ (Before(t))' = 1 /\ After(t) = 0 /\ (After(t))' = 0
        /\ \A u \in Threads : u # t => (After(u))' = After(u) /\ (Before(u))' = Before(u)
    BY <1>1, <1>2, <1>4, NextSame DEF After, Before, Goes
  <1>9. \A u \in Threads : After(u) \in Nat /\ Before(u) \in Nat
    BY DEF After, Before
  <1>10. Balance'
    <2>1. CASE t = producer
      BY <1>4, <1>5, <1>6, <1>8, <1>9, <2>1, NextSame, TwoThreads DEF TestInv, Balance, Waits, Signals
    <2>2. CASE t = consumer
      BY <1>4, <1>5, <1>6, <1>8, <1>9, <2>2, NextSame, TwoThreads DEF TestInv, Balance, Waits, Signals
    <2> QED
      BY <1>3, <2>1, <2>2
  <1> QED
    BY <1>2, <1>3, <1>6, <1>7, <1>10, NextSame, StepClient

(* The unit is given back.                                                 *)
LEMMA StepSignalPost ==
    ASSUME TestInv, NEW t \in Threads, UNCHANGED testVars, SignalPost(t)
    PROVE  TestInv'
  <1>1. pc[t] = "signal_post" /\ count' = [count EXCEPT ![arg[t]] = @ + 1] /\ Return(t, 0)
    BY DEF SignalPost, At, OneMore
  <1>2. Goes(t, "out", NULL)
    BY <1>1, ReturnGoes
  <1>3. /\ t \in {producer, consumer}
        /\ Client(t, Waits(t), Signals(t))
    BY <1>1, ClientOf
  <1>4. arg[t] = Signals(t) /\ next[t] = "loop"
    BY <1>1, <1>3 DEF Client
  <1>5. count \in [Sems -> Nat]
    BY DEF TestInv, TestType
  <1>6. count' \in [Sems -> Nat] /\ \A s \in Sems : count'[s] = IF s = arg[t] THEN count[s] + 1 ELSE count[s]
    BY <1>1, <1>4, <1>5, TwoThreads DEF Waits, Signals
  <1>7. Client(t, Waits(t), Signals(t))'
    BY <1>2, <1>4, NextSame DEF Client, Goes, Waiting, Statements
  <1>8. /\ Before(t) = 0 /\ (Before(t))' = 0 /\ After(t) = 1 /\ (After(t))' = 0
        /\ \A u \in Threads : u # t => (After(u))' = After(u) /\ (Before(u))' = Before(u)
    BY <1>1, <1>2, <1>4, NextSame DEF After, Before, Goes
  <1>9. \A u \in Threads : After(u) \in Nat /\ Before(u) \in Nat
    BY DEF After, Before
  <1>10. Balance'
    <2>1. CASE t = producer
      BY <1>4, <1>5, <1>6, <1>8, <1>9, <2>1, NextSame, TwoThreads DEF TestInv, Balance, Waits, Signals
    <2>2. CASE t = consumer
      BY <1>4, <1>5, <1>6, <1>8, <1>9, <2>2, NextSame, TwoThreads DEF TestInv, Balance, Waits, Signals
    <2> QED
      BY <1>3, <2>1, <2>2
  <1> QED
    BY <1>2, <1>3, <1>6, <1>7, <1>10, NextSame, StepClient

LEMMA StepProceed ==
    ASSUME TestInv, NEW t \in Threads, UNCHANGED testVars, Proceed(t),
           CreateMake(t) => arg[t] \in Threads /\ pc[arg[t]] = "out"
    PROVE  TestInv'
  <1>1. CASE TeardownPanic(t)
    <2>1. pc' = pc /\ arg' = arg /\ count' = count /\ next' = next
          /\ opened' = opened /\ counter' = counter
      BY <1>1 DEF TeardownPanic, semVars, testVars
    <2> QED
      BY <2>1 DEF TestInv, TestType, OfThreads, Client, OthersApart, Balance, Before, After
  <1> QED
    BY <1>1, ProceedElsewhere, StepCreateMake, StepWait, StepWaitPass, StepSignalPost DEF Proceed

LEMMA StepInterrupt ==
    ASSUME TestInv, Interrupt
    PROVE  TestInv'
  <1>1. pc' = pc /\ arg' = arg /\ count' = count
    BY DEF Interrupt, TimerInterrupt, Timer, Dispatch, TimerHang, FencePanic, semVars
  <1>2. next' = next /\ opened' = opened /\ counter' = counter
    BY DEF Interrupt, testVars
  <1> QED
    BY <1>1, <1>2 DEF TestInv, TestType, OfThreads, Client, OthersApart, Balance, Before, After

-----------------------------------------------------------------------------
LEMMA StepMain ==
    ASSUME TestInv, Main
    PROVE  TestInv'
  <1>1. counter' = counter /\ opened' = opened /\ \E s, s2 : Statement(launchd, s, s2)
    BY DEF Main
  <1>2. OfThreads(next') /\ \A u \in Threads : u # launchd => next'[u] = next[u]
    BY <1>1, StatementNext, TwoThreads
  <1>3. \/ \E p \in {"create_find", "tear_find"}, a \in Threads : Call(launchd, thread_lock, p, a)
        \/ Plain(launchd)
    BY TwoThreads DEF Main, CreateCall, TeardownCall
  <1>4. PICK p, a : Goes(launchd, p, a) /\ p \in {"create_find", "tear_find", "out"} /\ count' = count
    BY <1>3, CallGoes, PlainGoes, TwoThreads
  <1>5. p \notin Waiting \cup {"signal_post"}
    BY <1>4 DEF Waiting
  <1> QED
    BY <1>1, <1>2, <1>4, <1>5, StepElsewhere, TwoThreads

(* The statements of the two: s is executed with the thread outside of     *)
(* every operation, and leads to s2 and to point p of an operation.        *)
Program(t, s, s2, p, a) ==
    \/ s = "loop" /\ s2 \in {"wait", "while (1)"} /\ p = "out"
    \/ s = "wait" /\ s2 = "print" /\ p = "wait_test" /\ a = Waits(t)
    \/ s = "print" /\ s2 = "signal" /\ p = "out"
    \/ s = "signal" /\ s2 = "loop" /\ p = "signal_post" /\ a = Signals(t)

LEMMA StepStatement ==
    ASSUME TestInv, NEW t \in {producer, consumer}, NEW s, NEW s2, Statement(t, s, s2),
           NEW p, NEW a, Goes(t, p, a), Program(t, s, s2, p, a), pc[t] = "out", count' = count,
           opened' = IF t = producer /\ s = "print" THEN opened + 1 ELSE opened,
           counter' = IF t = consumer /\ s = "print" THEN counter + 1 ELSE counter
    PROVE  TestInv'
  <1>1. t \in Threads
    BY TwoThreads
  <1>2. next[t] = s /\ OfThreads(next') /\ next'[t] = s2 /\ \A u \in Threads : u # t => next'[u] = next[u]
    BY <1>1, StatementNext
  <1>3. pc'[t] = p /\ arg'[t] = a /\ \A u \in Threads : u # t => pc'[u] = pc[u]
    BY <1>1 DEF Goes
  <1>4. Client(t, Waits(t), Signals(t))'
    BY <1>2, <1>3 DEF Client, Waiting, Statements, Program, Waits, Signals
  <1>5. /\ Before(t) = (IF s = "print" THEN 1 ELSE 0) /\ (Before(t))' = 0
        /\ After(t) = (IF s = "signal" THEN 1 ELSE 0)
        /\ (After(t))' = (IF s = "print" \/ s = "signal" THEN 1 ELSE 0)
        /\ \A u \in Threads : u # t => (After(u))' = After(u) /\ (Before(u))' = Before(u)
    BY <1>2, <1>3 DEF Before, After, Program
  <1>6. \A u \in Threads : After(u) \in Nat /\ Before(u) \in Nat
    BY DEF After, Before
  <1>7. /\ count \in [Sems -> Nat] /\ count' \in [Sems -> Nat]
        /\ opened \in Nat /\ counter \in Nat /\ opened' \in Nat /\ counter' \in Nat
    BY DEF TestInv, TestType
  <1>8. Balance'
    <2>1. CASE t = producer
      BY <1>5, <1>6, <1>7, <2>1, TwoThreads DEF TestInv, Balance
    <2>2. CASE t = consumer
      BY <1>5, <1>6, <1>7, <2>2, TwoThreads DEF TestInv, Balance
    <2> QED
      BY <2>1, <2>2
  <1> QED
    BY <1>2, <1>4, <1>7, <1>8, StepClient

LEMMA StepLoop ==
    ASSUME TestInv, NEW t \in {producer, consumer}, Loop(t) \/ Complete(t)
    PROVE  TestInv'
  <1>1. PICK s2 \in {"wait", "while (1)"} : Statement(t, "loop", s2)
    BY DEF Loop, Complete
  <1>2. Plain(t) /\ counter' = counter /\ opened' = opened
    BY DEF Loop, Complete
  <1>3. Goes(t, "out", arg[t]) /\ count' = count /\ pc[t] = "out"
    BY <1>2, PlainGoes, TwoThreads
  <1>4. Program(t, "loop", s2, "out", arg[t])
    BY DEF Program
  <1> QED
    BY <1>1, <1>2, <1>3, <1>4, StepStatement

LEMMA StepProducer ==
    ASSUME TestInv, Producer
    PROVE  TestInv'
  <1>1. CASE SemWaitCall(producer, empty) /\ Statement(producer, "wait", "print")
             /\ UNCHANGED <<counter, opened, complete>>
    <2>1. Goes(producer, "wait_test", empty) /\ count' = count /\ pc[producer] = "out"
      BY <1>1, CallGoes, TwoThreads DEF SemWaitCall
    <2>2. Program(producer, "wait", "print", "wait_test", empty)
      BY DEF Program, Waits
    <2> QED
      BY <1>1, <2>1, <2>2, StepStatement
  <1>2. CASE Plain(producer) /\ Statement(producer, "print", "signal")
             /\ opened' = opened + 1 /\ UNCHANGED <<counter, complete>>
    <2>1. Goes(producer, "out", arg[producer]) /\ count' = count /\ pc[producer] = "out"
      BY <1>2, PlainGoes, TwoThreads
    <2>2. Program(producer, "print", "signal", "out", arg[producer])
      BY DEF Program
    <2> QED
      BY <1>2, <2>1, <2>2, StepStatement, TwoThreads
  <1>3. CASE SemSignalCall(producer, fill) /\ Statement(producer, "signal", "loop")
             /\ UNCHANGED <<counter, opened, complete>>
    <2>1. Goes(producer, "signal_post", fill) /\ count' = count /\ pc[producer] = "out"
      BY <1>3, CallGoes, TwoThreads DEF SemSignalCall
    <2>2. Program(producer, "signal", "loop", "signal_post", fill)
      BY DEF Program, Signals
    <2> QED
      BY <1>3, <2>1, <2>2, StepStatement
  <1> QED
    BY <1>1, <1>2, <1>3 DEF Producer

LEMMA StepConsumer ==
    ASSUME TestInv, Consumer
    PROVE  TestInv'
  <1>1. CASE SemWaitCall(consumer, fill) /\ Statement(consumer, "wait", "print")
             /\ UNCHANGED <<counter, opened, complete>>
    <2>1. Goes(consumer, "wait_test", fill) /\ count' = count /\ pc[consumer] = "out"
      BY <1>1, CallGoes, TwoThreads DEF SemWaitCall
    <2>2. Program(consumer, "wait", "print", "wait_test", fill)
      BY TwoThreads DEF Program, Waits
    <2> QED
      BY <1>1, <2>1, <2>2, StepStatement
  <1>2. CASE Plain(consumer) /\ Statement(consumer, "print", "signal")
             /\ counter' = counter + 1 /\ UNCHANGED <<opened, complete>>
    <2>1. Goes(consumer, "out", arg[consumer]) /\ count' = count /\ pc[consumer] = "out"
      BY <1>2, PlainGoes, TwoThreads
    <2>2. Program(consumer, "print", "signal", "out", arg[consumer])
      BY DEF Program
    <2> QED
      BY <1>2, <2>1, <2>2, StepStatement, TwoThreads
  <1>3. CASE SemSignalCall(consumer, empty) /\ Statement(consumer, "signal", "loop")
             /\ UNCHANGED <<counter, opened, complete>>
    <2>1. Goes(consumer, "signal_post", empty) /\ count' = count /\ pc[consumer] = "out"
      BY <1>3, CallGoes, TwoThreads DEF SemSignalCall
    <2>2. Program(consumer, "signal", "loop", "signal_post", empty)
      BY TwoThreads DEF Program, Signals
    <2> QED
      BY <1>3, <2>1, <2>2, StepStatement
  <1> QED
    BY <1>1, <1>2, <1>3 DEF Consumer

-----------------------------------------------------------------------------
LEMMA InitTest == Init => TestInv
  <1> SUFFICES ASSUME Init PROVE TestInv
    OBVIOUS
  <1> USE DEF Init, KmtInit
  <1>1. TestType
    BY CountAssumption DEF TestType, OfThreads
  <1>2. Client(producer, empty, fill) /\ Client(consumer, fill, empty)
    BY TwoThreads DEF Client, Waiting, Statements
  <1>3. OthersApart
    BY DEF OthersApart, Waiting
  <1>4. \A t \in {producer, consumer} : Before(t) = 0 /\ After(t) = 0
    BY TwoThreads DEF Before, After
  <1>5. Balance
    <2>1. /\ Before(producer) = 0 /\ After(producer) = 0
          /\ Before(consumer) = 0 /\ After(consumer) = 0
      BY <1>4
    <2>2. opened = 0 /\ counter = 0 /\ count[empty] = InitialCount[empty] /\ count[fill] = 0
      BY TwoThreads
    <2> HIDE DEF Init, KmtInit
    <2> QED
      BY <2>1, <2>2, TwoThreads DEF Balance
  <1> QED
    BY <1>1, <1>2, <1>3, <1>5 DEF TestInv

(* What TestInv says of the units is what UnitsConserved asks for.         *)
LEMMA TestConserves == TestInv => UnitsConserved
  <1> SUFFICES ASSUME TestInv PROVE UnitsConserved
    OBVIOUS
  <1>1. \A t \in {producer, consumer} : Holding(t) = Before(t) + After(t)
    BY DEF TestInv, Client, Holding, Before, After, Waiting
  <1>2. \A t \in {producer, consumer} : Before(t) \in {0, 1} /\ After(t) \in {0, 1}
    BY DEF Before, After
  <1>3. /\ count[empty] \in Nat /\ count[fill] \in Nat
        /\ counter \in Nat /\ opened \in Nat /\ InitialCount[empty] \in Nat
    BY TwoThreads DEF TestInv, TestType
  <1>4. Balance
    BY DEF TestInv
  <1> QED
    BY <1>1, <1>2, <1>3, <1>4 DEF UnitsConserved, Balance

-----------------------------------------------------------------------------
(* launchd and its calls.  While kmt_create runs, its locks keep the timer *)
(* out, so a thread stands at its entry until it is made; what is created  *)
(* is not in the pool, and what is killed has set its flag.                *)
Creating == {"create_find", "create_stack", "create_make"}

LocksCounted ==
    /\ lock_status \in [Locks -> {0, 1}]
    /\ lockcount = lock_status[thread_lock] + lock_status[kernel_memory_lock]
                     + lock_status[semaphore_lock]

NotStarted(u) == u \notin Pooled /\ u # current /\ pc[u] = "out"

MainInv ==
    /\ LocksCounted
    /\ thread_pool = [i \in Slots |-> thread_pool[i]]
    /\ \A t \in Threads \ {launchd, producer, consumer} : pc[t] = "out"
    /\ pc[launchd] \in Creating =>
         /\ \/ arg[launchd] = consumer /\ next[launchd] # "create consumer"
            \/ arg[launchd] = producer /\ next[launchd] \notin {"create consumer", "create producer"}
         /\ pc[arg[launchd]] = "out"
         /\ current = launchd /\ ~intr_flag
         /\ lock_status[thread_lock] = 1
         /\ pc[launchd] = "create_stack" => lock_status[kernel_memory_lock] = 1
    /\ next[launchd] = "create consumer" => NotStarted(consumer)
    /\ next[launchd] \in {"create consumer", "create producer"} => NotStarted(producer)
    /\ complete \subseteq {producer, consumer}
    /\ \A t \in complete : next[t] = "while (1)"
    /\ next[launchd] \in {"kill consumer", "kill producer"} => {producer, consumer} \subseteq complete

LEMMA InitMain == Init => MainInv
  <1> SUFFICES ASSUME Init PROVE MainInv
    OBVIOUS
  <1>1. thread_pool = [i \in Slots |-> IF i = 1 THEN launchd ELSE NULL] /\ current = NULL
    BY DEF Init, KmtInit
  <1>2. Pooled \subseteq {launchd}
    BY <1>1 DEF Pooled
  <1>3. /\ \A t \in Threads : pc[t] = "out"
        /\ complete = {} /\ next[launchd] = "create consumer"
    BY TwoThreads DEF Init, KmtInit
  <1>4. thread_pool = [i \in Slots |-> thread_pool[i]]
    BY <1>1
  <1>5. LocksCounted
    <2>1. lock_status = [l \in Locks |-> 0] /\ lockcount = 0
      BY DEF Init, KmtInit, LockInit
    <2> QED
      BY <2>1, LockAssumption DEF LocksCounted
  <1>6. NotStarted(consumer) /\ NotStarted(producer)
    BY <1>1, <1>2, <1>3, TwoThreads, ThreadAssumption DEF NotStarted
  <1> QED
    BY <1>3, <1>4, <1>5, <1>6, TwoThreads DEF MainInv, Creating

(* Nobody but launchd is ever inside kmt_create.                           *)
LEMMA LaunchdCreates ==
    ASSUME TestInv, MainInv, NEW t \in Threads, pc[t] # "out"
    PROVE  /\ t \in {launchd, producer, consumer}
           /\ pc[t] \in Creating => t = launchd
  BY DEF TestInv, Client, MainInv, Creating, Waiting

KernelLocks == {thread_lock, kernel_memory_lock, semaphore_lock}

LEMMA LocksStayCounted ==
    ASSUME LocksCounted, NEW l \in KernelLocks, SimpleLockTry(l) \/ SimpleLockUnlock(l)
    PROVE  /\ LocksCounted'
           /\ \A m \in KernelLocks : m # l => lock_status'[m] = lock_status[m]
           /\ SimpleLockTry(l) => ~intr_flag' /\ lock_status'[l] = 1
  <1>1. /\ thread_lock \in Locks /\ semaphore_lock \in Locks /\ kernel_memory_lock \in Locks
        /\ thread_lock # semaphore_lock /\ thread_lock # kernel_memory_lock
        /\ semaphore_lock # kernel_memory_lock
    BY LockAssumption
  <1>2. lock_status \in [Locks -> {0, 1}] /\ l \in Locks
    BY <1>1 DEF LocksCounted, KernelLocks
  <1>3. CASE SimpleLockTry(l)
    <2>1. /\ lock_status' = [lock_status EXCEPT ![l] = 1]
          /\ lockcount' = lockcount + 1 - lock_status[l] /\ intr_flag' = FALSE
      BY <1>2, <1>3, <1>1 DEF SimpleLockTry, Take, LocksCounted
    <2> QED
      BY <1>1, <1>2, <2>1 DEF LocksCounted, KernelLocks
  <1>4. CASE SimpleLockUnlock(l)
    <2>1. /\ lock_status' = [lock_status EXCEPT ![l] = 0]
          /\ lockcount' = lockcount - lock_status[l]
      BY <1>1, <1>2, <1>4 DEF SimpleLockUnlock, Drop, LocksCounted
    <2>2. LocksCounted' /\ \A m \in KernelLocks : m # l => lock_status'[m] = lock_status[m]
      BY <1>1, <1>2, <2>1 DEF LocksCounted, KernelLocks
    <2>3. lock_status'[l] = 0
      BY <1>2, <2>1
    <2>4. ~SimpleLockTry(l)
      <3>1. SimpleLockTry(l) => lock_status'[l] = 1
        BY <1>2 DEF SimpleLockTry, Take
      <3> QED
        BY <2>3, <3>1
    <2> QED
      BY <2>2, <2>4
  <1> QED
    BY <1>3, <1>4

(* What a thread that goes on does to the pool, and where it goes.         *)
LEMMA ProceedPool ==
    ASSUME TestInv, MainInv, NEW t \in Threads, Proceed(t)
    PROVE  /\ thread_pool' = [i \in Slots |-> thread_pool'[i]]
           /\ Pooled' \subseteq Pooled \cup (IF pc[t] = "create_find" THEN {arg[t]} ELSE {})
  <1>0. thread_pool = [i \in Slots |-> thread_pool[i]]
    BY DEF MainInv
  <1>1. CASE CreateFind(t)
    <2>1. thread_pool' = [thread_pool EXCEPT ![Lowest(Free)] = arg[t]] /\ pc[t] = "create_find"
      BY <1>1 DEF CreateFind, At
    <2>2. /\ thread_pool' = [i \in Slots |-> thread_pool'[i]]
          /\ \A i \in Slots : thread_pool'[i] \in {thread_pool[i], arg[t]}
      BY <1>0, <2>1
    <2> QED
      BY <2>1, <2>2 DEF Pooled
  <1>2. CASE TeardownDrop(t)
    <2>1. thread_pool' = [thread_pool EXCEPT ![slot[t]] = NULL]
      BY <1>2 DEF TeardownDrop
    <2>2. /\ thread_pool' = [i \in Slots |-> thread_pool'[i]]
          /\ \A i \in Slots : thread_pool'[i] \in {thread_pool[i], NULL}
      BY <1>0, <2>1
    <2> QED
      BY <2>2 DEF Pooled
  <1>3. CASE ~CreateFind(t) /\ ~TeardownDrop(t)
    <2>1. thread_pool' = thread_pool
      BY <1>3 DEF Proceed, CreateFull, CreateStack, CreateMake, TeardownMissing, TeardownPanic,
           TeardownFind, TeardownFree, WaitSleep, WaitSpin, WaitPass, SignalPost
    <2> QED
      BY <1>0, <2>1 DEF Pooled
  <1> QED
    BY <1>1, <1>2, <1>3

LEMMA ProceedCreates ==
    ASSUME TestInv, MainInv, NEW t \in Threads, Proceed(t)
    PROVE  /\ pc[t] # "out" /\ current = t /\ current' = current
           /\ \A u \in Threads : u # t => pc'[u] \in {pc[u], "out"}
           /\ pc'[t] \in Creating =>
                /\ pc[t] \in Creating /\ (CreateFind(t) \/ CreateStack(t))
                /\ arg'[t] = arg[t] /\ \A u \in Threads : u # t => pc'[u] = pc[u]
  <1>1. pc[t] # "out" /\ current = t /\ current' = current
    BY DEF Proceed, CreateFull, CreateFind, CreateStack, CreateMake, TeardownMissing, TeardownPanic,
         TeardownFind, TeardownFree, TeardownDrop, WaitSleep, WaitSpin, WaitPass, SignalPost, At,
         dispatchVars
  <1>2. CASE CreateMake(t)
    <2>1. pc' = [pc EXCEPT ![t] = "out", ![arg[t]] = "out"]
      BY <1>2 DEF CreateMake, ReturnAndRestart
    <2>2. \A u \in Threads : pc'[u] \in {pc[u], "out"} /\ pc'[t] = "out"
      BY <2>1 DEF TestInv, TestType, OfThreads
    <2> QED
      BY <1>1, <2>2 DEF Creating
  <1>3. CASE TeardownPanic(t)
    <2>1. pc' = pc /\ pc[t] = "tear_find"
      BY <1>3 DEF TeardownPanic, At
    <2> QED
      BY <1>1, <2>1 DEF Creating
  <1>4. CASE \E v : Return(t, v)
    <2>1. Goes(t, "out", NULL)
      BY <1>4, ReturnGoes
    <2> QED
      BY <1>1, <2>1 DEF Goes, Creating
  <1>5. CASE \E p : Goto(t, p) /\ (p \in Creating => pc[t] \in Creating /\ (CreateFind(t) \/ CreateStack(t)))
    <2>1. PICK p : Goto(t, p) /\ (p \in Creating => pc[t] \in Creating /\ (CreateFind(t) \/ CreateStack(t)))
      BY <1>5
    <2>2. Goes(t, p, arg[t])
      BY <2>1, GotoGoes
    <2> QED
      BY <1>1, <2>1, <2>2 DEF Goes
  <1>6. \/ CreateMake(t) \/ TeardownPanic(t)
        \/ \E v : Return(t, v)
        \/ \E p : Goto(t, p) /\ (p \in Creating => pc[t] \in Creating /\ (CreateFind(t) \/ CreateStack(t)))
    BY DEF Proceed, CreateFull, CreateFind, CreateStack, TeardownMissing,
         TeardownFind, TeardownFree, TeardownDrop, WaitSleep, WaitSpin, WaitPass, SignalPost, At,
         Creating
  <1> QED
    BY <1>2, <1>3, <1>4, <1>5, <1>6

LEMMA ProceedLocks ==
    ASSUME TestInv, MainInv, NEW t \in Threads, Proceed(t)
    PROVE  LocksCounted'
  <1>1. \/ \E l \in KernelLocks : SimpleLockTry(l) \/ SimpleLockUnlock(l)
        \/ UNCHANGED lockVars
    BY DEF Proceed, CreateFull, CreateFind, CreateStack, CreateMake, TeardownMissing, TeardownPanic,
         TeardownFind, TeardownFree, TeardownDrop, WaitSleep, WaitSpin, WaitPass, SignalPost,
         KernelLocks
  <1>2. UNCHANGED lockVars => LocksCounted'
    BY DEF MainInv, LocksCounted, lockVars
  <1> QED
    BY <1>1, <1>2, LocksStayCounted DEF MainInv

(* Inside kmt_create the interrupts stay off: two locks are taken where    *)
(* the memory lock is released.                                            *)
LEMMA CreateMasked ==
    ASSUME TestInv, MainInv, pc[launchd] \in Creating, CreateFind(launchd) \/ CreateStack(launchd)
    PROVE  /\ ~intr_flag' /\ lock_status'[thread_lock] = 1
           /\ pc'[launchd] = "create_stack" => lock_status'[kernel_memory_lock] = 1
  <1> USE TwoThreads, LockAssumption
  <1>1. LocksCounted /\ ~intr_flag /\ lock_status[thread_lock] = 1
    BY DEF MainInv
  <1>2. CASE CreateFind(launchd)
    <2>1. SimpleLockTry(kernel_memory_lock)
      BY <1>2 DEF CreateFind
    <2> QED
      BY <1>1, <2>1, LocksStayCounted DEF KernelLocks
  <1>3. CASE CreateStack(launchd)
    <2>1. /\ SimpleLockUnlock(kernel_memory_lock) /\ pc[launchd] = "create_stack"
          /\ Goto(launchd, "create_make")
      BY <1>3 DEF CreateStack, At
    <2>2. pc'[launchd] = "create_make"
      BY <2>1, GotoGoes DEF Goes
    <2>3. lock_status'[thread_lock] = 1
      BY <1>1, <2>1, LocksStayCounted DEF KernelLocks
    <2>4. lock_status[kernel_memory_lock] = 1
      BY <2>1 DEF MainInv
    <2>5. lockcount # 1
      BY <1>1, <2>4 DEF LocksCounted
    <2>6. ~intr_flag'
      BY <1>1, <2>1, <2>5 DEF SimpleLockUnlock, LastRelease
    <2> QED
      BY <2>2, <2>3, <2>6
  <1> QED
    BY <1>2, <1>3

LEMMA MainProceed ==
    ASSUME TestInv, MainInv, NEW t \in Threads, Proceed(t), UNCHANGED testVars
    PROVE  MainInv'
  <1> USE TwoThreads
  <1>1. next' = next /\ complete' = complete
    BY DEF testVars
  <1>2. /\ t \in {launchd, producer, consumer}
        /\ pc[t] \in Creating => t = launchd
        /\ current = t /\ current' = t
    BY ProceedCreates, LaunchdCreates
  <1>3. \A u \in Threads \ {launchd, producer, consumer} : pc'[u] = "out"
    BY <1>2, ProceedCreates DEF MainInv
  <1>4. pc'[launchd] \in Creating =>
          /\ pc[launchd] \in Creating /\ t = launchd /\ (CreateFind(t) \/ CreateStack(t))
          /\ arg'[launchd] = arg[launchd] /\ \A u \in Threads : u # t => pc'[u] = pc[u]
    BY <1>2, ProceedCreates DEF MainInv, Creating
  <1>5. pc'[launchd] \in Creating =>
          /\ pc'[arg'[launchd]] = "out"
          /\ current' = launchd /\ ~intr_flag'
          /\ lock_status'[thread_lock] = 1
          /\ pc'[launchd] = "create_stack" => lock_status'[kernel_memory_lock] = 1
    BY <1>2, <1>4, CreateMasked DEF MainInv
  <1>6. thread_pool' = [i \in Slots |-> thread_pool'[i]]
    BY ProceedPool
  <1>7. Pooled' \subseteq Pooled \cup (IF pc[launchd] = "create_find" THEN {arg[launchd]} ELSE {})
    BY <1>2, ProceedPool DEF Creating
  <1>8. ASSUME NEW u \in {producer, consumer}, NotStarted(u),
               pc[launchd] = "create_find" => arg[launchd] # u
        PROVE  NotStarted(u)'
    BY <1>2, <1>7, <1>8, ProceedCreates DEF NotStarted
  <1>9. /\ next'[launchd] = "create consumer" => NotStarted(consumer)'
        /\ next'[launchd] \in {"create consumer", "create producer"} => NotStarted(producer)'
    BY <1>1, <1>8 DEF MainInv, Creating
  <1> QED
    BY <1>1, <1>3, <1>4, <1>5, <1>6, <1>9, ProceedLocks DEF MainInv

(* A statement of one of the two leaves the pool alone.                    *)
LEMMA MainClient ==
    ASSUME TestInv, MainInv, NEW t \in {producer, consumer},
           Loop(t) \/ Complete(t) \/ (t = producer /\ Producer) \/ (t = consumer /\ Consumer)
    PROVE  MainInv'
  <1> USE TwoThreads
  <1>1. thread_pool' = thread_pool /\ current = t /\ current' = current
    BY DEF Loop, Complete, Producer, Consumer, Plain, SemWaitCall, SemSignalCall, Call, At, dispatchVars
  <1>2. PICK s, s2 : Statement(t, s, s2) /\ s # "while (1)"
                     /\ complete' \in {complete, IF s2 = "while (1)" THEN complete \cup {t} ELSE complete}
    BY DEF Loop, Complete, Producer, Consumer
  <1>3. next[t] = s /\ \A u \in Threads : next'[u] = IF u = t THEN s2 ELSE next[u]
    BY <1>2, StatementNext
  <1>4. \/ Plain(t)
        \/ \E p \in {"wait_test", "signal_post"}, a \in Sems : Call(t, semaphore_lock, p, a)
    BY DEF Loop, Complete, Producer, Consumer, SemWaitCall, SemSignalCall
  <1>5. \E p, a : Goes(t, p, a) /\ p \in {"out", "wait_test", "signal_post"}
    BY <1>4, PlainGoes, CallGoes
  <1>6. \A u \in Threads : u # t => pc'[u] = pc[u] /\ arg'[u] = arg[u]
    BY <1>5 DEF Goes
  <1>7. t \notin complete
    BY <1>2, <1>3 DEF MainInv
  <1>8. Pooled' = Pooled
    BY <1>1 DEF Pooled
  <1>9. /\ complete' \subseteq {producer, consumer} /\ complete \subseteq complete'
        /\ \A u \in complete' : next'[u] = "while (1)"
    BY <1>2, <1>3, <1>7 DEF MainInv
  <1>10. LocksCounted'
    <2>1. CASE Plain(t)
      BY <2>1 DEF Plain, MainInv, LocksCounted, lockVars
    <2>2. CASE SimpleLockTry(semaphore_lock)
      BY <2>2, LocksStayCounted DEF MainInv, KernelLocks
    <2> QED
      BY <1>4, <2>1, <2>2 DEF Call
  <1>11. pc'[launchd] \notin Creating
    BY <1>1, <1>6 DEF MainInv
  <1>12. \A u \in {producer, consumer} : NotStarted(u) => NotStarted(u)'
    BY <1>1, <1>6, <1>8 DEF NotStarted
  <1> QED
    BY <1>1, <1>3, <1>6, <1>9, <1>10, <1>11, <1>12 DEF MainInv

LEMMA MainMain ==
    ASSUME TestInv, MainInv, Main
    PROVE  MainInv'
  <1> USE TwoThreads
  <1>1. /\ thread_pool' = thread_pool /\ complete' = complete
        /\ current = launchd /\ current' = current /\ pc[launchd] = "out"
    BY DEF Main, Plain, CreateCall, TeardownCall, Call, At, dispatchVars
  <1>2. Pooled' = Pooled
    BY <1>1 DEF Pooled
  <1>3. PICK s, s2, p, a :
          /\ Statement(launchd, s, s2) /\ Goes(launchd, p, a)
          /\ \/ s = "create consumer" /\ s2 = "create producer" /\ p = "create_find" /\ a = consumer
             \/ s = "create producer" /\ s2 = "poll" /\ p = "create_find" /\ a = producer
             \/ s = "poll" /\ s2 = "kill consumer" /\ p = "out" /\ {producer, consumer} \subseteq complete
             \/ s = "kill consumer" /\ s2 = "kill producer" /\ p = "tear_find"
             \/ s = "kill producer" /\ s2 = "while (1)" /\ p = "tear_find"
    BY CallGoes, PlainGoes DEF Main, CreateCall, TeardownCall
  <1>4. next[launchd] = s /\ \A u \in Threads : next'[u] = IF u = launchd THEN s2 ELSE next[u]
    BY <1>3, StatementNext
  <1>5. pc'[launchd] = p /\ arg'[launchd] = a
        /\ \A u \in Threads : u # launchd => pc'[u] = pc[u] /\ arg'[u] = arg[u]
    BY <1>3 DEF Goes
  <1>6. thread_pool' = [i \in Slots |-> thread_pool'[i]]
    BY <1>1 DEF MainInv
  <1>7. /\ complete' \subseteq {producer, consumer}
        /\ \A u \in complete' : next'[u] = "while (1)"
        /\ next'[launchd] \in {"kill consumer", "kill producer"} => {producer, consumer} \subseteq complete'
    BY <1>1, <1>3, <1>4 DEF MainInv
  <1>8. \A u \in Threads \ {launchd, producer, consumer} : pc'[u] = "out"
    BY <1>5 DEF MainInv
  <1>9. /\ LocksCounted'
        /\ p = "create_find" => ~intr_flag' /\ lock_status'[thread_lock] = 1
    <2>1. CASE Plain(launchd)
      <3>1. p = "out"
        BY <1>5, <2>1, PlainGoes DEF Goes
      <3> QED
        BY <2>1, <3>1 DEF Plain, MainInv, LocksCounted, lockVars
    <2>2. CASE SimpleLockTry(thread_lock)
      BY <2>2, LocksStayCounted DEF MainInv, KernelLocks
    <2> QED
      BY <2>1, <2>2 DEF Main, CreateCall, TeardownCall, Call
  <1>10. \A u \in {producer, consumer} : NotStarted(u) => NotStarted(u)' /\ pc'[u] = "out"
    BY <1>1, <1>2, <1>5 DEF NotStarted
  <1>11. /\ next'[launchd] = "create consumer" => NotStarted(consumer)'
         /\ next'[launchd] \in {"create consumer", "create producer"} => NotStarted(producer)'
         /\ pc'[launchd] \in Creating =>
              /\ \/ arg'[launchd] = consumer /\ next'[launchd] # "create consumer"
                 \/ arg'[launchd] = producer /\ next'[launchd] \notin {"create consumer", "create producer"}
              /\ pc'[arg'[launchd]] = "out"
              /\ pc'[launchd] = "create_find"
    BY <1>3, <1>4, <1>5, <1>10 DEF MainInv, Creating
  <1> QED
    BY <1>1, <1>5, <1>6, <1>7, <1>8, <1>9, <1>11 DEF MainInv

LEMMA MainStep ==
    ASSUME TestInv, MainInv, [Next]_vars
    PROVE  MainInv'
  <1>1. ASSUME UNCHANGED vars PROVE MainInv'
    BY <1>1 DEF vars, MainInv, LocksCounted, NotStarted, Pooled
  <1>2. ASSUME Interrupt PROVE MainInv'
    <2>1. /\ pc' = pc /\ arg' = arg /\ thread_pool' = thread_pool /\ next' = next
          /\ complete' = complete /\ intr_flag
          /\ lock_status' = lock_status /\ lockcount' = lockcount
      BY <1>2 DEF Interrupt, TimerInterrupt, Timer, Dispatch, TimerHang, FencePanic, testVars, lockVars
    <2>2. current' = current \/ current' \in Pooled
      BY <1>2 DEF Interrupt, TimerInterrupt, Timer, Dispatch, Runnable, TimerHang, FencePanic,
         dispatchVars, Pooled
    <2>3. Pooled' = Pooled
      BY <2>1 DEF Pooled
    <2>4. \A u \in {producer, consumer} : NotStarted(u) => NotStarted(u)'
      BY <2>1, <2>2, <2>3 DEF NotStarted
    <2> QED
      BY <2>1, <2>4 DEF MainInv, LocksCounted
  <1> QED
    BY <1>1, <1>2, MainProceed, MainClient, MainMain DEF Next, ThreadStep

LEMMA TestStep ==
    ASSUME TestInv, MainInv, [Next]_vars
    PROVE  TestInv'
  <1>1. ASSUME UNCHANGED vars PROVE TestInv'
    <2>1. pc' = pc /\ arg' = arg /\ count' = count /\ next' = next
          /\ opened' = opened /\ counter' = counter
      BY <1>1 DEF vars
    <2> QED
      BY <2>1 DEF TestInv, TestType, OfThreads, Client, OthersApart, Balance, Before, After
  <1>2. ASSUME NEW t \in Threads, CreateMake(t)
        PROVE  arg[t] \in Threads /\ pc[arg[t]] = "out"
    <2>1. pc[t] = "create_make"
      BY <1>2 DEF CreateMake, At
    <2>2. t = launchd
      BY <2>1, LaunchdCreates DEF Creating
    <2> QED
      BY <2>1, <2>2, TwoThreads DEF MainInv, Creating
  <1>3. ASSUME NEW t \in Threads, Proceed(t), UNCHANGED testVars PROVE TestInv'
    BY <1>2, <1>3, StepProceed
  <1> QED
    BY <1>1, <1>3, StepInterrupt, StepMain, StepLoop, StepProducer, StepConsumer
    DEF Next, ThreadStep

LEMMA TestInvariant == Spec => [](TestInv /\ MainInv)
  <1>1. Init => TestInv /\ MainInv
    BY InitTest, InitMain
  <1>2. TestInv /\ MainInv /\ [Next]_vars => TestInv' /\ MainInv'
    BY TestStep, MainStep
  <1> QED
    BY <1>1, <1>2, PTL DEF Spec

(* For any number of braces, any initial count and any pool: however the   *)
(* two threads are interrupted, put to sleep and woken up, no unit is lost *)
(* or made, and the braces stay balanced.                                  *)
THEOREM UnitsAreConserved == Spec => []UnitsConserved
  BY TestInvariant, TestConserves, PTL

-----------------------------------------------------------------------------
(* Each call of the test is one that KmtApi allows.                        *)

(* A signal finds fewer units in the semaphores than there are in all: the *)
(* one it gives back is in the hands of its thread.                        *)
LEMMA SignalBelow ==
    ASSUME TestInv, NEW t \in {producer, consumer}, next[t] = "signal",
           MaxCount \in [Sems -> Nat], \A s \in Sems : InitialCount[empty] <= MaxCount[s]
    PROVE  \A s \in Sems : count[s] < MaxCount[s]
  <1>1. After(t) = 1
    BY DEF After
  <1>2. \A u : After(u) \in {0, 1} /\ Before(u) \in {0, 1}
    BY DEF After, Before
  <1>3. count[empty] \in Nat /\ count[fill] \in Nat
    BY TwoThreads DEF TestInv, TestType
  <1>4. count[empty] + count[fill] + Before(producer) + After(producer)
          + Before(consumer) + After(consumer) = InitialCount[empty]
    BY DEF TestInv, Balance
  <1>5. After(producer) + After(consumer) >= 1
    BY <1>1, <1>2
  <1>6. count[empty] < MaxCount[empty] /\ count[fill] < MaxCount[fill]
    BY <1>2, <1>3, <1>4, <1>5, TwoThreads
  <1> QED
    BY <1>6, TwoThreads

LEMMA TestStepIsApi ==
    ASSUME TestInv, MainInv, [Next]_vars,
           MaxCount \in [Sems -> Nat], \A s \in Sems : InitialCount[empty] <= MaxCount[s]
    PROVE  [ApiNext]_apiVars
  <1> USE TwoThreads
  <1>1. ASSUME UNCHANGED vars PROVE UNCHANGED apiVars
    BY <1>1 DEF vars, apiVars
  <1>2. ASSUME NEW t \in Threads, Plain(t) PROVE UNCHANGED apiVars
    BY <1>2 DEF Plain, apiVars, dispatchVars, semVars, lockVars
  <1>3. ASSUME NEW t \in Threads, NEW s \in Sems, SemWaitCall(t, s) PROVE ApiNext
    BY <1>3 DEF ApiNext, CallOperation
  <1>4. ASSUME NEW t \in {producer, consumer}, NEW s \in Sems, SemSignalCall(t, s), next[t] = "signal"
        PROVE  ApiNext
    BY <1>4, SignalBelow DEF ApiNext, CallOperation
  <1>5. ASSUME Producer \/ Consumer PROVE ApiNext \/ UNCHANGED apiVars
    BY <1>2, <1>3, <1>4, <1>5 DEF Producer, Consumer, Statement
  <1>6. ASSUME Main PROVE ApiNext \/ UNCHANGED apiVars
    <2>1. ASSUME NEW u \in {producer, consumer}, CreateCall(launchd, u), u \notin Pooled PROVE ApiNext
      BY <2>1 DEF ApiNext, CallOperation
    <2>2. ASSUME NEW u \in {producer, consumer}, TeardownCall(launchd, u) PROVE ApiNext
      BY <2>2 DEF ApiNext, CallOperation
    <2> QED
      BY <1>2, <1>6, <2>1, <2>2 DEF Main, Statement, MainInv, NotStarted
  <1>7. ASSUME NEW t \in Threads, Proceed(t) \/ Interrupt PROVE ApiNext
    BY <1>7 DEF ApiNext, Interrupt
  <1> QED
    BY <1>1, <1>2, <1>5, <1>6, <1>7 DEF Next, ThreadStep, Loop, Complete

(* The test makes no call that KmtApi leaves out, and never signals a      *)
(* semaphore that has all of the units: whatever holds under every         *)
(* sequence of calls holds in sem_test.c.                                  *)
THEOREM TestImplementsApi ==
    ASSUME MaxCount \in [Sems -> Nat], \A s \in Sems : InitialCount[empty] <= MaxCount[s]
    PROVE  Spec => ApiSpec
  <1>1. Init => KmtInit
    BY DEF Init
  <1>2. TestInv /\ MainInv /\ [Next]_vars => [ApiNext]_apiVars
    BY TestStepIsApi
  <1> QED
    BY <1>1, <1>2, TestInvariant, PTL DEF Spec, ApiSpec
=============================================================================
