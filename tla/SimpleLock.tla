----------------------------- MODULE SimpleLock -----------------------------
(***************************************************************************)
(* src/libos/simple_lock.c under preemption, statement by statement.       *)
(* Contexts (the boot code and the kernel threads) share one CPU.  While   *)
(* EFLAGS.IF is set a timer interrupt may hand the CPU to any thread, also *)
(* between the two first statements of simple_lock_try and before the last *)
(* one of simple_lock_unlock.  A frame is only ever saved with IF set, and *)
(* _make builds one with IF set, so a context always resumes with          *)
(* interrupts enabled; the handler itself runs masked and takes no lock,   *)
(* which makes it one step here.                                           *)
(*                                                                         *)
(* held[c] are the locks whose critical sections c is in: taken and not    *)
(* yet released by the code c runs.  As everywhere in the kernel, a        *)
(* context does not take a lock it is already holding, and releases only   *)
(* what it holds; it may nest locks in any order.                          *)
(***************************************************************************)
EXTENDS LockState, FiniteSets

CONSTANTS
    Contexts,       \* the boot context and the kernel threads
    Boot,           \* the context that runs from reset to the end of os_run
    Nobody          \* not a context

ASSUME BootAssumption == Boot \in Contexts
ASSUME NobodyAssumption == Nobody \notin Contexts
ASSUME LocksAssumption == IsFiniteSet(Locks)

VARIABLES
    running,        \* the context that has the CPU
    pc,             \* where a context is in the two functions
    op,             \* the argument lock of the call under way
    intr,           \* local variable intr of simple_lock_try
    held,           \* the critical sections a context is in
    enabled         \* os_run has executed _intr_write(1)

vars == <<intr_flag, lock_status, lockcount, release_intr, lock_warned,
          running, pc, op, intr, held, enabled>>

Points == {"run", "try_mask", "try_take", "unlock_restore"}

TypeOK ==
    /\ LockTypeOK
    /\ running \in Contexts
    /\ pc \in [Contexts -> Points]
    /\ op \in [Contexts -> Locks \cup {Nobody}]
    /\ intr \in [Contexts -> BOOLEAN]
    /\ held \in [Contexts -> SUBSET Locks]
    /\ enabled \in BOOLEAN

(* The machine starts in the boot context with interrupts masked.          *)
Init ==
    /\ LockInit(FALSE)
    /\ running = Boot
    /\ pc = [c \in Contexts |-> "run"]
    /\ op = [c \in Contexts |-> Nobody]
    /\ intr = [c \in Contexts |-> FALSE]
    /\ held = [c \in Contexts |-> {}]
    /\ enabled = FALSE

-----------------------------------------------------------------------------
Goto(p) == pc' = [pc EXCEPT ![running] = p]

(* intr = _intr_read().  The boot context takes no lock after os_run's     *)
(* _intr_write(1), where it only spins.                                    *)
TryRead(l) ==
    /\ pc[running] = "run"
    /\ running = Boot => ~enabled
    /\ l \notin held[running]
    /\ op' = [op EXCEPT ![running] = l]
    /\ intr' = [intr EXCEPT ![running] = intr_flag]
    /\ Goto("try_mask")
    /\ UNCHANGED <<intr_flag, lock_status, lockcount, release_intr, lock_warned,
                   running, held, enabled>>

(* _intr_write(0)                                                          *)
TryMask ==
    /\ pc[running] = "try_mask"
    /\ intr_flag' = FALSE
    /\ Goto("try_take")
    /\ UNCHANGED <<lock_status, lockcount, release_intr, lock_warned,
                   running, op, intr, held, enabled>>

(* The test of status and both of its branches.                            *)
TryTake ==
    /\ pc[running] = "try_take"
    /\ Take(op[running], intr[running])
    /\ held' = [held EXCEPT ![running] = @ \cup {op[running]}]
    /\ Goto("run")
    /\ UNCHANGED <<intr_flag, running, op, intr, enabled>>

(* simple_lock_unlock, up to the decision to unmask.                       *)
UnlockDrop(l) ==
    /\ pc[running] = "run"
    /\ l \in held[running]
    /\ Drop(l)
    /\ held' = [held EXCEPT ![running] = @ \ {l}]
    /\ Goto(IF LastRelease(l) THEN "unlock_restore" ELSE "run")
    /\ UNCHANGED <<intr_flag, release_intr, running, op, intr, enabled>>

(* _intr_write(1) at the end of simple_lock_unlock                         *)
UnlockRestore ==
    /\ pc[running] = "unlock_restore"
    /\ intr_flag' = TRUE
    /\ Goto("run")
    /\ UNCHANGED <<lock_status, lockcount, release_intr, lock_warned,
                   running, op, intr, held, enabled>>

(* _intr_write(1) in os_run, outside of every critical section             *)
EnableInterrupts ==
    /\ running = Boot /\ pc[Boot] = "run" /\ held[Boot] = {} /\ ~enabled
    /\ enabled' = TRUE
    /\ intr_flag' = TRUE
    /\ UNCHANGED <<lock_status, lockcount, release_intr, lock_warned,
                   running, pc, op, intr, held>>

(* A timer interrupt: os_interrupt returns the frame of any thread, which  *)
(* resumes with interrupts enabled.  Nothing ever returns to the boot      *)
(* context, which has no entry in the thread pool.                         *)
Interrupt(c) ==
    /\ intr_flag
    /\ c # Boot
    /\ running' = c
    /\ UNCHANGED <<intr_flag, lock_status, lockcount, release_intr, lock_warned,
                   pc, op, intr, held, enabled>>

Next ==
    \/ \E l \in Locks : TryRead(l) \/ UnlockDrop(l)
    \/ TryMask
    \/ TryTake
    \/ UnlockRestore
    \/ EnableInterrupts
    \/ \E c \in Contexts : Interrupt(c)

Spec == Init /\ [][Next]_vars

-----------------------------------------------------------------------------
Locked == {l \in Locks : lock_status[l] = 1}

(* While a context is in a critical section, it has the CPU and cannot be  *)
(* preempted: neither the window between _intr_read and _intr_write(0) nor *)
(* the release of an inner lock lets an interrupt in.                      *)
HolderMasked ==
    \A c \in Contexts : held[c] # {} => running = c /\ ~intr_flag

(* The status bytes and lockcount agree with the sections really occupied: *)
(* the nesting depth never drifts, so "lockcount == 0" is a correct test   *)
(* for the outermost release.                                              *)
CountExact ==
    /\ \A l \in Locks : l \in Locked <=> \E c \in Contexts : l \in held[c]
    /\ lockcount = Cardinality(Locked)

(* Outside of every section a context runs with the interrupt flag it      *)
(* would have had if it had never locked: masked during boot, enabled ever *)
(* after.  A lock taken during boot must not enable interrupts early, and  *)
(* a thread must not come out of a section masked for good.                *)
RestoresInterrupts ==
    pc[running] = "run" /\ held[running] = {} => intr_flag = enabled

(* "Attempted to lock a locked lock" cannot be logged while every context  *)
(* pairs its calls: on one CPU nobody can ever find a lock taken.          *)
NoWarning == ~lock_warned

(* Where a call under way stands; with the properties above it is          *)
(* inductive.  A lock about to be taken is not held, a first lock has seen *)
(* the flag to restore, and only the outermost release restores it.        *)
CallsConsistent ==
    \A c \in Contexts :
        /\ pc[c] \in {"try_mask", "try_take"} =>
              /\ op[c] \in Locks \ held[c]
              /\ held[c] = {} => intr[c] = enabled
        /\ pc[c] = "try_take" => running = c /\ ~intr_flag
        /\ pc[c] = "unlock_restore" =>
              running = c /\ ~intr_flag /\ held[c] = {} /\ enabled

BootAlone ==
    ~enabled => /\ running = Boot /\ ~intr_flag
                /\ \A c \in Contexts \ {Boot} : pc[c] = "run" /\ held[c] = {}

(* The inductive invariant of the lock, from which all of the above        *)
(* follow: it adds the reason why the last release restores the right      *)
(* flag, that release_intr is the flag of the outermost section.           *)
SectionInv ==
    /\ TypeOK
    /\ HolderMasked
    /\ CountExact
    /\ RestoresInterrupts
    /\ NoWarning
    /\ CallsConsistent
    /\ BootAlone
    /\ Locked # {} => release_intr = enabled

(* Contexts see one-CPU critical sections.                                 *)
owner == [l \in Locks |->
            IF \E c \in Contexts : l \in held[c]
              THEN CHOOSE c \in Contexts : l \in held[c]
              ELSE Nobody]

Section == INSTANCE KernelSection

(* simple_lock.c implements the abstract sections of KernelSection: one    *)
(* occupant for each lock and no change of context inside of a section.    *)
ImplementsSections == Section!Spec
=============================================================================
