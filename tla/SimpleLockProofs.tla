-------------------------- MODULE SimpleLockProofs --------------------------
(***************************************************************************)
(* Proofs about SimpleLock, for any number of contexts and of locks.       *)
(***************************************************************************)
EXTENDS SimpleLock, FiniteSetTheorems, TLAPS

(* The number of taken locks can be counted.                               *)
LEMMA LockedFinite ==
    /\ IsFiniteSet(Locked)
    /\ Cardinality(Locked) \in Nat
    /\ Cardinality(Locked) = 0 <=> Locked = {}
  <1>1. Locked \in SUBSET Locks
    BY DEF Locked
  <1>2. IsFiniteSet(Locked)
    BY <1>1, LocksAssumption, FS_Subset
  <1> QED
    BY <1>2, FS_CardinalityType, FS_EmptySet

(* In a state of the invariant only the running context is in a section,   *)
(* and its sections are exactly the locks taken.                           *)
LEMMA RunningHoldsLocked ==
    ASSUME SectionInv
    PROVE  /\ held[running] = Locked
           /\ \A c \in Contexts : c # running => held[c] = {}
  <1>1. \A c \in Contexts : c # running => held[c] = {}
    BY DEF SectionInv, HolderMasked
  <1>2. Locked \subseteq Locks
    BY DEF Locked
  <1>3. running \in Contexts /\ held[running] \subseteq Locks
    BY DEF SectionInv, TypeOK
  <1>4. \A l \in Locks : l \in Locked <=> l \in held[running]
    BY <1>1, <1>3 DEF SectionInv, CountExact
  <1> QED
    BY <1>1, <1>2, <1>3, <1>4

LEMMA InitSection == Init => SectionInv
  <1> SUFFICES ASSUME Init PROVE SectionInv
    OBVIOUS
  <1> USE BootAssumption DEF Init, LockInit
  <1>1. TypeOK
    BY DEF TypeOK, LockTypeOK, Points
  <1>2. Locked = {}
    BY DEF Locked
  <1>3. CountExact
    BY <1>2, LockedFinite DEF CountExact
  <1>4. HolderMasked /\ RestoresInterrupts /\ NoWarning
    BY DEF HolderMasked, RestoresInterrupts, NoWarning
  <1>5. CallsConsistent /\ BootAlone
    BY DEF CallsConsistent, BootAlone
  <1> QED
    BY <1>1, <1>2, <1>3, <1>4, <1>5 DEF SectionInv

-----------------------------------------------------------------------------
(* Every action preserves the invariant.                                   *)
LEMMA StepTryRead ==
    ASSUME SectionInv, NEW l \in Locks, TryRead(l)
    PROVE  SectionInv'
  <1> USE DEF TryRead, Goto
  <1>1. running \in Contexts
    BY DEF SectionInv, TypeOK
  <1>2. TypeOK'
    BY <1>1 DEF SectionInv, TypeOK, LockTypeOK, Points
  <1>3. HolderMasked' /\ NoWarning' /\ RestoresInterrupts'
    BY <1>1 DEF SectionInv, TypeOK, HolderMasked, NoWarning, RestoresInterrupts
  <1>4. Locked' = Locked
    BY DEF Locked
  <1>5. CountExact'
    BY <1>4 DEF SectionInv, CountExact
  <1>6. held[running] = {} => intr_flag = enabled
    BY DEF SectionInv, RestoresInterrupts
  <1>7. CallsConsistent'
    BY <1>1, <1>6 DEF SectionInv, TypeOK, CallsConsistent
  <1>8. BootAlone'
    BY <1>1 DEF SectionInv, TypeOK, BootAlone
  <1> QED
    BY <1>2, <1>3, <1>4, <1>5, <1>7, <1>8 DEF SectionInv

LEMMA StepTryMask ==
    ASSUME SectionInv, TryMask
    PROVE  SectionInv'
  <1> USE DEF TryMask, Goto
  <1>1. running \in Contexts
    BY DEF SectionInv, TypeOK
  <1>2. TypeOK'
    BY <1>1 DEF SectionInv, TypeOK, LockTypeOK, Points
  <1>3. HolderMasked' /\ NoWarning' /\ RestoresInterrupts'
    BY <1>1 DEF SectionInv, TypeOK, HolderMasked, NoWarning, RestoresInterrupts
  <1>4. Locked' = Locked
    BY DEF Locked
  <1>5. CountExact'
    BY <1>4 DEF SectionInv, CountExact
  <1>6. CallsConsistent'
    BY <1>1 DEF SectionInv, TypeOK, CallsConsistent
  <1>7. BootAlone'
    BY <1>1 DEF SectionInv, TypeOK, BootAlone
  <1> QED
    BY <1>2, <1>3, <1>4, <1>5, <1>6, <1>7 DEF SectionInv

(* The context at try_take is the running one, finds the lock free, and is *)
(* the first to take a lock exactly when it is in no section yet.          *)
LEMMA StepTryTake ==
    ASSUME SectionInv, TryTake
    PROVE  SectionInv'
  <1> DEFINE l == op[running]
  <1> USE DEF TryTake, Goto
  <1>1. running \in Contexts
    BY DEF SectionInv, TypeOK
  <1>2. l \in Locks \ held[running] /\ ~intr_flag
    BY <1>1 DEF SectionInv, CallsConsistent
  <1>3. l \notin Locked /\ lock_status[l] # 1
    BY <1>2, RunningHoldsLocked DEF Locked
  <1>4. /\ release_intr' = IF lockcount = 0 THEN intr[running] ELSE release_intr
        /\ lock_status' = [lock_status EXCEPT ![l] = 1]
        /\ lockcount' = lockcount + 1
        /\ lock_warned' = lock_warned
    BY <1>3 DEF Take, Remembered
  <1>5. Locked' = Locked \cup {l}
    BY <1>2, <1>4 DEF SectionInv, TypeOK, LockTypeOK, Locked
  <1>6. /\ held'[running] = held[running] \cup {l}
        /\ \A c \in Contexts : c # running => held'[c] = held[c]
    BY <1>1 DEF SectionInv, TypeOK
  <1>7. lockcount = 0 <=> held[running] = {}
    BY LockedFinite, RunningHoldsLocked DEF SectionInv, CountExact
  <1>8. release_intr' = enabled
    BY <1>1, <1>4, <1>7, RunningHoldsLocked DEF SectionInv, CallsConsistent
  <1>9. TypeOK'
    BY <1>1, <1>2, <1>4 DEF SectionInv, TypeOK, LockTypeOK, Points
  <1>10. HolderMasked' /\ NoWarning' /\ RestoresInterrupts'
    BY <1>1, <1>2, <1>4, <1>6 DEF SectionInv, HolderMasked, NoWarning, RestoresInterrupts
  <1>11. CountExact'
    <2>1. lockcount' = Cardinality(Locked')
      BY <1>3, <1>4, <1>5, LockedFinite, FS_AddElement DEF SectionInv, CountExact
    <2>2. ASSUME NEW k \in Locks PROVE k \in Locked' <=> \E c \in Contexts : k \in held'[c]
      BY <1>1, <1>5, <1>6, RunningHoldsLocked
    <2> QED
      BY <2>1, <2>2 DEF CountExact
  <1>12. CallsConsistent'
    BY <1>1, <1>6 DEF SectionInv, TypeOK, CallsConsistent
  <1>13. BootAlone'
    BY <1>1, <1>6 DEF SectionInv, TypeOK, BootAlone
  <1> QED
    BY <1>8, <1>9, <1>10, <1>11, <1>12, <1>13 DEF SectionInv

(* The last section is the one whose release leaves lockcount at 0; only   *)
(* then may the flag be restored, and release_intr says to what.           *)
LEMMA StepUnlockDrop ==
    ASSUME SectionInv, NEW l \in Locks, UnlockDrop(l)
    PROVE  SectionInv'
  <1> USE DEF UnlockDrop, LastRelease, Goto
  <1>1. running \in Contexts /\ ~intr_flag
    BY DEF SectionInv, TypeOK, HolderMasked
  <1>2. l \in Locked /\ lock_status[l] # 0
    BY RunningHoldsLocked DEF Locked
  <1>3. /\ lockcount' = lockcount - 1
        /\ lock_status' = [lock_status EXCEPT ![l] = 0]
        /\ lock_warned' = lock_warned
    BY <1>2 DEF Drop
  <1>4. Locked' = Locked \ {l}
    BY <1>3 DEF SectionInv, TypeOK, LockTypeOK, Locked
  <1>5. /\ held'[running] = held[running] \ {l}
        /\ \A c \in Contexts : c # running => held'[c] = held[c]
    BY <1>1 DEF SectionInv, TypeOK
  <1>6. lockcount = Cardinality(Locked) /\ lockcount # 0
    BY <1>2, LockedFinite DEF SectionInv, CountExact
  <1>7. lockcount' = Cardinality(Locked')
    BY <1>2, <1>3, <1>4, <1>6, LockedFinite, FS_RemoveElement
  <1>8. lockcount = 1 <=> held'[running] = {}
    <2>1. IsFiniteSet(Locked \ {l})
      BY LockedFinite, FS_RemoveElement
    <2>2. Cardinality(Locked \ {l}) = 0 <=> Locked \ {l} = {}
      BY <2>1, FS_EmptySet
    <2> QED
      BY <2>2, <1>3, <1>4, <1>5, <1>6, <1>7, LockedFinite, RunningHoldsLocked
  <1>9. release_intr = enabled
    BY <1>2 DEF SectionInv
  <1>10. TypeOK'
    BY <1>1, <1>3, <1>6, LockedFinite DEF SectionInv, TypeOK, LockTypeOK, Points
  <1>11. HolderMasked' /\ NoWarning'
    BY <1>1, <1>3, <1>5 DEF SectionInv, HolderMasked, NoWarning
  <1>12. pc'[running] = IF lockcount = 1 /\ enabled THEN "unlock_restore" ELSE "run"
    BY <1>1, <1>2, <1>9 DEF SectionInv, TypeOK
  <1>13. RestoresInterrupts'
    BY <1>1, <1>8, <1>12 DEF SectionInv, TypeOK, LockTypeOK, RestoresInterrupts
  <1>14. CountExact'
    <2>1. ASSUME NEW k \in Locks PROVE k \in Locked' <=> \E c \in Contexts : k \in held'[c]
      BY <1>1, <1>4, <1>5, RunningHoldsLocked
    <2> QED
      BY <1>7, <2>1 DEF CountExact
  <1>15. CallsConsistent'
    BY <1>1, <1>5, <1>8, <1>12 DEF SectionInv, TypeOK, CallsConsistent
  <1>16. BootAlone'
    BY <1>1, <1>5 DEF SectionInv, TypeOK, BootAlone
  <1> QED
    BY <1>4, <1>9, <1>10, <1>11, <1>13, <1>14, <1>15, <1>16 DEF SectionInv

LEMMA StepUnlockRestore ==
    ASSUME SectionInv, UnlockRestore
    PROVE  SectionInv'
  <1> USE DEF UnlockRestore, Goto
  <1>1. running \in Contexts /\ held[running] = {} /\ enabled
    BY DEF SectionInv, TypeOK, CallsConsistent
  <1>2. TypeOK'
    BY <1>1 DEF SectionInv, TypeOK, LockTypeOK, Points
  <1>3. HolderMasked' /\ NoWarning' /\ RestoresInterrupts'
    BY <1>1 DEF SectionInv, TypeOK, HolderMasked, NoWarning, RestoresInterrupts
  <1>4. Locked' = Locked
    BY DEF Locked
  <1>5. CountExact'
    BY <1>4 DEF SectionInv, CountExact
  <1>6. CallsConsistent' /\ BootAlone'
    BY <1>1 DEF SectionInv, TypeOK, CallsConsistent, BootAlone
  <1> QED
    BY <1>2, <1>3, <1>4, <1>5, <1>6 DEF SectionInv

LEMMA StepEnableInterrupts ==
    ASSUME SectionInv, EnableInterrupts
    PROVE  SectionInv'
  <1> USE DEF EnableInterrupts
  <1>1. \A c \in Contexts : pc[c] = "run" /\ held[c] = {}
    BY BootAssumption DEF SectionInv, BootAlone
  <1>2. Locked = {}
    BY <1>1, RunningHoldsLocked DEF SectionInv, TypeOK
  <1>3. Locked' = Locked
    BY DEF Locked
  <1>4. TypeOK'
    BY DEF SectionInv, TypeOK, LockTypeOK
  <1>5. HolderMasked' /\ NoWarning' /\ RestoresInterrupts'
    BY <1>1 DEF SectionInv, HolderMasked, NoWarning, RestoresInterrupts
  <1>6. CountExact'
    BY <1>3 DEF SectionInv, CountExact
  <1>7. CallsConsistent' /\ BootAlone'
    BY <1>1 DEF CallsConsistent, BootAlone
  <1> QED
    BY <1>2, <1>3, <1>4, <1>5, <1>6, <1>7 DEF SectionInv

(* An interrupt finds the interrupted context in no section.               *)
LEMMA StepInterrupt ==
    ASSUME SectionInv, NEW c \in Contexts, Interrupt(c)
    PROVE  SectionInv'
  <1> USE DEF Interrupt
  <1>1. enabled /\ \A d \in Contexts : held[d] = {}
    BY DEF SectionInv, HolderMasked, BootAlone
  <1>2. \A d \in Contexts : pc[d] \notin {"try_take", "unlock_restore"}
    BY DEF SectionInv, CallsConsistent
  <1>3. Locked' = Locked
    BY DEF Locked
  <1>4. TypeOK'
    BY DEF SectionInv, TypeOK, LockTypeOK
  <1>5. HolderMasked' /\ NoWarning' /\ RestoresInterrupts'
    BY <1>1 DEF SectionInv, HolderMasked, NoWarning, RestoresInterrupts
  <1>6. CountExact'
    BY <1>3 DEF SectionInv, CountExact
  <1>7. CallsConsistent' /\ BootAlone'
    BY <1>1, <1>2 DEF SectionInv, CallsConsistent, BootAlone
  <1> QED
    BY <1>3, <1>4, <1>5, <1>6, <1>7 DEF SectionInv

LEMMA StepStutter ==
    ASSUME SectionInv, UNCHANGED vars
    PROVE  SectionInv'
  <1>1. Locked' = Locked
    BY DEF vars, Locked
  <1> QED
    BY <1>1 DEF vars, SectionInv, TypeOK, LockTypeOK, HolderMasked, CountExact,
             RestoresInterrupts, NoWarning, CallsConsistent, BootAlone

(* The lock invariant holds in every reachable state, whatever the number  *)
(* of contexts and of locks.                                               *)
THEOREM SectionInvariant == Spec => []SectionInv
  <1>1. Init => SectionInv
    BY InitSection
  <1>2. SectionInv /\ [Next]_vars => SectionInv'
    BY StepTryRead, StepTryMask, StepTryTake, StepUnlockDrop, StepUnlockRestore,
       StepEnableInterrupts, StepInterrupt, StepStutter DEF Next
  <1> QED
    BY <1>1, <1>2, PTL DEF Spec

(* A context in a critical section has the CPU with interrupts masked.     *)
THEOREM MutualExclusion == Spec => []HolderMasked
  <1>1. SectionInv => HolderMasked
    BY DEF SectionInv
  <1> QED
    BY <1>1, SectionInvariant, PTL

(* Leaving the outermost section restores the caller's interrupt flag.     *)
THEOREM InterruptsRestored == Spec => []RestoresInterrupts
  <1>1. SectionInv => RestoresInterrupts
    BY DEF SectionInv
  <1> QED
    BY <1>1, SectionInvariant, PTL

-----------------------------------------------------------------------------
(* The owner of a lock, when the invariant holds, is the running context.  *)
LEMMA OwnerIsRunning ==
    ASSUME SectionInv
    PROVE  owner = [l \in Locks |-> IF l \in held[running] THEN running ELSE Nobody]
  <1>1. running \in Contexts
    BY DEF SectionInv, TypeOK
  <1>2. ASSUME NEW l \in Locks, NEW c \in Contexts, l \in held[c] PROVE c = running
    BY <1>2, RunningHoldsLocked
  <1>3. ASSUME NEW l \in Locks
        PROVE  owner[l] = IF l \in held[running] THEN running ELSE Nobody
    <2>1. CASE l \in held[running]
      <3>1. \E c \in Contexts : l \in held[c]
        BY <1>1, <2>1
      <3>2. (CHOOSE c \in Contexts : l \in held[c]) = running
        BY <3>1, <1>2
      <3> QED
        BY <3>1, <3>2, <2>1 DEF owner
    <2>2. CASE l \notin held[running]
      BY <1>2, <2>2 DEF owner
    <2> QED
      BY <2>1, <2>2
  <1> QED
    BY <1>3 DEF owner

(* The same after a step, for the occupants and the running context then.  *)
LEMMA OwnerIsRunningAfter ==
    ASSUME SectionInv'
    PROVE  owner' = [l \in Locks |-> IF l \in held'[running'] THEN running' ELSE Nobody]
  <1>1. running' \in Contexts
    BY DEF SectionInv, TypeOK
  <1>2. ASSUME NEW l \in Locks, NEW c \in Contexts, l \in held'[c] PROVE c = running'
    BY <1>2 DEF SectionInv, HolderMasked
  <1>3. ASSUME NEW l \in Locks
        PROVE  owner'[l] = IF l \in held'[running'] THEN running' ELSE Nobody
    <2>1. CASE l \in held'[running']
      <3>1. \E c \in Contexts : l \in held'[c]
        BY <1>1, <2>1
      <3>2. (CHOOSE c \in Contexts : l \in held'[c]) = running'
        BY <3>1, <1>2
      <3> QED
        BY <3>1, <3>2, <2>1 DEF owner
    <2>2. CASE l \notin held'[running']
      BY <1>2, <2>2 DEF owner
    <2> QED
      BY <2>1, <2>2
  <1> QED
    BY <1>3 DEF owner

LEMMA SectionStep ==
    ASSUME SectionInv, SectionInv', [Next]_vars
    PROVE  [Section!Next]_(Section!vars)
  <1> USE DEF Section!vars
  <1>1. running \in Contexts /\ held \in [Contexts -> SUBSET Locks]
    BY DEF SectionInv, TypeOK
  <1>2. ASSUME running' = running, held' = held PROVE owner' = owner
    BY <1>2 DEF owner
  <1>3. CASE TryTake
    <2> DEFINE l == op[running]
    <2>1. l \in Locks \ held[running] /\ running' = running
      BY <1>1, <1>3 DEF TryTake, SectionInv, CallsConsistent
    <2>2. held'[running] = held[running] \cup {l}
      BY <1>1, <1>3 DEF TryTake
    <2>3. owner[l] = Nobody
      BY <2>1, OwnerIsRunning
    <2>4. owner' = [owner EXCEPT ![l] = running]
      BY <2>1, <2>2, OwnerIsRunning, OwnerIsRunningAfter
    <2>5. Section!Enter(l)
      BY <2>1, <2>3, <2>4 DEF Section!Enter
    <2> QED
      BY <2>1, <2>5 DEF Section!Next
  <1>4. ASSUME NEW l \in Locks, UnlockDrop(l) PROVE Section!Leave(l)
    <2>1. l \in held[running] /\ running' = running
      BY <1>4 DEF UnlockDrop
    <2>2. held'[running] = held[running] \ {l}
      BY <1>1, <1>4 DEF UnlockDrop
    <2>3. owner[l] = running
      BY <2>1, OwnerIsRunning
    <2>4. owner' = [owner EXCEPT ![l] = Nobody]
      BY <2>1, <2>2, OwnerIsRunning, OwnerIsRunningAfter
    <2> QED
      BY <2>1, <2>3, <2>4 DEF Section!Leave
  <1>5. ASSUME NEW c \in Contexts, Interrupt(c) PROVE Section!Switch(c)
    <2>1. running' = c /\ \A d \in Contexts : held[d] = {}
      BY <1>5 DEF Interrupt, SectionInv, HolderMasked
    <2>2. \A l \in Locks : owner[l] = Nobody
      BY <2>1, <1>1, OwnerIsRunning
    <2>3. owner' = owner
      BY <1>5 DEF Interrupt, owner
    <2> QED
      BY <2>1, <2>2, <2>3 DEF Section!Switch
  <1>6. CASE TryMask \/ UnlockRestore \/ EnableInterrupts \/ UNCHANGED vars
    BY <1>2, <1>6 DEF TryMask, UnlockRestore, EnableInterrupts, vars
  <1>7. ASSUME NEW l \in Locks, TryRead(l) PROVE UNCHANGED <<running, owner>>
    BY <1>2, <1>7 DEF TryRead
  <1> QED
    BY <1>3, <1>4, <1>5, <1>6, <1>7 DEF Next, Section!Next

(* simple_lock.c implements one-CPU critical sections: at most one context *)
(* in the section of a lock, and no change of context while any section is *)
(* occupied.                                                               *)
THEOREM Implementation == Spec => ImplementsSections
  <1>1. Init => Section!Init
    BY DEF Init, Section!Init, owner
  <1>2. SectionInv /\ SectionInv' /\ [Next]_vars => [Section!Next]_(Section!vars)
    BY SectionStep
  <1> QED
    BY <1>1, <1>2, SectionInvariant, PTL DEF Spec, Section!Spec, ImplementsSections
=============================================================================
