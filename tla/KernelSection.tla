--------------------------- MODULE KernelSection ---------------------------
(***************************************************************************)
(* What the kernel expects of its spin locks, with nothing said of how:    *)
(* one context runs at a time, it may enter the section of any lock nobody *)
(* is in and leave a section it is in, and the CPU never goes to another   *)
(* context while any section is occupied.                                  *)
(***************************************************************************)
CONSTANTS Contexts, Locks, Boot, Nobody

VARIABLES running, owner        \* who has the CPU; who is in each section

vars == <<running, owner>>

Init ==
    /\ running = Boot
    /\ owner = [l \in Locks |-> Nobody]

Enter(l) ==
    /\ owner[l] = Nobody
    /\ owner' = [owner EXCEPT ![l] = running]
    /\ UNCHANGED running

Leave(l) ==
    /\ owner[l] = running
    /\ owner' = [owner EXCEPT ![l] = Nobody]
    /\ UNCHANGED running

Switch(c) ==
    /\ \A l \in Locks : owner[l] = Nobody
    /\ running' = c
    /\ UNCHANGED owner

Next ==
    \/ \E l \in Locks : Enter(l) \/ Leave(l)
    \/ \E c \in Contexts : Switch(c)

Spec == Init /\ [][Next]_vars
=============================================================================
