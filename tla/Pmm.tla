-------------------------------- MODULE Pmm --------------------------------
(***************************************************************************)
(* The physical memory manager, src/pmm.c: first-fit allocation with       *)
(* naturally aligned results, from one list of blocks kept in the managed  *)
(* memory itself.                                                          *)
(*                                                                         *)
(* Memory is a function from word addresses to values.  A block is a       *)
(* three-word header (front, inuse, next) and what follows up to the next  *)
(* block; headers left behind by merged blocks stay in memory as they do   *)
(* in the machine.  Sizes are in words, so requests are multiples of four  *)
(* bytes.  pmm_alloc and pmm_free run under kernel_memory_lock: each loop  *)
(* iteration is a step, and no other call is in progress meanwhile.        *)
(*                                                                         *)
(* When no block is large enough, pmm_alloc grants memory behind the heap; *)
(* that call is modelled to its end, and the model stops there, because    *)
(* nothing is known of the words behind the heap: what is written to them  *)
(* is lost, but for those of a header at _heap.end.                        *)
(***************************************************************************)
EXTENDS Integers, FiniteSets

CONSTANTS
    Start, End,         \* _heap.start and _heap.end, in words
    Sizes,              \* the sizes clients ask for
    MaxLive             \* bound: allocations a client keeps at a time

NULL == 0
H == 3                  \* sizeof(struct memory_block), in words

ASSUME HeapAssumption ==
    /\ Start \in Nat \ {NULL} /\ End \in Nat
    /\ Start + H < End
ASSUME SizesAssumption == Sizes \subseteq Nat \ {0}

VARIABLES
    mem,                \* the heap, and the header-sized words behind it
    memory_head,
    live,               \* what clients have got and not freed: [ptr, size]
    pc,                 \* where the call under way stands
    size,               \* the argument of pmm_alloc
    blockit,            \* its position in the list
    cur                 \* local variable current of pmm_free

vars == <<mem, memory_head, live, pc, size, blockit, cur>>

Addresses == Start..(End + H - 1)

TypeOK ==
    /\ pc \in {"idle", "search", "back", "forward", "off_heap"}
    /\ pc # "off_heap" =>
          /\ mem \in [Addresses -> Nat]
          /\ memory_head \in Start..End
          /\ live \subseteq [ptr : Start..End, size : Sizes]
    /\ size \in Sizes \cup {0}
    /\ blockit \in Start..End \cup {NULL}
    /\ cur \in Start..End \cup {NULL}

-----------------------------------------------------------------------------
(* The fields of the header at b in memory m, and the result of setting    *)
(* them.                                                                   *)
front(m, b) == m[b]
inuse(m, b) == m[b + 1]
next(m, b) == m[b + 2]

SetFront(m, b, v) == [m EXCEPT ![b] = v]
SetInuse(m, b, v) == [m EXCEPT ![b + 1] = v]
SetNext(m, b, v) == [m EXCEPT ![b + 2] = v]

(* The least power of two that is not below s.                             *)
RoundUp(s) ==
    LET Powers == {2^k : k \in 0..s}
    IN  CHOOSE r \in Powers : r >= s /\ \A q \in Powers : q >= s => r <= q

(* There is such a power, as 2^s >= s.                                     *)
ASSUME RoundUpAssumption == \A s \in Sizes : RoundUp(s) \in Nat \ {0}

(* Where the data of a request for s words would start in block b.         *)
startinblock(b) == b + H
allocaddr(b, s) ==
    LET r == RoundUp(s)
    IN  IF startinblock(b) % r = 0
          THEN startinblock(b)
          ELSE (startinblock(b) \div r) * r + r

(* pmm_init: one free block; RAM is zero.                                  *)
Init ==
    /\ mem = SetNext([a \in Addresses |-> 0], Start, End)
    /\ memory_head = Start
    /\ live = {}
    /\ pc = "idle"
    /\ size = 0
    /\ blockit = NULL
    /\ cur = NULL

-----------------------------------------------------------------------------
AllocCall(s) ==
    /\ pc = "idle"
    /\ Cardinality(live) < MaxLive
    /\ pc' = "search"
    /\ size' = s
    /\ blockit' = memory_head
    /\ UNCHANGED <<mem, memory_head, live, cur>>

(* Mutant: blocks in use are not skipped.                                  *)
FitsIfLarge(b) == next(mem, b) - allocaddr(b, size) - size >= 0

Fits(b) == inuse(mem, b) # 1 /\ next(mem, b) - allocaddr(b, size) - size >= 0

Search ==
    /\ pc = "search"
    /\ blockit \notin {NULL, End}
    /\ ~Fits(blockit)
    /\ blockit' = next(mem, blockit)
    /\ UNCHANGED <<mem, memory_head, live, pc, size, cur>>

(* The loop has run through the list.  The test after it recognises only   *)
(* NULL, which no next field of the list holds: at _heap.end the code goes *)
(* on as if there were a block.                                            *)
Exhausted == blockit = End

(* The call returns its block; the arguments and locals are gone.          *)
Return(a) ==
    /\ live' = live \cup {[ptr |-> a, size |-> size]}
    /\ pc' = IF Exhausted THEN "off_heap" ELSE "idle"
    /\ size' = 0
    /\ blockit' = NULL
    /\ UNCHANGED cur

Found == pc = "search" /\ blockit # NULL /\ (Exhausted \/ Fits(blockit))

(* Room for a header and more between the found block's header and the     *)
(* aligned address: the found block keeps that space as a free block.      *)
RoomInFront(a) == a - startinblock(blockit) - H > 0
(* Mutant: a remainder too small for a header becomes a block.             *)
RoomBehindForData(a) == next(mem, blockit) - a - size > 0

RoomBehind(a) == next(mem, blockit) - a - size - H > 0

(* The rest of the found block becomes the free block at a + size.         *)
Remainder(m, a) ==
    LET r == a + size
    IN  SetNext(SetInuse(SetFront(m, r, a - H), r, 0), r, next(m, blockit))

PlaceInside ==
    LET a == allocaddr(blockit, size)
        b == a - H
        n == next(mem, blockit)
        last == IF RoomBehind(a) THEN a + size ELSE b
        m1 == SetInuse(SetFront(mem, b, blockit), b, 1)
        m2 == IF RoomBehind(a) THEN SetNext(Remainder(m1, a), b, a + size)
                               ELSE SetNext(m1, b, n)
        m3 == IF n # End THEN SetFront(m2, n, last) ELSE m2
    IN  /\ Found
        /\ RoomInFront(a)
        /\ mem' = SetNext(m3, blockit, b)
        /\ Return(a)
        /\ UNCHANGED memory_head

(* No such room: the header moves from the start of the block to the       *)
(* aligned address.  First the rest of the block is split off.             *)
SplitBehind(a) ==
    LET r == a + size
        n == next(mem, blockit)
        m1 == Remainder(mem, a)
        m2 == IF n # End THEN SetFront(m1, n, r) ELSE m1
    IN  IF RoomBehind(a) THEN SetNext(m2, blockit, r) ELSE mem

PlaceAtHead ==
    LET a == allocaddr(blockit, size)
        b == a - H
        m == SplitBehind(a)
    IN  /\ Found
        /\ ~RoomInFront(a)
        /\ front(m, blockit) = NULL
        /\ memory_head' = b
        /\ mem' = SetInuse(SetNext(m, b, next(m, blockit)), b, 1)
        /\ Return(a)

PlaceAtStart ==
    LET a == allocaddr(blockit, size)
        b == a - H
        m == SplitBehind(a)
        current_next == next(m, blockit)
        current_front == front(m, blockit)
        m1 == SetNext(m, current_front, b)
        m2 == SetFront(m1, current_next, b)
    IN  /\ Found
        /\ ~RoomInFront(a)
        /\ current_front # NULL
        /\ mem' = SetInuse(SetFront(SetNext(m2, b, current_next), b, current_front), b, 1)
        /\ Return(a)
        /\ UNCHANGED memory_head

-----------------------------------------------------------------------------
FreeCall(r) ==
    /\ pc = "idle"
    /\ r \in live
    /\ live' = live \ {r}
    /\ cur' = r.ptr - H
    /\ mem' = SetInuse(mem, r.ptr - H, 0)
    /\ pc' = "back"
    /\ UNCHANGED <<memory_head, size, blockit>>

(* Merge with free blocks in front ...                                     *)
MergeBack ==
    LET f == front(mem, cur)
        n == next(mem, cur)
        m == SetNext(mem, f, n)
    IN  /\ pc = "back"
        /\ f # NULL /\ inuse(mem, f) = 0
        /\ mem' = SetFront(m, n, front(m, cur))
        /\ cur' = front(m, cur)
        /\ UNCHANGED <<memory_head, live, pc, size, blockit>>

BackDone ==
    /\ pc = "back"
    /\ front(mem, cur) # NULL /\ inuse(mem, front(mem, cur)) # 0
    /\ pc' = "forward"
    /\ UNCHANGED <<mem, memory_head, live, size, blockit, cur>>

(* ... the first block starts at _heap.start again ...                     *)
BackAtHead ==
    LET n == next(mem, cur)
        m1 == SetFront(SetNext(mem, Start, n), Start, NULL)
        m2 == SetFront(m1, n, Start)
    IN  /\ pc = "back"
        /\ front(mem, cur) = NULL
        /\ memory_head' = Start
        /\ mem' = SetInuse(m2, Start, 0)
        /\ cur' = Start
        /\ pc' = "forward"
        /\ UNCHANGED <<live, size, blockit>>

(* Mutant: what is behind is taken for in use.                             *)
NeverFreeBehind == FALSE

FreeBehind == next(mem, cur) # End /\ inuse(mem, next(mem, cur)) = 0

(* ... and with free blocks behind.                                        *)
MergeForward ==
    LET n == next(mem, cur)
        m == SetFront(mem, n, cur)
    IN  /\ pc = "forward"
        /\ FreeBehind
        /\ mem' = SetNext(m, cur, next(m, n))
        /\ UNCHANGED <<memory_head, live, pc, size, blockit, cur>>

FreeDone ==
    /\ pc = "forward"
    /\ ~FreeBehind
    /\ pc' = "idle"
    /\ cur' = NULL
    /\ UNCHANGED <<mem, memory_head, live, size, blockit>>

-----------------------------------------------------------------------------
Region(r) == r.ptr..(r.ptr + r.size - 1)

(* A client clears the memory it has been given.                           *)
Clear(r) ==
    /\ pc = "idle"
    /\ r \in live
    /\ mem' = [a \in Addresses |-> IF a \in Region(r) THEN 0 ELSE mem[a]]
    /\ UNCHANGED <<memory_head, live, pc, size, blockit, cur>>

Place == PlaceInside \/ PlaceAtHead \/ PlaceAtStart
Manager == \/ Search \/ Place
           \/ MergeBack \/ BackDone \/ BackAtHead \/ MergeForward \/ FreeDone

Next ==
    \/ \E s \in Sizes : AllocCall(s)
    \/ \E r \in live : FreeCall(r) \/ Clear(r)
    \/ Manager

Spec == Init /\ [][Next]_vars

(* What the sizes have to be like for the code as it is (the run with      *)
(* PmmReuse.cfg has others): a request placed in the first block leaves a  *)
(* free block in front of its data, or it keeps that block's header where  *)
(* it is and is so short that a block it fills has no room for the header  *)
(* of a merged one.                                                        *)
HeadStays ==
    \A s \in Sizes :
        LET a == allocaddr(Start, s)
        IN  \/ a - startinblock(Start) - H > 0
            \/ a = startinblock(Start) /\ s = 1

-----------------------------------------------------------------------------
Quiet == pc \in {"idle", "search"}

(* What the call under way grants.                                         *)
Granted == [ptr |-> allocaddr(blockit, size), size |-> size]

(* The blocks that the list leads through, in a state between two calls.   *)
Reached[n \in Nat] ==
    IF n = 0 THEN {memory_head}
             ELSE LET R == Reached[n - 1]
                  IN  R \cup {next(mem, b) : b \in {c \in R : c # End}}
Blocks == Reached[(End - Start) \div H] \ {End}

(* A client gets memory of which nobody is using a word, aligned to the    *)
(* size rounded up to a power of two.  It lies in the heap when some block *)
(* of the list is large enough, and only then: otherwise pmm_alloc does    *)
(* not return NULL but memory behind the heap.                             *)
FreshMemory ==
    [][Place => /\ Region(Granted) \subseteq Start..(End - 1) <=> \E b \in Blocks : Fits(b)
                /\ Granted.ptr % RoundUp(size) = 0
                /\ \A r \in live : Region(r) \cap Region(Granted) = {}]_vars

(* The list runs upwards from the head to the end of the heap, and every   *)
(* live allocation lies inside of the block whose header is right before   *)
(* it: no header is ever built in memory a client is using.                *)
ListSound ==
    Quiet =>
        /\ \A b \in Blocks : next(mem, b) \in (b + H + 1)..End
        /\ {b \in Blocks : inuse(mem, b) = 1} = {r.ptr - H : r \in live}
        /\ \A r \in live : r.ptr + r.size <= next(mem, r.ptr - H)

(* Every word and local variable is in its range, too.                     *)
HeapInv == TypeOK /\ ListSound

(* Between two calls there are never two free blocks in a row: a free      *)
(* leaves one block where it can, whatever the order of the frees.  When   *)
(* everything has been freed, the heap is the one block it was after       *)
(* pmm_init.                                                               *)
Merged ==
    pc = "idle" =>
        /\ \A b \in Blocks : inuse(mem, b) = 0 /\ next(mem, b) # End =>
              inuse(mem, next(mem, b)) = 1
        /\ live = {} => /\ Blocks = {Start} /\ front(mem, Start) = NULL
                        /\ inuse(mem, Start) = 0

(* No call of the memory manager writes to memory clients are using, but   *)
(* for a pmm_alloc that has found no block.                                *)
ClientMemoryKept ==
    [][Manager /\ ~Exhausted => \A r \in live \cap live' : \A a \in Region(r) : mem'[a] = mem[a]]_vars

=============================================================================
