----------------------------- MODULE PmmProofs -----------------------------
(***************************************************************************)
(* Proofs about Pmm, for any heap and any sizes that leave the header of   *)
(* the first block where it is (HeadStays): what is granted is fresh, the  *)
(* manager never writes what clients are using, the list is sound between  *)
(* two calls, and what is freed merges.                                    *)
(*                                                                         *)
(* The invariant describes the list by two sets that the code keeps        *)
(* nowhere: the headers B the list leads through and the dead headers D of *)
(* merged blocks, which pointers still lead to.  They exist in every state *)
(* of a reachable heap; each step says what becomes of them.               *)
(***************************************************************************)
EXTENDS Pmm, WellFoundedInduction, TLAPS

(* Memories, and the addresses at which a header fits.                     *)
Mem == [Addresses -> Nat]
Header == Start..End

(* Memory m and k agree on the header at b.                                *)
SameHeader(m, k, b) ==
    front(k, b) = front(m, b) /\ inuse(k, b) = inuse(m, b) /\ next(k, b) = next(m, b)

(* The header d lies in what belongs to the block p.                       *)
Inside(m, p, d) == p + H < d /\ d + H < next(m, p)

(* The blocks B are a list that runs upwards from the start of the heap to *)
(* its end.                                                                *)
Chain(m, B) ==
    /\ Start \in B /\ B \subseteq Start..(End - 1)
    /\ \A b \in B : /\ next(m, b) \in B \cup {End}
                    /\ b + H < next(m, b)
                    /\ \A c \in B : c <= b \/ next(m, b) <= c
                    /\ inuse(m, b) \in {0, 1}
    /\ \A c \in B \ {Start} : \E p \in B : next(m, p) = c

(* The front of x is p or the dead header of a block that p took in.       *)
LeadsBack(m, D, p, x) ==
    front(m, x) = p \/ (front(m, x) \in D /\ p < front(m, x) /\ front(m, x) < x)

(* D are headers of merged blocks: they are free, in free blocks, and do   *)
(* not overlap.                                                            *)
Dead(m, B, D) ==
    /\ D \subseteq Start..(End - 1)
    /\ \A d \in D : inuse(m, d) = 0 /\ \E p \in B : Inside(m, p, d) /\ inuse(m, p) = 0
    /\ \A d, e \in D : d < e => d + H < e

(* Every front leads to the block before, at least by way of dead headers: *)
(* pmm_free does not correct the front of the block behind when it merges  *)
(* forward.                                                                *)
Fronts(m, B, D) ==
    /\ front(m, Start) = NULL
    /\ \A p \in B : next(m, p) # End => LeadsBack(m, D, p, next(m, p))
    /\ \A d \in D, p \in B : Inside(m, p, d) => LeadsBack(m, D, p, d)

(* The blocks in use are those of the allocations L, one each.             *)
Clients(m, B, L) ==
    /\ \A r \in L : /\ r.ptr - H \in B /\ inuse(m, r.ptr - H) = 1
                    /\ r.ptr + r.size <= next(m, r.ptr - H)
    /\ \A b \in B : inuse(m, b) = 1 => \E r \in L : r.ptr - H = b
    /\ \A r, s \in L : r.ptr = s.ptr => r = s

(* All of it.                                                              *)
Sound(m, B, D, L) ==
    /\ L \subseteq [ptr : Header, size : Sizes]
    /\ Chain(m, B)
    /\ Dead(m, B, D)
    /\ Fronts(m, B, D)
    /\ Clients(m, B, L)

(* None of the blocks A is free and followed by another free one.          *)
NoPair(m, A) ==
    \A b \in A : next(m, b) # End /\ inuse(m, b) = 0 => inuse(m, next(m, b)) = 1

LEMMA HeapNat == Start \in Nat /\ End \in Nat /\ Start > 0 /\ Start + 3 < End
  BY HeapAssumption DEF NULL, H

LEMMA RegionNat ==
    ASSUME NEW r \in [ptr : Header, size : Sizes]
    PROVE  r.ptr \in Nat /\ Start <= r.ptr /\ r.ptr <= End /\ r.size \in Nat /\ r.size > 0
  <1>1. r.ptr \in Header /\ r.size \in Sizes
    OBVIOUS
  <1>2. r.size \in Nat /\ r.size # 0
    BY <1>1, SizesAssumption
  <1>3. r.ptr \in Nat /\ Start <= r.ptr /\ r.ptr <= End
    BY <1>1, HeapNat DEF Header
  <1> QED
    BY <1>2, <1>3

(* The fields of a header are numbers.                                     *)
LEMMA FieldsOf ==
    ASSUME NEW m \in Mem, NEW b \in Header
    PROVE  front(m, b) \in Nat /\ inuse(m, b) \in Nat /\ next(m, b) \in Nat
  BY HeapNat DEF Mem, Header, Addresses, front, inuse, next, H

(* From m to k, nothing is written but the header at b.                    *)
Away(c, b) == c + H <= b \/ b + H <= c

OnlyAt(m, k, b) ==
    /\ \A c \in Header : Away(c, b) => SameHeader(m, k, c)
    /\ \A i \in Addresses : i < b \/ b + H <= i => k[i] = m[i]

LEMMA AfterSetFront ==
    ASSUME NEW m \in Mem, NEW b \in Header, NEW v \in Nat, NEW k, k = SetFront(m, b, v)
    PROVE  /\ k \in Mem /\ front(k, b) = v /\ inuse(k, b) = inuse(m, b) /\ next(k, b) = next(m, b)
           /\ OnlyAt(m, k, b)
  BY HeapNat DEF Mem, Header, Addresses, front, inuse, next, H, SetFront, SameHeader, OnlyAt, Away

LEMMA AfterSetInuse ==
    ASSUME NEW m \in Mem, NEW b \in Header, NEW v \in Nat, NEW k, k = SetInuse(m, b, v)
    PROVE  /\ k \in Mem /\ front(k, b) = front(m, b) /\ inuse(k, b) = v /\ next(k, b) = next(m, b)
           /\ OnlyAt(m, k, b)
  BY HeapNat DEF Mem, Header, Addresses, front, inuse, next, H, SetInuse, SameHeader, OnlyAt, Away

LEMMA AfterSetNext ==
    ASSUME NEW m \in Mem, NEW b \in Header, NEW v \in Nat, NEW k, k = SetNext(m, b, v)
    PROVE  /\ k \in Mem /\ front(k, b) = front(m, b) /\ inuse(k, b) = inuse(m, b) /\ next(k, b) = v
           /\ OnlyAt(m, k, b)
  BY HeapNat DEF Mem, Header, Addresses, front, inuse, next, H, SetNext, SameHeader, OnlyAt, Away

LEMMA OnlyTwice ==
    ASSUME NEW m, NEW k, NEW l, NEW b, OnlyAt(m, k, b), OnlyAt(k, l, b)
    PROVE  OnlyAt(m, l, b)
  BY DEF OnlyAt, SameHeader

LEMMA AfterMark ==
    ASSUME NEW m \in Mem, NEW b \in Header, NEW v \in Nat, NEW w \in Nat,
           NEW k, k = SetInuse(SetFront(m, b, v), b, w)
    PROVE  /\ k \in Mem /\ front(k, b) = v /\ inuse(k, b) = w /\ next(k, b) = next(m, b)
           /\ OnlyAt(m, k, b)
  <1> DEFINE q == SetFront(m, b, v)
  <1>1. q \in Mem /\ front(q, b) = v /\ next(q, b) = next(m, b) /\ OnlyAt(m, q, b)
    BY AfterSetFront
  <1>2. k = SetInuse(q, b, w)
    BY DEF q
  <1> HIDE DEF q
  <1> QED
    BY <1>1, <1>2, AfterSetInuse, OnlyTwice

LEMMA AfterHeader ==
    ASSUME NEW m \in Mem, NEW b \in Header, NEW v \in Nat, NEW w \in Nat, NEW u \in Nat,
           NEW k, k = SetNext(SetInuse(SetFront(m, b, v), b, w), b, u)
    PROVE  /\ k \in Mem /\ front(k, b) = v /\ inuse(k, b) = w /\ next(k, b) = u
           /\ OnlyAt(m, k, b)
  <1> DEFINE q == SetInuse(SetFront(m, b, v), b, w)
  <1>1. q \in Mem /\ front(q, b) = v /\ inuse(q, b) = w /\ OnlyAt(m, q, b)
    BY AfterMark
  <1>2. k = SetNext(q, b, u)
    BY DEF q
  <1> HIDE DEF q
  <1> QED
    BY <1>1, <1>2, AfterSetNext, OnlyTwice

(* The code writes the front of the next block only if there is one.       *)
LEMMA AfterFrontOfNext ==
    ASSUME NEW m \in Mem, NEW b \in Header, NEW v \in Nat,
           NEW k, k = IF b # End THEN SetFront(m, b, v) ELSE m
    PROVE  /\ k \in Mem /\ inuse(k, b) = inuse(m, b) /\ next(k, b) = next(m, b)
           /\ b # End => front(k, b) = v
           /\ OnlyAt(m, k, b)
  <1>1. CASE b # End
    BY <1>1, AfterSetFront
  <1>2. CASE b = End
    BY <1>2 DEF OnlyAt, SameHeader
  <1> QED
    BY <1>1, <1>2

(* From m to k, nothing is written outside of lo..hi.                      *)
OnlyIn(m, k, lo, hi) ==
    \A i \in Addresses : i < lo \/ hi < i => k[i] = m[i]

(* A header outside of what is written stays the same.                     *)
LEMMA HeaderOutside ==
    ASSUME NEW m, NEW k, NEW lo \in Int, NEW hi \in Int, OnlyIn(m, k, lo, hi),
           NEW c \in Header, c + H <= lo \/ hi < c
    PROVE  SameHeader(m, k, c)
  BY HeapNat DEF OnlyIn, SameHeader, Header, Addresses, front, inuse, next, H

(* Headers, live or dead, do not overlap, and a dead one lies in one gap.  *)
Spaced(m, B, D) ==
    /\ B \subseteq Header /\ D \subseteq Header /\ Start \in B /\ End \notin B
    /\ \A b \in B : /\ b \in Int /\ next(m, b) \in Int
                    /\ Start <= b /\ b + H < next(m, b) /\ next(m, b) <= End
                    /\ next(m, b) \in B \cup {End}
    /\ \A b, c \in B : b < c => next(m, b) <= c /\ b + H < c
    /\ \A b, c \in B : next(m, b) = next(m, c) => b = c
    /\ \A d \in D : d \in Int /\ d + H < End
    /\ \A d \in D, b \in B : /\ d # b
                             /\ d < b => d + H < b
                             /\ b < d => b + H < d
                             /\ b < d /\ d < next(m, b) => Inside(m, b, d)
    /\ \A d \in D, b, c \in B : Inside(m, b, d) /\ Inside(m, c, d) => b = c

(* A sound list is spaced.                                                 *)
LEMMA Apart ==
    ASSUME NEW m, NEW B, NEW D, Chain(m, B), Dead(m, B, D)
    PROVE  Spaced(m, B, D)
  <1>1. /\ B \subseteq Header /\ D \subseteq Header
        /\ \A b \in B : b \in Int /\ next(m, b) \in Header /\ b + H < next(m, b) /\ next(m, b) <= End
    <2>1. B \subseteq Header /\ D \subseteq Header
      BY HeapNat DEF Chain, Dead, Header
    <2>2. \A b \in B : next(m, b) \in Header /\ b + H < next(m, b)
      <3>1. End \in Header
        BY HeapNat DEF Header
      <3> QED
        BY <2>1, <3>1 DEF Chain
    <2> QED
      BY <2>1, <2>2, HeapNat DEF Header
  <1>2. \A b, c \in B : b < c => next(m, b) <= c /\ b + H < c
    BY <1>1 DEF Chain, Header, H
  <1>3. \A b, c \in B : next(m, b) = next(m, c) => b = c
    BY <1>1, <1>2 DEF Header, H
  <1>4. ASSUME NEW d \in D, NEW b \in B
        PROVE  /\ d # b
               /\ d < b => d + H < b
               /\ b < d => b + H < d
               /\ b < d /\ d < next(m, b) => Inside(m, b, d)
               /\ d + H < End
    <2>1. PICK p \in B : Inside(m, p, d)
      BY DEF Dead
    <2>2. d \in Int /\ b \in Int /\ p \in Int /\ next(m, p) \in Int /\ next(m, b) \in Int /\ next(m, p) <= End
      BY <1>1, HeapNat DEF Header
    <2>3. b <= p \/ next(m, p) <= b
      BY <1>2, <2>2
    <2>4. b < p => next(m, b) <= p /\ b + H < p
      BY <1>2
    <2> QED
      BY <2>1, <2>2, <2>3, <2>4, HeapNat DEF Inside, H
  <1>5. ASSUME NEW d \in D, NEW b \in B, NEW c \in B, Inside(m, b, d), Inside(m, c, d)
        PROVE  b = c
    <2>1. d \in Int /\ b \in Int /\ c \in Int /\ next(m, b) \in Int /\ next(m, c) \in Int
      BY <1>1, HeapNat DEF Header
    <2>2. (b < c => next(m, b) <= c) /\ (c < b => next(m, c) <= b)
      BY <1>2
    <2> QED
      BY <1>5, <2>1, <2>2 DEF Inside, H
  <1>6. /\ Start \in B /\ End \notin B
        /\ \A b \in B : /\ b \in Int /\ next(m, b) \in Int /\ Start <= b
                        /\ next(m, b) \in B \cup {End}
        /\ \A d \in D : d \in Int
    BY <1>1, HeapNat DEF Chain, Dead, Header
  <1> QED
    BY <1>1, <1>2, <1>3, <1>4, <1>5, <1>6 DEF Spaced

(* The dead headers outside of block p.                                    *)
Dropped(m, p, D) == {d \in D : ~Inside(m, p, d)}

(* The free block p is cut in two; the new block starts at r.              *)
LEMMA Cut ==
    ASSUME NEW m \in Mem, NEW k \in Mem, NEW B, NEW D, NEW L, NEW p \in B, NEW r \in Int,
           Sound(m, B, D, L), inuse(m, p) = 0,
           p + H < r, r + H < next(m, p),
           next(k, p) = r, inuse(k, p) = 0, front(k, p) = front(m, p),
           front(k, r) = p, inuse(k, r) = 0, next(k, r) = next(m, p),
           next(m, p) # End => front(k, next(m, p)) = r,
           \A c \in B \ {p} : next(k, c) = next(m, c) /\ inuse(k, c) = inuse(m, c),
           \A c \in B : c # next(m, p) => front(k, c) = front(m, c),
           \A d \in Dropped(m, p, D) : SameHeader(m, k, d)
    PROVE  Sound(k, B \cup {r}, Dropped(m, p, D), L)
  <1> DEFINE n == next(m, p)
             B2 == B \cup {r}
             D2 == Dropped(m, p, D)
  <1>a. Chain(m, B) /\ Dead(m, B, D) /\ Fronts(m, B, D) /\ Clients(m, B, L)
    BY DEF Sound
  <1>b. Spaced(m, B, D)
    BY <1>a, Apart
  <1>c. /\ p \in Int /\ n \in Int /\ Start \in Int /\ End \in Int /\ Start <= p /\ n <= End
        /\ p < r /\ r < n /\ r \notin B /\ Start # n /\ n \in B \cup {End} /\ n # r
    <2>1. p \in Int /\ n \in Int /\ Start \in Int /\ End \in Int /\ Start <= p /\ n <= End /\ n \in B \cup {End}
      BY <1>b, HeapNat DEF Spaced
    <2>2. p < r /\ r < n
      BY <2>1 DEF H
    <2>3. \A c \in B : c \in Int /\ (p < c => n <= c)
      BY <1>b DEF Spaced
    <2> QED
      BY <2>1, <2>2, <2>3
  <1>d. \A c \in B : c \in Int /\ next(m, c) \in Int /\ (p < c => n <= c) /\ (c < p => next(m, c) <= p)
    BY <1>b DEF Spaced
  <1>e. D2 \subseteq D
    BY DEF Dropped
  <1> HIDE DEF n, B2, D2
  <1>1. Chain(k, B2)
    <2>1. Start \in B2 /\ B2 \subseteq Start..(End - 1)
      BY <1>a, <1>c DEF Chain, B2
    <2>2. ASSUME NEW b \in B2
          PROVE  /\ next(k, b) \in B2 \cup {End}
                 /\ b + H < next(k, b)
                 /\ \A c \in B2 : c <= b \/ next(k, b) <= c
                 /\ inuse(k, b) \in {0, 1}
      <3>1. CASE b = p
        BY <3>1, <1>c, <1>d DEF B2, n
      <3>2. CASE b = r
        <4>1. \A c \in B : c <= r \/ n <= c
          BY <1>c, <1>d
        <4> QED
          BY <3>2, <4>1, <1>c DEF B2, n
      <3>3. CASE b \in B \ {p}
        <4>1. next(k, b) = next(m, b) /\ inuse(k, b) = inuse(m, b)
          BY <3>3
        <4>2. r <= b \/ next(m, b) <= r
          BY <3>3, <1>c, <1>d
        <4> QED
          BY <3>3, <4>1, <4>2, <1>a DEF B2, Chain
      <3> QED
        BY <3>1, <3>2, <3>3 DEF B2
    <2>3. ASSUME NEW c \in B2 \ {Start} PROVE \E q \in B2 : next(k, q) = c
      <3>1. CASE c = r
        BY <3>1 DEF B2
      <3>2. CASE c = n
        BY <3>2 DEF B2, n
      <3>3. CASE c \in B \ {n}
        <4>1. PICK q \in B : next(m, q) = c
          BY <3>3, <1>a DEF Chain
        <4> QED
          BY <3>3, <4>1 DEF B2, n
      <3> QED
        BY <3>1, <3>2, <3>3 DEF B2
    <2> QED
      BY <2>1, <2>2, <2>3 DEF Chain
  <1>2. Dead(k, B2, D2)
    <2>1. ASSUME NEW d \in D2
          PROVE  inuse(k, d) = 0 /\ \E q \in B2 : Inside(k, q, d) /\ inuse(k, q) = 0
      <3>1. PICK q \in B : Inside(m, q, d) /\ inuse(m, q) = 0
        BY <1>a, <1>e DEF Dead
      <3>2. q # p
        BY <3>1 DEF D2, Dropped
      <3>3. inuse(k, d) = inuse(m, d)
        BY DEF SameHeader, D2
      <3> QED
        BY <3>1, <3>2, <3>3, <1>a, <1>e DEF Dead, B2, Inside
    <2> QED
      BY <2>1, <1>a, <1>e DEF Dead
  <1>3. Fronts(k, B2, D2)
    <2>1. front(k, Start) = NULL
      BY <1>a, <1>b, <1>c DEF Fronts, Spaced, n
    <2>2. ASSUME NEW q \in B2, next(k, q) # End PROVE LeadsBack(k, D2, q, next(k, q))
      <3>1. CASE q = p
        BY <3>1 DEF LeadsBack
      <3>2. CASE q = r
        BY <3>2, <2>2 DEF LeadsBack
      <3>3. CASE q \in B \ {p}
        <4> DEFINE x == next(m, q)
        <4>1. next(k, q) = x /\ x # n /\ x \in B /\ x # End
          BY <3>3, <2>2, <1>b DEF Spaced, n
        <4>2. front(k, x) = front(m, x)
          BY <4>1 DEF n
        <4>3. LeadsBack(m, D, q, x)
          BY <3>3, <4>1, <1>a DEF Fronts
        <4>4. front(m, x) \in D /\ q < front(m, x) /\ front(m, x) < x => front(m, x) \in D2
          BY <3>3, <1>b DEF Spaced, D2, Dropped
        <4> QED
          BY <4>1, <4>2, <4>3, <4>4 DEF LeadsBack
      <3> QED
        BY <3>1, <3>2, <3>3 DEF B2
    <2>3. ASSUME NEW d \in D2, NEW q \in B2, Inside(k, q, d) PROVE LeadsBack(k, D2, q, d)
      <3>0. d \in D /\ d \in Int /\ ~Inside(m, p, d)
        BY <1>b, <1>e DEF Spaced, D2, Dropped
      <3>1. q # p
        BY <2>3, <3>0, <1>c DEF Inside, H, n
      <3>2. q # r
        BY <2>3, <3>0, <1>c DEF Inside, H, n
      <3>3. q \in B \ {p} /\ Inside(m, q, d)
        BY <2>3, <3>1, <3>2 DEF Inside, B2
      <3>4. front(k, d) = front(m, d)
        BY DEF SameHeader, D2
      <3>5. LeadsBack(m, D, q, d)
        BY <3>0, <3>3, <1>a DEF Fronts
      <3>6. d < next(m, q) /\ q \in Int /\ next(m, q) \in Int
        BY <3>0, <3>3, <1>d DEF Inside, H
      <3>7. front(m, d) \in D /\ q < front(m, d) /\ front(m, d) < d => front(m, d) \in D2
        <4> SUFFICES ASSUME front(m, d) \in D, q < front(m, d), front(m, d) < d PROVE front(m, d) \in D2
          OBVIOUS
        <4>1. front(m, d) \in Int
          BY <1>b DEF Spaced
        <4>2. front(m, d) < next(m, q)
          BY <3>0, <3>6, <4>1
        <4>3. Inside(m, q, front(m, d))
          BY <4>2, <3>3, <1>b DEF Spaced
        <4> QED
          BY <4>3, <3>3, <1>b DEF Spaced, D2, Dropped
      <3> QED
        BY <3>4, <3>5, <3>7 DEF LeadsBack
    <2> QED
      BY <2>1, <2>2, <2>3 DEF Fronts
  <1>4. Clients(k, B2, L)
    <2>1. \A x \in L : x.ptr - H \in B \ {p}
      BY <1>a DEF Clients
    <2>2. \A b \in B2 : inuse(k, b) = 1 => b \in B /\ inuse(m, b) = 1
      BY DEF B2
    <2> QED
      BY <2>1, <2>2, <1>a DEF Clients, B2
  <1> QED
    BY <1>1, <1>2, <1>3, <1>4 DEF Sound, B2, D2

(* The front of the block behind p may lead to p by another way.           *)
LEMMA Redirect ==
    ASSUME NEW m, NEW k, NEW B, NEW D, NEW L, NEW p \in B,
           Sound(m, B, D, L),
           \A c \in B : next(k, c) = next(m, c) /\ inuse(k, c) = inuse(m, c),
           \A c \in B : c # next(m, p) => front(k, c) = front(m, c),
           \A d \in D : front(k, d) = front(m, d) /\ inuse(k, d) = inuse(m, d),
           next(m, p) # End => LeadsBack(k, D, p, next(m, p))
    PROVE  Sound(k, B, D, L)
  <1>a. Chain(m, B) /\ Dead(m, B, D) /\ Fronts(m, B, D) /\ Clients(m, B, L)
    BY DEF Sound
  <1>b. Spaced(m, B, D)
    BY <1>a, Apart
  <1>1. Chain(k, B)
    BY <1>a DEF Chain
  <1>2. Dead(k, B, D)
    BY <1>a DEF Dead, Inside
  <1>3. Fronts(k, B, D)
    <2>1. front(k, Start) = NULL
      <3>1. Start # next(m, p)
        BY <1>b, HeapNat DEF Spaced, H
      <3> QED
        BY <3>1, <1>a, <1>b DEF Fronts, Spaced
    <2>2. ASSUME NEW q \in B, next(k, q) # End PROVE LeadsBack(k, D, q, next(k, q))
      <3>1. CASE q = p
        BY <3>1, <2>2
      <3>2. CASE q # p
        <4>1. next(m, q) # next(m, p) /\ next(m, q) \in B
          BY <3>2, <2>2, <1>b DEF Spaced
        <4> QED
          BY <4>1, <2>2, <1>a DEF Fronts, LeadsBack
      <3> QED
        BY <3>1, <3>2
    <2>3. ASSUME NEW d \in D, NEW q \in B, Inside(k, q, d) PROVE LeadsBack(k, D, q, d)
      BY <2>3, <1>a DEF Fronts, LeadsBack, Inside
    <2> QED
      BY <2>1, <2>2, <2>3 DEF Fronts
  <1>4. Clients(k, B, L)
    BY <1>a DEF Clients
  <1> QED
    BY <1>1, <1>2, <1>3, <1>4 DEF Sound

(* Dead headers inside of p may be forgotten when the front of the block   *)
(* behind p is exact.                                                      *)
LEMMA Prune ==
    ASSUME NEW m, NEW B, NEW D, NEW L, NEW p \in B,
           Sound(m, B, D, L),
           next(m, p) # End => front(m, next(m, p)) = p
    PROVE  Sound(m, B, Dropped(m, p, D), L)
  <1> DEFINE D2 == Dropped(m, p, D)
  <1>a. Chain(m, B) /\ Dead(m, B, D) /\ Fronts(m, B, D) /\ Clients(m, B, L)
    BY DEF Sound
  <1>b. Spaced(m, B, D)
    BY <1>a, Apart
  <1>c. \A d \in D2 : d \in D /\ ~Inside(m, p, d)
    BY DEF Dropped
  <1>d. \A d \in D, q \in B : Inside(m, q, d) /\ q # p => d \in D2
    BY <1>b DEF Spaced, Dropped
  <1> HIDE DEF D2
  <1>1. Dead(m, B, D2)
    BY <1>a, <1>c DEF Dead
  <1>2. Fronts(m, B, D2)
    <2>1. ASSUME NEW q \in B, next(m, q) # End PROVE LeadsBack(m, D2, q, next(m, q))
      <3>1. CASE q = p
        BY <3>1, <2>1 DEF LeadsBack
      <3>2. CASE q # p
        <4>1. LeadsBack(m, D, q, next(m, q))
          BY <2>1, <1>a DEF Fronts
        <4>2. \A d \in D : q < d /\ d < next(m, q) => d \in D2
          BY <3>2, <1>b, <1>d DEF Spaced
        <4> QED
          BY <4>1, <4>2 DEF LeadsBack
      <3> QED
        BY <3>1, <3>2
    <2>2. ASSUME NEW d \in D2, NEW q \in B, Inside(m, q, d) PROVE LeadsBack(m, D2, q, d)
      <3>1. d \in D /\ q # p /\ d \in Int /\ q \in Int /\ next(m, q) \in Int /\ d < next(m, q)
        BY <2>2, <1>b, <1>c DEF Spaced, Inside, H
      <3>2. LeadsBack(m, D, q, d)
        BY <2>2, <3>1, <1>a DEF Fronts
      <3>3. ASSUME NEW e \in D, q < e, e < d PROVE e \in D2
        <4>1. e \in Int
          BY <1>b DEF Spaced
        <4>2. e < next(m, q)
          BY <4>1, <3>1, <3>3
        <4> QED
          BY <4>2, <3>1, <3>3, <1>b, <1>d DEF Spaced
      <3> QED
        BY <3>2, <3>3 DEF LeadsBack
    <2> QED
      BY <2>1, <2>2, <1>a DEF Fronts
  <1> QED
    BY <1>a, <1>1, <1>2 DEF Sound, D2

(* Block p is taken, or given back: nothing but its mark changes.          *)
LEMMA Marked ==
    ASSUME NEW m, NEW k, NEW B, NEW D, NEW p \in B,
           Chain(m, B), Dead(m, B, D), Fronts(m, B, D),
           \A d \in D : ~Inside(m, p, d),
           inuse(k, p) \in {0, 1},
           \A c \in B : next(k, c) = next(m, c) /\ front(k, c) = front(m, c),
           \A c \in B \ {p} : inuse(k, c) = inuse(m, c),
           \A d \in D : front(k, d) = front(m, d) /\ inuse(k, d) = inuse(m, d)
    PROVE  Chain(k, B) /\ Dead(k, B, D) /\ Fronts(k, B, D)
  <1>1. Chain(k, B)
    BY DEF Chain
  <1>2. Dead(k, B, D)
    <2>1. ASSUME NEW d \in D PROVE \E q \in B : Inside(k, q, d) /\ inuse(k, q) = 0
      <3>1. PICK q \in B : Inside(m, q, d) /\ inuse(m, q) = 0
        BY DEF Dead
      <3> QED
        BY <3>1 DEF Inside
    <2> QED
      BY <2>1 DEF Dead
  <1>3. Fronts(k, B, D)
    <2>1. Start \in B /\ \A q \in B : next(m, q) \in B \cup {End}
      BY DEF Chain
    <2> QED
      BY <2>1 DEF Fronts, LeadsBack, Inside
  <1> QED
    BY <1>1, <1>2, <1>3

(* A free block without dead headers is given to a client.                 *)
LEMMA Take ==
    ASSUME NEW m, NEW k, NEW B, NEW D, NEW L, NEW p \in B,
           NEW g \in [ptr : Header, size : Sizes],
           Sound(m, B, D, L), inuse(m, p) = 0, inuse(k, p) = 1,
           \A d \in D : ~Inside(m, p, d),
           \A c \in B : next(k, c) = next(m, c) /\ front(k, c) = front(m, c),
           \A c \in B \ {p} : inuse(k, c) = inuse(m, c),
           \A d \in D : front(k, d) = front(m, d) /\ inuse(k, d) = inuse(m, d),
           g.ptr = p + H, g.ptr + g.size <= next(m, p)
    PROVE  Sound(k, B, D, L \cup {g})
  <1>a. Chain(m, B) /\ Dead(m, B, D) /\ Fronts(m, B, D) /\ Clients(m, B, L)
        /\ L \subseteq [ptr : Header, size : Sizes]
    BY DEF Sound
  <1>1. Chain(k, B) /\ Dead(k, B, D) /\ Fronts(k, B, D)
    BY <1>a, Marked
  <1>2. Clients(k, B, L \cup {g})
    <2>1. g.ptr - H = p
      BY <1>a DEF Chain, H
    <2>2. \A r \in L : /\ r.ptr - H \in B \ {p} /\ inuse(m, r.ptr - H) = 1
                       /\ r.ptr + r.size <= next(m, r.ptr - H)
      BY <1>a DEF Clients
    <2>3. \A r \in L : r.ptr # g.ptr
      BY <2>1, <2>2
    <2>4. \A r \in L \cup {g} : /\ r.ptr - H \in B /\ inuse(k, r.ptr - H) = 1
                                /\ r.ptr + r.size <= next(k, r.ptr - H)
      BY <2>1, <2>2
    <2>5. \A b \in B : inuse(k, b) = 1 => \E r \in L \cup {g} : r.ptr - H = b
      BY <2>1, <1>a DEF Clients
    <2>6. \A r, s \in L \cup {g} : r.ptr = s.ptr => r = s
      BY <2>3, <1>a DEF Clients
    <2> QED
      BY <2>4, <2>5, <2>6 DEF Clients
  <1> QED
    BY <1>a, <1>1, <1>2 DEF Sound

(* From m to k, block p of an allocation becomes free.                     *)
MarkedFree(m, k, B, D, p) ==
    /\ inuse(k, p) = 0
    /\ \A c \in B : next(k, c) = next(m, c) /\ front(k, c) = front(m, c)
    /\ \A c \in B \ {p} : inuse(k, c) = inuse(m, c)
    /\ \A d \in D : front(k, d) = front(m, d) /\ inuse(k, d) = inuse(m, d)

LEMMA Release ==
    ASSUME NEW m, NEW k, NEW B, NEW D, NEW L, NEW g \in L, NEW p, p = g.ptr - H,
           Sound(m, B, D, L), MarkedFree(m, k, B, D, p)
    PROVE  Sound(k, B, D, L \ {g}) /\ p \in B /\ \A d \in D : ~Inside(m, p, d)
  <1>0. /\ inuse(k, p) = 0
        /\ \A c \in B : next(k, c) = next(m, c) /\ front(k, c) = front(m, c)
        /\ \A c \in B \ {p} : inuse(k, c) = inuse(m, c)
        /\ \A d \in D : front(k, d) = front(m, d) /\ inuse(k, d) = inuse(m, d)
    BY DEF MarkedFree
  <1>a. Chain(m, B) /\ Dead(m, B, D) /\ Fronts(m, B, D) /\ Clients(m, B, L)
        /\ L \subseteq [ptr : Header, size : Sizes]
    BY DEF Sound
  <1>b. p \in B /\ inuse(m, p) = 1
    BY <1>a DEF Clients
  <1>c. ASSUME NEW d \in D, Inside(m, p, d) PROVE FALSE
    <2>1. PICK q \in B : Inside(m, q, d) /\ inuse(m, q) = 0
      BY <1>a DEF Dead
    <2>2. q = p
      BY <2>1, <1>a, <1>b, <1>c, Apart DEF Spaced
    <2> QED
      BY <2>1, <2>2, <1>b
  <1>1. Chain(k, B) /\ Dead(k, B, D) /\ Fronts(k, B, D)
    BY <1>0, <1>a, <1>b, <1>c, Marked
  <1>2. Clients(k, B, L \ {g})
    <2>1. ASSUME NEW r \in L \ {g} PROVE r.ptr - H # p
      BY <1>a, HeapNat DEF Clients, H, Header
    <2>2. \A r \in L \ {g} : /\ r.ptr - H \in B \ {p} /\ inuse(m, r.ptr - H) = 1
                             /\ r.ptr + r.size <= next(m, r.ptr - H)
      BY <2>1, <1>a DEF Clients
    <2>3. \A b \in B : inuse(k, b) = 1 => \E r \in L \ {g} : r.ptr - H = b
      <3>1. ASSUME NEW b \in B, inuse(k, b) = 1 PROVE \E r \in L \ {g} : r.ptr - H = b
        <4>1. b # p /\ inuse(m, b) = 1
          BY <1>0, <3>1
        <4> QED
          BY <4>1, <1>a DEF Clients
      <3> QED
        BY <3>1
    <2>4. \A r, s \in L \ {g} : r.ptr = s.ptr => r = s
      BY <1>a DEF Clients
    <2> QED
      BY <1>0, <2>2, <2>3, <2>4 DEF Clients
  <1> QED
    BY <1>a, <1>b, <1>c, <1>1, <1>2 DEF Sound

(* Free block p takes in the free block behind it, whose header is dead    *)
(* from then on.                                                           *)
LEMMA Absorb ==
    ASSUME NEW m, NEW k, NEW B, NEW D, NEW L, NEW p \in B, NEW n \in B,
           Sound(m, B, D, L), next(m, p) = n, inuse(m, p) = 0, inuse(m, n) = 0,
           next(k, p) = next(m, n), front(k, p) = front(m, p),
           front(k, n) = p \/ front(k, n) = front(m, n),
           \A c \in B : inuse(k, c) = inuse(m, c),
           \A c \in B \ {p, n} : next(k, c) = next(m, c),
           \A c \in B \ {n} : c # next(m, n) => front(k, c) = front(m, c),
           next(m, n) # End => LeadsBack(k, D \cup {n}, p, next(m, n)),
           \A d \in D : front(k, d) = front(m, d) /\ inuse(k, d) = inuse(m, d)
    PROVE  Sound(k, B \ {n}, D \cup {n}, L)
  <1> DEFINE nn == next(m, n)
             B2 == B \ {n}
             D2 == D \cup {n}
  <1>a. Chain(m, B) /\ Dead(m, B, D) /\ Fronts(m, B, D) /\ Clients(m, B, L)
    BY DEF Sound
  <1>b. Spaced(m, B, D)
    BY <1>a, Apart
  <1>c. /\ p \in Int /\ n \in Int /\ nn \in Int /\ p + H < n /\ n + H < nn /\ p < n /\ n < nn
        /\ nn \in B2 \cup {End} /\ n # Start /\ n # End /\ Inside(k, p, n) /\ n \in Start..(End - 1)
    <2>1. /\ p \in Int /\ n \in Int /\ nn \in Int /\ p + H < n /\ n + H < nn
          /\ nn \in B \cup {End} /\ n # End /\ Start <= p
      BY <1>b DEF Spaced
    <2>2. p < n /\ n < nn
      BY <2>1 DEF H
    <2>3. n # Start
      BY <2>1, <2>2, HeapNat
    <2>4. n \in Start..(End - 1)
      BY <1>a DEF Chain
    <2> QED
      BY <2>1, <2>2, <2>3, <2>4 DEF Inside
  <1>d. \A c \in B2 : /\ c \in Int /\ next(m, c) \in Int
                      /\ c <= p \/ nn <= c
                      /\ c # p => next(k, c) = next(m, c) /\ next(m, c) # n
    <2>1. \A c \in B2 : c \in Int /\ next(m, c) \in Int /\ (p < c => n <= c) /\ (n < c => nn <= c)
      BY <1>b DEF Spaced
    <2>2. \A c \in B2 : c # p => next(k, c) = next(m, c) /\ next(m, c) # n
      BY <1>b DEF Spaced
    <2> QED
      BY <2>1, <2>2, <1>c
  <1> HIDE DEF nn, B2, D2
  <1>e. next(k, p) = nn /\ p \in B2 /\ B2 \subseteq B /\ Start \in B2
    BY <1>b, <1>c DEF B2, nn, Spaced
  <1>1. Chain(k, B2)
    <2>1. ASSUME NEW b \in B2
          PROVE  /\ next(k, b) \in B2 \cup {End}
                 /\ b + H < next(k, b)
                 /\ \A c \in B2 : c <= b \/ next(k, b) <= c
                 /\ inuse(k, b) \in {0, 1}
      <3>0. inuse(k, b) \in {0, 1}
        BY <1>a, <1>e DEF Chain
      <3>1. CASE b = p
        BY <3>0, <3>1, <1>c, <1>d, <1>e DEF H
      <3>2. CASE b # p
        BY <3>0, <3>2, <1>a, <1>d, <1>e DEF Chain, B2
      <3> QED
        BY <3>1, <3>2
    <2>2. ASSUME NEW c \in B2 \ {Start} PROVE \E q \in B2 : next(k, q) = c
      <3>1. PICK q \in B : next(m, q) = c
        BY <1>a, <1>e DEF Chain
      <3>2. CASE q = n
        BY <3>1, <3>2, <1>e DEF nn
      <3>3. CASE q # n
        <4>1. q # p
          BY <3>1 DEF B2
        <4> QED
          BY <3>1, <3>3, <4>1 DEF B2
      <3> QED
        BY <3>2, <3>3
    <2> QED
      BY <2>1, <2>2, <1>a, <1>e DEF Chain
  <1>f. ASSUME NEW d \in D, NEW q \in B2, Inside(k, q, d)
        PROVE  \/ q # p /\ Inside(m, q, d)
               \/ q = p /\ Inside(m, p, d)
               \/ q = p /\ Inside(m, n, d)
    <2>1. CASE q # p
      BY <2>1, <1>d, <1>f DEF Inside
    <2>2. CASE q = p
      <3>1. d \in Int /\ d # n /\ (d < n => d + H < n) /\ (n < d => n + H < d)
        BY <1>b DEF Spaced
      <3>2. p + H < d /\ d + H < nn
        BY <2>2, <1>e, <1>f DEF Inside
      <3> QED
        BY <2>2, <3>1, <3>2, <1>c DEF Inside, nn
    <2> QED
      BY <2>1, <2>2
  <1>2. Dead(k, B2, D2)
    <2>1. ASSUME NEW d \in D2 PROVE inuse(k, d) = 0 /\ \E q \in B2 : Inside(k, q, d) /\ inuse(k, q) = 0
      <3>1. CASE d = n
        BY <3>1, <1>c, <1>e
      <3>2. CASE d \in D
        <4>1. inuse(k, d) = 0
          BY <3>2, <1>a DEF Dead
        <4>2. PICK q \in B : Inside(m, q, d) /\ inuse(m, q) = 0
          BY <3>2, <1>a DEF Dead
        <4>3. CASE q \in {p, n}
          <5>1. d \in Int /\ p + H < d /\ d + H < nn
            BY <4>2, <4>3, <3>2, <1>b, <1>c DEF Inside, H, Spaced, nn
          <5> QED
            BY <5>1, <4>1, <1>e DEF Inside
        <4>4. CASE q \notin {p, n}
          BY <4>1, <4>2, <4>4 DEF Inside, B2
        <4> QED
          BY <4>3, <4>4
      <3> QED
        BY <3>1, <3>2 DEF D2
    <2>2. \A d, e \in D2 : d < e => d + H < e
      BY <1>a, <1>b DEF D2, Dead, Spaced
    <2>3. D2 \subseteq Start..(End - 1)
      BY <1>a, <1>c DEF D2, Dead
    <2> QED
      BY <2>1, <2>2, <2>3 DEF Dead
  <1>3. Fronts(k, B2, D2)
    <2>1. front(k, Start) = NULL
      <3>1. Start # nn
        BY <1>b, <1>c, HeapNat DEF Spaced
      <3> QED
        BY <3>1, <1>a, <1>e DEF Fronts, B2, nn
    <2>2. ASSUME NEW q \in B2, next(k, q) # End PROVE LeadsBack(k, D2, q, next(k, q))
      <3>1. CASE q = p
        BY <3>1, <2>2, <1>e DEF D2, nn
      <3>2. CASE q # p
        <4> DEFINE x == next(m, q)
        <4>1. next(k, q) = x /\ x # n /\ x \in B /\ x # nn /\ x # End
          BY <3>2, <2>2, <1>b, <1>d DEF Spaced, B2, nn
        <4>2. front(k, x) = front(m, x)
          BY <4>1 DEF nn
        <4>3. LeadsBack(m, D, q, x)
          BY <4>1, <1>a DEF Fronts, B2
        <4> QED
          BY <4>1, <4>2, <4>3 DEF LeadsBack, D2
      <3> QED
        BY <3>1, <3>2
    <2>3. ASSUME NEW d \in D2, NEW q \in B2, Inside(k, q, d) PROVE LeadsBack(k, D2, q, d)
      <3>1. CASE d = n
        <4>1. q = p
          <5>1. q \in Int /\ next(k, q) \in Int /\ (q # p => next(k, q) = next(m, q))
            BY <1>c, <1>d, <1>e
          <5>2. q < n /\ n < next(k, q)
            BY <3>1, <2>3, <5>1, <1>c DEF Inside, H
          <5>3. q # p => next(m, q) <= n
            BY <5>2, <1>b, <1>e DEF Spaced
          <5> QED
            BY <5>1, <5>2, <5>3, <1>c
        <4>2. LeadsBack(m, D, p, n)
          BY <1>a, <1>c DEF Fronts
        <4> QED
          BY <3>1, <4>1, <4>2 DEF LeadsBack, D2
      <3>2. CASE d \in D
        <4>0. front(k, d) = front(m, d)
          BY <3>2
        <4>1. CASE Inside(m, q, d)
          <5>1. LeadsBack(m, D, q, d)
            BY <3>2, <4>1, <1>a, <1>e DEF Fronts
          <5> QED
            BY <4>0, <5>1 DEF LeadsBack, D2
        <4>2. CASE q = p /\ Inside(m, n, d)
          <5>1. LeadsBack(m, D, n, d)
            BY <3>2, <4>2, <1>a DEF Fronts
          <5>2. d \in Int /\ n < d
            BY <3>2, <4>2, <1>b, <1>c DEF Spaced, Inside, H
          <5>3. front(m, d) \in D => front(m, d) \in Int
            BY <1>b DEF Spaced
          <5> QED
            BY <4>0, <4>2, <5>1, <5>2, <5>3, <1>c DEF LeadsBack, D2
        <4> QED
          BY <3>2, <4>1, <4>2, <2>3, <1>f
      <3> QED
        BY <3>1, <3>2 DEF D2
    <2> QED
      BY <2>1, <2>2, <2>3 DEF Fronts
  <1>4. Clients(k, B2, L)
    <2>1. \A r \in L : r.ptr - H \in B2 \ {p} /\ next(k, r.ptr - H) = next(m, r.ptr - H)
      BY <1>a, <1>d DEF Clients, B2
    <2> QED
      BY <2>1, <1>a, <1>e DEF Clients, B2
  <1> QED
    BY <1>1, <1>2, <1>3, <1>4 DEF Sound, B2, D2

(* The header of the free block x moves up to b, behind a block in use.    *)
Shifted(m, k, B, D, p, x, b) ==
    /\ next(m, p) = x /\ inuse(m, p) = 1 /\ inuse(m, x) = 0
    /\ x <= b /\ b + H < next(m, x)
    /\ next(k, p) = b /\ front(k, p) = front(m, p) /\ inuse(k, p) = 1
    /\ front(k, b) = p /\ inuse(k, b) = 0 /\ next(k, b) = next(m, x)
    /\ next(m, x) # End => front(k, next(m, x)) = b
    /\ \A c \in B \ {p, x} : next(k, c) = next(m, c) /\ inuse(k, c) = inuse(m, c)
    /\ \A c \in B \ {x} : c # next(m, x) => front(k, c) = front(m, c)
    /\ \A d \in Dropped(m, x, D) : SameHeader(m, k, d)

LEMMA Shift ==
    ASSUME NEW m, NEW k, NEW B, NEW D, NEW L, NEW x \in B \ {Start}, NEW p \in B, NEW b \in Int,
           Sound(m, B, D, L), Shifted(m, k, B, D, p, x, b)
    PROVE  Sound(k, (B \ {x}) \cup {b}, Dropped(m, x, D), L)
  <1>0. /\ next(m, p) = x /\ inuse(m, p) = 1 /\ inuse(m, x) = 0
        /\ x <= b /\ b + H < next(m, x)
        /\ next(k, p) = b /\ front(k, p) = front(m, p) /\ inuse(k, p) = 1
        /\ front(k, b) = p /\ inuse(k, b) = 0 /\ next(k, b) = next(m, x)
        /\ next(m, x) # End => front(k, next(m, x)) = b
        /\ \A c \in B \ {p, x} : next(k, c) = next(m, c) /\ inuse(k, c) = inuse(m, c)
        /\ \A c \in B \ {x} : c # next(m, x) => front(k, c) = front(m, c)
        /\ \A d \in Dropped(m, x, D) : SameHeader(m, k, d)
    BY DEF Shifted
  <1> USE <1>0
  <1> DEFINE n == next(m, x)
             B0 == B \ {x}
             B2 == B0 \cup {b}
             D2 == Dropped(m, x, D)
  <1>a. Chain(m, B) /\ Dead(m, B, D) /\ Fronts(m, B, D) /\ Clients(m, B, L)
    BY DEF Sound
  <1>b. Spaced(m, B, D)
    BY <1>a, Apart
  <1>c. /\ p \in Int /\ x \in Int /\ n \in Int /\ Start \in Int /\ End \in Int
        /\ Start <= p /\ p + H < x /\ p < x /\ p < b /\ b < n /\ x < n /\ n <= End
        /\ n \in B0 \cup {End} /\ p \in B0 /\ Start \in B0 /\ B0 \subseteq B
        /\ n # Start /\ b # Start
    <2>1. /\ p \in Int /\ x \in Int /\ n \in Int /\ Start \in Int /\ End \in Int
          /\ Start <= p /\ p + H < x /\ x + H < n /\ n <= End /\ n \in B \cup {End} /\ Start \in B
      BY <1>b, HeapNat DEF Spaced
    <2>2. p < x /\ p < b /\ b < n /\ x < n
      BY <2>1 DEF H
    <2> QED
      BY <2>1, <2>2
  <1>d. /\ \A c \in B0 : /\ c \in Int /\ next(m, c) \in Int
                         /\ c <= p \/ n <= c
                         /\ c # p => next(k, c) = next(m, c) /\ next(m, c) # x /\ next(m, c) # n
        /\ \A c \in B0 : c < p => next(m, c) <= p
        /\ b \notin B0
    <2>1. \A c \in B0 : c \in Int /\ next(m, c) \in Int /\ (p < c => x <= c) /\ (x < c => n <= c)
      BY <1>b, <1>c DEF Spaced
    <2>2. \A c \in B0 : c # p => next(k, c) = next(m, c) /\ next(m, c) # x /\ next(m, c) # n
      BY <1>b DEF Spaced
    <2>3. \A c \in B0 : c < p => next(m, c) <= p
      BY <1>b DEF Spaced
    <2> QED
      BY <2>1, <2>2, <2>3, <1>c
  <1>e. D2 \subseteq D /\ \A d \in D2 : ~Inside(m, x, d)
    BY DEF Dropped
  <1>f. \A d \in D : ~Inside(m, p, d)
    BY <1>a, <1>b DEF Dead, Spaced
  <1> HIDE DEF n, B2, B0, D2
  <1>g. next(k, b) = n /\ next(k, p) = b /\ B2 \ {b} = B0
    BY <1>d DEF n, B2
  <1>1. Chain(k, B2)
    <2>1. Start \in B2 /\ B2 \subseteq Start..(End - 1)
      BY <1>a, <1>c DEF Chain, B2, B0
    <2>2. ASSUME NEW q \in B2
          PROVE  /\ next(k, q) \in B2 \cup {End}
                 /\ q + H < next(k, q)
                 /\ \A c \in B2 : c <= q \/ next(k, q) <= c
                 /\ inuse(k, q) \in {0, 1}
      <3>1. CASE q = p
        <4>1. p + H < b
          BY <1>c DEF H
        <4>2. \A c \in B2 : c <= p \/ b <= c
          BY <1>c, <1>d DEF B2
        <4> QED
          BY <3>1, <4>1, <4>2, <1>g DEF B2
      <3>2. CASE q = b
        <4>1. \A c \in B2 : c <= b \/ n <= c
          BY <1>c, <1>d DEF B2
        <4>2. b + H < n
          BY DEF n
        <4> QED
          BY <3>2, <4>1, <4>2, <1>c, <1>g DEF B2
      <3>3. CASE q \in B0 \ {p}
        <4>1. next(k, q) = next(m, q) /\ inuse(k, q) = inuse(m, q) /\ next(m, q) \in B0 \cup {End}
          BY <3>3, <1>b, <1>d DEF B0, Spaced
        <4>2. b <= q \/ next(m, q) <= b
          BY <3>3, <1>c, <1>d
        <4> QED
          BY <3>3, <4>1, <4>2, <1>a DEF B2, B0, Chain
      <3> QED
        BY <3>1, <3>2, <3>3 DEF B2
    <2>3. ASSUME NEW c \in B2 \ {Start} PROVE \E q \in B2 : next(k, q) = c
      <3>1. CASE c = b
        BY <3>1, <1>c, <1>g DEF B2
      <3>2. CASE c = n
        BY <3>2, <1>g DEF B2
      <3>3. CASE c \in B0 \ {n}
        <4>1. PICK q \in B : next(m, q) = c
          BY <3>3, <1>a DEF Chain, B0
        <4>2. q # x /\ q # p
          BY <3>3, <4>1 DEF n, B0
        <4> QED
          BY <4>1, <4>2 DEF B2, B0
      <3> QED
        BY <3>1, <3>2, <3>3 DEF B2
    <2> QED
      BY <2>1, <2>2, <2>3 DEF Chain
  <1>2. Dead(k, B2, D2)
    <2>1. ASSUME NEW d \in D2
          PROVE  inuse(k, d) = 0 /\ \E q \in B2 : Inside(k, q, d) /\ inuse(k, q) = 0
      <3>1. PICK q \in B : Inside(m, q, d) /\ inuse(m, q) = 0
        BY <1>a, <1>e DEF Dead
      <3>2. q # x /\ q # p
        BY <3>1, <1>e
      <3>3. inuse(k, d) = inuse(m, d)
        BY DEF SameHeader, D2
      <3>4. q \in B0 /\ next(k, q) = next(m, q) /\ inuse(k, q) = inuse(m, q)
        BY <3>2 DEF B0
      <3> QED
        BY <3>1, <3>3, <3>4, <1>a, <1>e DEF Dead, B2, Inside
    <2> QED
      BY <2>1, <1>a, <1>e DEF Dead
  <1>3. Fronts(k, B2, D2)
    <2>1. front(k, Start) = NULL
      BY <1>a, <1>c DEF Fronts, n, B0
    <2>2. ASSUME NEW q \in B2, next(k, q) # End PROVE LeadsBack(k, D2, q, next(k, q))
      <3>1. CASE q = p
        BY <3>1, <1>g DEF LeadsBack
      <3>2. CASE q = b
        BY <3>2, <2>2, <1>g DEF LeadsBack, n
      <3>3. CASE q \in B0 \ {p}
        <4> DEFINE y == next(m, q)
        <4>1. q \in B /\ q # x /\ next(k, q) = y /\ y # n /\ y \in B0 /\ y # End
          BY <3>3, <2>2, <1>b, <1>d DEF Spaced, B0
        <4>2. front(k, y) = front(m, y)
          BY <4>1 DEF n, B0
        <4>3. LeadsBack(m, D, q, y)
          BY <4>1, <1>a DEF Fronts
        <4>4. front(m, y) \in D /\ q < front(m, y) /\ front(m, y) < y => front(m, y) \in D2
          BY <4>1, <1>b DEF Spaced, D2, Dropped
        <4> QED
          BY <4>1, <4>2, <4>3, <4>4 DEF LeadsBack
      <3> QED
        BY <3>1, <3>2, <3>3 DEF B2
    <2>3. ASSUME NEW d \in D2, NEW q \in B2, Inside(k, q, d) PROVE LeadsBack(k, D2, q, d)
      <3>0. /\ d \in D /\ d \in Int /\ ~Inside(m, x, d) /\ ~Inside(m, p, d)
            /\ d # x /\ (d < x => d + H < x) /\ (x < d => x + H < d)
        BY <1>b, <1>e, <1>f DEF Spaced
      <3>1. q # b
        BY <2>3, <3>0, <1>c, <1>g DEF Inside, H, n
      <3>2. q # p
        BY <2>3, <3>0, <1>c, <1>g DEF Inside, H, n
      <3>3. q \in B0 \ {p} /\ Inside(m, q, d) /\ q # x
        BY <2>3, <3>1, <3>2, <1>d DEF Inside, B2, B0
      <3>4. front(k, d) = front(m, d)
        BY DEF SameHeader, D2
      <3>5. LeadsBack(m, D, q, d)
        BY <3>0, <3>3, <1>a, <1>c DEF Fronts
      <3>6. d < next(m, q) /\ q \in Int /\ next(m, q) \in Int
        BY <3>0, <3>3, <1>d DEF Inside, H
      <3>7. front(m, d) \in D /\ q < front(m, d) /\ front(m, d) < d => front(m, d) \in D2
        <4> SUFFICES ASSUME front(m, d) \in D, q < front(m, d), front(m, d) < d PROVE front(m, d) \in D2
          OBVIOUS
        <4>1. front(m, d) \in Int
          BY <1>b DEF Spaced
        <4>2. front(m, d) < next(m, q)
          BY <3>0, <3>6, <4>1
        <4>3. Inside(m, q, front(m, d))
          BY <4>2, <3>3, <1>b, <1>c DEF Spaced
        <4> QED
          BY <4>3, <3>3, <1>b, <1>c DEF Spaced, D2, Dropped
      <3> QED
        BY <3>4, <3>5, <3>7 DEF LeadsBack
    <2> QED
      BY <2>1, <2>2, <2>3 DEF Fronts
  <1>4. Clients(k, B2, L)
    <2>1. ASSUME NEW r \in L
          PROVE  /\ r.ptr - H \in B2 /\ inuse(k, r.ptr - H) = 1
                 /\ r.ptr + r.size <= next(k, r.ptr - H)
      <3>1. r.ptr - H \in B0 /\ inuse(m, r.ptr - H) = 1 /\ r.ptr + r.size <= next(m, r.ptr - H)
        BY <1>a DEF Clients, B0
      <3>2. CASE r.ptr - H = p
        <4>1. r.ptr \in Int /\ r.size \in Int
          <5>1. r \in [ptr : Header, size : Sizes]
            BY DEF Sound
          <5> QED
            BY <5>1, RegionNat
        <4> QED
          BY <3>1, <3>2, <4>1, <1>c, <1>g DEF B2
      <3>3. CASE r.ptr - H # p
        BY <3>1, <3>3 DEF B2, B0
      <3> QED
        BY <3>2, <3>3
    <2>2. \A c \in B2 : inuse(k, c) = 1 => c \in B /\ inuse(m, c) = 1
      BY <1>c, <1>d DEF B2, B0
    <2> QED
      BY <2>1, <2>2, <1>a DEF Clients
  <1> QED
    BY <1>1, <1>2, <1>3, <1>4 DEF Sound, B2, B0, D2

-----------------------------------------------------------------------------
(* What the branches of pmm_alloc write.                                   *)
LEMMA WrittenInside ==
    ASSUME NEW m \in Mem, NEW x \in Header, NEW b \in Header, NEW n \in Header,
           x + H < b, b + H < n,
           NEW q1, q1 = SetInuse(SetFront(m, b, x), b, 1),
           NEW q2, q2 = SetNext(q1, b, n),
           NEW q3, q3 = IF n # End THEN SetFront(q2, n, b) ELSE q2,
           NEW k, k = SetNext(q3, x, b)
    PROVE  /\ k \in Mem
           /\ front(k, x) = front(m, x) /\ inuse(k, x) = inuse(m, x) /\ next(k, x) = b
           /\ front(k, b) = x /\ inuse(k, b) = 1 /\ next(k, b) = n
           /\ inuse(k, n) = inuse(m, n) /\ next(k, n) = next(m, n)
           /\ n # End => front(k, n) = b
           /\ OnlyIn(m, k, x, n + H - 1)
  <1>0. /\ x \in Nat /\ b \in Nat /\ n \in Nat
        /\ Away(x, b) /\ Away(x, n) /\ Away(b, x) /\ Away(b, n) /\ Away(n, b) /\ Away(n, x)
    BY HeapNat DEF Header, Away, H
  <1>2. /\ q2 \in Mem /\ front(q2, b) = x /\ inuse(q2, b) = 1 /\ next(q2, b) = n
        /\ OnlyAt(m, q2, b)
    BY <1>0, AfterHeader, 1 \in Nat
  <1>3. /\ q3 \in Mem /\ inuse(q3, n) = inuse(q2, n) /\ next(q3, n) = next(q2, n)
        /\ n # End => front(q3, n) = b
        /\ OnlyAt(q2, q3, n)
    BY <1>0, <1>2, AfterFrontOfNext
  <1>4. /\ k \in Mem /\ next(k, x) = b /\ front(k, x) = front(q3, x) /\ inuse(k, x) = inuse(q3, x)
        /\ OnlyAt(q3, k, x)
    BY <1>0, <1>3, AfterSetNext
  <1>5. front(k, x) = front(m, x) /\ inuse(k, x) = inuse(m, x)
    BY <1>0, <1>2, <1>3, <1>4 DEF OnlyAt, SameHeader
  <1>6. front(k, b) = x /\ inuse(k, b) = 1 /\ next(k, b) = n
    BY <1>0, <1>2, <1>3, <1>4 DEF OnlyAt, SameHeader
  <1>7. inuse(k, n) = inuse(m, n) /\ next(k, n) = next(m, n) /\ (n # End => front(k, n) = b)
    BY <1>0, <1>2, <1>3, <1>4 DEF OnlyAt, SameHeader
  <1>8. OnlyIn(m, k, x, n + H - 1)
    <2> SUFFICES ASSUME NEW i \in Addresses, i < x \/ n + H - 1 < i PROVE k[i] = m[i]
      BY DEF OnlyIn
    <2>1. (i < x \/ x + H <= i) /\ (i < b \/ b + H <= i) /\ (i < n \/ n + H <= i)
      BY HeapNat DEF Header, Addresses, H
    <2> QED
      BY <2>1, <1>2, <1>3, <1>4 DEF OnlyAt
  <1> QED
    BY <1>4, <1>5, <1>6, <1>7, <1>8

(* The same with a remainder at r.                                         *)
LEMMA WrittenInsideAndBehind ==
    ASSUME NEW m \in Mem, NEW x \in Header, NEW b \in Header, NEW r \in Header, NEW n \in Header,
           x + H < b, b + H < r, r + H < n,
           NEW q1, q1 = SetInuse(SetFront(m, b, x), b, 1),
           NEW q2, q2 = SetNext(SetInuse(SetFront(q1, r, b), r, 0), r, n),
           NEW q3, q3 = SetNext(q2, b, r),
           NEW q4, q4 = IF n # End THEN SetFront(q3, n, r) ELSE q3,
           NEW k, k = SetNext(q4, x, b)
    PROVE  /\ k \in Mem
           /\ front(k, x) = front(m, x) /\ inuse(k, x) = inuse(m, x) /\ next(k, x) = b
           /\ front(k, b) = x /\ inuse(k, b) = 1 /\ next(k, b) = r
           /\ front(k, r) = b /\ inuse(k, r) = 0 /\ next(k, r) = n
           /\ inuse(k, n) = inuse(m, n) /\ next(k, n) = next(m, n)
           /\ n # End => front(k, n) = r
           /\ OnlyIn(m, k, x, n + H - 1)
  <1>0. /\ x \in Nat /\ b \in Nat /\ r \in Nat /\ n \in Nat
        /\ Away(x, b) /\ Away(x, r) /\ Away(x, n) /\ Away(b, x) /\ Away(b, r) /\ Away(b, n)
        /\ Away(r, b) /\ Away(r, x) /\ Away(r, n) /\ Away(n, b) /\ Away(n, r) /\ Away(n, x)
    BY HeapNat DEF Header, Away, H
  <1>1. /\ q1 \in Mem /\ front(q1, b) = x /\ inuse(q1, b) = 1
        /\ OnlyAt(m, q1, b)
    BY <1>0, AfterMark, 1 \in Nat
  <1>2. /\ q2 \in Mem /\ front(q2, r) = b /\ inuse(q2, r) = 0 /\ next(q2, r) = n
        /\ OnlyAt(q1, q2, r)
    BY <1>0, <1>1, AfterHeader, 0 \in Nat
  <1>3. /\ q3 \in Mem /\ next(q3, b) = r /\ front(q3, b) = front(q2, b) /\ inuse(q3, b) = inuse(q2, b)
        /\ OnlyAt(q2, q3, b)
    BY <1>0, <1>2, AfterSetNext
  <1>4. /\ q4 \in Mem /\ inuse(q4, n) = inuse(q3, n) /\ next(q4, n) = next(q3, n)
        /\ n # End => front(q4, n) = r
        /\ OnlyAt(q3, q4, n)
    BY <1>0, <1>3, AfterFrontOfNext
  <1>5. /\ k \in Mem /\ next(k, x) = b /\ front(k, x) = front(q4, x) /\ inuse(k, x) = inuse(q4, x)
        /\ OnlyAt(q4, k, x)
    BY <1>0, <1>4, AfterSetNext
  <1>6. front(k, x) = front(m, x) /\ inuse(k, x) = inuse(m, x)
    BY <1>0, <1>1, <1>2, <1>3, <1>4, <1>5 DEF OnlyAt, SameHeader
  <1>7. front(k, b) = x /\ inuse(k, b) = 1 /\ next(k, b) = r
    BY <1>0, <1>1, <1>2, <1>3, <1>4, <1>5 DEF OnlyAt, SameHeader
  <1>8. front(k, r) = b /\ inuse(k, r) = 0 /\ next(k, r) = n
    BY <1>0, <1>2, <1>3, <1>4, <1>5 DEF OnlyAt, SameHeader
  <1>9. inuse(k, n) = inuse(m, n) /\ next(k, n) = next(m, n) /\ (n # End => front(k, n) = r)
    BY <1>0, <1>1, <1>2, <1>3, <1>4, <1>5 DEF OnlyAt, SameHeader
  <1>10. OnlyIn(m, k, x, n + H - 1)
    <2> SUFFICES ASSUME NEW i \in Addresses, i < x \/ n + H - 1 < i PROVE k[i] = m[i]
      BY DEF OnlyIn
    <2>1. /\ i < x \/ x + H <= i
          /\ i < b \/ b + H <= i
          /\ i < r \/ r + H <= i
          /\ i < n \/ n + H <= i
      BY HeapNat DEF Header, Addresses, H
    <2> QED
      BY <2>1, <1>1, <1>2, <1>3, <1>4, <1>5 DEF OnlyAt
  <1> QED
    BY <1>5, <1>6, <1>7, <1>8, <1>9, <1>10

(* What SplitBehind writes.                                                *)
LEMMA WrittenBehind ==
    ASSUME NEW m \in Mem, NEW x \in Header, NEW b \in Header, NEW r \in Header, NEW n \in Header,
           x + H < r, r + H < n,
           NEW q1, q1 = SetNext(SetInuse(SetFront(m, r, b), r, 0), r, n),
           NEW q2, q2 = IF n # End THEN SetFront(q1, n, r) ELSE q1,
           NEW k, k = SetNext(q2, x, r)
    PROVE  /\ k \in Mem
           /\ front(k, x) = front(m, x) /\ inuse(k, x) = inuse(m, x) /\ next(k, x) = r
           /\ front(k, r) = b /\ inuse(k, r) = 0 /\ next(k, r) = n
           /\ inuse(k, n) = inuse(m, n) /\ next(k, n) = next(m, n)
           /\ n # End => front(k, n) = r
           /\ OnlyIn(m, k, x, n + H - 1)
  <1>0. /\ x \in Nat /\ b \in Nat /\ r \in Nat /\ n \in Nat
        /\ Away(x, r) /\ Away(x, n) /\ Away(r, x) /\ Away(r, n) /\ Away(n, r) /\ Away(n, x)
    BY HeapNat DEF Header, Away, H
  <1>1. /\ q1 \in Mem /\ front(q1, r) = b /\ inuse(q1, r) = 0 /\ next(q1, r) = n
        /\ OnlyAt(m, q1, r)
    BY <1>0, AfterHeader, 0 \in Nat
  <1>2. /\ q2 \in Mem /\ inuse(q2, n) = inuse(q1, n) /\ next(q2, n) = next(q1, n)
        /\ n # End => front(q2, n) = r
        /\ OnlyAt(q1, q2, n)
    BY <1>0, <1>1, AfterFrontOfNext
  <1>3. /\ k \in Mem /\ next(k, x) = r /\ front(k, x) = front(q2, x) /\ inuse(k, x) = inuse(q2, x)
        /\ OnlyAt(q2, k, x)
    BY <1>0, <1>2, AfterSetNext
  <1>4. front(k, x) = front(m, x) /\ inuse(k, x) = inuse(m, x)
    BY <1>0, <1>1, <1>2, <1>3 DEF OnlyAt, SameHeader
  <1>5. front(k, r) = b /\ inuse(k, r) = 0 /\ next(k, r) = n
    BY <1>0, <1>1, <1>2, <1>3 DEF OnlyAt, SameHeader
  <1>6. inuse(k, n) = inuse(m, n) /\ next(k, n) = next(m, n) /\ (n # End => front(k, n) = r)
    BY <1>0, <1>1, <1>2, <1>3 DEF OnlyAt, SameHeader
  <1>7. OnlyIn(m, k, x, n + H - 1)
    <2> SUFFICES ASSUME NEW i \in Addresses, i < x \/ n + H - 1 < i PROVE k[i] = m[i]
      BY DEF OnlyIn
    <2>1. (i < x \/ x + H <= i) /\ (i < r \/ r + H <= i) /\ (i < n \/ n + H <= i)
      BY HeapNat DEF Header, Addresses, H
    <2> QED
      BY <2>1, <1>1, <1>2, <1>3 DEF OnlyAt
  <1> QED
    BY <1>3, <1>4, <1>5, <1>6, <1>7

(* What PlaceAtStart writes after that.                                    *)
LEMMA WrittenAtStart ==
    ASSUME NEW m \in Mem, NEW p \in Header, NEW b \in Header, NEW n \in Header,
           p + H < b, b + H < n,
           NEW q1, q1 = SetNext(m, p, b),
           NEW q2, q2 = SetFront(q1, n, b),
           NEW k, k = SetInuse(SetFront(SetNext(q2, b, n), b, p), b, 1)
    PROVE  /\ k \in Mem
           /\ front(k, p) = front(m, p) /\ inuse(k, p) = inuse(m, p) /\ next(k, p) = b
           /\ front(k, b) = p /\ inuse(k, b) = 1 /\ next(k, b) = n
           /\ front(k, n) = b /\ inuse(k, n) = inuse(m, n) /\ next(k, n) = next(m, n)
           /\ \A i \in Addresses : /\ i < p \/ p + H <= i
                                   /\ i < b \/ n + H <= i
                                   => k[i] = m[i]
  <1> DEFINE q3 == SetNext(q2, b, n)
  <1>0. /\ p \in Nat /\ b \in Nat /\ n \in Nat
        /\ Away(p, b) /\ Away(p, n) /\ Away(b, p) /\ Away(b, n) /\ Away(n, b) /\ Away(n, p)
    BY HeapNat DEF Header, Away, H
  <1>1. /\ q1 \in Mem /\ next(q1, p) = b /\ front(q1, p) = front(m, p) /\ inuse(q1, p) = inuse(m, p)
        /\ OnlyAt(m, q1, p)
    BY <1>0, AfterSetNext
  <1>2. /\ q2 \in Mem /\ inuse(q2, n) = inuse(q1, n) /\ next(q2, n) = next(q1, n) /\ front(q2, n) = b
        /\ OnlyAt(q1, q2, n)
    BY <1>0, <1>1, AfterSetFront
  <1>3. q3 \in Mem /\ next(q3, b) = n /\ OnlyAt(q2, q3, b)
    BY <1>0, <1>2, AfterSetNext
  <1> HIDE DEF q3
  <1>4. k = SetInuse(SetFront(q3, b, p), b, 1)
    BY DEF q3
  <1>5. k \in Mem /\ front(k, b) = p /\ inuse(k, b) = 1 /\ next(k, b) = n /\ OnlyAt(q2, k, b)
    BY <1>0, <1>3, <1>4, AfterMark, OnlyTwice, 1 \in Nat
  <1>6. front(k, p) = front(m, p) /\ inuse(k, p) = inuse(m, p) /\ next(k, p) = b
    BY <1>0, <1>1, <1>2, <1>5 DEF OnlyAt, SameHeader
  <1>7. front(k, n) = b /\ inuse(k, n) = inuse(m, n) /\ next(k, n) = next(m, n)
    BY <1>0, <1>1, <1>2, <1>5 DEF OnlyAt, SameHeader
  <1>8. ASSUME NEW i \in Addresses, i < p \/ p + H <= i, i < b \/ n + H <= i PROVE k[i] = m[i]
    <2>1. (i < p \/ p + H <= i) /\ (i < b \/ b + H <= i) /\ (i < n \/ n + H <= i)
      BY <1>8, HeapNat DEF Header, Addresses, H
    <2> QED
      BY <2>1, <1>1, <1>2, <1>5 DEF OnlyAt
  <1> QED
    BY <1>5, <1>6, <1>7, <1>8

(* What PlaceAtHead writes after that, when the head stays where it is.    *)
LEMMA WrittenAtHead ==
    ASSUME NEW m \in Mem, NEW x \in Header, NEW k, k = SetInuse(SetNext(m, x, next(m, x)), x, 1)
    PROVE  /\ k \in Mem /\ front(k, x) = front(m, x) /\ inuse(k, x) = 1 /\ next(k, x) = next(m, x)
           /\ OnlyAt(m, k, x)
  <1> DEFINE q == SetNext(m, x, next(m, x))
  <1>1. q \in Mem /\ front(q, x) = front(m, x) /\ next(q, x) = next(m, x) /\ OnlyAt(m, q, x)
    BY FieldsOf, AfterSetNext
  <1>2. k = SetInuse(q, x, 1)
    BY DEF q
  <1> HIDE DEF q
  <1> QED
    BY <1>1, <1>2, AfterSetInuse, OnlyTwice, 1 \in Nat

-----------------------------------------------------------------------------
(* What is written in the gap of x and in the header behind it leaves the  *)
(* other headers as they are.                                              *)
LEMMA OutsideGap ==
    ASSUME NEW m, NEW k, NEW B, NEW D, NEW x \in B, Spaced(m, B, D),
           OnlyIn(m, k, x, next(m, x) + H - 1)
    PROVE  /\ \A c \in B \ {x, next(m, x)} : SameHeader(m, k, c)
           /\ \A d \in Dropped(m, x, D) : SameHeader(m, k, d)
  <1> DEFINE n == next(m, x)
  <1>1. x \in Int /\ n \in Int /\ n + H - 1 \in Int /\ x < n
    BY DEF Spaced, H
  <1>2. ASSUME NEW c \in B \ {x, n} PROVE SameHeader(m, k, c)
    <2>1. c \in Header /\ c \in Int
      BY DEF Spaced
    <2>2. c < x => c + H < x
      BY DEF Spaced
    <2>3. x < c => n <= c
      BY DEF Spaced
    <2>4. n < c => n \in B
      BY DEF Spaced, Header
    <2>5. n < c => n + H < c
      BY <2>4 DEF Spaced
    <2>6. c + H <= x \/ n + H - 1 < c
      BY <1>1, <2>1, <2>2, <2>3, <2>5 DEF H
    <2> QED
      BY <1>1, <2>1, <2>6, HeaderOutside
  <1>3. ASSUME NEW d \in Dropped(m, x, D) PROVE SameHeader(m, k, d)
    <2>1. d \in D /\ d \in Header /\ d \in Int /\ d # x /\ ~Inside(m, x, d) /\ d + H < End /\ End \in Int
      BY HeapNat DEF Spaced, Dropped
    <2>2. d < x => d + H < x
      BY <2>1 DEF Spaced
    <2>3. x < d => n <= d
      BY <1>1, <2>1 DEF Spaced
    <2>4. n \in B => d # n /\ (n < d => n + H < d)
      BY <2>1 DEF Spaced
    <2>5. n \notin B => n = End
      BY DEF Spaced
    <2>6. d + H <= x \/ n + H - 1 < d
      BY <1>1, <2>1, <2>2, <2>3, <2>4, <2>5 DEF H
    <2> QED
      BY <1>1, <2>1, <2>6, HeaderOutside
  <1> QED
    BY <1>2, <1>3

(* A grant in the middle of the free block x, whose start stays free.      *)
LEMMA GrantInside ==
    ASSUME NEW m \in Mem, NEW k \in Mem, NEW B, NEW D, NEW L, NEW x \in B, NEW b \in Int,
           NEW g \in [ptr : Header, size : Sizes],
           Sound(m, B, D, L), NoPair(m, B \ {x}), inuse(m, x) = 0, x + H < b,
           g.ptr = b + H, g.ptr + g.size <= next(m, x),
           front(k, x) = front(m, x), inuse(k, x) = inuse(m, x), next(k, x) = b,
           front(k, b) = x, inuse(k, b) = 1, next(k, b) = next(m, x),
           inuse(k, next(m, x)) = inuse(m, next(m, x)), next(k, next(m, x)) = next(m, next(m, x)),
           next(m, x) # End => front(k, next(m, x)) = b,
           OnlyIn(m, k, x, next(m, x) + H - 1)
    PROVE  /\ Sound(k, B \cup {b}, Dropped(m, x, D), L \cup {g})
           /\ NoPair(k, B \cup {b})
  <1> DEFINE n == next(m, x)
             B2 == B \cup {b}
             D2 == Dropped(m, x, D)
             q == SetInuse(k, b, 0)
  <1>a. Spaced(m, B, D)
    BY Apart DEF Sound
  <1>b. x \in Int /\ n \in Int /\ b + H < n /\ n <= End /\ Start <= x /\ x < b
    <2>1. x \in Int /\ n \in Int /\ n <= End /\ Start <= x
      BY <1>a DEF Spaced
    <2> QED
      BY <2>1, RegionNat DEF H
  <1>c. b \in Header /\ x \in Header /\ n \in Header
    BY <1>b, HeapNat DEF Header, H
  <1>d. /\ \A c \in B \ {x, n} : SameHeader(m, k, c)
        /\ \A d \in D2 : SameHeader(m, k, d)
    BY <1>a, OutsideGap
  <1>e. /\ q \in Mem /\ front(q, b) = x /\ inuse(q, b) = 0 /\ next(q, b) = n
        /\ OnlyAt(k, q, b)
    BY <1>c, AfterSetInuse, 0 \in Nat
  <1> HIDE DEF q, D2
  <1>f. /\ \A c \in B : c # b /\ SameHeader(k, q, c)
        /\ \A d \in D2 : SameHeader(k, q, d) /\ ~Inside(q, b, d) /\ d # b
    <2>1. ASSUME NEW c \in B PROVE c # b /\ SameHeader(k, q, c)
      <3>1. c \in Header /\ c \in Int /\ (c < x => c + H < x) /\ (x < c => n <= c)
        BY <1>a DEF Spaced
      <3>2. Away(c, b) /\ c # b
        BY <3>1, <1>b DEF Away, H
      <3> QED
        BY <3>1, <3>2, <1>e DEF OnlyAt
    <2>2. ASSUME NEW d \in D2 PROVE SameHeader(k, q, d) /\ ~Inside(q, b, d) /\ d # b
      <3>1. d \in Header /\ d \in Int /\ d # x /\ (d < x => d + H < x) /\ (x < d => n <= d)
        BY <1>a DEF Spaced, D2, Dropped
      <3>2. Away(d, b) /\ d # b
        BY <3>1, <1>b DEF Away, H
      <3>3. ~Inside(q, b, d)
        BY <3>1, <1>b, <1>e DEF Inside, H
      <3> QED
        BY <3>1, <3>2, <3>3, <1>e DEF OnlyAt
    <2> QED
      BY <2>1, <2>2
  <1>1. Sound(q, B2, D2, L)
    <2>1. next(q, x) = b /\ inuse(q, x) = 0 /\ front(q, x) = front(m, x)
      BY <1>f DEF SameHeader
    <2>2. n # End => front(q, n) = b
      <3>1. n # End => n \in B
        BY <1>a DEF Spaced
      <3> QED
        BY <3>1, <1>f DEF SameHeader
    <2>3. \A c \in B \ {x} : next(q, c) = next(m, c) /\ inuse(q, c) = inuse(m, c)
      BY <1>d, <1>f DEF SameHeader
    <2>4. \A c \in B : c # n => front(q, c) = front(m, c)
      BY <1>d, <1>f DEF SameHeader
    <2>5. \A d \in D2 : SameHeader(m, q, d)
      BY <1>d, <1>f DEF SameHeader
    <2> QED
      BY <2>1, <2>2, <2>3, <2>4, <2>5, <1>b, <1>e, Cut DEF D2
  <1>2. Sound(k, B2, D2, L \cup {g})
    <2>1. \A c \in B2 : next(k, c) = next(q, c) /\ front(k, c) = front(q, c)
      BY <1>e, <1>f DEF SameHeader
    <2>2. \A c \in B2 \ {b} : inuse(k, c) = inuse(q, c)
      BY <1>f DEF SameHeader
    <2>3. \A d \in D2 : front(k, d) = front(q, d) /\ inuse(k, d) = inuse(q, d)
      BY <1>f DEF SameHeader
    <2> QED
      BY <2>1, <2>2, <2>3, <1>1, <1>e, <1>f, Take
  <1>3. NoPair(k, B2)
    <2> SUFFICES ASSUME NEW c \in B2, next(k, c) # End, inuse(k, c) = 0 PROVE inuse(k, next(k, c)) = 1
      BY DEF NoPair
    <2>1. CASE c \in {x, b}
      BY <2>1
    <2>2. CASE c \in B \ {x}
      <3>1. next(k, c) = next(m, c) /\ inuse(m, c) = 0 /\ next(m, c) # n /\ next(m, c) \in B
        BY <2>2, <1>a, <1>d DEF SameHeader, Spaced
      <3>2. inuse(m, next(m, c)) = 1
        BY <2>2, <3>1, <1>a DEF NoPair, Spaced
      <3> QED
        BY <3>1, <3>2, <1>d DEF SameHeader
    <2> QED
      BY <2>1, <2>2
  <1> QED
    BY <1>2, <1>3 DEF D2

(* The rest of the free block x becomes a block of its own.                *)
LEMMA SplitOff ==
    ASSUME NEW m \in Mem, NEW k \in Mem, NEW B, NEW D, NEW L, NEW x \in B, NEW r \in Int,
           Sound(m, B, D, L), NoPair(m, B), inuse(m, x) = 0,
           x + H < r, r + H < next(m, x),
           front(k, x) = front(m, x), inuse(k, x) = 0, next(k, x) = r,
           front(k, r) = x, inuse(k, r) = 0, next(k, r) = next(m, x),
           inuse(k, next(m, x)) = inuse(m, next(m, x)), next(k, next(m, x)) = next(m, next(m, x)),
           next(m, x) # End => front(k, next(m, x)) = r,
           OnlyIn(m, k, x, next(m, x) + H - 1)
    PROVE  /\ Sound(k, B \cup {r}, Dropped(m, x, D), L)
           /\ NoPair(k, (B \cup {r}) \ {x})
           /\ \A d \in Dropped(m, x, D) : ~Inside(k, x, d)
  <1> DEFINE n == next(m, x)
             B2 == B \cup {r}
             D2 == Dropped(m, x, D)
  <1>a. Spaced(m, B, D)
    BY Apart DEF Sound
  <1>b. /\ \A c \in B \ {x, n} : SameHeader(m, k, c)
        /\ \A d \in D2 : SameHeader(m, k, d)
    BY <1>a, OutsideGap
  <1> HIDE DEF D2
  <1>1. Sound(k, B2, D2, L)
    <2>1. \A c \in B \ {x} : next(k, c) = next(m, c) /\ inuse(k, c) = inuse(m, c)
      BY <1>b DEF SameHeader
    <2>2. \A c \in B : c # n => front(k, c) = front(m, c)
      BY <1>b DEF SameHeader
    <2> QED
      BY <1>b, <2>1, <2>2, Cut DEF D2
  <1>2. ASSUME NEW c \in B2 \ {x}, next(k, c) # End, inuse(k, c) = 0 PROVE inuse(k, next(k, c)) = 1
    <2>1. CASE c = r
      <3>1. n \in B /\ inuse(m, n) = 1
        BY <1>2, <2>1, <1>a DEF NoPair, Spaced
      <3> QED
        BY <2>1, <3>1
    <2>2. CASE c \in B \ {x}
      <3>1. next(k, c) = next(m, c) /\ inuse(m, c) = 0 /\ next(m, c) # n /\ next(m, c) \in B
        BY <1>2, <2>2, <1>a, <1>b DEF SameHeader, Spaced
      <3>2. inuse(m, next(m, c)) = 1
        BY <2>2, <3>1, <1>a DEF NoPair, Spaced
      <3> QED
        BY <3>1, <3>2, <1>b DEF SameHeader
    <2> QED
      BY <1>2, <2>1, <2>2
  <1>3. ASSUME NEW d \in D2 PROVE ~Inside(k, x, d)
    <2>1. ~Inside(m, x, d) /\ d \in Int /\ x \in Int /\ n \in Int
      BY <1>a DEF D2, Dropped, Spaced
    <2> QED
      BY <2>1 DEF Inside, H
  <1> QED
    BY <1>1, <1>2, <1>3 DEF NoPair, D2

(* A grant of the whole free block x, its header where it was.             *)
LEMMA GrantAtHead ==
    ASSUME NEW m \in Mem, NEW k \in Mem, NEW B, NEW D, NEW L, NEW x \in B,
           NEW g \in [ptr : Header, size : Sizes],
           Sound(m, B, D, L), NoPair(m, B \ {x}), inuse(m, x) = 0,
           \A d \in D : ~Inside(m, x, d),
           g.ptr = x + H, g.ptr + g.size <= next(m, x),
           front(k, x) = front(m, x), inuse(k, x) = 1, next(k, x) = next(m, x),
           OnlyAt(m, k, x)
    PROVE  Sound(k, B, D, L \cup {g}) /\ NoPair(k, B)
  <1>a. Spaced(m, B, D)
    BY Apart DEF Sound
  <1>b. /\ \A c \in B \ {x} : SameHeader(m, k, c)
        /\ \A d \in D : SameHeader(m, k, d)
    <2>1. ASSUME NEW c \in B \ {x} PROVE SameHeader(m, k, c)
      <3>1. c \in Int /\ x \in Int /\ c \in Header /\ (c < x => c + H < x) /\ (x < c => x + H < c)
        BY <1>a DEF Spaced
      <3> QED
        BY <3>1 DEF OnlyAt, Away, H
    <2>2. ASSUME NEW d \in D PROVE SameHeader(m, k, d)
      <3>1. d \in Int /\ x \in Int /\ d \in Header /\ d # x /\ (d < x => d + H < x) /\ (x < d => x + H < d)
        BY <1>a DEF Spaced
      <3> QED
        BY <3>1 DEF OnlyAt, Away, H
    <2> QED
      BY <2>1, <2>2
  <1>1. Sound(k, B, D, L \cup {g})
    <2>1. \A c \in B : next(k, c) = next(m, c) /\ front(k, c) = front(m, c)
      BY <1>b DEF SameHeader
    <2>2. \A c \in B \ {x} : inuse(k, c) = inuse(m, c)
      BY <1>b DEF SameHeader
    <2>3. \A d \in D : front(k, d) = front(m, d) /\ inuse(k, d) = inuse(m, d)
      BY <1>b DEF SameHeader
    <2> QED
      BY <2>1, <2>2, <2>3, Take
  <1>2. NoPair(k, B)
    BY <1>a, <1>b DEF NoPair, SameHeader, Spaced
  <1> QED
    BY <1>1, <1>2

(* A grant of the whole free block x, its header moved up to b.            *)
LEMMA GrantAtStart ==
    ASSUME NEW m \in Mem, NEW k \in Mem, NEW B, NEW D, NEW L, NEW x \in B \ {Start}, NEW p \in B,
           NEW b \in Int, NEW g \in [ptr : Header, size : Sizes],
           Sound(m, B, D, L), NoPair(m, B \ {x}), next(m, p) = x, inuse(m, p) = 1, inuse(m, x) = 0,
           x <= b, g.ptr = b + H, g.ptr + g.size <= next(m, x),
           front(k, p) = front(m, p), inuse(k, p) = 1, next(k, p) = b,
           front(k, b) = p, inuse(k, b) = 1, next(k, b) = next(m, x),
           inuse(k, next(m, x)) = inuse(m, next(m, x)), next(k, next(m, x)) = next(m, next(m, x)),
           front(k, next(m, x)) = b,
           \A c \in Header : /\ Away(c, p)
                             /\ c + H <= x \/ next(m, x) + H <= c
                             => SameHeader(m, k, c)
    PROVE  /\ Sound(k, (B \ {x}) \cup {b}, Dropped(m, x, D), L \cup {g})
           /\ NoPair(k, (B \ {x}) \cup {b})
  <1> DEFINE n == next(m, x)
             B0 == B \ {x}
             B2 == B0 \cup {b}
             D2 == Dropped(m, x, D)
             q == SetInuse(k, b, 0)
  <1>a. Spaced(m, B, D)
    BY Apart DEF Sound
  <1>b. /\ x \in Int /\ n \in Int /\ p \in Int /\ b + H < n /\ n <= End /\ Start <= p /\ p + H < x /\ x < n
        /\ p < x /\ n \in B0 \cup {End} /\ p # n
    <2>1. x \in Int /\ n \in Int /\ p \in Int /\ n <= End /\ Start <= p /\ p + H < x /\ n \in B \cup {End}
      BY <1>a DEF Spaced
    <2>2. b + H < n
      BY <2>1, RegionNat
    <2> QED
      BY <2>1, <2>2 DEF H
  <1>c. b \in Header
    BY <1>b, HeapNat DEF Header, H
  <1>d. /\ \A c \in B0 : c \in Header /\ c \in Int /\ (c <= p \/ n <= c) /\ (c < p => c + H < p)
        /\ \A c \in B0 \ {p, n} : SameHeader(m, k, c)
        /\ \A d \in D2 : SameHeader(m, k, d) /\ d \in Header /\ d \in Int /\ (d + H < x \/ n <= d)
    <2>1. ASSUME NEW c \in B0
          PROVE  c \in Header /\ c \in Int /\ (c <= p \/ n <= c) /\ (c < p => c + H < p)
      <3>1. c \in Header /\ c \in Int /\ (c < p => c + H < p) /\ (p < c => x <= c) /\ (x < c => n <= c)
        BY <1>a DEF Spaced
      <3> QED
        BY <3>1, <1>b
    <2>2. ASSUME NEW c \in B0 \ {p, n} PROVE SameHeader(m, k, c)
      <3>1. n < c => n + H < c
        BY <1>a, <1>b, <2>1, HeapNat DEF Spaced, Header
      <3>2. Away(c, p) /\ (c + H <= x \/ n + H <= c)
        BY <2>1, <3>1, <1>b DEF Away, H
      <3> QED
        BY <3>2, <2>1
    <2>3. ASSUME NEW d \in D2
          PROVE  SameHeader(m, k, d) /\ d \in Header /\ d \in Int /\ (d + H < x \/ n <= d)
      <3>1. /\ d \in D /\ d \in Header /\ d \in Int /\ d # x /\ d # p /\ ~Inside(m, x, d) /\ d + H < End
            /\ (d < x => d + H < x) /\ (d < p => d + H < p) /\ (p < d => p + H < d)
        BY <1>a DEF Spaced, Dropped
      <3>2. x < d => n <= d
        BY <1>b, <3>1, <1>a DEF Spaced
      <3>3. n \in B => d # n /\ (n < d => n + H < d)
        BY <3>1, <1>a DEF Spaced
      <3>4. d + H < x \/ n + H < d
        BY <1>b, <3>1, <3>2, <3>3, HeapNat DEF H
      <3>5. Away(d, p) /\ (d + H <= x \/ n + H <= d) /\ (d + H < x \/ n <= d)
        BY <3>1, <3>4, <1>b DEF Away, H
      <3> QED
        BY <3>1, <3>5
    <2> QED
      BY <2>1, <2>2, <2>3
  <1>e. /\ q \in Mem /\ front(q, b) = p /\ inuse(q, b) = 0 /\ next(q, b) = n
        /\ OnlyAt(k, q, b)
    BY <1>c, AfterSetInuse, 0 \in Nat
  <1> HIDE DEF q, D2, B0
  <1>f. /\ \A c \in B0 : c # b /\ SameHeader(k, q, c)
        /\ \A d \in D2 : SameHeader(k, q, d) /\ ~Inside(q, b, d)
    <2>1. ASSUME NEW c \in B0 PROVE c # b /\ SameHeader(k, q, c)
      <3>1. Away(c, b) /\ c # b
        BY <1>b, <1>d DEF Away, H
      <3> QED
        BY <3>1, <1>d, <1>e DEF OnlyAt
    <2>2. ASSUME NEW d \in D2 PROVE SameHeader(k, q, d) /\ ~Inside(q, b, d)
      <3>1. Away(d, b)
        BY <1>b, <1>d DEF Away, H
      <3>2. ~Inside(q, b, d)
        BY <1>b, <1>d, <1>e DEF Inside, H
      <3> QED
        BY <3>1, <3>2, <1>d, <1>e DEF OnlyAt
    <2> QED
      BY <2>1, <2>2
  <1>g. p \in B0 /\ B0 \subseteq B /\ (n # End => n \in B0)
    BY <1>b DEF B0
  <1>1. Sound(q, B2, D2, L)
    <2>1. next(q, p) = b /\ inuse(q, p) = 1 /\ front(q, p) = front(m, p)
      BY <1>f, <1>g DEF SameHeader
    <2>2. n # End => front(q, n) = b
      BY <1>f, <1>g DEF SameHeader
    <2>3. \A c \in B \ {p, x} : next(q, c) = next(m, c) /\ inuse(q, c) = inuse(m, c)
      BY <1>d, <1>f DEF SameHeader, B0
    <2>4. \A c \in B \ {x} : c # n => front(q, c) = front(m, c)
      BY <1>d, <1>f DEF SameHeader, B0
    <2>5. \A d \in D2 : SameHeader(m, q, d)
      BY <1>d, <1>f DEF SameHeader
    <2>6. /\ next(q, p) = b /\ front(q, p) = front(m, p) /\ inuse(q, p) = 1
          /\ front(q, b) = p /\ inuse(q, b) = 0 /\ next(q, b) = next(m, x)
          /\ next(m, x) # End => front(q, next(m, x)) = b
          /\ \A c \in B \ {p, x} : next(q, c) = next(m, c) /\ inuse(q, c) = inuse(m, c)
          /\ \A c \in B \ {x} : c # next(m, x) => front(q, c) = front(m, c)
          /\ \A d \in Dropped(m, x, D) : SameHeader(m, q, d)
          /\ b + H < next(m, x)
      BY <2>1, <2>2, <2>3, <2>4, <2>5, <1>b, <1>e DEF D2
    <2>8. Shifted(m, q, B, D, p, x, b)
      BY <1>b, <2>6 DEF Shifted
    <2>7. Sound(q, (B \ {x}) \cup {b}, Dropped(m, x, D), L)
      BY <1>b, <2>8, Shift
    <2> QED
      BY <2>7 DEF D2, B0
  <1>2. Sound(k, B2, D2, L \cup {g})
    <2>1. \A c \in B2 : next(k, c) = next(q, c) /\ front(k, c) = front(q, c)
      BY <1>e, <1>f DEF SameHeader
    <2>2. \A c \in B2 \ {b} : inuse(k, c) = inuse(q, c)
      BY <1>f DEF SameHeader
    <2>3. \A d \in D2 : front(k, d) = front(q, d) /\ inuse(k, d) = inuse(q, d)
      BY <1>f DEF SameHeader
    <2> QED
      BY <2>1, <2>2, <2>3, <1>1, <1>e, <1>f, Take
  <1>3. NoPair(k, B2)
    <2> SUFFICES ASSUME NEW c \in B2, next(k, c) # End, inuse(k, c) = 0 PROVE inuse(k, next(k, c)) = 1
      BY DEF NoPair
    <2>1. c \in B0 \ {p} /\ c \in B
      BY <1>g
    <2>2. next(k, c) = next(m, c) /\ inuse(m, c) = 0 /\ next(m, c) \in B \ {x, n}
      BY <2>1, <1>a, <1>d DEF SameHeader, Spaced, B0
    <2>3. inuse(m, next(m, c)) = 1
      BY <2>1, <2>2, <1>a DEF NoPair, Spaced, B0
    <2> QED
      BY <2>2, <2>3, <1>d DEF SameHeader, B0
  <1> QED
    BY <1>2, <1>3 DEF D2, B0

-----------------------------------------------------------------------------
(* Rounding up to a multiple of r.                                         *)
LEMMA Division ==
    ASSUME NEW x \in Nat, NEW r \in Nat \ {0}
    PROVE  /\ x \div r \in Nat /\ (x \div r) * r \in Nat
           /\ (x \div r) * r <= x /\ x < (x \div r) * r + r
           /\ ((x \div r) * r + r) % r = 0
  <1>1. x \div r \in Nat /\ (x \div r) * r <= x /\ x < (x \div r) * r + r
    OBVIOUS
  <1>2. ASSUME NEW q \in Nat PROVE (q * r) % r = 0
    OBVIOUS
  <1>3. (x \div r) * r + r = (x \div r + 1) * r /\ x \div r + 1 \in Nat
    BY <1>1
  <1> QED
    BY <1>1, <1>2, <1>3

(* The address for the data is behind the header and aligned.              *)
LEMMA Aligned ==
    ASSUME NEW b \in Nat, NEW s \in Sizes
    PROVE  /\ allocaddr(b, s) \in Nat /\ b + H <= allocaddr(b, s)
           /\ allocaddr(b, s) % RoundUp(s) = 0
  <1> DEFINE r == RoundUp(s)
             x == startinblock(b)
  <1>1. r \in Nat \ {0} /\ x \in Nat /\ x = b + H
    BY RoundUpAssumption DEF startinblock, H
  <1>2. allocaddr(b, s) = IF x % r = 0 THEN x ELSE (x \div r) * r + r
    BY DEF allocaddr
  <1> HIDE DEF r, x
  <1>3. /\ (x \div r) * r \in Nat /\ x < (x \div r) * r + r
        /\ ((x \div r) * r + r) % r = 0
    BY <1>1, Division
  <1>4. allocaddr(b, s) % r = 0
    BY <1>2, <1>3
  <1>5. allocaddr(b, s) \in Nat /\ x <= allocaddr(b, s)
    <2>1. CASE x % r = 0
      BY <1>1, <1>2, <2>1
    <2>2. CASE x % r # 0
      BY <1>1, <1>2, <1>3, <2>2
    <2> QED
      BY <2>1, <2>2
  <1> QED
    BY <1>1, <1>4, <1>5 DEF r

(* A search that has found a block: what the branches start from.          *)
Gap(B, D, a) ==
    /\ mem \in Mem
    /\ Sound(mem, B, D, live) /\ NoPair(mem, B) /\ Spaced(mem, B, D)
    /\ blockit \in B /\ inuse(mem, blockit) = 0
    /\ size \in Sizes /\ size \in Nat /\ size > 0
    /\ a = allocaddr(blockit, size) /\ a \in Nat /\ blockit + H <= a
    /\ a + size <= next(mem, blockit)
    /\ Granted = [ptr |-> a, size |-> size] /\ Granted \in [ptr : Header, size : Sizes]

(* What the search knows when it stops at a block.                         *)
LEMMA FoundGap ==
    ASSUME NEW B, NEW D, mem \in Mem, Sound(mem, B, D, live), NoPair(mem, B),
           size \in Sizes, blockit \in B \cup {End}, ~Exhausted, Fits(blockit)
    PROVE  Gap(B, D, allocaddr(blockit, size))
  <1> DEFINE a == allocaddr(blockit, size)
  <1>1. Spaced(mem, B, D)
    BY Apart DEF Sound
  <1>2. blockit \in B /\ inuse(mem, blockit) = 0 /\ next(mem, blockit) - a - size >= 0
    BY DEF Exhausted, Fits, Sound, Chain
  <1>3. size \in Nat /\ size > 0
    <2>1. size \in Nat /\ size # 0
      BY SizesAssumption
    <2> QED
      BY <2>1
  <1>4. /\ blockit \in Nat /\ next(mem, blockit) \in Nat /\ next(mem, blockit) <= End /\ Start <= blockit
    <2>1. /\ blockit \in Int /\ next(mem, blockit) \in Int /\ next(mem, blockit) <= End
          /\ Start <= blockit /\ blockit + H < next(mem, blockit)
      BY <1>1, <1>2 DEF Spaced
    <2> QED
      BY <2>1, HeapNat DEF H
  <1>5. a \in Nat /\ blockit + H <= a
    BY <1>4, Aligned
  <1> HIDE DEF a
  <1>6. a + size <= next(mem, blockit) /\ a \in Header
    BY <1>2, <1>3, <1>4, <1>5, HeapNat DEF Header, H
  <1>7. Granted = [ptr |-> a, size |-> size]
    BY DEF Granted, a
  <1> QED
    BY <1>1, <1>2, <1>3, <1>5, <1>6, <1>7 DEF Gap, a

(* k with the block at b taken out again.                                  *)
LEMMA Unlinked ==
    ASSUME NEW k \in Mem, NEW x \in Header, NEW r \in Header, NEW n \in Header,
           x + H < r, r + H < n, NEW w, w = SetFront(SetNext(k, x, r), r, x)
    PROVE  /\ w \in Mem
           /\ front(w, x) = front(k, x) /\ inuse(w, x) = inuse(k, x) /\ next(w, x) = r
           /\ front(w, r) = x /\ inuse(w, r) = inuse(k, r) /\ next(w, r) = next(k, r)
           /\ SameHeader(k, w, n)
           /\ OnlyIn(w, k, x, r + H - 1)
  <1> DEFINE q == SetNext(k, x, r)
  <1>a. x \in Nat /\ r \in Nat /\ n \in Nat
    BY HeapNat DEF Header
  <1>1. /\ q \in Mem /\ front(q, x) = front(k, x) /\ inuse(q, x) = inuse(k, x) /\ next(q, x) = r
        /\ OnlyAt(k, q, x)
    BY <1>a, AfterSetNext
  <1>2. w = SetFront(q, r, x)
    BY DEF q
  <1> HIDE DEF q
  <1>3. /\ w \in Mem /\ front(w, r) = x /\ inuse(w, r) = inuse(q, r) /\ next(w, r) = next(q, r)
        /\ OnlyAt(q, w, r)
    BY <1>a, <1>1, <1>2, AfterSetFront
  <1>4. Away(x, r) /\ Away(r, x) /\ Away(n, x) /\ Away(n, r)
    BY <1>a DEF Away, H
  <1>5. SameHeader(q, w, x) /\ SameHeader(k, q, r) /\ SameHeader(k, q, n) /\ SameHeader(q, w, n)
    BY <1>1, <1>3, <1>4 DEF OnlyAt
  <1>6. OnlyIn(w, k, x, r + H - 1)
    BY <1>a, <1>1, <1>3, HeapNat DEF OnlyAt, OnlyIn, H, Addresses
  <1> QED
    BY <1>1, <1>3, <1>5, <1>6 DEF SameHeader

(* Memory k has a sound list in which the request has been granted.        *)
Granting(k) ==
    /\ k \in Mem
    /\ \E B2, D2 : Sound(k, B2, D2, live \cup {Granted}) /\ NoPair(k, B2)

(* The data is placed inside of the block found: the block keeps what is   *)
(* in front.                                                               *)
LEMMA InsideStep ==
    ASSUME NEW B, NEW D, Gap(B, D, allocaddr(blockit, size)), PlaceInside
    PROVE  /\ Granting(mem')
           /\ OnlyIn(mem, mem', blockit, next(mem, blockit) + H - 1)
  <1> DEFINE a == allocaddr(blockit, size)
             x == blockit
             b == a - H
             r == a + size
             n == next(mem, x)
  <1>a. /\ a = allocaddr(blockit, size)
        /\ b = a - H
        /\ Gap(B, D, a)
    OBVIOUS
  <1>b. /\ x \in Int /\ a \in Nat /\ n \in Int /\ size \in Nat /\ size > 0
        /\ a + size <= n /\ Start <= x /\ n <= End
        /\ x \in Header /\ n \in Header
    <2>1. x \in B /\ a \in Nat /\ size \in Nat /\ size > 0 /\ a + size <= n /\ Spaced(mem, B, D)
      BY <1>a DEF Gap
    <2>2. x \in Int /\ n \in Int /\ Start <= x /\ n <= End /\ x + H < n
      BY <2>1 DEF Spaced
    <2> QED
      BY <2>1, <2>2, HeapNat DEF Header, H
  <1>c. a - (x + H) - H > 0
    BY DEF PlaceInside, RoomInFront, startinblock
  <1> HIDE DEF a
  <1>d. b \in Int /\ x + H < b /\ b + H = a /\ b + H < n /\ b \in Header
    BY <1>b, <1>c, HeapNat DEF H, Header
  <1> DEFINE q1 == SetInuse(SetFront(mem, b, x), b, 1)
             last == IF RoomBehind(a) THEN r ELSE b
             m2 == IF RoomBehind(a) THEN SetNext(Remainder(q1, a), b, r) ELSE SetNext(q1, b, n)
             m3 == IF n # End THEN SetFront(m2, n, last) ELSE m2
             k == mem'
  <1>e. k = SetNext(m3, x, b)
    BY DEF PlaceInside, a
  <1>f. q1 = SetInuse(SetFront(mem, b, x), b, 1) /\ mem \in Mem
    BY <1>a DEF Gap
  <1>g. /\ x \in B /\ inuse(mem, x) = 0 /\ Sound(mem, B, D, live) /\ NoPair(mem, B)
        /\ Granted.ptr = a /\ Granted.size = size
        /\ Granted \in [ptr : Header, size : Sizes] /\ n = next(mem, x)
    BY <1>a DEF Gap
  <1>1. CASE RoomBehind(a)
    <2>1. r \in Int /\ b + H < r /\ r + H < n /\ x + H < r /\ r \in Header
      BY <1>1, <1>b, <1>d, HeapNat DEF RoomBehind, Header, H
    <2> DEFINE q2 == SetNext(SetInuse(SetFront(q1, r, b), r, 0), r, n)
    <2>0. next(q1, x) = n
      <3>a. x \in Nat
        BY <1>b, HeapNat
      <3>b. Away(x, b)
        BY <1>b, <1>d DEF Away, H
      <3> HIDE DEF q1, b
      <3>1. OnlyAt(mem, q1, b) /\ Away(x, b)
        BY <1>d, <1>f, <3>a, <3>b, AfterMark, 1 \in Nat
      <3> QED
        BY <3>1, <1>b DEF OnlyAt, SameHeader
    <2>2. q2 = SetNext(SetInuse(SetFront(q1, r, b), r, 0), r, n)
          /\ m2 = SetNext(q2, b, r)
          /\ m3 = IF n # End THEN SetFront(m2, n, r) ELSE m2
      <3> HIDE DEF q1
      <3> QED
        BY <1>1, <2>0 DEF Remainder
    <2>3. /\ k \in Mem
          /\ front(k, x) = front(mem, x) /\ inuse(k, x) = inuse(mem, x) /\ next(k, x) = b
          /\ front(k, b) = x /\ inuse(k, b) = 1 /\ next(k, b) = r
          /\ front(k, r) = b /\ inuse(k, r) = 0 /\ next(k, r) = n
          /\ inuse(k, n) = inuse(mem, n) /\ next(k, n) = next(mem, n)
          /\ n # End => front(k, n) = r
          /\ OnlyIn(mem, k, x, n + H - 1)
      <3> HIDE DEF q1, q2, m2, m3, last, b, r, n, x, k
      <3> QED
        BY <1>b, <1>d, <1>e, <1>f, <2>1, <2>2, WrittenInsideAndBehind
    <2> DEFINE w == SetFront(SetNext(k, x, r), r, x)
               B2 == B \cup {r}
               D2 == Dropped(mem, x, D)
    <2>4. /\ w \in Mem
          /\ front(w, x) = front(k, x) /\ inuse(w, x) = inuse(k, x) /\ next(w, x) = r
          /\ front(w, r) = x /\ inuse(w, r) = inuse(k, r) /\ next(w, r) = next(k, r)
          /\ SameHeader(k, w, n)
          /\ OnlyIn(w, k, x, r + H - 1)
      <3>1. w = SetFront(SetNext(k, x, r), r, x)
        OBVIOUS
      <3> HIDE DEF w, b, r, n, x, k
      <3> QED
        BY <1>b, <2>1, <2>3, <3>1, Unlinked
    <2>5. OnlyIn(mem, w, x, n + H - 1)
      <3> HIDE DEF w, b, k
      <3> QED
        BY <1>b, <2>1, <2>3, <2>4, HeapNat DEF OnlyIn, H, Addresses
    <2> HIDE DEF w, b, r, n, k, q1, q2, m2, m3, last
    <2>6. Sound(w, B2, D2, live) /\ NoPair(w, B2 \ {x})
      <3>1. /\ x + H < r /\ r + H < next(mem, x)
            /\ front(w, x) = front(mem, x) /\ inuse(w, x) = 0 /\ next(w, x) = r
            /\ front(w, r) = x /\ inuse(w, r) = 0 /\ next(w, r) = next(mem, x)
            /\ inuse(w, next(mem, x)) = inuse(mem, next(mem, x))
            /\ next(w, next(mem, x)) = next(mem, next(mem, x))
            /\ next(mem, x) # End => front(w, next(mem, x)) = r
            /\ OnlyIn(mem, w, x, next(mem, x) + H - 1)
        BY <1>g, <2>1, <2>3, <2>4, <2>5 DEF n, SameHeader
      <3> QED
        BY <1>f, <1>g, <2>1, <2>4, <3>1, SplitOff
    <2>7. /\ Sound(k, B2 \cup {b}, Dropped(w, x, D2), live \cup {Granted})
          /\ NoPair(k, B2 \cup {b})
      <3>1. /\ Granted.ptr = b + H /\ Granted.ptr + Granted.size <= next(w, x)
            /\ front(k, x) = front(w, x) /\ inuse(k, x) = inuse(w, x) /\ next(k, x) = b
            /\ front(k, b) = x /\ inuse(k, b) = 1 /\ next(k, b) = next(w, x)
            /\ inuse(k, next(w, x)) = inuse(w, next(w, x))
            /\ next(k, next(w, x)) = next(w, next(w, x))
            /\ next(w, x) # End => front(k, next(w, x)) = b
            /\ OnlyIn(w, k, x, next(w, x) + H - 1)
            /\ inuse(w, x) = 0
        BY <1>b, <1>d, <1>g, <2>1, <2>3, <2>4 DEF r
      <3>2. x \in B2
        BY <1>g
      <3> HIDE DEF B2, D2
      <3> QED
        BY <1>d, <1>g, <2>3, <2>4, <2>6, <3>1, <3>2, GrantInside
    <2> QED
      BY <2>3, <2>7 DEF Granting, k, n
  <1>2. CASE ~RoomBehind(a)
    <2>1. m2 = SetNext(q1, b, n) /\ m3 = IF n # End THEN SetFront(m2, n, b) ELSE m2
      BY <1>2
    <2>2. /\ k \in Mem
          /\ front(k, x) = front(mem, x) /\ inuse(k, x) = inuse(mem, x) /\ next(k, x) = b
          /\ front(k, b) = x /\ inuse(k, b) = 1 /\ next(k, b) = n
          /\ inuse(k, n) = inuse(mem, n) /\ next(k, n) = next(mem, n)
          /\ n # End => front(k, n) = b
          /\ OnlyIn(mem, k, x, n + H - 1)
      <3> HIDE DEF q1, m2, m3, last, b, r, n, x, k
      <3> QED
        BY <1>b, <1>d, <1>e, <1>f, <2>1, WrittenInside
    <2> HIDE DEF b, r, n, k, q1, m2, m3, last
    <2>3. /\ Sound(k, B \cup {b}, Dropped(mem, x, D), live \cup {Granted})
          /\ NoPair(k, B \cup {b})
      <3>1. /\ Granted.ptr = b + H /\ Granted.ptr + Granted.size <= next(mem, x)
            /\ front(k, x) = front(mem, x) /\ inuse(k, x) = inuse(mem, x) /\ next(k, x) = b
            /\ front(k, b) = x /\ inuse(k, b) = 1 /\ next(k, b) = next(mem, x)
            /\ inuse(k, next(mem, x)) = inuse(mem, next(mem, x))
            /\ next(k, next(mem, x)) = next(mem, next(mem, x))
            /\ next(mem, x) # End => front(k, next(mem, x)) = b
            /\ OnlyIn(mem, k, x, next(mem, x) + H - 1)
            /\ NoPair(mem, B \ {x})
        BY <1>b, <1>d, <1>g, <2>2 DEF n, NoPair
      <3> QED
        BY <1>d, <1>f, <1>g, <2>2, <3>1, GrantInside
    <2> QED
      BY <2>2, <2>3 DEF Granting, k, n
  <1> QED
    BY <1>1, <1>2

(* What a found block says about its place.                                *)
LEMMA GapNumbers ==
    ASSUME NEW B, NEW D, NEW a, Gap(B, D, a)
    PROVE  LET x == blockit
               n == next(mem, blockit)
           IN  /\ x \in Nat /\ n \in Nat /\ a \in Nat /\ size \in Nat /\ size > 0
               /\ x \in Header /\ n \in Header /\ Start <= x /\ n <= End
               /\ x + H <= a /\ a + size <= n /\ a + size \in Header
               /\ x \in B /\ inuse(mem, x) = 0 /\ mem \in Mem
               /\ Sound(mem, B, D, live) /\ NoPair(mem, B) /\ Spaced(mem, B, D)
               /\ Granted.ptr = a /\ Granted.size = size
               /\ Granted \in [ptr : Header, size : Sizes]
               /\ a = allocaddr(x, size) /\ size \in Sizes
  <1> DEFINE x == blockit
             n == next(mem, blockit)
  <1>1. /\ x \in B /\ a \in Nat /\ size \in Nat /\ size > 0 /\ a + size <= n
        /\ Spaced(mem, B, D) /\ x + H <= a
    BY DEF Gap
  <1>2. x \in Int /\ n \in Int /\ Start <= x /\ n <= End /\ x + H < n
    BY <1>1 DEF Spaced
  <1>3. x \in Nat /\ n \in Nat /\ x \in Header /\ n \in Header /\ a + size \in Header
    BY <1>1, <1>2, HeapNat DEF Header, H
  <1>4. Granted.ptr = a /\ Granted.size = size /\ Granted \in [ptr : Header, size : Sizes]
    BY DEF Gap
  <1> QED
    BY <1>1, <1>2, <1>3, <1>4 DEF Gap

(* The rest of a found block is split off, and its front is where the data *)
(* will have its header.                                                   *)
LEMMA SplitStep ==
    ASSUME NEW B, NEW D, NEW a, Gap(B, D, a), NEW w, w = SplitBehind(a), RoomBehind(a)
    PROVE  LET x == blockit
               r == a + size
               n == next(mem, blockit)
           IN  /\ r + H < n /\ x + H < r /\ r \in Header /\ r \in Nat /\ a - H \in Header
               /\ w \in Mem
               /\ front(w, x) = front(mem, x) /\ inuse(w, x) = inuse(mem, x) /\ next(w, x) = r
               /\ front(w, r) = a - H /\ inuse(w, r) = 0 /\ next(w, r) = n
               /\ inuse(w, n) = inuse(mem, n) /\ next(w, n) = next(mem, n)
               /\ n # End => front(w, n) = r
               /\ OnlyIn(mem, w, x, n + H - 1)
  <1> DEFINE x == blockit
             r == a + size
             n == next(mem, x)
             b == a - H
             q1 == SetNext(SetInuse(SetFront(mem, r, b), r, 0), r, n)
             q2 == IF n # End THEN SetFront(q1, n, r) ELSE q1
  <1>1. /\ x \in Nat /\ n \in Nat /\ a \in Nat /\ size \in Nat /\ size > 0
        /\ x \in Header /\ n \in Header /\ Start <= x /\ n <= End
        /\ x + H <= a /\ a + size <= n /\ a + size \in Header /\ mem \in Mem
    BY GapNumbers
  <1>2. n - a - size - H > 0
    BY DEF RoomBehind
  <1>3. r + H < n /\ x + H < r /\ r \in Header /\ r \in Nat /\ b \in Header
    BY <1>1, <1>2, HeapNat DEF H, Header
  <1>4. q2 = IF n # End THEN SetFront(q1, n, r) ELSE q1
    OBVIOUS
  <1>5. w = SetNext(q2, x, r)
    BY DEF SplitBehind, Remainder
  <1>6. q1 = SetNext(SetInuse(SetFront(mem, r, b), r, 0), r, n)
    OBVIOUS
  <1>7. /\ w \in Mem
        /\ front(w, x) = front(mem, x) /\ inuse(w, x) = inuse(mem, x) /\ next(w, x) = r
        /\ front(w, r) = b /\ inuse(w, r) = 0 /\ next(w, r) = n
        /\ inuse(w, n) = inuse(mem, n) /\ next(w, n) = next(mem, n)
        /\ n # End => front(w, n) = r
        /\ OnlyIn(mem, w, x, n + H - 1)
    <2> HIDE DEF x, n, r, b, q1, q2
    <2>1. /\ mem \in Mem /\ x \in Header /\ b \in Header /\ r \in Header /\ n \in Header
          /\ x + H < r /\ r + H < n
      BY <1>1, <1>3
    <2> QED
      BY <1>4, <1>5, <1>6, <2>1, WrittenBehind
  <1> QED
    BY <1>3, <1>7

(* Only the first block has no front.                                      *)
LEMMA FrontOf ==
    ASSUME NEW m, NEW B, NEW D, NEW L, NEW x \in B \ {Start}, Sound(m, B, D, L)
    PROVE  /\ front(m, x) # NULL
           /\ \E p \in B : /\ next(m, p) = x
                           /\ inuse(m, p) = 1 => front(m, x) = p
  <1>1. Spaced(m, B, D)
    BY Apart DEF Sound
  <1>2. PICK p \in B : next(m, p) = x
    BY DEF Sound, Chain
  <1>3. x # End
    BY <1>1 DEF Spaced
  <1>4. LeadsBack(m, D, p, x)
    BY <1>2, <1>3 DEF Sound, Fronts
  <1>5. front(m, x) # NULL
    <2>1. p \in Header /\ D \subseteq Header
      BY <1>1 DEF Spaced
    <2>2. \A d \in Header : d # 0
      BY HeapNat DEF Header
    <2> QED
      BY <1>4, <2>1, <2>2 DEF LeadsBack, NULL
  <1>6. ASSUME inuse(m, p) = 1 PROVE front(m, x) = p
    <2> SUFFICES ASSUME NEW f \in D, f = front(m, x), p < f, f < x PROVE FALSE
      BY <1>4 DEF LeadsBack
    <2>1. Inside(m, p, f)
      BY <1>1, <1>2 DEF Spaced
    <2>2. PICK q \in B : Inside(m, q, f) /\ inuse(m, q) = 0
      BY DEF Sound, Dead
    <2>3. q = p
      BY <1>1, <2>1, <2>2 DEF Spaced
    <2> QED
      BY <1>6, <2>2, <2>3
  <1> QED
    BY <1>2, <1>4, <1>5, <1>6

(* It is placed right behind the header of the first block.                *)
LEMMA HeadStep ==
    ASSUME NEW B, NEW D, Gap(B, D, allocaddr(blockit, size)), HeadStays, PlaceAtHead
    PROVE  /\ Granting(mem') /\ memory_head' = Start
           /\ OnlyIn(mem, mem', blockit, next(mem, blockit) + H - 1)
  <1> DEFINE a == allocaddr(blockit, size)
             x == blockit
             n == next(mem, x)
             w == SplitBehind(a)
             k == mem'
  <1>a. Gap(B, D, a) /\ a = allocaddr(x, size) /\ n = next(mem, x) /\ w = SplitBehind(a)
    OBVIOUS
  <1>b. /\ memory_head' = a - H
        /\ k = SetInuse(SetNext(w, a - H, next(w, x)), a - H, 1)
        /\ ~RoomInFront(a) /\ front(w, x) = NULL
    BY DEF PlaceAtHead
  <1> HIDE DEF a, w, k
  <1>c. /\ x \in Nat /\ n \in Nat /\ a \in Nat /\ size \in Nat /\ size > 0
        /\ x \in Header /\ n \in Header /\ Start <= x /\ n <= End
        /\ x + H <= a /\ a + size <= n /\ a + size \in Header
        /\ x \in B /\ inuse(mem, x) = 0 /\ mem \in Mem
        /\ Sound(mem, B, D, live) /\ NoPair(mem, B) /\ Spaced(mem, B, D)
        /\ Granted.ptr = a /\ Granted.size = size
        /\ Granted \in [ptr : Header, size : Sizes] /\ size \in Sizes
    BY <1>a, GapNumbers
  <1>d. ~RoomBehind(a) => w = mem
    BY <1>a DEF SplitBehind
  <1>e. front(mem, x) = NULL
    <2>1. CASE RoomBehind(a)
      <3>1. front(w, x) = front(mem, x)
        BY <1>a, <2>1, SplitStep
      <3> QED
        BY <3>1, <1>b
    <2> QED
      BY <2>1, <1>b, <1>d
  <1>f. x = Start
    BY <1>c, <1>e, FrontOf
  <1>g. a = x + H /\ size = 1 /\ a - H = x
    <2>1. \/ a - startinblock(x) - H > 0
          \/ a = startinblock(x) /\ size = 1
      BY <1>a, <1>c, <1>f DEF HeadStays
    <2>2. ~(a - startinblock(x) - H > 0)
      BY <1>b DEF RoomInFront
    <2> QED
      BY <2>1, <2>2, <1>c DEF startinblock, H
  <1>1. CASE RoomBehind(a)
    <2> DEFINE r == a + size
               B2 == B \cup {r}
               D2 == Dropped(mem, x, D)
    <2>1. /\ r + H < n /\ x + H < r /\ r \in Header /\ r \in Nat
          /\ w \in Mem
          /\ front(w, x) = front(mem, x) /\ inuse(w, x) = inuse(mem, x) /\ next(w, x) = r
          /\ front(w, r) = a - H /\ inuse(w, r) = 0 /\ next(w, r) = n
          /\ inuse(w, n) = inuse(mem, n) /\ next(w, n) = next(mem, n)
          /\ n # End => front(w, n) = r
          /\ OnlyIn(mem, w, x, n + H - 1)
      BY <1>1, <1>a, SplitStep
    <2> HIDE DEF r
    <2>2. Sound(w, B2, D2, live) /\ NoPair(w, B2 \ {x}) /\ \A d \in D2 : ~Inside(w, x, d)
      <3>1. /\ x + H < r /\ r + H < next(mem, x) /\ r \in Int
            /\ front(w, x) = front(mem, x) /\ inuse(w, x) = 0 /\ next(w, x) = r
            /\ front(w, r) = x /\ inuse(w, r) = 0 /\ next(w, r) = next(mem, x)
            /\ inuse(w, next(mem, x)) = inuse(mem, next(mem, x))
            /\ next(w, next(mem, x)) = next(mem, next(mem, x))
            /\ next(mem, x) # End => front(w, next(mem, x)) = r
            /\ OnlyIn(mem, w, x, next(mem, x) + H - 1)
        BY <1>c, <1>g, <2>1
      <3> HIDE DEF n
      <3> QED
        BY <1>c, <2>1, <3>1, SplitOff
    <2>3. k = SetInuse(SetNext(w, x, next(w, x)), x, 1)
      BY <1>b, <1>g
    <2>4. /\ k \in Mem /\ front(k, x) = front(w, x) /\ inuse(k, x) = 1 /\ next(k, x) = next(w, x)
          /\ OnlyAt(w, k, x)
      BY <1>c, <2>1, <2>3, WrittenAtHead
    <2>5. Sound(k, B2, D2, live \cup {Granted}) /\ NoPair(k, B2)
      <3>1. /\ x \in B2 /\ inuse(w, x) = 0 /\ Granted.ptr = x + H
            /\ Granted.ptr + Granted.size <= next(w, x)
        BY <1>c, <1>g, <2>1 DEF r
      <3> HIDE DEF B2, D2
      <3> QED
        BY <1>c, <2>1, <2>2, <2>4, <3>1, GrantAtHead
    <2>6. OnlyIn(mem, k, x, n + H - 1)
      BY <1>c, <2>1, <2>4 DEF OnlyIn, OnlyAt, H, Addresses
    <2> QED
      BY <1>b, <1>f, <1>g, <2>4, <2>5, <2>6 DEF Granting, k
  <1>2. CASE ~RoomBehind(a)
    <2>1. k = SetInuse(SetNext(mem, x, next(mem, x)), x, 1)
      BY <1>2, <1>b, <1>d, <1>g
    <2>2. /\ k \in Mem /\ front(k, x) = front(mem, x) /\ inuse(k, x) = 1 /\ next(k, x) = next(mem, x)
          /\ OnlyAt(mem, k, x)
      BY <1>c, <2>1, WrittenAtHead
    <2>3. \A d \in D : ~Inside(mem, x, d)
      <3>1. n <= x + H + 1 + H
        BY <1>2, <1>c, <1>g DEF RoomBehind, H
      <3>2. \A d \in D : d \in Int
        BY <1>c DEF Spaced
      <3> QED
        BY <1>c, <3>1, <3>2 DEF Inside, H
    <2>4. Sound(k, B, D, live \cup {Granted}) /\ NoPair(k, B)
      <3>1. /\ Granted.ptr = x + H /\ Granted.ptr + Granted.size <= next(mem, x)
            /\ NoPair(mem, B \ {x})
        BY <1>c, <1>g DEF NoPair
      <3> QED
        BY <1>c, <2>2, <2>3, <3>1, GrantAtHead
    <2>5. OnlyIn(mem, k, x, n + H - 1)
      <3>2. \A i \in Addresses : i < x \/ n + H - 1 < i => i < x \/ x + H <= i
        BY <1>c, HeapNat DEF Addresses, H
      <3> QED
        BY <2>2, <3>2 DEF OnlyIn, OnlyAt
    <2> QED
      BY <1>b, <1>f, <1>g, <2>2, <2>4, <2>5 DEF Granting, k
  <1> QED
    BY <1>1, <1>2

(* It is placed at the start of another block, whose header may move up.   *)
LEMMA StartStep ==
    ASSUME NEW B, NEW D, Gap(B, D, allocaddr(blockit, size)), PlaceAtStart
    PROVE  /\ Granting(mem')
           /\ \E p \in B : \A i \in Addresses :
                  /\ i < p \/ p + H <= i
                  /\ i < blockit \/ next(mem, blockit) + H <= i
                  => mem'[i] = mem[i]
  <1> DEFINE a == allocaddr(blockit, size)
             x == blockit
             n == next(mem, x)
             w == SplitBehind(a)
             b == a - H
             k == mem'
  <1>a. Gap(B, D, a) /\ a = allocaddr(x, size) /\ n = next(mem, x) /\ w = SplitBehind(a)
    OBVIOUS
  <1>b. /\ LET f == front(w, x)
               y == next(w, x)
               m1 == SetNext(w, f, b)
               m2 == SetFront(m1, y, b)
           IN  k = SetInuse(SetFront(SetNext(m2, b, y), b, f), b, 1)
        /\ ~RoomInFront(a) /\ front(w, x) # NULL
    BY DEF PlaceAtStart
  <1> HIDE DEF a, w, k
  <1>c. /\ x \in Nat /\ n \in Nat /\ a \in Nat /\ size \in Nat /\ size > 0
        /\ x \in Header /\ n \in Header /\ Start <= x /\ n <= End
        /\ x + H <= a /\ a + size <= n /\ a + size \in Header
        /\ x \in B /\ inuse(mem, x) = 0 /\ mem \in Mem
        /\ Sound(mem, B, D, live) /\ NoPair(mem, B) /\ Spaced(mem, B, D)
        /\ Granted.ptr = a /\ Granted.size = size
        /\ Granted \in [ptr : Header, size : Sizes] /\ size \in Sizes
    BY <1>a, GapNumbers
  <1>d. ~RoomBehind(a) => w = mem
    BY <1>a DEF SplitBehind
  <1>e. front(w, x) = front(mem, x)
    BY <1>a, <1>d, SplitStep
  <1>f. x \in B \ {Start}
    BY <1>b, <1>c, <1>e DEF Sound, Fronts
  <1>g. PICK p \in B : next(mem, p) = x /\ (inuse(mem, p) = 1 => front(mem, x) = p)
    <2> HIDE DEF x
    <2>1. Sound(mem, B, D, live)
      BY <1>c
    <2> QED
      BY <1>f, <2>1, FrontOf
  <1>h. x # End /\ inuse(mem, p) \in {0, 1} /\ p \in Header /\ p \in Nat
        /\ p + H < x /\ p \notin {x, n}
    <2>1. p \in Header /\ p + H < next(mem, p) /\ x # End /\ p \in Int
      BY <1>c, <1>g DEF Spaced
    <2>2. inuse(mem, p) \in {0, 1}
      BY <1>c DEF Sound, Chain
    <2>3. p \in Nat
      BY <2>1, HeapNat DEF Header
    <2>4. p < x /\ x < n
      BY <1>c, <1>g, <2>1, <2>3 DEF H
    <2> QED
      BY <1>c, <1>g, <2>1, <2>2, <2>3, <2>4
  <1>i. inuse(mem, p) = 1 /\ front(mem, x) = p
    BY <1>c, <1>g, <1>h DEF NoPair
  <1>j. x <= b /\ b \in Int /\ b \in Header /\ p + H < b /\ b + H = a /\ b + H < n
    <2>1. x <= b /\ b \in Int /\ b + H = a /\ b + H < n
      BY <1>c DEF H
    <2> HIDE DEF b
    <2> QED
      BY <1>c, <1>h, <2>1, HeapNat DEF Header, H
  <1> DEFINE y == next(w, x)
             q1 == SetNext(w, p, b)
             q2 == SetFront(q1, y, b)
  <1>k. k = SetInuse(SetFront(SetNext(q2, b, y), b, p), b, 1)
    BY <1>b, <1>e, <1>i
  <1>1. CASE RoomBehind(a)
    <2> DEFINE r == a + size
               B2 == B \cup {r}
               D2 == Dropped(mem, x, D)
               v == SetFront(w, r, x)
    <2>1. /\ r + H < n /\ x + H < r /\ r \in Header /\ r \in Nat
          /\ w \in Mem
          /\ front(w, x) = front(mem, x) /\ inuse(w, x) = inuse(mem, x) /\ next(w, x) = r
          /\ front(w, r) = b /\ inuse(w, r) = 0 /\ next(w, r) = n
          /\ inuse(w, n) = inuse(mem, n) /\ next(w, n) = next(mem, n)
          /\ n # End => front(w, n) = r
          /\ OnlyIn(mem, w, x, n + H - 1)
      BY <1>1, <1>a, SplitStep
    <2>2. b + H < r
      BY <1>c, <1>j
    <2> HIDE DEF r
    <2>3. /\ v \in Mem /\ front(v, r) = x /\ inuse(v, r) = inuse(w, r) /\ next(v, r) = next(w, r)
          /\ OnlyAt(w, v, r)
      BY <1>c, <2>1, AfterSetFront
    <2> HIDE DEF v
    <2>4. SameHeader(w, v, x) /\ SameHeader(w, v, n) /\ SameHeader(w, v, p)
          /\ SameHeader(mem, w, p)
      <3>1. Away(x, r) /\ Away(n, r) /\ Away(p, r) /\ p + H <= x
        BY <1>c, <1>h, <2>1 DEF Away, H
      <3>2. SameHeader(mem, w, p)
        <4>1. x \in Int /\ n + H - 1 \in Int
          BY <1>c DEF H
        <4> QED
          BY <1>h, <2>1, <3>1, <4>1, HeaderOutside
      <3> QED
        BY <1>c, <1>h, <2>3, <3>1, <3>2 DEF OnlyAt
    <2>5. OnlyIn(mem, v, x, n + H - 1)
      BY <1>c, <2>1, <2>3 DEF OnlyIn, OnlyAt, H, Addresses
    <2>6. Sound(v, B2, D2, live) /\ NoPair(v, B2 \ {x})
      <3>1. /\ x + H < r /\ r + H < next(mem, x) /\ r \in Int
            /\ front(v, x) = front(mem, x) /\ inuse(v, x) = 0 /\ next(v, x) = r
            /\ front(v, r) = x /\ inuse(v, r) = 0 /\ next(v, r) = next(mem, x)
            /\ inuse(v, next(mem, x)) = inuse(mem, next(mem, x))
            /\ next(v, next(mem, x)) = next(mem, next(mem, x))
            /\ next(mem, x) # End => front(v, next(mem, x)) = r
            /\ OnlyIn(mem, v, x, next(mem, x) + H - 1)
        BY <1>c, <2>1, <2>3, <2>4, <2>5 DEF SameHeader
      <3> HIDE DEF n
      <3> QED
        BY <1>c, <2>3, <3>1, SplitOff
    <2>7. /\ k \in Mem
          /\ front(k, p) = front(w, p) /\ inuse(k, p) = inuse(w, p) /\ next(k, p) = b
          /\ front(k, b) = p /\ inuse(k, b) = 1 /\ next(k, b) = r
          /\ front(k, r) = b /\ inuse(k, r) = inuse(w, r) /\ next(k, r) = next(w, r)
          /\ \A i \in Addresses : /\ i < p \/ p + H <= i
                                  /\ i < b \/ r + H <= i
                                  => k[i] = w[i]
      <3>1. /\ w \in Mem /\ p \in Header /\ b \in Header /\ r \in Header /\ p + H < b /\ b + H < r
            /\ y = r /\ q1 = SetNext(w, p, b) /\ q2 = SetFront(q1, r, b)
        BY <1>h, <1>j, <2>1, <2>2
      <3>2. k = SetInuse(SetFront(SetNext(q2, b, r), b, p), b, 1)
        BY <1>k, <3>1
      <3> HIDE DEF b, q1, q2, y
      <3> QED
        BY <3>1, <3>2, WrittenAtStart
    <2> HIDE DEF b
    <2>8. \A i \in Addresses : /\ i < p \/ p + H <= i
                               /\ i < x \/ r + H <= i
                               => k[i] = v[i]
      BY <1>c, <1>j, <2>1, <2>3, <2>7 DEF OnlyAt, Addresses, H
    <2>9. Sound(k, (B2 \ {x}) \cup {b}, Dropped(v, x, D2), live \cup {Granted})
          /\ NoPair(k, (B2 \ {x}) \cup {b})
      <3>1. /\ x \in B2 \ {Start} /\ p \in B2 /\ b \in Int
            /\ next(v, p) = x /\ inuse(v, p) = 1 /\ inuse(v, x) = 0
            /\ x <= b /\ Granted.ptr = b + H /\ Granted.ptr + Granted.size <= next(v, x)
            /\ front(k, p) = front(v, p) /\ inuse(k, p) = 1 /\ next(k, p) = b
            /\ front(k, b) = p /\ inuse(k, b) = 1 /\ next(k, b) = next(v, x)
        BY <1>c, <1>f, <1>g, <1>i, <1>j, <2>1, <2>4, <2>7 DEF SameHeader, r
      <3>2. /\ inuse(k, next(v, x)) = inuse(v, next(v, x)) /\ next(k, next(v, x)) = next(v, next(v, x))
            /\ front(k, next(v, x)) = b
        BY <2>1, <2>3, <2>4, <2>7 DEF SameHeader
      <3>3. ASSUME NEW c \in Header, Away(c, p), c + H <= x \/ next(v, x) + H <= c
            PROVE  SameHeader(v, k, c)
        <4>1. next(v, x) = r
          BY <2>1, <2>4 DEF SameHeader
        <4>2. \A i \in c..(c + H - 1) : i \in Addresses /\ k[i] = v[i]
          BY <1>c, <1>h, <2>1, <2>8, <3>3, <4>1, HeapNat DEF Away, Header, Addresses, H
        <4> QED
          BY <4>2, HeapNat DEF SameHeader, front, inuse, next, Header, H
      <3> HIDE DEF B2, D2
      <3> QED
        BY <1>c, <2>3, <2>6, <2>7, <3>1, <3>2, <3>3, GrantAtStart
    <2>10. ASSUME NEW i \in Addresses, i < p \/ p + H <= i, i < x \/ n + H <= i
           PROVE  k[i] = mem[i]
      <3>1. (i < x \/ r + H <= i) /\ (i < x \/ n + H - 1 < i)
        BY <2>10, <1>c, <2>1 DEF Addresses, H
      <3>2. k[i] = v[i]
        BY <2>8, <2>10, <3>1
      <3>3. v[i] = mem[i]
        BY <2>5, <3>1 DEF OnlyIn
      <3> QED
        BY <3>2, <3>3
    <2> QED
      BY <2>7, <2>9, <2>10 DEF Granting, k
  <1>2. CASE ~RoomBehind(a)
    <2>1. /\ k \in Mem
          /\ front(k, p) = front(mem, p) /\ inuse(k, p) = inuse(mem, p) /\ next(k, p) = b
          /\ front(k, b) = p /\ inuse(k, b) = 1 /\ next(k, b) = n
          /\ front(k, n) = b /\ inuse(k, n) = inuse(mem, n) /\ next(k, n) = next(mem, n)
          /\ \A i \in Addresses : /\ i < p \/ p + H <= i
                                  /\ i < b \/ n + H <= i
                                  => k[i] = mem[i]
      <3>1. /\ w = mem /\ mem \in Mem /\ p \in Header /\ b \in Header /\ n \in Header
            /\ p + H < b /\ b + H < n
            /\ y = n /\ q1 = SetNext(mem, p, b) /\ q2 = SetFront(q1, n, b)
        BY <1>2, <1>c, <1>d, <1>h, <1>j
      <3>2. k = SetInuse(SetFront(SetNext(q2, b, n), b, p), b, 1)
        BY <1>k, <3>1
      <3> HIDE DEF b, q1, q2, y, n
      <3> QED
        BY <3>1, <3>2, WrittenAtStart
    <2> HIDE DEF b
    <2>2. \A i \in Addresses : /\ i < p \/ p + H <= i
                               /\ i < x \/ n + H <= i
                               => k[i] = mem[i]
      BY <1>c, <1>j, <2>1 DEF Addresses
    <2>3. Sound(k, (B \ {x}) \cup {b}, Dropped(mem, x, D), live \cup {Granted})
          /\ NoPair(k, (B \ {x}) \cup {b})
      <3>1. /\ Granted.ptr = b + H /\ Granted.ptr + Granted.size <= next(mem, x)
            /\ inuse(k, p) = 1 /\ NoPair(mem, B \ {x})
            /\ next(k, b) = next(mem, x)
            /\ inuse(k, next(mem, x)) = inuse(mem, next(mem, x))
            /\ next(k, next(mem, x)) = next(mem, next(mem, x))
            /\ front(k, next(mem, x)) = b
        BY <1>c, <1>i, <1>j, <2>1 DEF NoPair
      <3>3. ASSUME NEW c \in Header, Away(c, p), c + H <= x \/ next(mem, x) + H <= c
            PROVE  SameHeader(mem, k, c)
        <4>2. \A i \in c..(c + H - 1) : i \in Addresses /\ k[i] = mem[i]
          BY <1>c, <1>h, <2>2, <3>3, HeapNat DEF Away, Header, Addresses, H
        <4> QED
          BY <4>2, HeapNat DEF SameHeader, front, inuse, next, Header, H
      <3> QED
        BY <1>c, <1>f, <1>g, <1>i, <1>j, <2>1, <3>1, <3>3, GrantAtStart
    <2> QED
      BY <2>1, <2>2, <2>3 DEF Granting, k
  <1> QED
    BY <1>1, <1>2

-----------------------------------------------------------------------------
(* All headers that count are in the heap and do not overlap.              *)
LEMMA Headers ==
    ASSUME NEW m, NEW B, NEW D, NEW L, Sound(m, B, D, L)
    PROVE  /\ \A c \in B \cup D \cup {End} : c \in Header /\ c \in Nat /\ c > 0
           /\ \A c, e \in B \cup D \cup {End} : c = e \/ Away(c, e)
  <1>1. Spaced(m, B, D) /\ Dead(m, B, D)
    BY Apart DEF Sound
  <1>2. End \in Header /\ \A c \in Header : c \in Nat /\ c > 0
    BY HeapNat DEF Header
  <1>3. B \subseteq Header /\ D \subseteq Header
    BY <1>1 DEF Spaced
  <1>4. \A b, c \in B : b < c => b + H < c
    BY <1>1 DEF Spaced
  <1>5. \A d \in D, b \in B : d # b /\ (d < b => d + H < b) /\ (b < d => b + H < d)
    BY <1>1 DEF Spaced
  <1>6. \A d, e \in D : d < e => d + H < e
    BY <1>1 DEF Dead
  <1>7. (\A b \in B : b + H <= End) /\ \A d \in D : d + H <= End
    <2>1. \A b \in B : b + H < next(m, b) /\ next(m, b) <= End /\ b \in Int /\ next(m, b) \in Int
      BY <1>1 DEF Spaced
    <2>2. \A d \in D : d \in Int /\ d + H < End
      BY <1>1 DEF Spaced
    <2> QED
      BY <2>1, <2>2, HeapNat DEF H
  <1>8. ASSUME NEW c \in B \cup D \cup {End}, NEW e \in B \cup D \cup {End}, c < e
        PROVE  c + H <= e
    <2>1. c \in Nat /\ e \in Nat
      BY <1>2, <1>3
    <2>2. CASE e = End
      BY <1>7, <1>8, <2>1, <2>2
    <2>3. CASE c = End
      <3>1. e <= End
        BY <1>2, <1>3, HeapNat DEF Header
      <3> QED
        BY <1>8, <2>1, <2>3, <3>1
    <2>4. CASE c \in B \cup D /\ e \in B \cup D
      <3>1. c + H < e
        BY <1>4, <1>5, <1>6, <1>8, <2>4, <2>1
      <3> QED
        BY <2>1, <3>1 DEF H
    <2> QED
      BY <2>2, <2>3, <2>4
  <1>9. \A c \in B \cup D \cup {End} : c \in Header /\ c \in Nat /\ c > 0
    BY <1>2, <1>3
  <1>10. \A c, e \in B \cup D \cup {End} : c = e \/ Away(c, e)
    <2> TAKE c, e \in B \cup D \cup {End}
    <2>1. c = e \/ c < e \/ e < c
      BY <1>9
    <2> QED
      BY <1>8, <2>1 DEF Away
  <1> QED
    BY <1>9, <1>10

(* The memory of a client holds no word of a header or of a free block.    *)
LEMMA RegionsOutside ==
    ASSUME NEW m, NEW B, NEW D, NEW L, Sound(m, B, D, L), NEW g \in L, NEW i \in Region(g)
    PROVE  /\ i \in Addresses /\ i \in Int
           /\ \A c \in B \cup D \cup {End} : i < c \/ c + H <= i
           /\ \A b \in B : inuse(m, b) = 0 => i < b \/ next(m, b) <= i
  <1> DEFINE b0 == g.ptr - H
  <1>1. /\ g.ptr \in Nat /\ Start <= g.ptr /\ g.ptr <= End /\ g.size \in Nat /\ g.size > 0
    BY RegionNat DEF Sound
  <1>2. /\ b0 \in B /\ inuse(m, b0) = 1 /\ g.ptr + g.size <= next(m, b0)
    BY DEF Sound, Clients
  <1>3. Spaced(m, B, D) /\ Dead(m, B, D)
    BY Apart DEF Sound
  <1>4. b0 \in Nat /\ next(m, b0) \in Nat /\ next(m, b0) <= End /\ b0 + H = g.ptr
    <2>1. b0 \in Int /\ next(m, b0) \in Int /\ next(m, b0) <= End /\ Start <= b0 /\ b0 + H < next(m, b0)
      BY <1>2, <1>3 DEF Spaced
    <2> QED
      BY <1>1, <2>1, HeapNat DEF H
  <1> HIDE DEF b0
  <1>5. i \in Int /\ b0 + H <= i /\ i < next(m, b0)
    BY <1>1, <1>2, <1>4 DEF Region, H
  <1>6. i \in Addresses
    <2>1. Start <= b0
      BY <1>2, <1>3 DEF Spaced
    <2> QED
      BY <1>4, <1>5, <2>1, HeapNat DEF Addresses, H
  <1>7. \A c \in B : c \in Int /\ (b0 < c => next(m, b0) <= c) /\ (c < b0 => next(m, c) <= b0 /\ c + H < b0)
    BY <1>2, <1>3 DEF Spaced
  <1>8. ASSUME NEW c \in B PROVE i < c \/ c + H <= i
    BY <1>4, <1>5, <1>7 DEF H
  <1>9. ASSUME NEW d \in D PROVE i < d \/ d + H <= i
    <2>1. PICK q \in B : Inside(m, q, d) /\ inuse(m, q) = 0
      BY <1>3 DEF Dead
    <2>2. q # b0
      BY <1>2, <2>1
    <2>3. d \in Int /\ next(m, q) \in Int
      BY <1>3 DEF Spaced
    <2> QED
      BY <1>4, <1>5, <1>7, <2>1, <2>2, <2>3 DEF Inside, H
  <1>10. ASSUME NEW b \in B, inuse(m, b) = 0 PROVE i < b \/ next(m, b) <= i
    <2>1. b # b0
      BY <1>2, <1>10
    <2>2. next(m, b) \in Int
      BY <1>3 DEF Spaced
    <2> QED
      BY <1>4, <1>5, <1>7, <2>1, <2>2 DEF H
  <1>11. i < End
    BY <1>4, <1>5, HeapNat
  <1> QED
    BY <1>5, <1>6, <1>8, <1>9, <1>10, <1>11

(* Writing one field of one of the headers A, which do not overlap, leaves *)
(* their other fields and what is outside of them alone.                   *)
Apiece(A) ==
    /\ A \subseteq Header
    /\ \A c, e \in A : c = e \/ Away(c, e)

(* From m to k, nothing outside of the headers A is written.               *)
OnlyInHeaders(m, k, A) ==
    \A i \in Addresses : (\A c \in A : i < c \/ c + H <= i) => k[i] = m[i]

LEMMA NextAt ==
    ASSUME NEW A, Apiece(A), NEW m \in Mem, NEW b \in A, NEW v \in Nat, NEW k, k = SetNext(m, b, v)
    PROVE  /\ k \in Mem
           /\ \A c \in A : /\ front(k, c) = front(m, c) /\ inuse(k, c) = inuse(m, c)
                           /\ next(k, c) = IF c = b THEN v ELSE next(m, c)
           /\ OnlyInHeaders(m, k, A)
  <1>1. b \in Header /\ A \subseteq Header
    BY DEF Apiece
  <1>2. /\ k \in Mem /\ front(k, b) = front(m, b) /\ inuse(k, b) = inuse(m, b) /\ next(k, b) = v
        /\ OnlyAt(m, k, b)
    BY <1>1, AfterSetNext
  <1> QED
    BY <1>1, <1>2 DEF Apiece, OnlyAt, OnlyInHeaders, SameHeader

LEMMA FrontAt ==
    ASSUME NEW A, Apiece(A), NEW m \in Mem, NEW b \in A, NEW v \in Nat, NEW k, k = SetFront(m, b, v)
    PROVE  /\ k \in Mem
           /\ \A c \in A : /\ next(k, c) = next(m, c) /\ inuse(k, c) = inuse(m, c)
                           /\ front(k, c) = IF c = b THEN v ELSE front(m, c)
           /\ OnlyInHeaders(m, k, A)
  <1>1. b \in Header /\ A \subseteq Header
    BY DEF Apiece
  <1>2. /\ k \in Mem /\ front(k, b) = v /\ inuse(k, b) = inuse(m, b) /\ next(k, b) = next(m, b)
        /\ OnlyAt(m, k, b)
    BY <1>1, AfterSetFront
  <1> QED
    BY <1>1, <1>2 DEF Apiece, OnlyAt, OnlyInHeaders, SameHeader

LEMMA InuseAt ==
    ASSUME NEW A, Apiece(A), NEW m \in Mem, NEW b \in A, NEW v \in Nat, NEW k, k = SetInuse(m, b, v)
    PROVE  /\ k \in Mem
           /\ \A c \in A : /\ front(k, c) = front(m, c) /\ next(k, c) = next(m, c)
                           /\ inuse(k, c) = IF c = b THEN v ELSE inuse(m, c)
           /\ OnlyInHeaders(m, k, A)
  <1>1. b \in Header /\ A \subseteq Header
    BY DEF Apiece
  <1>2. /\ k \in Mem /\ front(k, b) = front(m, b) /\ inuse(k, b) = v /\ next(k, b) = next(m, b)
        /\ OnlyAt(m, k, b)
    BY <1>1, AfterSetInuse
  <1> QED
    BY <1>1, <1>2 DEF Apiece, OnlyAt, OnlyInHeaders, SameHeader

(* A step of the backward loop of pmm_free.                                *)
LEMMA Rewired ==
    ASSUME NEW A, Apiece(A), NEW m \in Mem,
           NEW f \in A, NEW n \in A, NEW p \in A, NEW q \in A, f # n,
           NEW k, k = SetNext(m, p, n),
           NEW m2, m2 = SetFront(SetNext(m, f, n), n, f),
           NEW k2, k2 = SetNext(m2, q, n)
    PROVE  /\ m2 \in Mem /\ next(m2, f) = n /\ \A c \in A : inuse(m2, c) = inuse(m, c)
           /\ \A c \in A : /\ front(k, c) = front(m, c) /\ inuse(k, c) = inuse(m, c)
                           /\ next(k, c) = IF c = p THEN n ELSE next(m, c)
           /\ \A c \in A : /\ inuse(k2, c) = inuse(k, c)
                           /\ front(k2, c) = IF c = n THEN f ELSE front(k, c)
                           /\ c \notin {f, p, q} => next(k2, c) = next(k, c)
           /\ next(k2, q) = n
           /\ OnlyInHeaders(m, m2, A)
  <1> DEFINE m1 == SetNext(m, f, n)
  <1>0. f \in Nat /\ n \in Nat
    BY HeapNat DEF Apiece, Header
  <1>1. /\ m1 \in Mem
        /\ \A c \in A : /\ front(m1, c) = front(m, c) /\ inuse(m1, c) = inuse(m, c)
                        /\ next(m1, c) = IF c = f THEN n ELSE next(m, c)
        /\ OnlyInHeaders(m, m1, A)
    BY <1>0, NextAt
  <1>2. m2 = SetFront(m1, n, f)
    BY DEF m1
  <1> HIDE DEF m1
  <1>3. /\ m2 \in Mem
        /\ \A c \in A : /\ next(m2, c) = next(m1, c) /\ inuse(m2, c) = inuse(m1, c)
                        /\ front(m2, c) = IF c = n THEN f ELSE front(m1, c)
        /\ OnlyInHeaders(m1, m2, A)
    BY <1>0, <1>1, <1>2, FrontAt
  <1>4. \A c \in A : /\ front(k, c) = front(m, c) /\ inuse(k, c) = inuse(m, c)
                     /\ next(k, c) = IF c = p THEN n ELSE next(m, c)
    BY <1>0, NextAt
  <1>5. \A c \in A : /\ front(k2, c) = front(m2, c) /\ inuse(k2, c) = inuse(m2, c)
                     /\ next(k2, c) = IF c = q THEN n ELSE next(m2, c)
    BY <1>0, <1>3, NextAt
  <1>6. OnlyInHeaders(m, m2, A)
    BY <1>1, <1>3 DEF OnlyInHeaders
  <1> QED
    BY <1>1, <1>3, <1>4, <1>5, <1>6

LEMMA SoundHeaders ==
    ASSUME NEW m, NEW B, NEW D, NEW L, Sound(m, B, D, L)
    PROVE  Apiece(B \cup D \cup {End})
  BY Headers DEF Apiece

LEMMA SameNext ==
    ASSUME NEW m \in Mem, NEW p
    PROVE  SetNext(m, p, next(m, p)) = m
  BY DEF SetNext, next, Mem

-----------------------------------------------------------------------------
(* The blocks other than p and the one before it.                          *)
Others(m, B, p) == {b \in B \ {p} : next(m, b) # p}

(* While pmm_free merges backward, the freed memory belongs to the free    *)
(* block p, or will, once p has been made to lead to what is behind it: c, *)
(* where the call stands, is p or a merged header inside of it.            *)
Freeing(m, c, L, B, D, p) ==
    LET k == SetNext(m, p, next(m, c))
    IN  /\ m \in Mem /\ p \in B /\ inuse(m, p) = 0
        /\ Sound(k, B, D, L)
        /\ NoPair(k, Others(k, B, p))
        /\ IF c = p THEN \A d \in D : ~Inside(k, p, d)
                    ELSE c \in D /\ Inside(k, p, c)

(* The same in full, with n the block behind and k the memory in which p   *)
(* has got what was freed.                                                 *)
FreeingView(m, c, L, B, D, p, n, k) ==
    /\ m \in Mem /\ k \in Mem /\ p \in B /\ inuse(m, p) = 0
    /\ Sound(k, B, D, L) /\ NoPair(k, Others(k, B, p))
    /\ Spaced(k, B, D) /\ Apiece(B \cup D \cup {End})
    /\ c \in {p} \cup D /\ c \in Nat /\ p \in Nat /\ n \in Nat /\ p <= c /\ c + H < n
    /\ c # p => Inside(k, p, c)
    /\ c = p => \A d \in D : ~Inside(k, p, d)
    /\ n \in B \cup {End} /\ n # p /\ next(k, p) = n
    /\ \A e \in B \cup D \cup {End} :
           /\ front(k, e) = front(m, e) /\ inuse(k, e) = inuse(m, e)
           /\ next(k, e) = IF e = p THEN n ELSE next(m, e)

(* Freeing says all of that.                                               *)
LEMMA FreeingFacts ==
    ASSUME NEW m, NEW c, NEW L, NEW B, NEW D, NEW p, Freeing(m, c, L, B, D, p)
    PROVE  FreeingView(m, c, L, B, D, p, next(m, c), SetNext(m, p, next(m, c)))
  <1> DEFINE n == next(m, c)
             k == SetNext(m, p, n)
             A == B \cup D \cup {End}
  <1>a. n = next(m, c) /\ k = SetNext(m, p, n)
    OBVIOUS
  <1>1. /\ m \in Mem /\ p \in B /\ inuse(m, p) = 0 /\ Sound(k, B, D, L)
        /\ NoPair(k, Others(k, B, p))
        /\ IF c = p THEN \A d \in D : ~Inside(k, p, d) ELSE c \in D /\ Inside(k, p, c)
    BY DEF Freeing
  <1> HIDE DEF n, k
  <1>2. Spaced(k, B, D) /\ Apiece(A)
    BY <1>1, Apart, SoundHeaders DEF Sound
  <1>3. c \in {p} \cup D
    BY <1>1
  <1>4. c \in Header /\ p \in Header /\ c \in A /\ p \in A
    BY <1>1, <1>2, <1>3 DEF Apiece
  <1>5. n \in Nat /\ m \in Mem
    BY <1>1, <1>4, <1>a, FieldsOf
  <1> HIDE DEF A
  <1>6. /\ k \in Mem
        /\ \A e \in A : /\ front(k, e) = front(m, e) /\ inuse(k, e) = inuse(m, e)
                        /\ next(k, e) = IF e = p THEN n ELSE next(m, e)
    BY <1>2, <1>4, <1>5, <1>a, NextAt
  <1>7. next(k, p) = n
    BY <1>4, <1>6
  <1>8. n \in B \cup {End} /\ p + H < n
    BY <1>1, <1>2, <1>7 DEF Spaced
  <1>9. c \in Nat /\ p \in Nat
    BY <1>4, HeapNat DEF Header
  <1>10. p <= c /\ c + H < n /\ n # p
    BY <1>1, <1>5, <1>7, <1>8, <1>9 DEF Inside, H
  <1> QED
    BY <1>1, <1>2, <1>3, <1>5, <1>6, <1>7, <1>8, <1>9, <1>10 DEF n, k, A, FreeingView

(* Where the front of the block that is merged backward leads.             *)
MergeTarget(m, k, B, D, p, c, f) ==
    \/ /\ c = p /\ p # Start
       /\ \E q \in B : /\ next(k, q) = p /\ q \in Nat /\ q < p /\ q + H < p
                       /\ f = q \/ (f \in D /\ f \in Nat /\ f < p /\ f + H < p /\ Inside(k, q, f)
                                    /\ inuse(m, f) = 0 /\ inuse(m, q) = 0)
    \/ /\ c # p /\ c \in D
       /\ f = p \/ (f \in D /\ f \in Nat /\ p < f /\ p + H < f /\ f < c /\ f + H < c
                    /\ inuse(m, f) = 0)

LEMMA MergedInto ==
    ASSUME NEW m, NEW c, NEW L, NEW B, NEW D, NEW p, Freeing(m, c, L, B, D, p),
           NEW f, f = front(m, c), f # NULL, NEW n, n = next(m, c), NEW k, k = SetNext(m, p, n)
    PROVE  MergeTarget(m, k, B, D, p, c, f)
  <1>1. /\ m \in Mem /\ k \in Mem /\ p \in B /\ inuse(m, p) = 0
        /\ Sound(k, B, D, L) /\ Spaced(k, B, D) /\ Apiece(B \cup D \cup {End})
        /\ c \in {p} \cup D /\ c \in Nat /\ p \in Nat /\ n \in Nat
        /\ c # p => Inside(k, p, c)
        /\ next(k, p) = n
        /\ \A e \in B \cup D \cup {End} :
               /\ front(k, e) = front(m, e) /\ inuse(k, e) = inuse(m, e)
               /\ next(k, e) = IF e = p THEN n ELSE next(m, e)
    <2>1. FreeingView(m, c, L, B, D, p, n, k)
      BY FreeingFacts
    <2> QED
      BY <2>1 DEF FreeingView
  <1>2. front(k, c) = f
    BY <1>1
  <1>3. /\ \A d \in D : d \in Nat /\ inuse(m, d) = 0
        /\ \A d, e \in D : d < e => d + H < e
        /\ \A d \in D, b \in B : (b < d => b + H < d) /\ (d < b => d + H < b)
    <2>1. \A d \in D : d \in Nat
      BY <1>1, Headers
    <2>2. \A d \in D : inuse(k, d) = 0
      BY <1>1 DEF Sound, Dead
    <2>3. \A d, e \in D : d < e => d + H < e
      BY <1>1 DEF Sound, Dead
    <2>4. \A d \in D, b \in B : (b < d => b + H < d) /\ (d < b => d + H < b)
      BY <1>1 DEF Spaced
    <2> QED
      BY <1>1, <2>1, <2>2, <2>3, <2>4
  <1>4. CASE c = p
    <2>1. p # Start
      BY <1>1, <1>2, <1>4 DEF Sound, Fronts
    <2>2. PICK q \in B : next(k, q) = p
      BY <1>1, <2>1 DEF Sound, Chain
    <2>3. p # End /\ q \in Nat /\ q + H < p /\ q < p
      <3>1. p # End /\ q + H < p
        BY <1>1, <2>2 DEF Spaced
      <3>2. q \in Nat
        BY <1>1, Headers
      <3> QED
        BY <1>1, <3>1, <3>2 DEF H
    <2>4. LeadsBack(k, D, q, p)
      BY <1>1, <2>2, <2>3 DEF Sound, Fronts
    <2>5. ASSUME f \in D, q < f, f < p
          PROVE  /\ f \in Nat /\ f + H < p /\ Inside(k, q, f)
                 /\ inuse(m, f) = 0 /\ inuse(m, q) = 0
      <3>1. Inside(k, q, f)
        BY <1>1, <2>2, <2>5 DEF Spaced
      <3>2. PICK b \in B : Inside(k, b, f) /\ inuse(k, b) = 0
        BY <1>1, <2>5 DEF Sound, Dead
      <3>3. b = q
        BY <1>1, <2>5, <3>1, <3>2 DEF Spaced
      <3> QED
        BY <1>1, <1>3, <2>5, <3>1, <3>2, <3>3
    <2>6. f = q \/ (f \in D /\ q < f /\ f < p)
      BY <1>2, <1>4, <2>4 DEF LeadsBack
    <2>7. \/ f = q
          \/ (f \in D /\ f \in Nat /\ f < p /\ f + H < p /\ Inside(k, q, f)
                /\ inuse(m, f) = 0 /\ inuse(m, q) = 0)
      BY <2>5, <2>6
    <2> QED
      BY <1>4, <2>1, <2>2, <2>3, <2>7 DEF MergeTarget
  <1>5. CASE c # p
    <2>1. c \in D /\ Inside(k, p, c)
      BY <1>1, <1>5
    <2>2. LeadsBack(k, D, p, c)
      BY <1>1, <2>1 DEF Sound, Fronts
    <2>3. f = p \/ (f \in D /\ p < f /\ f < c)
      BY <1>2, <2>2 DEF LeadsBack
    <2> QED
      BY <1>1, <1>3, <1>5, <2>1, <2>3 DEF MergeTarget
  <1> QED
    BY <1>4, <1>5

(* A step of the backward loop keeps to Freeing: block p itself is merged  *)
(* into the one before it, or the call climbs on through the dead headers  *)
(* of p.                                                                   *)
LEMMA BackStep ==
    ASSUME NEW m, NEW c, NEW L, NEW B, NEW D, NEW p, Freeing(m, c, L, B, D, p),
           NEW f, f = front(m, c), f # NULL, inuse(m, f) = 0, NEW n, n = next(m, c),
           NEW m2, m2 = SetFront(SetNext(m, f, n), n, f)
    PROVE  /\ OnlyInHeaders(m, m2, B \cup D \cup {End})
           /\ \E B2, D2 : \E q \in B2 : Freeing(m2, f, L, B2, D2, q)
  <1> DEFINE k == SetNext(m, p, n)
             A == B \cup D \cup {End}
             K(q) == SetNext(m2, q, n)
  <1>0. k = SetNext(m, p, n)
    OBVIOUS
  <1> HIDE DEF k
  <1>1. /\ m \in Mem /\ k \in Mem /\ p \in B /\ inuse(m, p) = 0
        /\ Sound(k, B, D, L) /\ NoPair(k, Others(k, B, p))
        /\ Spaced(k, B, D) /\ Apiece(A)
        /\ c \in {p} \cup D /\ c \in Nat /\ p \in Nat /\ n \in Nat /\ p <= c /\ c + H < n
        /\ c # p => Inside(k, p, c)
        /\ n \in B \cup {End} /\ n # p /\ next(k, p) = n
        /\ \A e \in A : front(k, e) = front(m, e) /\ inuse(k, e) = inuse(m, e)
    <2>1. FreeingView(m, c, L, B, D, p, n, k)
      BY <1>0, FreeingFacts
    <2> QED
      BY <2>1 DEF FreeingView
  <1>2. MergeTarget(m, k, B, D, p, c, f)
    BY <1>0, MergedInto
  <1>3. f \in A /\ f < n /\ f # n /\ p \in A /\ n \in A /\ f \in Nat
    <2>1. f \in A /\ f <= c /\ f \in Nat
      BY <1>1, <1>2 DEF MergeTarget
    <2>2. f < n
      BY <1>1, <2>1 DEF H
    <2> QED
      BY <1>1, <2>1, <2>2
  <1>4. \A d \in D : d # n /\ d \notin B /\ d \in Nat
    <2>1. \A d \in D : d \in Nat /\ d + H < End /\ (\A b \in B : d # b)
      BY <1>1, Headers DEF Spaced
    <2> QED
      BY <1>1, <2>1, HeapNat DEF H
  <1> HIDE DEF A, K
  <1>5. ASSUME NEW q \in A
        PROVE  /\ m2 \in Mem /\ next(m2, f) = n /\ \A e \in A : inuse(m2, e) = inuse(k, e)
               /\ \A e \in A : /\ inuse(K(q), e) = inuse(k, e)
                               /\ front(K(q), e) = IF e = n THEN f ELSE front(k, e)
                               /\ e \notin {f, p, q} => next(K(q), e) = next(k, e)
               /\ next(K(q), q) = n
               /\ OnlyInHeaders(m, m2, A)
    <2>1. K(q) = SetNext(m2, q, n)
      BY DEF K
    <2>2. /\ m2 \in Mem /\ next(m2, f) = n /\ \A e \in A : inuse(m2, e) = inuse(m, e)
          /\ \A e \in A : /\ inuse(K(q), e) = inuse(k, e)
                          /\ front(K(q), e) = IF e = n THEN f ELSE front(k, e)
                          /\ e \notin {f, p, q} => next(K(q), e) = next(k, e)
          /\ next(K(q), q) = n
          /\ OnlyInHeaders(m, m2, A)
      BY <1>0, <1>1, <1>3, <2>1, Rewired
    <2> QED
      BY <1>1, <2>2
  <1>6. ASSUME NEW q \in B, NEW B2, NEW D2, B2 \subseteq B, q \in B2,
               Sound(K(q), B2, D2, L), NoPair(K(q), Others(K(q), B2, q)),
               inuse(k, q) = 0,
               IF f = q THEN \A d \in D2 : ~Inside(K(q), q, d)
                        ELSE f \in D2 /\ Inside(K(q), q, f)
        PROVE  \E B3, D3 : \E q3 \in B3 : Freeing(m2, f, L, B3, D3, q3)
    <2>1. q \in A
      BY DEF A
    <2>2. m2 \in Mem /\ next(m2, f) = n /\ inuse(m2, q) = 0
      BY <1>5, <1>6, <2>1
    <2>3. SetNext(m2, q, next(m2, f)) = K(q)
      BY <2>2 DEF K
    <2>4. Freeing(m2, f, L, B2, D2, q)
      BY <1>6, <2>2, <2>3 DEF Freeing
    <2> QED
      BY <1>6, <2>4
  <1>7. CASE c = p /\ p # Start
    <2>1. PICK q \in B : /\ next(k, q) = p /\ q \in Nat /\ q < p /\ q + H < p
                         /\ f = q \/ (f \in D /\ f \in Nat /\ f < p /\ f + H < p /\ Inside(k, q, f)
                                      /\ inuse(m, f) = 0 /\ inuse(m, q) = 0)
      BY <1>2, <1>7 DEF MergeTarget
    <2> DEFINE k2 == K(q)
    <2>2. q \in A /\ p < n /\ q < n /\ q # n /\ B \subseteq A /\ D \subseteq A
      BY <1>1, <1>7, <2>1 DEF A, H
    <2>3. /\ m2 \in Mem /\ next(m2, f) = n /\ \A e \in A : inuse(m2, e) = inuse(k, e)
          /\ \A e \in A : /\ inuse(k2, e) = inuse(k, e)
                          /\ front(k2, e) = IF e = n THEN f ELSE front(k, e)
                          /\ e \notin {f, p, q} => next(k2, e) = next(k, e)
          /\ next(k2, q) = n
          /\ OnlyInHeaders(m, m2, A)
      BY <1>5, <2>2
    <2> HIDE DEF k2
    <2>4. inuse(k, q) = 0 /\ inuse(k, p) = 0
      BY <1>1, <1>3, <2>1, <2>2
    <2>5. Sound(k2, B \ {p}, D \cup {p}, L)
      <3>1. /\ next(k2, q) = next(k, p) /\ front(k2, q) = front(k, q)
            /\ front(k2, p) = front(k, p)
        BY <1>1, <1>3, <2>1, <2>2, <2>3
      <3>2. /\ \A e \in B : inuse(k2, e) = inuse(k, e)
            /\ \A e \in B \ {q, p} : next(k2, e) = next(k, e)
            /\ \A e \in B \ {p} : e # next(k, p) => front(k2, e) = front(k, e)
        BY <1>1, <1>4, <2>1, <2>2, <2>3
      <3>3. LeadsBack(k2, D \cup {p}, q, n)
        <4>1. front(k2, n) = f
          BY <1>3, <2>3
        <4>2. CASE f = q
          BY <4>1, <4>2 DEF LeadsBack
        <4>3. CASE f # q
          <5>1. f \in D /\ q + H < f /\ f < n
            BY <1>3, <2>1, <4>3 DEF Inside
          <5>2. q < f
            BY <1>3, <2>1, <5>1 DEF H
          <5> QED
            BY <4>1, <5>1, <5>2 DEF LeadsBack
        <4> QED
          BY <4>2, <4>3
      <3>4. \A d \in D : front(k2, d) = front(k, d) /\ inuse(k2, d) = inuse(k, d)
        BY <1>4, <2>2, <2>3
      <3>5. /\ next(k, p) # End => LeadsBack(k2, D \cup {p}, q, next(k, p))
            /\ front(k2, p) = q \/ front(k2, p) = front(k, p)
        BY <1>1, <3>1, <3>3
      <3>6. /\ next(k, q) = p /\ inuse(k, q) = 0 /\ inuse(k, p) = 0
            /\ Sound(k, B, D, L) /\ q \in B /\ p \in B
        BY <1>1, <2>1, <2>4
      <3> QED
        BY <3>1, <3>2, <3>4, <3>5, <3>6, Absorb
    <2>6. NoPair(k2, Others(k2, B \ {p}, q))
      <3> SUFFICES ASSUME NEW b \in (B \ {p}) \ {q}, next(k2, b) # q, next(k2, b) # End, inuse(k2, b) = 0
                   PROVE  inuse(k2, next(k2, b)) = 1
        BY DEF NoPair, Others
      <3>1. b \notin {f, p, q} /\ b \in A
        BY <1>4, <2>1, <2>2
      <3>2. next(k2, b) = next(k, b) /\ inuse(k, b) = 0 /\ next(k, b) # End
        BY <2>3, <3>1
      <3>3. next(k, b) # p /\ next(k, b) \in B
        BY <1>1, <2>1, <3>2 DEF Spaced
      <3>4. inuse(k, next(k, b)) = 1
        BY <1>1, <3>2, <3>3 DEF NoPair, Others
      <3> QED
        BY <2>2, <2>3, <3>2, <3>3, <3>4
    <2>7. CASE f = q
      <3>1. next(k2, q) # End => front(k2, next(k2, q)) = q
        BY <1>3, <2>3, <2>7
      <3>2. Sound(k2, B \ {p}, Dropped(k2, q, D \cup {p}), L)
        BY <2>1, <2>5, <3>1, Prune
      <3>3. \A d \in Dropped(k2, q, D \cup {p}) : ~Inside(k2, q, d)
        BY DEF Dropped
      <3> QED
        <4> DEFINE B2 == B \ {p}
                   D2 == Dropped(k2, q, D \cup {p})
        <4>1. /\ B2 \subseteq B /\ q \in B2 /\ Sound(k2, B2, D2, L)
              /\ NoPair(k2, Others(k2, B2, q))
              /\ inuse(k, q) = 0
              /\ IF f = q THEN \A d \in D2 : ~Inside(k2, q, d)
                          ELSE f \in D2 /\ Inside(k2, q, f)
          BY <2>1, <2>4, <2>6, <2>7, <3>2, <3>3
        <4> HIDE DEF B2, D2
        <4> QED
          BY <1>6, <2>1, <2>3, <4>1 DEF k2, A
    <2>8. CASE f # q
      <3>1. f \in D \cup {p} /\ Inside(k2, q, f)
        <4>1. f \in D /\ q + H < f /\ f + H < p
          BY <2>1, <2>8 DEF Inside
        <4> QED
          BY <1>1, <1>3, <2>1, <2>2, <2>3, <4>1 DEF Inside, H
      <3> QED
        BY <1>6, <2>1, <2>3, <2>4, <2>5, <2>6, <2>8, <3>1 DEF k2, A
    <2> QED
      BY <2>7, <2>8
  <1>8. CASE c # p /\ c \in D
    <2> DEFINE k2 == K(p)
    <2>1. f = p \/ (f \in D /\ p < f /\ p + H < f /\ f < c /\ f + H < c)
      BY <1>2, <1>8 DEF MergeTarget
    <2>2. B \subseteq A /\ D \subseteq A
      BY DEF A
    <2>3. /\ m2 \in Mem /\ next(m2, f) = n /\ \A e \in A : inuse(m2, e) = inuse(k, e)
          /\ \A e \in A : /\ inuse(k2, e) = inuse(k, e)
                          /\ front(k2, e) = IF e = n THEN f ELSE front(k, e)
                          /\ e \notin {f, p, p} => next(k2, e) = next(k, e)
          /\ next(k2, p) = n
          /\ OnlyInHeaders(m, m2, A)
      BY <1>3, <1>5
    <2> HIDE DEF k2
    <2>4. \A b \in B : next(k2, b) = next(k, b) /\ inuse(k2, b) = inuse(k, b)
      BY <1>1, <1>4, <2>1, <2>2, <2>3
    <2>5. Sound(k2, B, D, L)
      <3>1. \A e \in B : e # next(k, p) => front(k2, e) = front(k, e)
        BY <1>1, <2>2, <2>3
      <3>2. \A d \in D : front(k2, d) = front(k, d) /\ inuse(k2, d) = inuse(k, d)
        BY <1>4, <2>2, <2>3
      <3>3. LeadsBack(k2, D, p, next(k, p))
        BY <1>1, <1>3, <2>1, <2>3 DEF LeadsBack
      <3> QED
        BY <1>1, <2>4, <3>1, <3>2, <3>3, Redirect
    <2>6. NoPair(k2, Others(k2, B, p))
      <3> SUFFICES ASSUME NEW b \in B \ {p}, next(k2, b) # p, next(k2, b) # End, inuse(k2, b) = 0
                   PROVE  inuse(k2, next(k2, b)) = 1
        BY DEF NoPair, Others
      <3>1. next(k, b) \in B /\ next(k2, b) = next(k, b) /\ inuse(k, b) = 0
        BY <1>1, <2>4 DEF Spaced
      <3>2. inuse(k, next(k, b)) = 1
        BY <1>1, <3>1 DEF NoPair, Others
      <3> QED
        BY <2>4, <3>1, <3>2
    <2>7. inuse(k, p) = 0
      BY <1>1, <1>3
    <2>8. CASE f = p
      <3>1. next(k2, p) # End => front(k2, next(k2, p)) = p
        BY <1>3, <2>3, <2>8
      <3>2. Sound(k2, B, Dropped(k2, p, D), L)
        BY <1>1, <2>5, <3>1, Prune
      <3>3. \A d \in Dropped(k2, p, D) : ~Inside(k2, p, d)
        BY DEF Dropped
      <3> QED
        BY <1>1, <1>6, <2>3, <2>6, <2>7, <2>8, <3>2, <3>3 DEF k2, A
    <2>9. CASE f # p
      <3>1. f \in D /\ Inside(k2, p, f)
        BY <1>1, <1>3, <2>1, <2>3, <2>9 DEF Inside, H
      <3> QED
        BY <1>1, <1>6, <2>3, <2>5, <2>6, <2>7, <2>9, <3>1 DEF k2, A
    <2> QED
      BY <2>8, <2>9
  <1>9. OnlyInHeaders(m, m2, A)
    BY <1>3, <1>5
  <1> QED
    BY <1>2, <1>7, <1>8, <1>9 DEF A, MergeTarget

(* Whatever leaves the headers alone leaves the list as it is.             *)
LEMMA Untouched ==
    ASSUME NEW m, NEW k, NEW B, NEW D, NEW L, Sound(m, B, D, L),
           \A c \in B \cup D : SameHeader(m, k, c)
    PROVE  Sound(k, B, D, L) /\ \A A \in SUBSET B : NoPair(m, A) => NoPair(k, A)
  <1>1. Start \in B /\ Spaced(m, B, D)
    BY Apart DEF Sound, Chain
  <1>2. next(m, Start) # End => next(m, Start) \in B
    BY <1>1 DEF Spaced
  <1>3. next(m, Start) # End => LeadsBack(k, D, Start, next(m, Start))
    <2> SUFFICES ASSUME next(m, Start) # End PROVE LeadsBack(k, D, Start, next(m, Start))
      OBVIOUS
    <2>1. LeadsBack(m, D, Start, next(m, Start))
      BY <1>1 DEF Sound, Fronts
    <2>2. front(k, next(m, Start)) = front(m, next(m, Start))
      BY <1>2 DEF SameHeader
    <2> QED
      BY <2>1, <2>2 DEF LeadsBack
  <1>4. Sound(k, B, D, L)
    <2>1. \A c \in B \cup D : front(k, c) = front(m, c) /\ inuse(k, c) = inuse(m, c) /\ next(k, c) = next(m, c)
      BY DEF SameHeader
    <2> QED
      BY <1>1, <1>3, <2>1, Redirect
  <1>5. ASSUME NEW A \in SUBSET B, NoPair(m, A) PROVE NoPair(k, A)
    <2>1. \A b \in A : next(k, b) = next(m, b) /\ inuse(k, b) = inuse(m, b)
      BY DEF SameHeader
    <2>2. \A b \in A : next(m, b) # End => inuse(k, next(m, b)) = inuse(m, next(m, b))
      BY <1>1 DEF Spaced, SameHeader
    <2> QED
      BY <1>5, <2>1, <2>2 DEF NoPair
  <1> QED
    BY <1>4, <1>5

(* pmm_free marks the block of the allocation g free.                      *)
LEMMA FreeStep ==
    ASSUME NEW m \in Mem, NEW B, NEW D, NEW L, NEW g \in L, Sound(m, B, D, L), NoPair(m, B),
           NEW p, p = g.ptr - H, NEW m2, m2 = SetInuse(m, p, 0)
    PROVE  p \in B /\ Freeing(m2, p, L \ {g}, B, D, p)
  <1> DEFINE A == B \cup D \cup {End}
  <1>1. p \in B
    BY DEF Sound, Clients
  <1>2. Apiece(A) /\ B \subseteq A /\ D \subseteq A /\ p \in A /\ Spaced(m, B, D)
    BY <1>1, SoundHeaders, Apart DEF Sound
  <1> HIDE DEF A
  <1>3. /\ m2 \in Mem
        /\ \A c \in A : /\ front(m2, c) = front(m, c) /\ next(m2, c) = next(m, c)
                        /\ inuse(m2, c) = IF c = p THEN 0 ELSE inuse(m, c)
    BY <1>2, InuseAt, 0 \in Nat
  <1>4. Sound(m2, B, D, L \ {g}) /\ \A d \in D : ~Inside(m, p, d)
    <2>1. \A d \in D : d # p
      BY <1>1, <1>2 DEF Spaced
    <2>2. /\ inuse(m2, p) = 0
          /\ \A c \in B : next(m2, c) = next(m, c) /\ front(m2, c) = front(m, c)
          /\ \A c \in B \ {p} : inuse(m2, c) = inuse(m, c)
          /\ \A d \in D : front(m2, d) = front(m, d) /\ inuse(m2, d) = inuse(m, d)
      BY <1>2, <1>3, <2>1
    <2>5. MarkedFree(m, m2, B, D, p)
      BY <2>2 DEF MarkedFree
    <2>3. Sound(m, B, D, L) /\ g \in L /\ p = g.ptr - H
      OBVIOUS
    <2>4. Sound(m2, B, D, L \ {g}) /\ p \in B /\ \A d \in D : ~Inside(m, p, d)
      BY <2>3, <2>5, Release
    <2> QED
      BY <2>4
  <1>5. NoPair(m2, Others(m2, B, p))
    <2> SUFFICES ASSUME NEW b \in B \ {p}, next(m2, b) # p, next(m2, b) # End, inuse(m2, b) = 0
                 PROVE  inuse(m2, next(m2, b)) = 1
      BY DEF NoPair, Others
    <2>1. next(m2, b) = next(m, b) /\ inuse(m, b) = 0 /\ next(m, b) \in B
      BY <1>2, <1>3 DEF Spaced
    <2>2. inuse(m, next(m, b)) = 1
      BY <2>1 DEF NoPair
    <2> QED
      BY <1>2, <1>3, <2>1, <2>2
  <1>6. SetNext(m2, p, next(m2, p)) = m2
    BY <1>3, SameNext
  <1>7. inuse(m2, p) = 0 /\ next(m2, p) = next(m, p)
    BY <1>2, <1>3
  <1>8. \A d \in D : ~Inside(m2, p, d)
    BY <1>4, <1>7 DEF Inside
  <1> QED
    BY <1>1, <1>3, <1>4, <1>5, <1>6, <1>7, <1>8 DEF Freeing

(* Backward merging ends at a block in use ...                             *)
LEMMA BackEnds ==
    ASSUME NEW m, NEW c, NEW L, NEW B, NEW D, NEW p, Freeing(m, c, L, B, D, p),
           front(m, c) # NULL, inuse(m, front(m, c)) # 0
    PROVE  m \in Mem /\ Sound(m, B, D, L) /\ c \in B /\ inuse(m, c) = 0 /\ NoPair(m, B \ {c})
  <1> DEFINE n == next(m, c)
             k == SetNext(m, p, n)
             f == front(m, c)
  <1>0. n = next(m, c) /\ k = SetNext(m, p, n) /\ f = front(m, c) /\ f # NULL
    OBVIOUS
  <1> HIDE DEF n, k, f
  <1>1. FreeingView(m, c, L, B, D, p, n, k)
    BY <1>0, FreeingFacts
  <1>2. /\ m \in Mem /\ p \in B /\ inuse(m, p) = 0 /\ Sound(k, B, D, L) /\ NoPair(k, Others(k, B, p))
        /\ \A e \in B : inuse(k, e) = inuse(m, e)
    BY <1>1 DEF FreeingView
  <1>3. MergeTarget(m, k, B, D, p, c, f)
    BY <1>0, MergedInto
  <1>4. inuse(m, f) # 0
    BY DEF f
  <1>5. c = p /\ f \in B /\ next(k, f) = p
    BY <1>2, <1>3, <1>4 DEF MergeTarget
  <1>6. k = m
    BY <1>0, <1>2, <1>5, SameNext
  <1>7. NoPair(m, B \ {c})
    <2> SUFFICES ASSUME NEW b \in B \ {p}, next(m, b) # End, inuse(m, b) = 0
                 PROVE  inuse(m, next(m, b)) = 1
      BY <1>5 DEF NoPair
    <2>1. \A b1, b2 \in B : next(m, b1) = next(m, b2) => b1 = b2
      BY <1>2, <1>6, Apart DEF Sound, Spaced
    <2>2. next(m, b) # p
      BY <1>4, <1>5, <1>6, <2>1
    <2> QED
      BY <1>2, <1>6, <2>2 DEF NoPair, Others
  <1> QED
    BY <1>2, <1>5, <1>6, <1>7

(* ... or at the start of the heap.                                        *)
LEMMA BackEndsAtHead ==
    ASSUME NEW m, NEW c, NEW L, NEW B, NEW D, NEW p, Freeing(m, c, L, B, D, p),
           front(m, c) = NULL, NEW n, n = next(m, c),
           NEW m2, m2 = SetInuse(SetFront(SetFront(SetNext(m, Start, n), Start, NULL), n, Start), Start, 0)
    PROVE  /\ m2 \in Mem /\ Sound(m2, B, D, L) /\ Start \in B /\ inuse(m2, Start) = 0
           /\ NoPair(m2, B \ {Start}) /\ c = Start
           /\ Sound(m, B, D, L)
           /\ OnlyInHeaders(m, m2, B \cup D \cup {End})
  <1> DEFINE k == SetNext(m, p, n)
             A == B \cup D \cup {End}
             m1 == SetNext(m, Start, n)
             m3 == SetFront(m1, Start, NULL)
             m4 == SetFront(m3, n, Start)
  <1>0. k = SetNext(m, p, n)
    OBVIOUS
  <1> HIDE DEF k
  <1>1. FreeingView(m, c, L, B, D, p, n, k)
    BY <1>0, FreeingFacts
  <1>2. /\ m \in Mem /\ p \in B /\ inuse(m, p) = 0 /\ Sound(k, B, D, L) /\ NoPair(k, Others(k, B, p))
        /\ \A e \in A : inuse(k, e) = inuse(m, e) /\ front(k, e) = front(m, e)
        /\ c \in {p} \cup D /\ n \in B \cup {End} /\ n \in Nat /\ next(k, p) = n
        /\ c # p => Inside(k, p, c)
        /\ Apiece(A) /\ Spaced(k, B, D)
    BY <1>1 DEF FreeingView
  <1>3. c = p
    <2> SUFFICES ASSUME c # p PROVE FALSE
      OBVIOUS
    <2>1. c \in D /\ LeadsBack(k, D, p, c)
      BY <1>2 DEF Sound, Fronts
    <2>2. front(k, c) = NULL
      BY <1>2, <2>1
    <2>3. p > 0 /\ \A d \in D : d > 0
      BY <1>2, Headers
    <2> QED
      BY <2>1, <2>2, <2>3 DEF LeadsBack, NULL
  <1>4. p = Start
    <2>1. front(k, p) = NULL
      BY <1>2, <1>3
    <2> QED
      BY <1>2, <2>1, FrontOf
  <1>5. k = m
    BY <1>0, <1>2, <1>3, SameNext
  <1>6. Start \in A /\ n \in A /\ Start # n /\ Start \in Nat /\ B \subseteq A /\ D \subseteq A /\ NULL \in Nat
        /\ front(m, Start) = NULL /\ next(m, Start) = n
    BY <1>2, <1>3, <1>4, <1>5, HeapNat DEF Spaced, NULL, H
  <1> HIDE DEF A
  <1>7. /\ m1 \in Mem
        /\ \A e \in A : /\ front(m1, e) = front(m, e) /\ inuse(m1, e) = inuse(m, e)
                        /\ next(m1, e) = IF e = Start THEN n ELSE next(m, e)
        /\ OnlyInHeaders(m, m1, A)
    BY <1>2, <1>6, NextAt
  <1> HIDE DEF m1
  <1>8. /\ m3 \in Mem
        /\ \A e \in A : /\ next(m3, e) = next(m1, e) /\ inuse(m3, e) = inuse(m1, e)
                        /\ front(m3, e) = IF e = Start THEN NULL ELSE front(m1, e)
        /\ OnlyInHeaders(m1, m3, A)
    BY <1>2, <1>6, <1>7, FrontAt
  <1> HIDE DEF m3
  <1>9. /\ m4 \in Mem
        /\ \A e \in A : /\ next(m4, e) = next(m3, e) /\ inuse(m4, e) = inuse(m3, e)
                        /\ front(m4, e) = IF e = n THEN Start ELSE front(m3, e)
        /\ OnlyInHeaders(m3, m4, A)
    BY <1>2, <1>6, <1>8, FrontAt
  <1>10. m2 = SetInuse(m4, Start, 0)
    BY DEF m1, m3, m4
  <1> HIDE DEF m4
  <1>11. /\ m2 \in Mem
         /\ \A e \in A : /\ next(m2, e) = next(m4, e) /\ front(m2, e) = front(m4, e)
                         /\ inuse(m2, e) = IF e = Start THEN 0 ELSE inuse(m4, e)
         /\ OnlyInHeaders(m4, m2, A)
    BY <1>2, <1>6, <1>9, <1>10, InuseAt, 0 \in Nat
  <1>12. \A e \in A : /\ next(m2, e) = next(m, e) /\ inuse(m2, e) = inuse(m, e)
                      /\ front(m2, e) = IF e = n THEN Start ELSE front(m, e)
    BY <1>2, <1>4, <1>6, <1>7, <1>8, <1>9, <1>11
  <1>13. Sound(m2, B, D, L)
    <2>1. \A b \in B : next(m2, b) = next(m, b) /\ inuse(m2, b) = inuse(m, b)
      BY <1>6, <1>12
    <2>2. \A b \in B : b # next(m, Start) => front(m2, b) = front(m, b)
      BY <1>6, <1>12
    <2>3. \A d \in D : front(m2, d) = front(m, d) /\ inuse(m2, d) = inuse(m, d)
      BY <1>2, <1>6, <1>12, HeapNat DEF Spaced, H
    <2>4. next(m, Start) # End => LeadsBack(m2, D, Start, next(m, Start))
      BY <1>6, <1>12 DEF LeadsBack
    <2> QED
      BY <1>2, <1>4, <1>5, <2>1, <2>2, <2>3, <2>4, Redirect
  <1>14. NoPair(m2, B \ {Start})
    <2> SUFFICES ASSUME NEW b \in B \ {Start}, next(m2, b) # End, inuse(m2, b) = 0
                 PROVE  inuse(m2, next(m2, b)) = 1
      BY DEF NoPair
    <2>1. next(m2, b) = next(m, b) /\ inuse(m, b) = 0
      BY <1>6, <1>12
    <2>2. next(m, b) \in B /\ next(m, b) # Start
      <3>1. /\ next(m, b) \in B /\ Start <= b /\ b + H < next(m, b) /\ b \in Int /\ next(m, b) \in Int
        BY <1>2, <1>5, <2>1 DEF Spaced
      <3> QED
        BY <3>1, HeapNat DEF H
    <2>3. inuse(m, next(m, b)) = 1
      BY <1>2, <1>4, <1>5, <2>1, <2>2 DEF NoPair, Others
    <2> QED
      BY <1>6, <1>12, <2>1, <2>2, <2>3
  <1>15. OnlyInHeaders(m, m2, A)
    BY <1>7, <1>8, <1>9, <1>11 DEF OnlyInHeaders
  <1> QED
    BY <1>2, <1>3, <1>4, <1>5, <1>6, <1>11, <1>12, <1>13, <1>14, <1>15 DEF A

(* Forward merging.                                                        *)
MergedForward(m, c, n, m2) ==
    /\ n = next(m, c) /\ n # End /\ inuse(m, n) = 0
    /\ m2 = SetNext(SetFront(m, n, c), c, next(SetFront(m, n, c), n))

LEMMA ForwardStep ==
    ASSUME NEW m \in Mem, NEW B, NEW D, NEW L, NEW c \in B, Sound(m, B, D, L),
           inuse(m, c) = 0, NoPair(m, B \ {c}),
           NEW n, NEW m2, MergedForward(m, c, n, m2)
    PROVE  /\ m2 \in Mem /\ Sound(m2, B \ {n}, D \cup {n}, L) /\ c \in B \ {n}
           /\ inuse(m2, c) = 0 /\ NoPair(m2, (B \ {n}) \ {c})
           /\ OnlyInHeaders(m, m2, B \cup D \cup {End})
  <1> DEFINE A == B \cup D \cup {End}
             y == next(m, n)
             m1 == SetFront(m, n, c)
  <1>0. n = next(m, c) /\ n # End /\ inuse(m, n) = 0
    BY DEF MergedForward
  <1>1. Apiece(A) /\ B \subseteq A /\ D \subseteq A /\ Spaced(m, B, D)
    BY SoundHeaders, Apart DEF Sound
  <1>2. n \in B /\ y \in B \cup {End} /\ c # n /\ n # y /\ c # y /\ c \in Nat /\ y \in Nat
    <2>1. n \in B
      BY <1>0, <1>1 DEF Spaced
    <2>2. y \in B \cup {End} /\ c + H < n /\ n + H < y
      BY <1>0, <1>1, <2>1 DEF Spaced
    <2>3. c \in Nat /\ n \in Nat /\ y \in Nat
      BY <1>0, <2>1, <2>2, Headers
    <2> HIDE DEF y
    <2> QED
      BY <1>0, <2>1, <2>2, <2>3 DEF H
  <1>3. /\ m1 \in Mem
        /\ \A e \in A : /\ next(m1, e) = next(m, e) /\ inuse(m1, e) = inuse(m, e)
                        /\ front(m1, e) = IF e = n THEN c ELSE front(m, e)
        /\ OnlyInHeaders(m, m1, A)
    <2>1. m1 = SetFront(m, n, c)
      OBVIOUS
    <2> HIDE DEF A, m1
    <2> QED
      BY <1>0, <1>1, <1>2, <2>1, FrontAt
  <1>a. m2 = SetNext(m1, c, next(m1, n))
    BY DEF MergedForward
  <1> HIDE DEF m1
  <1>4. m2 = SetNext(m1, c, y)
    BY <1>0, <1>1, <1>2, <1>3, <1>a
  <1> HIDE DEF A, y
  <1>5. /\ m2 \in Mem
        /\ \A e \in A : /\ front(m2, e) = front(m1, e) /\ inuse(m2, e) = inuse(m1, e)
                        /\ next(m2, e) = IF e = c THEN y ELSE next(m1, e)
        /\ OnlyInHeaders(m1, m2, A)
    BY <1>0, <1>1, <1>2, <1>3, <1>4, NextAt
  <1>6. \A e \in A : /\ inuse(m2, e) = inuse(m, e)
                     /\ front(m2, e) = IF e = n THEN c ELSE front(m, e)
                     /\ next(m2, e) = IF e = c THEN y ELSE next(m, e)
    BY <1>0, <1>3, <1>5
  <1>7. Sound(m2, B \ {n}, D \cup {n}, L)
    <2>1. /\ next(m2, c) = next(m, n) /\ front(m2, c) = front(m, c) /\ front(m2, n) = c
          /\ \A e \in B : inuse(m2, e) = inuse(m, e)
          /\ \A e \in B \ {c, n} : next(m2, e) = next(m, e)
          /\ \A e \in B \ {n} : e # next(m, n) => front(m2, e) = front(m, e)
      BY <1>0, <1>1, <1>2, <1>6 DEF y
    <2>2. next(m, n) # End => LeadsBack(m2, D \cup {n}, c, next(m, n))
      <3> SUFFICES ASSUME y # End PROVE LeadsBack(m2, D \cup {n}, c, y)
        BY DEF y
      <3>1. y \in B /\ LeadsBack(m, D, n, y)
        BY <1>0, <1>2 DEF Sound, Fronts, y
      <3>2. front(m2, y) = front(m, y)
        BY <1>0, <1>1, <1>2, <1>6, <3>1
      <3>3. c < n /\ n < y /\ \A d \in D : d \in Nat
        <4>1. c + H < n /\ n + H < y
          BY <1>0, <1>1, <1>2 DEF Spaced, y
        <4>2. n \in Nat /\ \A d \in D : d \in Nat
          BY <1>0, <1>2, Headers
        <4> QED
          BY <1>0, <1>2, <4>1, <4>2 DEF H
      <3>4. front(m, y) \in D /\ n < front(m, y) => c < front(m, y)
        BY <1>0, <1>2, <3>3, Headers
      <3> QED
        BY <1>0, <3>1, <3>2, <3>3, <3>4 DEF LeadsBack
    <2>3. \A d \in D : front(m2, d) = front(m, d) /\ inuse(m2, d) = inuse(m, d)
      BY <1>0, <1>1, <1>2, <1>6 DEF Spaced
    <2>4. front(m2, n) = c \/ front(m2, n) = front(m, n)
      BY <1>0, <2>1
    <2>5. /\ c \in B /\ n \in B /\ Sound(m, B, D, L) /\ next(m, c) = n
          /\ inuse(m, c) = 0 /\ inuse(m, n) = 0
      BY <1>0, <1>2
    <2> QED
      BY <1>0, <2>1, <2>2, <2>3, <2>4, <2>5, Absorb
  <1>8. NoPair(m2, (B \ {n}) \ {c})
    <2> SUFFICES ASSUME NEW b \in (B \ {n}) \ {c}, next(m2, b) # End, inuse(m2, b) = 0
                 PROVE  inuse(m2, next(m2, b)) = 1
      BY DEF NoPair
    <2>1. next(m2, b) = next(m, b) /\ inuse(m, b) = 0
      BY <1>0, <1>1, <1>6
    <2>2. next(m, b) \in B
      BY <1>0, <1>1, <2>1 DEF Spaced
    <2>3. inuse(m, next(m, b)) = 1
      BY <1>0, <2>1 DEF NoPair
    <2> QED
      BY <1>0, <1>1, <1>6, <2>1, <2>2, <2>3
  <1>9. OnlyInHeaders(m, m2, A)
    BY <1>0, <1>3, <1>5 DEF OnlyInHeaders
  <1> QED
    BY <1>0, <1>1, <1>2, <1>5, <1>6, <1>7, <1>8, <1>9 DEF A

-----------------------------------------------------------------------------
(* The inductive invariant: B are the blocks of the list and D the headers *)
(* of merged blocks that pointers may still lead to.                       *)
Listed(B, D) ==
    /\ Sound(mem, B, D, live)
    /\ pc \in {"idle", "search"} => NoPair(mem, B)
    /\ pc = "search" => /\ size \in Sizes /\ blockit \in B \cup {End}
                        /\ \A b \in B : b < blockit => ~Fits(b)
    /\ pc = "forward" => cur \in B /\ inuse(mem, cur) = 0 /\ NoPair(mem, B \ {cur})

(* What holds in every state in which the heap has not been exhausted.     *)
PmmInv ==
    /\ pc \in {"idle", "search", "back", "forward", "off_heap"}
    /\ pc # "off_heap" =>
          /\ mem \in Mem /\ memory_head = Start
          /\ pc = "back" => \E B, D : \E p \in B : Freeing(mem, cur, live, B, D, p)
          /\ pc # "back" => \E B, D : Listed(B, D)

(* Memory of clients stays as it is in a step.                             *)
Kept == \A r \in live \cap live' : \A a \in Region(r) : mem'[a] = mem[a]

(* A step that writes headers only leaves the memory of clients alone.     *)
LEMMA KeptOutside ==
    ASSUME NEW s, NEW m, NEW k, NEW B, NEW D, NEW L, Sound(s, B, D, L),
           OnlyInHeaders(m, k, B \cup D \cup {End})
    PROVE  \A r \in L : \A i \in Region(r) : k[i] = m[i]
  <1> SUFFICES ASSUME NEW r \in L, NEW i \in Region(r) PROVE k[i] = m[i]
    OBVIOUS
  <1>1. i \in Addresses /\ \A c \in B \cup D \cup {End} : i < c \/ c + H <= i
    BY RegionsOutside
  <1> QED
    BY <1>1 DEF OnlyInHeaders

(* The invariant holds at first, and every action keeps it.                *)
LEMMA InitInv == Init => PmmInv
  <1> SUFFICES ASSUME Init PROVE PmmInv
    OBVIOUS
  <1> DEFINE z == [a \in Addresses |-> 0]
  <1>1. z \in Mem /\ Start \in Header /\ \A a \in Addresses : z[a] = 0
    BY HeapNat DEF Mem, Header
  <1>2. mem = SetNext(z, Start, End) /\ memory_head = Start /\ live = {} /\ pc = "idle"
    BY DEF Init
  <1> HIDE DEF z
  <1>3. mem \in Mem /\ front(mem, Start) = front(z, Start) /\ inuse(mem, Start) = inuse(z, Start)
        /\ next(mem, Start) = End
    BY <1>1, <1>2, HeapNat, AfterSetNext
  <1>4. front(z, Start) = 0 /\ inuse(z, Start) = 0
    BY <1>1, HeapNat DEF front, inuse, Addresses, H
  <1>5. Chain(mem, {Start}) /\ Dead(mem, {Start}, {}) /\ Fronts(mem, {Start}, {})
        /\ Clients(mem, {Start}, {})
    BY <1>3, <1>4, HeapNat DEF Chain, Dead, Fronts, Clients, NULL, H
  <1>6. Sound(mem, {Start}, {}, live) /\ NoPair(mem, {Start})
    BY <1>2, <1>3, <1>5 DEF Sound, NoPair
  <1>7. Listed({Start}, {})
    BY <1>2, <1>6 DEF Listed
  <1> QED
    BY <1>2, <1>3, <1>7 DEF PmmInv

LEMMA AllocCallInv ==
    ASSUME PmmInv, NEW s \in Sizes, AllocCall(s)
    PROVE  PmmInv'
  <1>1. PICK B, D : Listed(B, D)
    BY DEF PmmInv, AllocCall
  <1>2. Start \in B /\ B \subseteq Start..(End - 1)
    BY <1>1 DEF Listed, Sound, Chain
  <1>3. blockit' = Start /\ \A b \in B : ~(b < Start)
    BY <1>2, HeapNat DEF AllocCall, PmmInv
  <1>4. Listed(B, D)'
    BY <1>1, <1>2, <1>3 DEF Listed, AllocCall
  <1> QED
    BY <1>4 DEF PmmInv, AllocCall

LEMMA SearchInv ==
    ASSUME PmmInv, Search
    PROVE  PmmInv' /\ Kept
  <1>0. pc = "search" /\ UNCHANGED <<mem, memory_head, live>>
    BY DEF Search
  <1>1. PICK B, D : Listed(B, D)
    BY <1>0 DEF PmmInv
  <1>2. blockit \in B /\ blockit' = next(mem, blockit) /\ pc' = "search" /\ size' = size
    BY <1>1 DEF Search, Listed
  <1>3. next(mem, blockit) \in B \cup {End}
    BY <1>1, <1>2 DEF Listed, Sound, Chain
  <1>4. ASSUME NEW b \in B, b < next(mem, blockit) PROVE ~Fits(b)
    <2>1. \A c \in B \cup {End} : c \in Nat
      BY <1>1, HeapNat DEF Listed, Sound, Chain
    <2>2. b <= blockit
      <3>1. b <= blockit \/ next(mem, blockit) <= b
        BY <1>1, <1>2 DEF Listed, Sound, Chain
      <3>2. b \in Nat /\ next(mem, blockit) \in Nat
        BY <1>3, <2>1
      <3> QED
        BY <1>4, <3>1, <3>2
    <2>3. b < blockit \/ b = blockit
      BY <1>2, <2>1, <2>2
    <2> QED
      BY <1>1, <2>3, <1>0 DEF Listed, Search
  <1>5. \A b \in B : b < blockit' => ~Fits(b)'
    BY <1>0, <1>2, <1>4 DEF Fits
  <1>6. Listed(B, D)'
    BY <1>0, <1>1, <1>2, <1>3, <1>5 DEF Listed
  <1> QED
    BY <1>0, <1>2, <1>6 DEF PmmInv, Kept

LEMMA FreeCallInv ==
    ASSUME PmmInv, NEW r \in live, FreeCall(r)
    PROVE  PmmInv'
  <1>1. PICK B, D : Listed(B, D)
    BY DEF PmmInv, FreeCall
  <1> DEFINE p == r.ptr - H
  <1>2. mem \in Mem /\ Sound(mem, B, D, live) /\ NoPair(mem, B) /\ mem' = SetInuse(mem, p, 0)
        /\ p = r.ptr - H /\ cur' = p /\ live' = live \ {r} /\ pc' = "back" /\ memory_head' = Start
    BY <1>1 DEF PmmInv, FreeCall, Listed
  <1> HIDE DEF p
  <1>3. p \in B /\ Freeing(mem', p, live \ {r}, B, D, p)
    BY <1>2, FreeStep
  <1>4. mem' \in Mem
    BY <1>3 DEF Freeing
  <1> QED
    BY <1>2, <1>3, <1>4 DEF PmmInv

LEMMA ClearInv ==
    ASSUME PmmInv, NEW r \in live, Clear(r)
    PROVE  PmmInv'
  <1>1. PICK B, D : Listed(B, D)
    BY DEF PmmInv, Clear
  <1>2. mem \in Mem /\ Sound(mem, B, D, live) /\ NoPair(mem, B) /\ pc = "idle" /\ pc' = "idle"
        /\ mem' = [a \in Addresses |-> IF a \in Region(r) THEN 0 ELSE mem[a]]
        /\ live' = live /\ memory_head' = Start
    BY <1>1 DEF PmmInv, Clear, Listed
  <1>3. mem' \in Mem
    BY <1>2 DEF Mem
  <1>4. ASSUME NEW c \in B \cup D PROVE SameHeader(mem, mem', c)
    <2>1. c \in Header /\ c \in Nat
      BY <1>2, Headers
    <2>2. \A i \in Region(r) : i \in Int /\ (i < c \/ c + H <= i)
      BY <1>2, RegionsOutside
    <2>3. \A i \in c..(c + H - 1) : i \in Addresses /\ i \notin Region(r)
      BY <2>1, <2>2, HeapNat DEF Addresses, Header, H
    <2>4. \A i \in c..(c + H - 1) : mem'[i] = mem[i]
      BY <1>2, <2>3
    <2> QED
      BY <2>1, <2>4 DEF SameHeader, front, inuse, next, H
  <1>5. Sound(mem', B, D, live) /\ NoPair(mem', B)
    BY <1>2, <1>4, Untouched
  <1>6. Listed(B, D)'
    BY <1>2, <1>5 DEF Listed
  <1> QED
    BY <1>2, <1>3, <1>6 DEF PmmInv

LEMMA MergeBackInv ==
    ASSUME PmmInv, MergeBack
    PROVE  PmmInv' /\ Kept
  <1> DEFINE f == front(mem, cur)
             n == next(mem, cur)
             m == SetNext(mem, f, n)
  <1>1. /\ f # NULL /\ inuse(mem, f) = 0 /\ mem' = SetFront(m, n, front(m, cur))
        /\ cur' = front(m, cur) /\ pc = "back" /\ pc' = "back" /\ live' = live /\ memory_head' = memory_head
    BY DEF MergeBack
  <1>2. PICK B, D : \E p \in B : Freeing(mem, cur, live, B, D, p)
    BY <1>1 DEF PmmInv
  <1>3. PICK p \in B : Freeing(mem, cur, live, B, D, p)
    BY <1>2
  <1> DEFINE A == B \cup D \cup {End}
             k == SetNext(mem, p, n)
  <1>4. /\ mem \in Mem /\ Apiece(A) /\ cur \in A /\ f \in A /\ n \in Nat /\ Sound(k, B, D, live)
    <2>1. FreeingView(mem, cur, live, B, D, p, n, k)
      BY <1>3, FreeingFacts
    <2>2. /\ mem \in Mem /\ Apiece(A) /\ cur \in {p} \cup D /\ n \in Nat /\ Sound(k, B, D, live)
      BY <2>1 DEF FreeingView
    <2>3. f \in A
      <3>1. f = front(mem, cur) /\ n = next(mem, cur) /\ k = SetNext(mem, p, n) /\ f # NULL
        BY <1>1
      <3> HIDE DEF f, n, k
      <3>2. MergeTarget(mem, k, B, D, p, cur, f)
        BY <1>3, <3>1, MergedInto
      <3> QED
        BY <3>2 DEF MergeTarget
    <2> QED
      BY <1>3, <2>2, <2>3
  <1>5. front(m, cur) = f
    <2>1. m = SetNext(mem, f, n)
      OBVIOUS
    <2> HIDE DEF m, n, A
    <2>2. front(m, cur) = front(mem, cur)
      BY <1>4, <2>1, NextAt
    <2> QED
      BY <2>2
  <1>6. mem' = SetFront(SetNext(mem, f, n), n, f) /\ cur' = f
    BY <1>1, <1>5
  <1>7. f = front(mem, cur) /\ n = next(mem, cur)
    OBVIOUS
  <1> HIDE DEF f, n, m, k, A
  <1>8. /\ OnlyInHeaders(mem, mem', B \cup D \cup {End})
        /\ \E B2, D2 : \E q \in B2 : Freeing(mem', f, live, B2, D2, q)
    BY <1>1, <1>3, <1>6, <1>7, BackStep
  <1>9. mem' \in Mem
    BY <1>8 DEF Freeing
  <1>10. Kept
    BY <1>4, <1>8, KeptOutside DEF Kept
  <1> QED
    BY <1>1, <1>6, <1>8, <1>9, <1>10 DEF PmmInv

LEMMA BackDoneInv ==
    ASSUME PmmInv, BackDone
    PROVE  PmmInv' /\ Kept
  <1>1. /\ pc = "back" /\ front(mem, cur) # NULL /\ inuse(mem, front(mem, cur)) # 0
        /\ pc' = "forward" /\ UNCHANGED <<mem, memory_head, live, cur>>
    BY DEF BackDone
  <1>2. PICK B, D : \E p \in B : Freeing(mem, cur, live, B, D, p)
    BY <1>1 DEF PmmInv
  <1>3. PICK p \in B : Freeing(mem, cur, live, B, D, p)
    BY <1>2
  <1>4. Sound(mem, B, D, live) /\ cur \in B /\ inuse(mem, cur) = 0 /\ NoPair(mem, B \ {cur})
    BY <1>1, <1>3, BackEnds
  <1>5. Listed(B, D)'
    BY <1>1, <1>4 DEF Listed
  <1> QED
    BY <1>1, <1>5 DEF PmmInv, Kept

LEMMA BackAtHeadInv ==
    ASSUME PmmInv, BackAtHead
    PROVE  PmmInv' /\ Kept
  <1> DEFINE n == next(mem, cur)
  <1>1. /\ pc = "back" /\ front(mem, cur) = NULL /\ memory_head' = Start /\ cur' = Start
        /\ mem' = SetInuse(SetFront(SetFront(SetNext(mem, Start, n), Start, NULL), n, Start), Start, 0)
        /\ pc' = "forward" /\ live' = live
    BY DEF BackAtHead
  <1>2. PICK B, D : \E p \in B : Freeing(mem, cur, live, B, D, p)
    BY <1>1 DEF PmmInv
  <1>3. PICK p \in B : Freeing(mem, cur, live, B, D, p)
    BY <1>2
  <1>4. n = next(mem, cur)
    OBVIOUS
  <1> HIDE DEF n
  <1>5. /\ mem' \in Mem /\ Sound(mem', B, D, live) /\ Start \in B /\ inuse(mem', Start) = 0
        /\ NoPair(mem', B \ {Start}) /\ Sound(mem, B, D, live)
        /\ OnlyInHeaders(mem, mem', B \cup D \cup {End})
    BY <1>1, <1>3, <1>4, BackEndsAtHead
  <1>6. Listed(B, D)'
    BY <1>1, <1>5 DEF Listed
  <1>7. Kept
    BY <1>5, KeptOutside DEF Kept
  <1> QED
    BY <1>1, <1>5, <1>6, <1>7 DEF PmmInv

LEMMA ForwardInv ==
    ASSUME PmmInv, MergeForward
    PROVE  PmmInv' /\ Kept
  <1> DEFINE n == next(mem, cur)
  <1>1. /\ pc = "forward" /\ n # End /\ inuse(mem, n) = 0 /\ mem' = SetNext(SetFront(mem, n, cur), cur, next(SetFront(mem, n, cur), n))
        /\ UNCHANGED <<memory_head, live, pc, cur>>
    BY DEF MergeForward, FreeBehind
  <1>2. PICK B, D : Listed(B, D)
    BY <1>1 DEF PmmInv
  <1>3. /\ Sound(mem, B, D, live) /\ cur \in B /\ inuse(mem, cur) = 0 /\ NoPair(mem, B \ {cur})
        /\ mem \in Mem
    BY <1>1, <1>2 DEF Listed, PmmInv
  <1>4. n = next(mem, cur)
    OBVIOUS
  <1> HIDE DEF n
  <1>5. /\ mem' \in Mem /\ Sound(mem', B \ {n}, D \cup {n}, live) /\ cur \in B \ {n}
        /\ inuse(mem', cur) = 0 /\ NoPair(mem', (B \ {n}) \ {cur})
        /\ OnlyInHeaders(mem, mem', B \cup D \cup {End})
    <2>1. MergedForward(mem, cur, n, mem')
      BY <1>1, <1>4 DEF MergedForward
    <2> QED
      BY <1>3, <2>1, ForwardStep
  <1>6. \E B2, D2 : Listed(B2, D2)'
    <2>1. PICK B2, D2 : /\ Sound(mem', B2, D2, live) /\ cur \in B2
                        /\ NoPair(mem', B2 \ {cur})
      BY <1>5
    <2>2. Listed(B2, D2)'
      BY <1>1, <1>5, <2>1 DEF Listed
    <2> QED
      BY <2>2
  <1>7. Kept
    BY <1>3, <1>5, KeptOutside DEF Kept
  <1> QED
    BY <1>1, <1>5, <1>6, <1>7 DEF PmmInv

LEMMA FreeDoneInv ==
    ASSUME PmmInv, FreeDone
    PROVE  PmmInv' /\ Kept
  <1>1. pc = "forward" /\ ~FreeBehind /\ pc' = "idle" /\ UNCHANGED <<mem, memory_head, live>>
    BY DEF FreeDone
  <1>2. PICK B, D : Listed(B, D)
    BY <1>1 DEF PmmInv
  <1>3. Sound(mem, B, D, live) /\ cur \in B /\ NoPair(mem, B \ {cur})
    BY <1>1, <1>2 DEF Listed
  <1>4. NoPair(mem, B)
    <2>1. next(mem, cur) # End => inuse(mem, next(mem, cur)) = 1
      <3>1. next(mem, cur) # End => inuse(mem, next(mem, cur)) # 0
        BY <1>1 DEF FreeBehind
      <3>2. next(mem, cur) # End => inuse(mem, next(mem, cur)) \in {0, 1}
        BY <1>3 DEF Sound, Chain
      <3> QED
        BY <3>1, <3>2
    <2> QED
      BY <1>3, <2>1 DEF NoPair
  <1>5. Listed(B, D)'
    BY <1>1, <1>3, <1>4 DEF Listed
  <1> QED
    BY <1>1, <1>5 DEF PmmInv, Kept

(* After a grant behind the heap nothing is claimed any more.              *)
LEMMA ExhaustedInv ==
    ASSUME Place, Exhausted
    PROVE  PmmInv'
  BY DEF Place, PlaceInside, PlaceAtHead, PlaceAtStart, Return, PmmInv

(* A grant from the list, in each of the three places.                     *)
LEMMA PlaceInv ==
    ASSUME PmmInv, Place, ~Exhausted, HeadStays
    PROVE  /\ PmmInv' /\ Kept
           /\ \E B, D : Gap(B, D, allocaddr(blockit, size))
  <1> DEFINE a == allocaddr(blockit, size)
             x == blockit
             n == next(mem, x)
  <1>1. Found /\ pc = "search" /\ Fits(blockit)
    BY DEF Place, PlaceInside, PlaceAtHead, PlaceAtStart, Found
  <1>2. PICK B, D : Listed(B, D)
    BY <1>1 DEF PmmInv
  <1>3. mem \in Mem /\ Sound(mem, B, D, live) /\ NoPair(mem, B) /\ size \in Sizes /\ x \in B \cup {End}
    BY <1>1, <1>2 DEF PmmInv, Listed
  <1>4. Gap(B, D, a)
    BY <1>1, <1>3, FoundGap
  <1>5. Return(a)
    BY DEF Place, PlaceInside, PlaceAtHead, PlaceAtStart
  <1>6. live' = live \cup {Granted} /\ pc' = "idle"
    BY <1>5 DEF Return, Granted
  <1>6a. memory_head = Start
    BY <1>1 DEF PmmInv
  <1>7. x \in B /\ inuse(mem, x) = 0 /\ n \in B \cup {End}
    <2>1. x \in B /\ inuse(mem, x) = 0
      BY <1>4, GapNumbers
    <2> QED
      BY <1>3, <2>1 DEF Sound, Chain
  <1>8. \A r \in live : \A i \in Region(r) :
            /\ i \in Addresses /\ i \in Int
            /\ \A p \in B : i < p \/ p + H <= i
            /\ i < x \/ n <= i
            /\ i < n \/ n + H <= i
    BY <1>3, <1>7, RegionsOutside
  <1>9. x \in Int /\ n \in Int /\ x <= n
    <2>1. x \in Nat /\ n \in Nat /\ x + H <= a /\ a + size <= n /\ a \in Nat /\ size \in Nat
      BY <1>4, GapNumbers
    <2> HIDE DEF a, x, n
    <2> QED
      BY <2>1 DEF H
  <1>10. \A r \in live : \A i \in Region(r) : i < x \/ n + H <= i
    BY <1>8, <1>9
  <1>11. Granting(mem') /\ memory_head' = Start /\ \A r \in live : \A i \in Region(r) : mem'[i] = mem[i]
    <2>1. ASSUME OnlyIn(mem, mem', x, n + H - 1)
          PROVE  \A r \in live : \A i \in Region(r) : mem'[i] = mem[i]
      <3> SUFFICES ASSUME NEW r \in live, NEW i \in Region(r) PROVE mem'[i] = mem[i]
        OBVIOUS
      <3>1. i \in Addresses /\ (i < x \/ n + H - 1 < i)
        BY <1>8, <1>9, <1>10 DEF H
      <3> QED
        BY <2>1, <3>1 DEF OnlyIn
    <2>2. CASE PlaceInside
      <3>1. memory_head' = Start
        BY <1>6a, <2>2 DEF PlaceInside
      <3> QED
        BY <1>4, <2>1, <2>2, <3>1, InsideStep
    <2>3. CASE PlaceAtHead
      BY <1>4, <2>1, <2>3, HeadStep
    <2>4. CASE PlaceAtStart
      <3>1. memory_head' = Start
        BY <1>6a, <2>4 DEF PlaceAtStart
      <3>2. /\ Granting(mem')
            /\ \E p \in B : \A i \in Addresses :
                   /\ i < p \/ p + H <= i
                   /\ i < x \/ n + H <= i
                   => mem'[i] = mem[i]
        BY <1>4, <2>4, StartStep
      <3> QED
        BY <1>8, <1>10, <3>1, <3>2
    <2> QED
      BY <2>2, <2>3, <2>4 DEF Place
  <1>12. PICK B2, D2 : Sound(mem', B2, D2, live \cup {Granted}) /\ NoPair(mem', B2)
    BY <1>11 DEF Granting
  <1>13. Listed(B2, D2)'
    BY <1>6, <1>12 DEF Listed
  <1>14. PmmInv'
    BY <1>6, <1>11, <1>13 DEF PmmInv, Granting
  <1>15. Kept
    BY <1>11 DEF Kept
  <1> QED
    BY <1>4, <1>14, <1>15

LEMMA ManagerInv ==
    ASSUME PmmInv, Manager, HeadStays
    PROVE  PmmInv' /\ (~Exhausted => Kept)
  BY SearchInv, PlaceInv, ExhaustedInv, MergeBackInv, BackDoneInv, BackAtHeadInv, ForwardInv, FreeDoneInv DEF Manager

LEMMA NextInv ==
    ASSUME PmmInv, [Next]_vars, HeadStays
    PROVE  PmmInv'
  <1>1. CASE UNCHANGED vars
    BY <1>1 DEF PmmInv, Listed, Fits, vars
  <1>2. CASE \E s \in Sizes : AllocCall(s)
    BY <1>2, AllocCallInv
  <1>3. CASE \E r \in live : FreeCall(r) \/ Clear(r)
    BY <1>3, FreeCallInv, ClearInv
  <1>4. CASE Manager
    BY <1>4, ManagerInv
  <1> QED
    BY <1>1, <1>2, <1>3, <1>4 DEF Next

(* For every heap and all sizes that leave the header of the first block   *)
(* in its place, neither pmm_free nor a pmm_alloc that has found a block   *)
(* writes a word of the memory that clients are using.                     *)
THEOREM MemoryKept ==
    ASSUME HeadStays
    PROVE  Spec => ClientMemoryKept
  <1>1. Init => PmmInv
    BY InitInv
  <1>2. PmmInv /\ [Next]_vars => PmmInv'
    BY NextInv
  <1>3. PmmInv /\ [Next]_vars =>
            [Manager /\ ~Exhausted => \A r \in live \cap live' : \A a \in Region(r) : mem'[a] = mem[a]]_vars
    BY ManagerInv DEF Kept
  <1> QED
    BY <1>1, <1>2, <1>3, PTL DEF Spec, ClientMemoryKept

-----------------------------------------------------------------------------
(* Induction: a set that 0 is in and that no successor leaves is Nat.      *)
LEMMA SetInduction ==
    ASSUME NEW S, 0 \in S, \A n \in Nat : n \in S => n + 1 \in S
    PROVE  \A n \in Nat : n \in S
  <1> DEFINE T == Nat \ S
             Less == {r \in Nat \X Nat : r[1] < r[2]}
  <1> SUFFICES ASSUME T # {} PROVE FALSE
    OBVIOUS
  <1>1. IsWellFoundedOn(Less, Nat)
    <2>1. IsWellFoundedOn(OpToRel(<, Nat), Nat)
      BY NatLessThanWellFounded
    <2>2. OpToRel(<, Nat) = Less
      BY DEF OpToRel
    <2> QED
      BY <2>1, <2>2
  <1>2. PICK n \in T : \A y \in T : ~(<<y, n>> \in Less)
    <2>1. T \subseteq Nat
      OBVIOUS
    <2> HIDE DEF T, Less
    <2> QED
      BY <1>1, <2>1, WFMin
  <1>3. n \in Nat /\ n \notin S /\ n # 0
    BY <1>2
  <1>4. n - 1 \in Nat /\ (n - 1) + 1 = n /\ n - 1 < n
    BY <1>3
  <1>5. n - 1 \notin T
    BY <1>2, <1>4
  <1> QED
    BY <1>3, <1>4, <1>5

(* One more step along the list, which Reached takes from n to n + 1.      *)
Further(R) == R \cup {next(mem, b) : b \in {c \in R : c # End}}

IsReached(k, g) == g = [i \in 0..k |-> IF i = 0 THEN {memory_head} ELSE Further(g[i - 1])]

LEMMA SomeReached ==
    \A k \in Nat : \E g : IsReached(k, g)
  <1> DEFINE S == {k \in Nat : \E g : IsReached(k, g)}
  <1>1. 0 \in S
    <2>1. IsReached(0, [i \in 0..0 |-> {memory_head}])
      BY DEF IsReached
    <2> QED
      BY <2>1
  <1>2. ASSUME NEW k \in Nat, k \in S PROVE k + 1 \in S
    <2>1. PICK g : IsReached(k, g)
      BY <1>2
    <2> DEFINE h == [i \in 0..(k + 1) |-> IF i = k + 1 THEN Further(g[k]) ELSE g[i]]
    <2>2. ASSUME NEW i \in 0..(k + 1)
          PROVE  h[i] = IF i = 0 THEN {memory_head} ELSE Further(h[i - 1])
      <3>1. CASE i = k + 1
        <4>1. i # 0 /\ i - 1 = k /\ k \in 0..(k + 1) /\ k # k + 1
          BY <3>1
        <4>2. h[k] = g[k]
          BY <4>1
        <4>3. h[i] = Further(g[k])
          BY <3>1
        <4> QED
          BY <4>1, <4>2, <4>3
      <3>2. CASE i \in 0..k
        <4>1. g[i] = IF i = 0 THEN {memory_head} ELSE Further(g[i - 1])
          BY <2>1, <3>2 DEF IsReached
        <4>2. h[i] = g[i]
          BY <3>2
        <4>3. i # 0 => h[i - 1] = g[i - 1]
          BY <3>2
        <4> QED
          BY <4>1, <4>2, <4>3
      <3> QED
        BY <3>1, <3>2
    <2>3. h = [i \in 0..(k + 1) |-> h[i]]
      OBVIOUS
    <2> HIDE DEF h
    <2>4. IsReached(k + 1, h)
      BY <2>2, <2>3 DEF IsReached
    <2> QED
      BY <2>4
  <1> HIDE DEF S
  <1>3. \A k \in Nat : k \in S
    BY <1>1, <1>2, SetInduction
  <1> QED
    BY <1>3 DEF S

(* There is a function with the equation of Reached: each value is the     *)
(* last one of the steps so far, which are the same in longer runs.        *)
LEMMA ReachedSteps ==
    /\ Reached[0] = {memory_head}
    /\ \A n \in Nat : Reached[n + 1] = Further(Reached[n])
  <1> DEFINE G(k) == CHOOSE g : IsReached(k, g)
             r == [n \in Nat |-> G(n)[n]]
             IsAll(f) == f = [n \in Nat |-> IF n = 0 THEN {memory_head} ELSE Further(f[n - 1])]
  <1>1. \A k \in Nat : IsReached(k, G(k))
    BY SomeReached
  <1> HIDE DEF G
  <1>2. ASSUME NEW k \in Nat, NEW i \in 0..k
        PROVE  G(k)[i] = IF i = 0 THEN {memory_head} ELSE Further(G(k)[i - 1])
    BY <1>1, <1>2 DEF IsReached
  <1>3. ASSUME NEW k \in Nat PROVE G(k + 1)[k] = G(k)[k]
    <2> DEFINE T == {i \in Nat : i <= k => G(k + 1)[i] = G(k)[i]}
    <2>1. 0 \in T
      <3>1. G(k)[0] = {memory_head} /\ G(k + 1)[0] = {memory_head}
        <4>1. 0 \in 0..k /\ 0 \in 0..(k + 1) /\ k + 1 \in Nat
          OBVIOUS
        <4> QED
          BY <1>2, <4>1
      <3> QED
        BY <3>1
    <2>2. ASSUME NEW i \in Nat, i \in T PROVE i + 1 \in T
      <3> SUFFICES ASSUME i + 1 <= k PROVE G(k + 1)[i + 1] = G(k)[i + 1]
        OBVIOUS
      <3>1. i + 1 \in 0..k /\ i + 1 \in 0..(k + 1) /\ k + 1 \in Nat /\ i + 1 # 0 /\ (i + 1) - 1 = i
        OBVIOUS
      <3>2. G(k)[i + 1] = Further(G(k)[i])
        BY <1>2, <3>1
      <3>3. G(k + 1)[i + 1] = Further(G(k + 1)[i])
        BY <1>2, <3>1
      <3> QED
        BY <2>2, <3>2, <3>3
    <2>3. \A i \in Nat : i \in T
      <3> HIDE DEF T
      <3> QED
        BY <2>1, <2>2, SetInduction
    <2> QED
      BY <2>3
  <1>4. IsAll(r)
    <2>1. ASSUME NEW n \in Nat
          PROVE  r[n] = IF n = 0 THEN {memory_head} ELSE Further(r[n - 1])
      <3>1. CASE n = 0
        <4>1. 0 \in 0..0
          OBVIOUS
        <4> QED
          BY <1>2, <3>1, <4>1
      <3>2. CASE n # 0
        <4>1. n - 1 \in Nat /\ (n - 1) + 1 = n /\ n \in 0..n
          BY <3>2
        <4>2. G(n)[n] = Further(G(n)[n - 1])
          BY <1>2, <3>2, <4>1
        <4>3. G(n)[n - 1] = G(n - 1)[n - 1]
          BY <1>3, <4>1
        <4> QED
          BY <3>2, <4>1, <4>2, <4>3
      <3> QED
        BY <3>1, <3>2
    <2>2. r = [n \in Nat |-> r[n]]
      OBVIOUS
    <2> HIDE DEF r
    <2> QED
      BY <2>1, <2>2
  <1>5. IsAll(Reached)
    <2>1. Reached = CHOOSE f : IsAll(f)
      BY DEF Reached, Further
    <2> HIDE DEF IsAll, r
    <2> QED
      BY <1>4, <2>1
  <1>6. ASSUME NEW n \in Nat
        PROVE  Reached[n] = IF n = 0 THEN {memory_head} ELSE Further(Reached[n - 1])
    BY <1>5
  <1>7. \A n \in Nat : n + 1 \in Nat /\ n + 1 # 0 /\ (n + 1) - 1 = n
    OBVIOUS
  <1> QED
    BY <1>6, <1>7

(* The list has no more than (End - Start) \div H blocks, so that Reached  *)
(* gets to all of them.                                                    *)
LEMMA BlocksListed ==
    ASSUME NEW B, Chain(mem, B), memory_head = Start
    PROVE  Blocks = B
  <1> DEFINE N == (End - Start) \div H
             S == {n \in Nat : /\ Reached[n] \subseteq B \cup {End}
                               /\ \A b \in B : b <= Start + 3 * n => b \in Reached[n]}
  <1>1. /\ Start \in B /\ Start \in Nat /\ End \in Nat /\ Start + 3 < End
        /\ \A b \in B : b \in Nat /\ Start <= b /\ b < End /\ b # End
    BY HeapNat DEF Chain
  <1>2. \A b \in B : /\ next(mem, b) \in B \cup {End} /\ next(mem, b) \in Nat
                     /\ b + 3 < next(mem, b) /\ next(mem, b) <= End
    <2>1. \A b \in B : next(mem, b) \in B \cup {End} /\ b + 3 < next(mem, b)
      BY DEF Chain, H
    <2>2. \A x \in B \cup {End} : x \in Nat /\ x <= End
      BY <1>1
    <2> QED
      BY <2>1, <2>2
  <1>3. N \in Nat /\ \A b \in B : b <= Start + 3 * N
    <2>1. /\ End - Start \in Nat /\ N \in Nat /\ 3 * N + 3 > End - Start
      BY <1>1 DEF H
    <2>2. \A b \in B : b + 3 < End
      BY <1>1, <1>2
    <2> HIDE DEF N
    <2> QED
      BY <1>1, <2>1, <2>2
  <1>4. 0 \in S
    BY <1>1, ReachedSteps
  <1>5. ASSUME NEW n \in Nat, n \in S PROVE n + 1 \in S
    <2>1. Reached[n + 1] = Further(Reached[n])
      BY ReachedSteps
    <2>2. Reached[n + 1] \subseteq B \cup {End}
      <3>1. \A c \in Reached[n] : c # End => c \in B
        BY <1>5
      <3> QED
        BY <1>2, <1>5, <2>1, <3>1 DEF Further
    <2>3. ASSUME NEW b \in B, b <= Start + 3 * (n + 1) PROVE b \in Reached[n + 1]
      <3>1. CASE b = Start
        <4>1. Start <= Start + 3 * n
          BY <1>1
        <4>2. b \in Reached[n]
          BY <1>5, <3>1, <4>1
        <4> QED
          BY <2>1, <4>2 DEF Further
      <3>2. CASE b # Start
        <4>1. PICK p \in B : next(mem, p) = b
          BY <3>2 DEF Chain
        <4>2. p <= Start + 3 * n
          BY <1>1, <1>2, <2>3, <4>1
        <4>3. p \in Reached[n] /\ p # End
          BY <1>1, <1>5, <4>2
        <4> QED
          BY <2>1, <4>1, <4>3 DEF Further
      <3> QED
        BY <3>1, <3>2
    <2> QED
      BY <2>2, <2>3
  <1>6. N \in S
    <2>1. \A n \in Nat : n \in S
      <3> HIDE DEF S
      <3> QED
        BY <1>4, <1>5, SetInduction
    <2> HIDE DEF S
    <2> QED
      BY <1>3, <2>1
  <1>7. Blocks = Reached[N] \ {End}
    BY DEF Blocks
  <1> HIDE DEF N
  <1>8. Reached[N] \subseteq B \cup {End} /\ B \subseteq Reached[N]
    BY <1>3, <1>6
  <1> QED
    BY <1>1, <1>7, <1>8

-----------------------------------------------------------------------------
(* What is granted from the list was part of a free block.                 *)
LEMMA GrantInHeap ==
    ASSUME PmmInv, Place, ~Exhausted, HeadStays
    PROVE  /\ Region(Granted) \subseteq Start..(End - 1)
           /\ \E b \in Blocks : Fits(b)
           /\ Granted.ptr % RoundUp(size) = 0
           /\ \A r \in live : Region(r) \cap Region(Granted) = {}
  <1> DEFINE a == allocaddr(blockit, size)
             x == blockit
             n == next(mem, x)
  <1>1. PICK B, D : Gap(B, D, a)
    BY PlaceInv
  <1>2. /\ x \in Nat /\ n \in Nat /\ a \in Nat /\ size \in Nat /\ size > 0
        /\ Start <= x /\ n <= End /\ x + H <= a /\ a + size <= n
        /\ x \in B /\ inuse(mem, x) = 0 /\ Sound(mem, B, D, live)
        /\ Granted.ptr = a /\ Granted.size = size /\ size \in Sizes
    BY <1>1, GapNumbers
  <1>3. a % RoundUp(size) = 0
    BY <1>2, Aligned
  <1> HIDE DEF a, x, n
  <1>4. \A i \in Region(Granted) : i \in Int /\ Start <= i /\ i < End /\ x <= i /\ i < n
    BY <1>2, HeapNat DEF Region, H
  <1>5. ASSUME NEW r \in live, NEW i \in Region(r) PROVE i \notin Region(Granted)
    <2>1. i \in Int /\ (i < x \/ n <= i)
      BY <1>2, RegionsOutside DEF n
    <2> QED
      BY <1>2, <1>4, <2>1
  <1>6. Region(Granted) \subseteq Start..(End - 1)
    BY <1>4, HeapNat
  <1>7. \E b \in Blocks : Fits(b)
    <2>1. memory_head = Start /\ Fits(x)
      BY DEF Place, PlaceInside, PlaceAtHead, PlaceAtStart, Found, PmmInv, x
    <2>2. Blocks = B
      BY <1>2, <2>1, BlocksListed DEF Sound
    <2> QED
      BY <1>2, <2>1, <2>2
  <1> QED
    BY <1>2, <1>3, <1>5, <1>6, <1>7

(* What is granted although no block of the list is large enough lies      *)
(* behind the heap.                                                        *)
LEMMA GrantBehindHeap ==
    ASSUME PmmInv, Place, Exhausted
    PROVE  /\ ~(Region(Granted) \subseteq Start..(End - 1))
           /\ ~(\E b \in Blocks : Fits(b))
           /\ Granted.ptr % RoundUp(size) = 0
           /\ \A r \in live : Region(r) \cap Region(Granted) = {}
  <1> DEFINE a == allocaddr(End, size)
  <1>1. pc = "search" /\ blockit = End
    BY DEF Place, PlaceInside, PlaceAtHead, PlaceAtStart, Found, Exhausted
  <1>2. PICK B, D : Listed(B, D)
    BY <1>1 DEF PmmInv
  <1>3. /\ Sound(mem, B, D, live) /\ size \in Sizes /\ memory_head = Start
        /\ \A b \in B : b < End => ~Fits(b)
    BY <1>1, <1>2 DEF Listed, PmmInv
  <1>4. size \in Nat /\ size > 0
    <2>1. size \in Nat /\ size # 0
      BY <1>3, SizesAssumption
    <2> QED
      BY <2>1
  <1>5. a \in Nat /\ End + H <= a /\ a % RoundUp(size) = 0
    BY <1>3, HeapNat, Aligned
  <1>6. Granted.ptr = a /\ Granted.size = size
    BY <1>1 DEF Granted
  <1> HIDE DEF a
  <1>7. \A i \in Region(Granted) : i \in Int /\ End <= i
    BY <1>4, <1>5, <1>6, HeapNat DEF Region, H
  <1>8. a \in Region(Granted)
    BY <1>4, <1>5, <1>6 DEF Region
  <1>9. ~(Region(Granted) \subseteq Start..(End - 1))
    BY <1>7, <1>8, HeapNat
  <1>10. ~(\E b \in Blocks : Fits(b))
    <2>1. Chain(mem, B)
      BY <1>3 DEF Sound
    <2>2. Blocks = B
      BY <1>3, <2>1, BlocksListed
    <2>3. \A b \in B : b < End
      BY <2>1, HeapNat DEF Chain
    <2> QED
      BY <1>3, <2>2, <2>3
  <1>11. ASSUME NEW r \in live, NEW i \in Region(r) PROVE i \notin Region(Granted)
    <2>1. i \in Addresses /\ (i < End \/ End + H <= i)
      BY <1>3, RegionsOutside
    <2>2. i < End
      BY <2>1, HeapNat DEF Addresses, H
    <2> QED
      BY <1>7, <2>1, <2>2, HeapNat
  <1> QED
    BY <1>5, <1>6, <1>9, <1>10, <1>11

(* For every heap and all sizes that leave the header of the first block   *)
(* in its place, pmm_alloc grants aligned memory of which no client is     *)
(* using a word, and memory of the heap whenever some block of the list is *)
(* large enough for it; if there is none, it grants memory behind the heap *)
(* instead of returning NULL.                                              *)
THEOREM Freshness ==
    ASSUME HeadStays
    PROVE  Spec => FreshMemory
  <1>1. Init => PmmInv
    BY InitInv
  <1>2. PmmInv /\ [Next]_vars => PmmInv'
    BY NextInv
  <1>3. PmmInv /\ [Next]_vars =>
            [Place => /\ Region(Granted) \subseteq Start..(End - 1) <=> \E b \in Blocks : Fits(b)
                      /\ Granted.ptr % RoundUp(size) = 0
                      /\ \A r \in live : Region(r) \cap Region(Granted) = {}]_vars
    BY GrantInHeap, GrantBehindHeap
  <1> QED
    BY <1>1, <1>2, <1>3, PTL DEF Spec, FreshMemory

(* The locals of the calls are in their ranges, and cur is set in pmm_free *)
(* only.                                                                   *)
Locals ==
    /\ size \in Sizes \cup {0}
    /\ blockit \in Header \cup {NULL}
    /\ pc \notin {"back", "forward"} => cur = NULL

LEMMA LocalsStep ==
    ASSUME PmmInv, Locals, [Next]_vars
    PROVE  Locals'
  <1>1. CASE UNCHANGED vars
    BY <1>1 DEF Locals, vars
  <1>2. ASSUME NEW s \in Sizes, AllocCall(s) PROVE Locals'
    <2>1. memory_head \in Header
      BY <1>2, HeapNat DEF AllocCall, PmmInv, Header
    <2> QED
      BY <1>2, <2>1 DEF AllocCall, Locals
  <1>3. ASSUME NEW r \in live, FreeCall(r) \/ Clear(r) PROVE Locals'
    BY <1>3 DEF FreeCall, Clear, Locals
  <1>4. CASE Search
    <2>1. pc = "search" /\ blockit # End /\ blockit' = next(mem, blockit)
          /\ UNCHANGED <<pc, size, cur>>
      BY <1>4 DEF Search
    <2>2. PICK B, D : Listed(B, D)
      BY <2>1 DEF PmmInv
    <2>3. blockit \in B /\ next(mem, blockit) \in B \cup {End}
      BY <2>1, <2>2 DEF Listed, Sound, Chain
    <2>4. next(mem, blockit) \in Header
      BY <2>2, <2>3, Headers DEF Listed
    <2> QED
      BY <2>1, <2>4 DEF Locals
  <1>6. CASE Place
    <2>1. pc = "search" /\ size' = 0 /\ blockit' = NULL /\ cur' = cur
      BY <1>6 DEF Place, PlaceInside, PlaceAtHead, PlaceAtStart, Found, Return, Exhausted
    <2> QED
      BY <2>1 DEF Locals
  <1>7. CASE MergeBack \/ BackDone \/ BackAtHead \/ MergeForward
    BY <1>7 DEF MergeBack, BackDone, BackAtHead, MergeForward, Locals
  <1>8. CASE FreeDone
    BY <1>8 DEF FreeDone, Locals
  <1> QED
    BY <1>1, <1>2, <1>3, <1>4, <1>6, <1>7, <1>8 DEF Next, Manager

LEMMA TypesFollow ==
    ASSUME PmmInv, Locals
    PROVE  TypeOK
  <1>0. CASE pc = "off_heap"
    BY <1>0 DEF TypeOK, PmmInv, Locals, Header
  <1> SUFFICES ASSUME pc # "off_heap" PROVE TypeOK
    BY <1>0
  <1>1. live \subseteq [ptr : Header, size : Sizes] /\ cur \in Header \cup {NULL}
    <2>1. CASE pc = "back"
      <3>1. PICK B, D : \E p \in B : Freeing(mem, cur, live, B, D, p)
        BY <2>1 DEF PmmInv
      <3>2. PICK p \in B : Freeing(mem, cur, live, B, D, p)
        BY <3>1
      <3>3. Sound(SetNext(mem, p, next(mem, cur)), B, D, live) /\ cur \in {p} \cup D
        BY <3>2, FreeingFacts DEF FreeingView
      <3>4. cur \in Header
        BY <3>3, Headers
      <3> QED
        BY <3>3, <3>4 DEF Sound
    <2>2. CASE pc # "back"
      <3>1. PICK B, D : Listed(B, D)
        BY <2>2 DEF PmmInv
      <3>2. Sound(mem, B, D, live) /\ (pc = "forward" => cur \in B)
        BY <3>1 DEF Listed
      <3>3. \A c \in B : c \in Header
        BY <3>2, Headers
      <3> QED
        BY <2>2, <3>2, <3>3 DEF Sound, Locals
    <2> QED
      BY <2>1, <2>2
  <1>2. memory_head \in Header
    BY HeapNat DEF PmmInv, Header
  <1> QED
    BY <1>1, <1>2 DEF TypeOK, PmmInv, Locals, Mem, Header

LEMMA ListFollows ==
    ASSUME PmmInv
    PROVE  ListSound
  <1> SUFFICES ASSUME Quiet
               PROVE  /\ \A b \in Blocks : next(mem, b) \in (b + H + 1)..End
                      /\ {b \in Blocks : inuse(mem, b) = 1} = {r.ptr - H : r \in live}
                      /\ \A r \in live : r.ptr + r.size <= next(mem, r.ptr - H)
    BY DEF ListSound
  <1>0. pc # "off_heap" /\ pc # "back"
    BY DEF Quiet
  <1>1. PICK B, D : Listed(B, D)
    BY <1>0 DEF PmmInv
  <1>2. Sound(mem, B, D, live) /\ Chain(mem, B) /\ Clients(mem, B, live) /\ memory_head = Start
    BY <1>0, <1>1 DEF Listed, Sound, PmmInv
  <1>3. Blocks = B
    BY <1>2, BlocksListed
  <1>4. ASSUME NEW b \in B PROVE next(mem, b) \in (b + H + 1)..End
    <2>1. b \in Nat /\ next(mem, b) \in B \cup {End} /\ b + H < next(mem, b)
      BY <1>2, Headers DEF Chain
    <2>2. next(mem, b) \in Header
      BY <1>2, <2>1, Headers
    <2> QED
      BY <2>1, <2>2, HeapNat DEF Header, H
  <1>5. {b \in B : inuse(mem, b) = 1} = {r.ptr - H : r \in live}
    BY <1>2 DEF Clients
  <1>6. \A r \in live : r.ptr + r.size <= next(mem, r.ptr - H)
    BY <1>2 DEF Clients
  <1> QED
    BY <1>3, <1>4, <1>5, <1>6

LEMMA MergedFollows ==
    ASSUME PmmInv
    PROVE  Merged
  <1> SUFFICES ASSUME pc = "idle"
               PROVE  /\ \A b \in Blocks : inuse(mem, b) = 0 /\ next(mem, b) # End =>
                            inuse(mem, next(mem, b)) = 1
                      /\ live = {} => /\ Blocks = {Start} /\ front(mem, Start) = NULL
                                      /\ inuse(mem, Start) = 0
    BY DEF Merged
  <1>1. PICK B, D : Listed(B, D)
    BY DEF PmmInv
  <1>2. /\ Chain(mem, B) /\ Clients(mem, B, live) /\ memory_head = Start
        /\ NoPair(mem, B) /\ front(mem, Start) = NULL
    BY <1>1 DEF Listed, Sound, Fronts, PmmInv
  <1>3. Blocks = B
    BY <1>2, BlocksListed
  <1>4. ASSUME live = {} PROVE B = {Start} /\ inuse(mem, Start) = 0
    <2>1. \A b \in B : inuse(mem, b) = 0
      BY <1>2, <1>4 DEF Chain, Clients
    <2>2. Start \in B /\ next(mem, Start) \in B \cup {End}
      BY <1>2 DEF Chain
    <2>3. next(mem, Start) = End
      BY <1>2, <2>1, <2>2 DEF NoPair
    <2>4. \A c \in B : c \in Start..(End - 1) /\ (c <= Start \/ End <= c)
      BY <1>2, <2>2, <2>3 DEF Chain
    <2>5. \A c \in B : c = Start
      BY <2>4, HeapNat
    <2> QED
      BY <2>1, <2>2, <2>5
  <1> QED
    BY <1>2, <1>3, <1>4 DEF NoPair

LEMMA PmmInvariant ==
    ASSUME HeadStays
    PROVE  Spec => [](PmmInv /\ Locals)
  <1>1. Init => PmmInv /\ Locals
    BY InitInv DEF Init, Locals
  <1>2. PmmInv /\ Locals /\ [Next]_vars => (PmmInv /\ Locals)'
    BY NextInv, LocalsStep
  <1> QED
    BY <1>1, <1>2, PTL DEF Spec

(* For every heap and all sizes that leave the header of the first block   *)
(* in its place, the list that pmm_alloc walks runs upwards to the end of  *)
(* the heap, and its blocks in use are those of the clients, who have all  *)
(* they asked for inside of them.                                          *)
THEOREM HeapIsSound ==
    ASSUME HeadStays
    PROVE  Spec => []HeapInv
  <1>1. PmmInv /\ Locals => HeapInv
    BY TypesFollow, ListFollows DEF HeapInv
  <1> QED
    BY <1>1, PmmInvariant, PTL

(* Under the same condition, blocks freed in any order merge to what they  *)
(* were.                                                                   *)
THEOREM FreedMerges ==
    ASSUME HeadStays
    PROVE  Spec => []Merged
  <1>1. PmmInv /\ Locals => Merged
    BY MergedFollows
  <1> QED
    BY <1>1, PmmInvariant, PTL
=============================================================================
