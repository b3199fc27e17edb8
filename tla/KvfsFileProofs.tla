--------------------------- MODULE KvfsFileProofs ---------------------------
(***************************************************************************)
(* Proofs about KvfsFile, for any files, threads, memory and texts: the    *)
(* memory of files, appends, and that the calls implement WholeFile.       *)
(***************************************************************************)
EXTENDS KvfsFile, SequenceTheorems, TLAPS

(* The write of t makes its file longer.                                   *)
Longer(t) == open[t].pos + Len(word[t]) > size[open[t].file]

(* It has allocated memory for that, and it has freed the old.             *)
HasNew(t) == pc[t] = "move" \/ (pc[t] = "store" /\ Longer(t))
GaveOld(t) == pc[t] = "store" /\ Longer(t)

OpenInv == \A t \in Threads : open[t] = Closed \/ open[t].file \in Files

(* What a write knows at each of its steps.                                *)
CallInv ==
    \A t \in Threads :
       /\ pc[t] # "idle" => gate = t /\ open[t].file \in Files /\ word[t] \in Words
       /\ pc[t] \in {"alloc", "move", "store"} =>
             /\ "write" \in open[t].mode
             /\ "append" \in open[t].mode => open[t].pos = size[open[t].file]
       /\ pc[t] \in {"alloc", "move"} => Longer(t)
       /\ pc[t] \in {"idle", "start", "alloc"} => new[t] = NULL
       /\ pc[t] = "store" /\ ~Longer(t) => new[t] = start[open[t].file]

(* The new memory is nobody's yet, as long as the file will be, and zero   *)
(* behind what the file holds.                                             *)
NewInv ==
    \A t \in Threads : HasNew(t) =>
       /\ new[t] \in Blocks /\ heap[new[t]].used
       /\ Len(heap[new[t]].bytes) = open[t].pos + Len(word[t])
       /\ \A i \in (size[open[t].file] + 1)..Len(heap[new[t]].bytes) :
             heap[new[t]].bytes[i] = Zero
       /\ \A f \in Files : start[f] # new[t]

(* The memory of a file is its own and as long as the file, until a write  *)
(* has freed it; and all memory in use is the memory of a file, or new.    *)
MemInv ==
    /\ \A f \in Files :
       /\ extent[f] = size[f]
       /\ start[f] = NULL => size[f] = 0
       /\ start[f] # NULL =>
            /\ heap[start[f]].used <=> \A t \in Threads : GaveOld(t) => open[t].file # f
            /\ heap[start[f]].used => Len(heap[start[f]].bytes) = size[f]
    /\ \A f, g \in Files : start[f] = start[g] /\ start[f] # NULL => f = g
    /\ \A b \in Blocks : heap[b].used =>
          \/ \E f \in Files : start[f] = b
          \/ \E t \in Threads : HasNew(t) /\ new[t] = b

KvfsInv == TypeOK /\ OpenInv /\ CallInv /\ NewInv /\ MemInv

-----------------------------------------------------------------------------
(* Sequences.                                                              *)

LEMMA WordBytes == \A w \in Words : w \in Seq(Bytes) /\ Len(w) \in Nat
<1> QED BY WordsAssumption

LEMMA CopyFacts ==
    ASSUME NEW s \in Seq(Bytes), NEW at \in Nat, NEW w \in Seq(Bytes)
    PROVE  /\ Copy(s, at, w) \in Seq(Bytes)
           /\ Len(Copy(s, at, w)) = Len(s)
           /\ \A i \in 1..Len(s) :
                 Copy(s, at, w)[i] = IF i \in (at + 1)..(at + Len(w)) THEN w[i - at] ELSE s[i]
<1> DEFINE c == Copy(s, at, w)
<1>1. DOMAIN s = 1..Len(s) /\ DOMAIN w = 1..Len(w) /\ Len(s) \in Nat /\ Len(w) \in Nat
  OBVIOUS
<1>2. c = [i \in 1..Len(s) |-> IF i - at \in 1..Len(w) THEN w[i - at] ELSE s[i]]
  BY <1>1 DEF Copy
<1>3. \A i \in 1..Len(s) : c[i] = IF i \in (at + 1)..(at + Len(w)) THEN w[i - at] ELSE s[i]
  BY <1>1, <1>2
<1>4. \A i \in 1..Len(s) : c[i] \in Bytes
  BY <1>1, <1>2
<1>5. c \in Seq(Bytes) /\ Len(c) = Len(s)
  BY <1>1, <1>2, <1>4
<1> QED BY <1>3, <1>5

LEMMA ZeroFacts ==
    ASSUME NEW n \in Nat
    PROVE  /\ Zeros(n) \in Seq(Bytes)
           /\ Len(Zeros(n)) = n
           /\ \A i \in 1..n : Zeros(n)[i] = Zero
<1> QED BY DEF Zeros, Bytes

LEMMA FreeFacts == FreeBlock \in [used : BOOLEAN, bytes : Seq(Bytes)] /\ ~FreeBlock.used
<1>1. [i \in 1..MaxSize |-> Junk] \in Seq(Bytes)
  BY KvfsFileAssumption DEF Bytes
<1> QED BY <1>1 DEF FreeBlock

LEMMA MovedTo ==
    ASSUME TypeOK, NEW t \in Threads, NEW p \in Nat, open' = [open EXCEPT ![t].pos = p]
    PROVE  /\ open' \in [Threads -> OpenFile]
           /\ open' = [open EXCEPT ![t] = [file |-> open[t].file, pos |-> p, mode |-> open[t].mode]]
<1>1. open \in [Threads -> OpenFile]
  BY DEF TypeOK, OpenFile
<1> DEFINE o == [file |-> open[t].file, pos |-> p, mode |-> open[t].mode]
<1>2. open[t] \in OpenFile
  BY <1>1
<1>3. o \in OpenFile /\ [open[t] EXCEPT !.pos = p] = o
  BY <1>2 DEF OpenFile
<1>4. open' = [open EXCEPT ![t] = o]
  BY <1>3
<1> QED BY <1>1, <1>3, <1>4

LEMMA RecordSet ==
    ASSUME NEW A, NEW B, NEW h \in [used : A, bytes : B], NEW s
    PROVE  [h EXCEPT !.bytes = s] = [used |-> h.used, bytes |-> s]
<1> QED OBVIOUS

LEMMA BlockSet ==
    ASSUME TypeOK, NEW b \in Blocks, heap[b].used, NEW s \in Seq(Bytes)
    PROVE  /\ [heap EXCEPT ![b].bytes = s] = [heap EXCEPT ![b] = [used |-> TRUE, bytes |-> s]]
           /\ [heap EXCEPT ![b].bytes = s] \in [Blocks -> [used : BOOLEAN, bytes : Seq(Bytes)]]
<1> DEFINE r == [used |-> TRUE, bytes |-> s]
<1>1. heap \in [Blocks -> [used : BOOLEAN, bytes : Seq(Bytes)]]
  BY DEF TypeOK
<1>2. heap[b] \in [used : BOOLEAN, bytes : Seq(Bytes)]
  BY <1>1
<1>3. [heap[b] EXCEPT !.bytes = s] = r
  <2>1. heap[b].used = TRUE
    BY <1>2
  <2>2. [heap[b] EXCEPT !.bytes = s] = [used |-> heap[b].used, bytes |-> s]
    BY <1>2, RecordSet
  <2> QED BY <2>1, <2>2
<1>4. [heap EXCEPT ![b].bytes = s] = [heap EXCEPT ![b] = r]
  BY <1>3
<1>5. r \in [used : BOOLEAN, bytes : Seq(Bytes)]
  OBVIOUS
<1> QED BY <1>1, <1>4, <1>5

LEMMA PrefixFacts ==
    ASSUME NEW s \in Seq(Bytes), NEW n \in 0..Len(s)
    PROVE  /\ SubSeq(s, 1, n) \in Seq(Bytes)
           /\ Len(SubSeq(s, 1, n)) = n
           /\ \A i \in 1..n : SubSeq(s, 1, n)[i] = s[i]
<1> QED BY SubSeqProperties

-----------------------------------------------------------------------------
LEMMA InitInv == Init => KvfsInv
<1> SUFFICES ASSUME Init PROVE KvfsInv
  OBVIOUS
<1>1. TypeOK
  <2>1. Closed \in OpenFile
    BY DEF Closed, OpenFile
  <2> QED BY <2>1, FreeFacts DEF Init, TypeOK, OpenFile
<1>2. OpenInv /\ CallInv /\ NewInv /\ MemInv
  BY FreeFacts DEF Init, OpenInv, CallInv, NewInv, MemInv, HasNew, GaveOld
<1> QED BY <1>1, <1>2 DEF KvfsInv

(* Steps of a thread outside of a write: of all the state only its struct  *)
(* file changes, and what was read.                                        *)
LEMMA OutsideInv ==
    ASSUME KvfsInv, NEW t \in Threads, pc[t] = "idle",
           NEW o \in OpenFile,
           o = Closed \/ o.file \in Files,
           open' = [open EXCEPT ![t] = o], UNCHANGED <<callVars, fileVars>>,
           got' \in Seq(Bytes)
    PROVE  KvfsInv'
<1> USE DEF KvfsInv, callVars, fileVars
<1>1. TypeOK'
  BY DEF TypeOK, OpenFile
<1>2. OpenInv'
  BY DEF OpenInv, TypeOK
<1>3. \A u \in Threads : pc[u] # "idle" => open'[u] = open[u]
  BY DEF TypeOK
<1>4. CallInv'
  BY <1>3 DEF CallInv, Longer
<1>5. \A u \in Threads : (HasNew(u)' <=> HasNew(u)) /\ (GaveOld(u)' <=> GaveOld(u))
  BY <1>3 DEF HasNew, GaveOld, Longer
<1>6. NewInv'
  BY <1>3, <1>5 DEF NewInv, HasNew
<1>7. MemInv'
  BY <1>3, <1>5 DEF MemInv, GaveOld
<1> QED BY <1>1, <1>2, <1>4, <1>6, <1>7

(* With nobody in a write, a file is in memory as long as it is.           *)
LEMMA GateOpenFacts ==
    ASSUME KvfsInv, gate = NULL, NEW f \in Files
    PROVE  /\ \A t \in Threads : pc[t] = "idle"
           /\ size[f] \in Nat
           /\ start[f] = NULL => size[f] = 0
           /\ start[f] # NULL => InMemory(f) = heap[start[f]].bytes
           /\ start[f] # NULL => InMemory(f) \in Seq(Bytes) /\ Len(InMemory(f)) = size[f]
<1> USE DEF KvfsInv
<1>1. \A t \in Threads : pc[t] = "idle"
  BY KvfsFileAssumption DEF CallInv
<1>2. size[f] \in Nat /\ extent[f] = size[f] /\ (start[f] = NULL => size[f] = 0)
  BY DEF TypeOK, MemInv
<1>3. CASE start[f] # NULL
  <2>1. start[f] \in Blocks /\ heap[start[f]].bytes \in Seq(Bytes)
    BY <1>3 DEF TypeOK
  <2>2. Len(heap[start[f]].bytes) = size[f]
    BY <1>1, <1>3 DEF MemInv, GaveOld
  <2>3. SubSeq(heap[start[f]].bytes, 1, size[f]) = heap[start[f]].bytes
    BY <2>1, <2>2
  <2> QED BY <1>1, <1>2, <2>1, <2>2, <2>3 DEF InMemory
<1> QED BY <1>1, <1>2, <1>3

LEMMA ReadBytes ==
    ASSUME KvfsInv, gate = NULL, NEW f \in Files, NEW pos \in Nat, NEW n \in Nat
    PROVE  KvfsRead(f, pos, n) \in Seq(Bytes)
<1> DEFINE there == IF start[f] = NULL THEN <<>>
                    ELSE SubSeq(InMemory(f), pos + 1, Len(InMemory(f)))
<1>1. there \in Seq(Bytes)
  BY GateOpenFacts, SubSeqProperties
<1>2. n <= Len(there) => SubSeq(there, 1, n) \in Seq(Bytes)
  BY <1>1, PrefixFacts
<1>3. Append(there, Newline) \in Seq(Bytes)
  BY <1>1 DEF Bytes
<1> QED BY <1>2, <1>3 DEF KvfsRead

LEMMA OpenStepInv ==
    ASSUME KvfsInv, NEW t \in Threads, NEW f \in Files, NEW mode \in Modes, Open(t, f, mode)
    PROVE  KvfsInv'
<1> DEFINE o == [file |-> f, pos |-> 0, mode |-> mode]
<1>1. mode \in SUBSET {"write", "append"}
  BY KvfsFileAssumption
<1>2. o \in OpenFile
  BY <1>1 DEF OpenFile
<1>3. o.file \in Files /\ <<>> \in Seq(Bytes)
  OBVIOUS
<1> QED BY <1>2, <1>3, OutsideInv DEF Open

LEMMA CloseInv == ASSUME KvfsInv, NEW t \in Threads, Close(t) PROVE KvfsInv'
<1>1. Closed \in OpenFile
  BY DEF Closed, OpenFile
<1>2. <<>> \in Seq(Bytes)
  OBVIOUS
<1> QED BY <1>1, <1>2, OutsideInv DEF Close

LEMMA SeekInv ==
    ASSUME KvfsInv, NEW t \in Threads, NEW offset \in Offsets,
           NEW whence \in {"SET", "CUR", "END"}, Seek(t, offset, whence)
    PROVE  KvfsInv'
<1>1. PICK to \in 0..MaxSize : open' = [open EXCEPT ![t].pos = to]
  BY DEF Seek
<1> DEFINE o == [file |-> open[t].file, pos |-> to, mode |-> open[t].mode]
<1>2. to \in Nat
  BY KvfsFileAssumption
<1>3. open' = [open EXCEPT ![t] = o] /\ o \in OpenFile
  BY <1>1, <1>2, MovedTo DEF KvfsInv, TypeOK, OpenFile
<1>4. o.file \in Files
  BY DEF Seek, KvfsInv, OpenInv, TypeOK
<1>5. <<>> \in Seq(Bytes)
  OBVIOUS
<1> QED BY <1>3, <1>4, <1>5, OutsideInv DEF Seek

LEMMA ReadInv ==
    ASSUME KvfsInv, NEW t \in Threads, NEW n \in Counts, Read(t, n) PROVE KvfsInv'
<1> DEFINE o == open[t]
<1>1. open' = [open EXCEPT ![t] = o] /\ o.file \in Files
  BY DEF Read, KvfsInv, TypeOK, OpenInv
<1>2. o \in OpenFile
  BY DEF KvfsInv, TypeOK
<1>3. got' \in Seq(Bytes)
  <2>1. n \in Nat /\ o.pos \in Nat
    BY <1>2, KvfsFileAssumption DEF OpenFile
  <2> QED BY <1>1, <2>1, ReadBytes DEF Read
<1> QED BY <1>1, <1>2, <1>3, OutsideInv DEF Read

LEMMA WriteCallInv ==
    ASSUME KvfsInv, NEW t \in Threads, NEW w \in Words, WriteCall(t, w) PROVE KvfsInv'
<1> USE DEF KvfsInv, fileVars
<1>1. TypeOK'
  BY DEF TypeOK, WriteCall
<1>2. OpenInv'
  BY DEF OpenInv, WriteCall
<1>3. \A u \in Threads : pc[u] = "idle"
  BY KvfsFileAssumption DEF CallInv, WriteCall, GateOpen
<1>4. \A u \in Threads : ~HasNew(u)' /\ ~GaveOld(u)'
  BY <1>3 DEF HasNew, GaveOld, WriteCall, TypeOK
<1>5. CallInv'
  BY <1>3 DEF CallInv, WriteCall, OpenInv, TypeOK
<1>6. NewInv'
  BY <1>4 DEF NewInv
<1>7. MemInv'
  <2>1. \A u \in Threads : ~HasNew(u) /\ ~GaveOld(u)
    BY <1>3 DEF HasNew, GaveOld
  <2> QED BY <1>4, <2>1 DEF MemInv, WriteCall
<1> QED BY <1>1, <1>2, <1>5, <1>6, <1>7

-----------------------------------------------------------------------------
(* The steps of a write.                                                   *)

LEMMA Writer ==
    ASSUME KvfsInv, NEW t \in Threads, pc[t] # "idle"
    PROVE  /\ \A u \in Threads : u # t => pc[u] = "idle"
           /\ open[t].file \in Files /\ open[t].pos \in Nat
           /\ size[open[t].file] \in Nat
           /\ word[t] \in Seq(Bytes) /\ Len(word[t]) \in Nat
<1> USE DEF KvfsInv
<1>1. open[t].file \in Files /\ word[t] \in Words
  BY DEF CallInv
<1>2. \A u \in Threads : u # t => pc[u] = "idle"
  BY DEF CallInv
<1> QED BY <1>1, <1>2, WordBytes DEF TypeOK, OpenFile

LEMMA WriteStartInv == ASSUME KvfsInv, NEW t \in Threads, WriteStart(t) PROVE KvfsInv'
<1> DEFINE f == open[t].file
           p == Position(t)
<1> USE DEF KvfsInv, fileVars
<1>1. pc[t] = "start" /\ open' = [open EXCEPT ![t].pos = p] /\ UNCHANGED fileVars
  BY DEF WriteStart
<1>2. /\ \A u \in Threads : u # t => pc[u] = "idle"
      /\ f \in Files /\ size[f] \in Nat /\ Len(word[t]) \in Nat
      /\ p \in Nat /\ ("append" \in open[t].mode => p = size[f])
  BY <1>1, Writer DEF Position
<1>3. /\ open'[t].file = f /\ open'[t].pos = p /\ open'[t].mode = open[t].mode
      /\ \A u \in Threads : u # t => open'[u] = open[u]
  BY <1>1 DEF TypeOK, OpenFile
<1>4. \A u \in Threads : ~HasNew(u) /\ ~GaveOld(u)
  BY <1>1, <1>2 DEF HasNew, GaveOld
<1>5. new[t] = NULL
  BY <1>1 DEF CallInv
<1>6. TypeOK'
  <2>1. open' \in [Threads -> OpenFile]
    BY <1>1, <1>2, MovedTo
  <2>2. start[f] \in Blocks \cup {NULL}
    BY <1>2 DEF TypeOK
  <2>3. CASE Return(t)
    BY <1>1, <2>1, <2>3 DEF TypeOK, Return, WriteStart
  <2>4. CASE ~Return(t)
    <3>1. /\ pc' = [pc EXCEPT ![t] = "alloc"] \/ pc' = [pc EXCEPT ![t] = "store"]
          /\ new' = new \/ new' = [new EXCEPT ![t] = start[f]]
          /\ UNCHANGED <<gate, word>> /\ got' = <<>>
      BY <2>4 DEF WriteStart
    <3>2. pc' \in [Threads -> {"idle", "start", "alloc", "move", "store"}]
      BY <3>1 DEF TypeOK
    <3>3. new' \in [Threads -> Blocks \cup {NULL}]
      BY <2>2, <3>1 DEF TypeOK
    <3> QED BY <1>1, <2>1, <3>1, <3>2, <3>3 DEF TypeOK
  <2> QED BY <2>3, <2>4
<1>7. OpenInv'
  BY <1>2, <1>3 DEF OpenInv
<1>8. /\ \A u \in Threads : u # t => pc'[u] = "idle" /\ new'[u] = new[u]
      /\ \/ pc'[t] = "idle" /\ new'[t] = NULL
         \/ /\ "write" \in open[t].mode /\ gate' = gate /\ word' = word
            /\ \/ /\ pc'[t] = "alloc" /\ new'[t] = NULL
                  /\ p + Len(word[t]) > size[f]
               \/ /\ pc'[t] = "store" /\ new'[t] = start[f]
                  /\ ~(p + Len(word[t]) > size[f])
  BY <1>1, <1>2, <1>5 DEF WriteStart, Return, Grows, TypeOK
<1>9. CallInv'
  BY <1>1, <1>2, <1>3, <1>8 DEF CallInv, Longer
<1>10. \A u \in Threads : ~HasNew(u)' /\ ~GaveOld(u)'
  BY <1>1, <1>2, <1>3, <1>8 DEF HasNew, GaveOld, Longer
<1>11. NewInv'
  BY <1>10 DEF NewInv
<1>12. MemInv'
  BY <1>1, <1>4, <1>10 DEF MemInv
<1> QED BY <1>6, <1>7, <1>9, <1>11, <1>12

LEMMA WriteAllocInv == ASSUME KvfsInv, NEW t \in Threads, WriteAlloc(t) PROVE KvfsInv'
<1> DEFINE n == open[t].pos + Len(word[t])
<1> USE DEF KvfsInv
<1>1. PICK b \in Blocks :
         /\ ~heap[b].used
         /\ heap' = [heap EXCEPT ![b] = [used |-> TRUE, bytes |-> Zeros(n)]]
         /\ new' = [new EXCEPT ![t] = b]
  BY DEF WriteAlloc
<1>2. /\ pc[t] = "alloc" /\ pc' = [pc EXCEPT ![t] = "move"]
      /\ UNCHANGED <<gate, word, open, size, start, extent>> /\ got' = <<>>
  BY DEF WriteAlloc
<1>3. /\ \A u \in Threads : u # t => pc[u] = "idle"
      /\ n \in Nat
  BY <1>2, Writer
<1>4. Zeros(n) \in Seq(Bytes) /\ Len(Zeros(n)) = n /\ \A i \in 1..n : Zeros(n)[i] = Zero
  BY <1>3, ZeroFacts
<1>5. TypeOK'
  BY <1>1, <1>2, <1>4 DEF TypeOK
<1>6. OpenInv'
  BY <1>2 DEF OpenInv
<1>7. /\ pc'[t] = "move" /\ new'[t] = b
      /\ \A u \in Threads : u # t => pc'[u] = "idle" /\ new'[u] = new[u]
  BY <1>1, <1>2, <1>3 DEF TypeOK
<1>8. CallInv'
  BY <1>2, <1>3, <1>7 DEF CallInv, Longer
<1>9. \A u \in Threads : ~HasNew(u) /\ ~GaveOld(u) /\ ~GaveOld(u)' /\ (HasNew(u)' <=> u = t)
  BY <1>2, <1>3, <1>7 DEF HasNew, GaveOld
<1>10. \A f \in Files : start[f] # b
  BY <1>1, <1>9, KvfsFileAssumption DEF MemInv
<1>11. /\ heap'[b].used /\ heap'[b].bytes = Zeros(n)
       /\ \A c \in Blocks : c # b => heap'[c] = heap[c]
  BY <1>1 DEF TypeOK
<1>12. NewInv'
  <2>1. size[open[t].file] \in Nat
    BY <1>2, Writer
  <2> QED BY <1>2, <1>4, <1>7, <1>9, <1>10, <1>11, <2>1 DEF NewInv
<1>13. MemInv'
  <2>1. \A f \in Files : start[f] # NULL => heap'[start[f]] = heap[start[f]]
    BY <1>10, <1>11 DEF TypeOK
  <2> QED BY <1>2, <1>7, <1>9, <1>11, <2>1 DEF MemInv
<1> QED BY <1>5, <1>6, <1>8, <1>12, <1>13

LEMMA WriteMoveInv == ASSUME KvfsInv, NEW t \in Threads, WriteMove(t) PROVE KvfsInv'
<1> DEFINE f == open[t].file
           old == heap[start[f]]
           b == new[t]
           n == open[t].pos + Len(word[t])
           moved == Copy(heap[b].bytes, 0, SubSeq(old.bytes, 1, size[f]))
<1> USE DEF KvfsInv
<1>1. /\ pc[t] = "move" /\ pc' = [pc EXCEPT ![t] = "store"]
      /\ UNCHANGED <<gate, word, new, open, size, start, extent>> /\ got' = <<>>
  BY DEF WriteMove
<1>2. /\ \A u \in Threads : u # t => pc[u] = "idle"
      /\ f \in Files /\ size[f] \in Nat /\ n \in Nat
      /\ n > size[f]
  BY <1>1, Writer DEF CallInv, Longer
<1>3. /\ pc'[t] = "store"
      /\ \A u \in Threads : u # t => pc'[u] = "idle"
  BY <1>1, <1>2 DEF TypeOK
<1>4. /\ HasNew(t) /\ ~GaveOld(t) /\ HasNew(t)' /\ GaveOld(t)'
      /\ \A u \in Threads : u # t => ~HasNew(u) /\ ~GaveOld(u) /\ ~HasNew(u)' /\ ~GaveOld(u)'
  BY <1>1, <1>2, <1>3 DEF HasNew, GaveOld, Longer
<1>5. /\ b \in Blocks /\ heap[b].used /\ Len(heap[b].bytes) = n
      /\ \A i \in (size[f] + 1)..n : heap[b].bytes[i] = Zero
      /\ \A g \in Files : start[g] # b
  BY <1>4 DEF NewInv
<1>6. start[f] # NULL => /\ start[f] \in Blocks /\ old.used
                         /\ old.bytes \in Seq(Bytes) /\ Len(old.bytes) = size[f]
  BY <1>2, <1>4 DEF MemInv, TypeOK
<1>7. start[f] # NULL => /\ moved \in Seq(Bytes) /\ Len(moved) = n
                         /\ \A i \in (size[f] + 1)..n : moved[i] = Zero
  <2>1. heap[b].bytes \in Seq(Bytes)
    BY <1>5 DEF TypeOK
  <2>2. SUFFICES ASSUME start[f] # NULL
                 PROVE  /\ moved \in Seq(Bytes) /\ Len(moved) = n
                        /\ \A i \in (size[f] + 1)..n : moved[i] = Zero
    OBVIOUS
  <2>3. SubSeq(old.bytes, 1, size[f]) \in Seq(Bytes) /\ Len(SubSeq(old.bytes, 1, size[f])) = size[f]
    BY <1>2, <1>6, <2>2, PrefixFacts
  <2>4. /\ moved \in Seq(Bytes) /\ Len(moved) = n
        /\ \A i \in 1..n : i \notin (0 + 1)..(0 + size[f]) => moved[i] = heap[b].bytes[i]
    <3> DEFINE o == SubSeq(old.bytes, 1, size[f])
    <3>1. o \in Seq(Bytes) /\ Len(o) = size[f]
      BY <2>3
    <3> HIDE DEF o
    <3>2. /\ Copy(heap[b].bytes, 0, o) \in Seq(Bytes) /\ Len(Copy(heap[b].bytes, 0, o)) = n
          /\ \A i \in 1..n : i \notin (0 + 1)..(0 + size[f]) =>
                Copy(heap[b].bytes, 0, o)[i] = heap[b].bytes[i]
      BY <1>5, <2>1, <3>1, CopyFacts
    <3> QED BY <3>2 DEF o
  <2> QED BY <1>2, <1>5, <2>4
<1>8. CASE start[f] = NULL
  <2>1. heap' = heap
    BY <1>8 DEF WriteMove
  <2>2. TypeOK'
    BY <1>1, <2>1 DEF TypeOK
  <2>3. OpenInv'
    BY <1>1 DEF OpenInv
  <2>4. CallInv'
    BY <1>1, <1>2, <1>3 DEF CallInv, Longer
  <2>5. NewInv'
    BY <1>1, <1>4, <2>1 DEF NewInv
  <2>6. MemInv'
    BY <1>1, <1>2, <1>4, <1>8, <2>1 DEF MemInv
  <2> QED BY <2>2, <2>3, <2>4, <2>5, <2>6
<1>9. CASE start[f] # NULL
  <2>1. heap' = [heap EXCEPT ![b].bytes = moved, ![start[f]] = FreeBlock]
    BY <1>9 DEF WriteMove
  <2>2. heap' = [heap EXCEPT ![b] = [used |-> TRUE, bytes |-> moved], ![start[f]] = FreeBlock]
    <3> HIDE DEF moved
    <3>1. heap' = [[heap EXCEPT ![b].bytes = moved] EXCEPT ![start[f]] = FreeBlock]
      BY <2>1
    <3> QED BY <1>5, <1>7, <1>9, <3>1, BlockSet
  <2>3. TypeOK'
    <3> HIDE DEF moved
    <3>1. heap' \in [Blocks -> [used : BOOLEAN, bytes : Seq(Bytes)]]
      BY <1>5, <1>6, <1>7, <1>9, <2>2, FreeFacts DEF TypeOK
    <3> QED BY <1>1, <3>1 DEF TypeOK
  <2>4. /\ heap'[b].used /\ heap'[b].bytes = moved /\ ~heap'[start[f]].used
        /\ \A c \in Blocks : c # b /\ c # start[f] => heap'[c] = heap[c]
    BY <1>2, <1>5, <1>6, <1>9, <2>2, FreeFacts DEF TypeOK
  <2>5. OpenInv'
    BY <1>1 DEF OpenInv
  <2>6. CallInv'
    BY <1>1, <1>2, <1>3 DEF CallInv, Longer
  <2>7. NewInv'
    BY <1>1, <1>4, <1>5, <1>7, <1>9, <2>4 DEF NewInv
  <2>8. MemInv'
    <3>1. \A g \in Files : start[g] # NULL /\ g # f => heap'[start[g]] = heap[start[g]]
      BY <1>2, <1>5, <1>9, <2>4 DEF MemInv, TypeOK
    <3>2. \A g \in Files :
             /\ extent[g] = size[g]
             /\ start[g] = NULL => size[g] = 0
             /\ start[g] # NULL =>
                  /\ heap'[start[g]].used <=> \A u \in Threads : GaveOld(u)' => open[u].file # g
                  /\ heap'[start[g]].used => Len(heap'[start[g]].bytes) = size[g]
      BY <1>2, <1>4, <1>9, <2>4, <3>1 DEF MemInv
    <3>3. \A c \in Blocks : heap'[c].used =>
             (\E g \in Files : start[g] = c) \/ (\E u \in Threads : HasNew(u)' /\ new[u] = c)
      BY <1>4, <2>4 DEF MemInv
    <3> QED BY <1>1, <3>2, <3>3 DEF MemInv
  <2> QED BY <2>3, <2>5, <2>6, <2>7, <2>8
<1> QED BY <1>8, <1>9

(* How long the file is after the write of t, and what is in memory then.  *)
EndOf(t) == IF Longer(t) THEN open[t].pos + Len(word[t]) ELSE size[open[t].file]
Stored(t) == Copy(heap[new[t]].bytes, open[t].pos, word[t])

LEMMA StoreFacts ==
    ASSUME KvfsInv, NEW t \in Threads, WriteStore(t)
    PROVE  /\ EndOf(t) \in Nat
           /\ size' = [size EXCEPT ![open[t].file] = EndOf(t)]
           /\ extent' = [extent EXCEPT ![open[t].file] = EndOf(t)]
           /\ new[t] = NULL => EndOf(t) = 0 /\ heap' = heap
           /\ new[t] # NULL =>
                 /\ new[t] \in Blocks /\ heap[new[t]].used
                 /\ heap[new[t]].bytes \in Seq(Bytes) /\ Len(heap[new[t]].bytes) = EndOf(t)
                 /\ Stored(t) \in Seq(Bytes) /\ Len(Stored(t)) = EndOf(t)
                 /\ heap' = [heap EXCEPT ![new[t]] = [used |-> TRUE, bytes |-> Stored(t)]]
                 /\ \A g \in Files : g # open[t].file => start[g] # new[t]
<1> DEFINE f == open[t].file
           b == new[t]
           end == EndOf(t)
<1> USE DEF KvfsInv
<1>1. pc[t] = "store"
  BY DEF WriteStore
<1>2. /\ \A u \in Threads : u # t => pc[u] = "idle"
      /\ f \in Files /\ size[f] \in Nat /\ open[t].pos \in Nat
      /\ word[t] \in Seq(Bytes) /\ Len(word[t]) \in Nat /\ end \in Nat
  BY <1>1, Writer DEF EndOf
<1>3. size' = [size EXCEPT ![f] = end] /\ extent' = [extent EXCEPT ![f] = end]
  BY <1>2 DEF WriteStore, Grows, TypeOK, MemInv, EndOf, Longer
<1>4. /\ \A u \in Threads : u # t => ~GaveOld(u)
      /\ (HasNew(t) <=> Longer(t)) /\ (GaveOld(t) <=> Longer(t))
  BY <1>1, <1>2 DEF HasNew, GaveOld
<1>5. b # NULL => /\ b \in Blocks /\ heap[b].used /\ Len(heap[b].bytes) = end
                  /\ heap[b].bytes \in Seq(Bytes)
                  /\ \A g \in Files : g # f => start[g] # b
  <2>1. CASE Longer(t)
    BY <1>4, <2>1 DEF NewInv, TypeOK, EndOf
  <2>2. CASE ~Longer(t)
    BY <1>1, <1>2, <1>4, <2>2 DEF MemInv, TypeOK, CallInv, EndOf
  <2> QED BY <2>1, <2>2
<1>6. b = NULL => end = 0
  <2>1. CASE Longer(t)
    BY <1>4, <2>1, KvfsFileAssumption DEF NewInv
  <2>2. CASE ~Longer(t)
    BY <1>1, <1>2, <2>2 DEF MemInv, CallInv, EndOf
  <2> QED BY <2>1, <2>2
<1>7. b # NULL => Stored(t) \in Seq(Bytes) /\ Len(Stored(t)) = end
  BY <1>2, <1>5, CopyFacts DEF Stored
<1>8. /\ b = NULL => heap' = heap
      /\ b # NULL => heap' = [heap EXCEPT ![b] = [used |-> TRUE, bytes |-> Stored(t)]]
  <2>1. heap' = IF b = NULL THEN heap ELSE [heap EXCEPT ![b].bytes = Stored(t)]
    BY DEF WriteStore, Stored
  <2> QED BY <1>5, <1>7, <2>1, BlockSet
<1> QED BY <1>2, <1>3, <1>5, <1>6, <1>7, <1>8

LEMMA WriteStoreInv == ASSUME KvfsInv, NEW t \in Threads, WriteStore(t) PROVE KvfsInv'
<1> DEFINE f == open[t].file
           b == new[t]
           long == EndOf(t)
           stored == Stored(t)
           end == open[t].pos + Len(word[t])
<1> USE DEF KvfsInv
<1>1. /\ pc[t] = "store" /\ pc' = [pc EXCEPT ![t] = "idle"]
      /\ gate' = NULL /\ word' = [word EXCEPT ![t] = <<>>] /\ new' = [new EXCEPT ![t] = NULL]
      /\ start' = [start EXCEPT ![f] = b]
      /\ open' = [open EXCEPT ![t].pos = end]
      /\ got' = <<>>
  BY DEF WriteStore, Return
<1>2. /\ \A u \in Threads : u # t => pc[u] = "idle"
      /\ f \in Files /\ end \in Nat
  BY <1>1, Writer
<1>3. size' = [size EXCEPT ![f] = long] /\ extent' = [extent EXCEPT ![f] = long] /\ long \in Nat
  BY StoreFacts
<1>4. \A u \in Threads : pc'[u] = "idle" /\ new'[u] = NULL
  BY <1>1, <1>2 DEF TypeOK, CallInv
<1>5. \A u \in Threads : ~HasNew(u)' /\ ~GaveOld(u)'
  BY <1>4 DEF HasNew, GaveOld
<1>6. /\ \A u \in Threads : u # t => ~HasNew(u) /\ ~GaveOld(u)
      /\ (HasNew(t) <=> Longer(t)) /\ (GaveOld(t) <=> Longer(t))
  BY <1>1, <1>2 DEF HasNew, GaveOld
<1>7. b # NULL => /\ b \in Blocks
                  /\ \A g \in Files : g # f => start[g] # b
  BY StoreFacts
<1>8. b = NULL => long = 0
  BY StoreFacts
<1>9. b # NULL => stored \in Seq(Bytes) /\ Len(stored) = long
  BY StoreFacts
<1>10. /\ b = NULL => heap' = heap
       /\ b # NULL => heap' = [heap EXCEPT ![b] = [used |-> TRUE, bytes |-> stored]]
  BY StoreFacts
<1>11. heap' \in [Blocks -> [used : BOOLEAN, bytes : Seq(Bytes)]]
  <2>1. b # NULL => [used |-> TRUE, bytes |-> stored] \in [used : BOOLEAN, bytes : Seq(Bytes)]
    BY <1>9
  <2> QED BY <1>7, <1>10, <2>1 DEF TypeOK
<1>12. TypeOK'
  <2>1. open' \in [Threads -> OpenFile]
    BY <1>1, <1>2, MovedTo
  <2> QED BY <1>1, <1>2, <1>3, <1>11, <2>1 DEF TypeOK
<1>13. OpenInv'
  BY <1>1, <1>2, MovedTo DEF OpenInv, TypeOK
<1>14. CallInv'
  BY <1>4 DEF CallInv
<1>15. NewInv'
  BY <1>5 DEF NewInv
<1>16. MemInv'
  <2>1. /\ start'[f] = b /\ size'[f] = long /\ extent'[f] = long
        /\ \A g \in Files : g # f => start'[g] = start[g] /\ size'[g] = size[g] /\ extent'[g] = extent[g]
    BY <1>1, <1>2, <1>3 DEF TypeOK
  <2>2. /\ b # NULL => heap'[b].used /\ Len(heap'[b].bytes) = long
        /\ \A c \in Blocks : c # b => heap'[c] = heap[c]
    BY <1>7, <1>9, <1>10 DEF TypeOK
  <2>3. \A g \in Files :
           /\ extent'[g] = size'[g]
           /\ start'[g] = NULL => size'[g] = 0
           /\ start'[g] # NULL =>
                /\ heap'[start'[g]].used
                /\ Len(heap'[start'[g]].bytes) = size'[g]
    <3>1. ASSUME NEW g \in Files, g # f
          PROVE  /\ extent[g] = size[g]
                 /\ start[g] = NULL => size[g] = 0
                 /\ start[g] # NULL => heap[start[g]].used /\ Len(heap[start[g]].bytes) = size[g]
      BY <1>2, <1>6, <3>1 DEF MemInv
    <3>2. ASSUME NEW g \in Files, g # f, start[g] # NULL PROVE heap'[start[g]] = heap[start[g]]
      BY <1>7, <2>2, <3>2 DEF TypeOK
    <3> QED BY <1>8, <2>1, <2>2, <3>1, <3>2
  <2>4. \A g, h \in Files : start'[g] = start'[h] /\ start'[g] # NULL => g = h
    BY <1>7, <2>1 DEF MemInv
  <2>5. \A c \in Blocks : heap'[c].used => \E g \in Files : start'[g] = c
    <3> SUFFICES ASSUME NEW c \in Blocks, heap'[c].used PROVE \E g \in Files : start'[g] = c
      OBVIOUS
    <3>1. CASE c = b
      BY <1>2, <2>1, <3>1
    <3>2. CASE c # b
      <4>1. heap[c].used /\ \A u \in Threads : ~(HasNew(u) /\ new[u] = c)
        BY <1>6, <2>2, <3>2
      <4>2. PICK g \in Files : start[g] = c
        BY <4>1 DEF MemInv
      <4>3. g # f
        <5>1. CASE Longer(t)
          BY <1>2, <1>6, <4>1, <4>2, <5>1, KvfsFileAssumption DEF MemInv
        <5>2. CASE ~Longer(t)
          BY <1>1, <3>2, <4>2, <5>2 DEF CallInv
        <5> QED BY <5>1, <5>2
      <4> QED BY <2>1, <4>2, <4>3
    <3> QED BY <3>1, <3>2
  <2> QED BY <1>5, <2>3, <2>4, <2>5 DEF MemInv
<1> QED BY <1>12, <1>13, <1>14, <1>15, <1>16

LEMMA NextInv == ASSUME KvfsInv, [Next]_vars PROVE KvfsInv'
<1>1. CASE UNCHANGED vars
  BY <1>1 DEF vars, callVars, fileVars, KvfsInv, TypeOK, OpenInv, CallInv, NewInv, MemInv,
              HasNew, GaveOld, Longer
<1>2. CASE Next
  BY <1>2, OpenStepInv, CloseInv, SeekInv, ReadInv, WriteCallInv, WriteStartInv,
     WriteAllocInv, WriteMoveInv, WriteStoreInv DEF Next
<1> QED BY <1>1, <1>2

LEMMA Invariant == Spec => []KvfsInv
<1> QED BY InitInv, NextInv, PTL DEF Spec

-----------------------------------------------------------------------------
LEMMA InvFile == KvfsInv => FileInv
<1> SUFFICES ASSUME KvfsInv PROVE FileInv
  OBVIOUS
<1> USE DEF KvfsInv
<1>1. ExtentExact
  BY DEF ExtentExact, MemInv
<1>2. ASSUME NEW t \in Threads, pc[t] = "store", word[t] # <<>>
      PROVE  /\ new[t] # NULL /\ heap[new[t]].used
             /\ open[t].pos + Len(word[t]) <= Len(heap[new[t]].bytes)
  <2> DEFINE f == open[t].file
             end == open[t].pos + Len(word[t])
  <2>1. /\ f \in Files /\ size[f] \in Nat /\ open[t].pos \in Nat
        /\ Len(word[t]) \in Nat /\ Len(word[t]) > 0
        /\ \A u \in Threads : u # t => pc[u] = "idle"
    BY <1>2, Writer
  <2>2. CASE Longer(t)
    <3>1. HasNew(t)
      BY <1>2, <2>2 DEF HasNew
    <3> QED BY <2>1, <3>1, KvfsFileAssumption DEF NewInv
  <2>3. CASE ~Longer(t)
    <3>1. new[t] = start[f] /\ end <= size[f]
      BY <1>2, <2>1, <2>3 DEF CallInv, Longer
    <3>2. start[f] # NULL
      BY <2>1, <3>1 DEF MemInv
    <3>3. \A u \in Threads : ~GaveOld(u)
      BY <2>1, <2>3 DEF GaveOld
    <3>4. heap[start[f]].used /\ Len(heap[start[f]].bytes) = size[f]
      BY <2>1, <3>2, <3>3 DEF MemInv
    <3> QED BY <3>1, <3>2, <3>4
  <2> QED BY <2>2, <2>3
<1> QED BY <1>1, <1>2 DEF FileInv, StoresInside

(* What is read and what is written stays within the memory of the file,   *)
(* and the two lengths the code keeps agree.                               *)
THEOREM FileInvariant == Spec => []FileInv
<1> QED BY Invariant, InvFile, PTL

(* Files have memory of their own, and none is lost or used when freed.    *)
THEOREM MemoryIsOwned == Spec => []MemoryOwned
<1>1. KvfsInv => MemoryOwned
  <2> SUFFICES ASSUME KvfsInv, \A t \in Threads : ~Growing(t)
               PROVE  /\ {b \in Blocks : heap[b].used} = {start[f] : f \in Files} \ {NULL}
                      /\ \A f, g \in Files : start[f] = start[g] /\ start[f] # NULL => f = g
    BY DEF MemoryOwned
  <2> USE DEF KvfsInv
  <2>1. \A t \in Threads : ~HasNew(t) /\ ~GaveOld(t)
    BY DEF Growing, HasNew, GaveOld
  <2>2. ASSUME NEW f \in Files, start[f] # NULL PROVE start[f] \in Blocks /\ heap[start[f]].used
    BY <2>1, <2>2 DEF MemInv, TypeOK
  <2>3. ASSUME NEW b \in Blocks, heap[b].used PROVE b \in {start[f] : f \in Files} \ {NULL}
    BY <2>1, <2>3, KvfsFileAssumption DEF MemInv
  <2> QED BY <2>2, <2>3 DEF MemInv
<1> QED BY <1>1, Invariant, PTL

-----------------------------------------------------------------------------
(* The contents of files.                                                  *)

MemoryInv ==
    \A f \in Files :
       /\ \A t \in Threads : pc[t] = "store" /\ open[t].file = f => Memory(f) = new[t]
       /\ (\A t \in Threads : pc[t] = "store" => open[t].file # f) => Memory(f) = start[f]

ContentInv ==
    \A f \in Files :
       /\ size[f] > 0 => Memory(f) \in Blocks
       /\ Content(f) \in Seq(Bytes) /\ Len(Content(f)) = size[f]
       /\ \A i \in 1..size[f] : Content(f)[i] = heap[Memory(f)].bytes[i]

LEMMA MemoryHolds == KvfsInv => MemoryInv
<1> SUFFICES ASSUME KvfsInv, NEW f \in Files
             PROVE  /\ \A t \in Threads : pc[t] = "store" /\ open[t].file = f => Memory(f) = new[t]
                    /\ (\A t \in Threads : pc[t] = "store" => open[t].file # f) => Memory(f) = start[f]
  BY DEF MemoryInv
<1> DEFINE moved == {t \in Threads : pc[t] = "store" /\ open[t].file = f}
<1>1. ASSUME NEW t \in Threads, pc[t] = "store", open[t].file = f PROVE Memory(f) = new[t]
  <2>1. moved = {t}
    BY <1>1, Writer
  <2>2. Memory(f) = new[CHOOSE u \in {t} : TRUE]
    BY <2>1 DEF Memory
  <2> QED BY <2>2
<1>2. ASSUME \A t \in Threads : pc[t] = "store" => open[t].file # f PROVE Memory(f) = start[f]
  <2>1. moved = {}
    BY <1>2
  <2> QED BY <2>1 DEF Memory
<1> QED BY <1>1, <1>2

LEMMA ContentHolds == KvfsInv => ContentInv
<1> SUFFICES ASSUME KvfsInv, NEW f \in Files
             PROVE  /\ size[f] > 0 => Memory(f) \in Blocks
                    /\ Content(f) \in Seq(Bytes) /\ Len(Content(f)) = size[f]
                    /\ \A i \in 1..size[f] : Content(f)[i] = heap[Memory(f)].bytes[i]
  BY DEF ContentInv
<1> DEFINE m == Memory(f)
<1> USE DEF KvfsInv
<1>1. size[f] \in Nat
  BY DEF TypeOK
<1>2. m = NULL => size[f] = 0
  <2>1. CASE \A t \in Threads : pc[t] = "store" => open[t].file # f
    BY <2>1, MemoryHolds DEF MemoryInv, MemInv
  <2>2. ASSUME NEW t \in Threads, pc[t] = "store", open[t].file = f PROVE m = NULL => size[f] = 0
    <3>1. m = new[t]
      BY <2>2, MemoryHolds DEF MemoryInv
    <3>2. CASE Longer(t)
      <4>1. HasNew(t)
        BY <2>2, <3>2 DEF HasNew
      <4> QED BY <3>1, <4>1, KvfsFileAssumption DEF NewInv
    <3>3. CASE ~Longer(t)
      BY <2>2, <3>1, <3>3 DEF CallInv, MemInv
    <3> QED BY <3>2, <3>3
  <2> QED BY <2>1, <2>2
<1>3. m # NULL => m \in Blocks /\ Len(heap[m].bytes) \in Nat /\ Len(heap[m].bytes) >= size[f]
  <2>1. CASE \A t \in Threads : pc[t] = "store" => open[t].file # f
    <3>1. m = start[f]
      BY <2>1, MemoryHolds DEF MemoryInv
    <3>2. \A t \in Threads : GaveOld(t) => open[t].file # f
      BY <2>1 DEF GaveOld
    <3> QED BY <1>1, <3>1, <3>2 DEF MemInv, TypeOK
  <2>2. ASSUME NEW t \in Threads, pc[t] = "store", open[t].file = f, m # NULL
        PROVE  m \in Blocks /\ Len(heap[m].bytes) \in Nat /\ Len(heap[m].bytes) >= size[f]
    <3>1. m = new[t]
      BY <2>2, MemoryHolds DEF MemoryInv
    <3>2. CASE Longer(t)
      <4>1. /\ new[t] \in Blocks
            /\ Len(heap[new[t]].bytes) = open[t].pos + Len(word[t])
        BY <2>2, <3>2 DEF HasNew, NewInv
      <4>2. open[t].pos \in Nat /\ Len(word[t]) \in Nat
        BY <2>2, Writer
      <4> QED BY <1>1, <2>2, <3>1, <3>2, <4>1, <4>2 DEF Longer
    <3>3. CASE ~Longer(t)
      <4>1. m = start[f]
        BY <2>2, <3>1, <3>3 DEF CallInv
      <4>2. \A u \in Threads : ~GaveOld(u)
        BY <2>2, <3>3, Writer DEF GaveOld
      <4> QED BY <1>1, <2>2, <4>1, <4>2 DEF MemInv, TypeOK
    <3> QED BY <3>2, <3>3
  <2> QED BY <2>1, <2>2
<1>4. CASE m = NULL
  BY <1>2, <1>4 DEF Content
<1>5. CASE m # NULL
  <2>1. Content(f) = SubSeq(heap[m].bytes, 1, size[f]) /\ heap[m].bytes \in Seq(Bytes)
    BY <1>3, <1>5 DEF Content, TypeOK
  <2> QED BY <1>1, <1>3, <1>5, <2>1, PrefixFacts
<1> QED BY <1>4, <1>5

LEMMA AfterHolds == KvfsInv' => MemoryInv' /\ ContentInv'
<1> QED BY MemoryHolds, ContentHolds, PTL

(* Two states with the same bytes in the memory of a file.                 *)
LEMMA SameContent ==
    ASSUME ContentInv, ContentInv', NEW f \in Files, size'[f] = size[f], size[f] \in Nat,
           \A i \in 1..size[f] : heap'[Memory(f)'].bytes[i] = heap[Memory(f)].bytes[i]
    PROVE  Content(f)' = Content(f)
<1>1. \A i \in 1..size[f] : Content(f)'[i] = Content(f)[i]
  BY DEF ContentInv
<1>2. Content(f) \in Seq(Bytes) /\ Content(f)' \in Seq(Bytes) /\ Len(Content(f)) = Len(Content(f)')
  BY DEF ContentInv
<1>3. Len(Content(f)) = size[f]
  BY DEF ContentInv
<1> QED BY <1>1, <1>2, <1>3, SeqEqual

LEMMA ContentKept ==
    ASSUME KvfsInv, KvfsInv', UNCHANGED size,
           \A f \in Files : size[f] > 0 =>
              \A i \in 1..size[f] : heap'[Memory(f)'].bytes[i] = heap[Memory(f)].bytes[i]
    PROVE  \A f \in Files : Content(f)' = Content(f)
<1>1. ContentInv /\ ContentInv'
  BY ContentHolds, AfterHolds
<1>2. \A f \in Files : size[f] \in Nat
  BY DEF KvfsInv, TypeOK
<1> SUFFICES ASSUME NEW f \in Files PROVE Content(f)' = Content(f)
  OBVIOUS
<1>3. \A i \in 1..size[f] : heap'[Memory(f)'].bytes[i] = heap[Memory(f)].bytes[i]
  BY <1>2
<1> QED BY <1>1, <1>2, <1>3, SameContent

(* Steps that leave every file the memory it had.                          *)
LEMMA MemoryKept ==
    ASSUME KvfsInv, KvfsInv', NEW t \in Threads, UNCHANGED start,
           \A u \in Threads : u # t => pc'[u] = pc[u] /\ new'[u] = new[u] /\ open'[u] = open[u],
           pc[t] # "store",
           pc'[t] = "store" => new'[t] = start[open'[t].file]
    PROVE  \A f \in Files : Memory(f)' = Memory(f)
<1>1. MemoryInv /\ MemoryInv'
  BY MemoryHolds, AfterHolds
<1> SUFFICES ASSUME NEW f \in Files PROVE Memory(f)' = Memory(f)
  OBVIOUS
<1>2. ASSUME NEW u \in Threads, pc[u] = "store", open[u].file = f PROVE Memory(f)' = Memory(f)
  BY <1>1, <1>2 DEF MemoryInv
<1>3. CASE \A u \in Threads : pc[u] = "store" => open[u].file # f
  <2>1. Memory(f) = start[f]
    BY <1>1, <1>3 DEF MemoryInv
  <2>2. CASE pc'[t] = "store" /\ open'[t].file = f
    BY <1>1, <2>1, <2>2 DEF MemoryInv
  <2>3. CASE ~(pc'[t] = "store" /\ open'[t].file = f)
    BY <1>1, <1>3, <2>1, <2>3 DEF MemoryInv
  <2> QED BY <2>2, <2>3
<1> QED BY <1>2, <1>3

LEMMA OutsideKeeps ==
    ASSUME KvfsInv, KvfsInv', NEW t \in Threads, pc[t] = "idle",
           \A u \in Threads : u # t => open'[u] = open[u],
           UNCHANGED <<callVars, fileVars>>
    PROVE  \A f \in Files : Content(f)' = Content(f)
<1>1. \A f \in Files : Memory(f)' = Memory(f)
  BY MemoryKept DEF callVars, fileVars
<1> QED BY <1>1, ContentKept DEF fileVars

LEMMA CallKeeps ==
    ASSUME KvfsInv, KvfsInv', NEW t \in Threads, NEW w \in Words, WriteCall(t, w)
    PROVE  \A f \in Files : Content(f)' = Content(f)
<1>1. \A f \in Files : Memory(f)' = Memory(f)
  BY MemoryKept DEF WriteCall, fileVars, KvfsInv, TypeOK
<1> QED BY <1>1, ContentKept DEF WriteCall, fileVars

LEMMA StartKeeps ==
    ASSUME KvfsInv, KvfsInv', NEW t \in Threads, WriteStart(t)
    PROVE  \A f \in Files : Content(f)' = Content(f)
<1>1. /\ pc[t] = "start" /\ UNCHANGED fileVars
      /\ open' = [open EXCEPT ![t].pos = Position(t)]
  BY DEF WriteStart
<1>2. /\ \A u \in Threads : u # t => pc'[u] = pc[u] /\ new'[u] = new[u] /\ open'[u] = open[u]
      /\ open'[t].file = open[t].file
  BY <1>1 DEF WriteStart, Return, KvfsInv, TypeOK, OpenFile
<1>3. pc'[t] = "store" => new'[t] = start[open[t].file]
  BY DEF WriteStart, Return, KvfsInv, TypeOK
<1>4. \A f \in Files : Memory(f)' = Memory(f)
  BY <1>1, <1>2, <1>3, MemoryKept DEF fileVars
<1> QED BY <1>1, <1>4, ContentKept DEF fileVars

LEMMA AllocKeeps ==
    ASSUME KvfsInv, KvfsInv', NEW t \in Threads, WriteAlloc(t)
    PROVE  \A f \in Files : Content(f)' = Content(f)
<1> USE DEF KvfsInv
<1>1. /\ pc[t] = "alloc" /\ pc' = [pc EXCEPT ![t] = "move"] /\ UNCHANGED <<open, size, start>>
  BY DEF WriteAlloc
<1>2. PICK b \in Blocks :
         /\ ~heap[b].used
         /\ heap' = [heap EXCEPT ![b] = [used |-> TRUE,
                                         bytes |-> Zeros(open[t].pos + Len(word[t]))]]
         /\ new' = [new EXCEPT ![t] = b]
  BY DEF WriteAlloc
<1>3. \A f \in Files : Memory(f)' = Memory(f)
  BY <1>1, <1>2, MemoryKept DEF TypeOK
<1>4. \A u \in Threads : pc[u] # "store"
  BY <1>1, Writer
<1>5. ASSUME NEW f \in Files, size[f] > 0 PROVE heap'[Memory(f)] = heap[Memory(f)]
  <2>1. Memory(f) = start[f]
    BY <1>4, MemoryHolds DEF MemoryInv
  <2>2. start[f] # NULL
    BY <1>5 DEF MemInv, TypeOK
  <2>3. heap[start[f]].used
    BY <1>4, <2>2 DEF MemInv, GaveOld
  <2> QED BY <1>2, <2>1, <2>2, <2>3 DEF TypeOK
<1> QED BY <1>1, <1>3, <1>5, ContentKept

LEMMA MoveKeeps ==
    ASSUME KvfsInv, KvfsInv', NEW t \in Threads, WriteMove(t)
    PROVE  \A f \in Files : Content(f)' = Content(f)
<1> DEFINE f == open[t].file
           old == heap[start[f]]
           o == SubSeq(old.bytes, 1, size[f])
           b == new[t]
           moved == Copy(heap[b].bytes, 0, o)
<1> USE DEF KvfsInv
<1>1. /\ pc[t] = "move" /\ pc' = [pc EXCEPT ![t] = "store"]
      /\ UNCHANGED <<gate, word, new, open, size, start, extent>>
  BY DEF WriteMove
<1>2. /\ \A u \in Threads : pc[u] # "store"
      /\ \A u \in Threads : u # t => pc[u] = "idle"
      /\ f \in Files /\ size[f] \in Nat
  BY <1>1, Writer
<1>3. pc'[t] = "store" /\ \A u \in Threads : u # t => pc'[u] # "store"
  BY <1>1, <1>2 DEF TypeOK
<1>4. /\ \A g \in Files : Memory(g) = start[g]
      /\ \A g \in Files : g = f => Memory(g)' = b
      /\ \A g \in Files : g # f => Memory(g)' = start[g]
  BY <1>1, <1>2, <1>3, MemoryHolds, AfterHolds DEF MemoryInv
<1>5. /\ b \in Blocks /\ heap[b].used
      /\ \A g \in Files : start[g] # b
      /\ Len(heap[b].bytes) \in Nat /\ Len(heap[b].bytes) > size[f]
  <2>1. HasNew(t) /\ Longer(t)
    BY <1>1 DEF HasNew, CallInv
  <2>2. open[t].pos + Len(word[t]) \in Nat
    BY <1>1, Writer
  <2> QED BY <1>2, <2>1, <2>2 DEF NewInv, Longer
<1>6. ASSUME NEW g \in Files, size[g] > 0
      PROVE  start[g] \in Blocks /\ Len(heap[start[g]].bytes) = size[g]
  BY <1>2, <1>6 DEF MemInv, TypeOK, GaveOld
<1>7. ASSUME NEW g \in Files, size[g] > 0, NEW i \in 1..size[g], start[f] # NULL
      PROVE  heap'[Memory(g)'].bytes[i] = heap[Memory(g)].bytes[i]
  <2>1. heap' = [[heap EXCEPT ![b].bytes = moved] EXCEPT ![start[f]] = FreeBlock]
    BY <1>7 DEF WriteMove
  <2>2. start[f] \in Blocks /\ old.bytes \in Seq(Bytes) /\ Len(old.bytes) = size[f]
    <3>1. start[f] \in Blocks
      BY <1>2, <1>7 DEF TypeOK
    <3>2. heap[start[f]].used
      BY <1>2, <1>7 DEF MemInv, GaveOld
    <3>3. Len(old.bytes) = size[f]
      BY <1>2, <1>7, <3>2 DEF MemInv
    <3> QED BY <3>1, <3>3 DEF TypeOK
  <2>3. /\ o \in Seq(Bytes) /\ Len(o) = size[f]
        /\ \A k \in 1..size[f] : o[k] = old.bytes[k]
    BY <1>2, <2>2, PrefixFacts
  <2>4. heap[b].bytes \in Seq(Bytes)
    BY <1>5 DEF TypeOK
  <2>5. /\ moved \in Seq(Bytes)
        /\ \A k \in 1..size[f] : moved[k] = o[k]
    <3> HIDE DEF o
    <3> QED BY <1>2, <1>5, <2>3, <2>4, CopyFacts
  <2>6. heap' = [[heap EXCEPT ![b] = [used |-> TRUE, bytes |-> moved]] EXCEPT ![start[f]] = FreeBlock]
    <3> HIDE DEF moved
    <3> QED BY <1>5, <2>1, <2>5, BlockSet
  <2>7. /\ heap'[b].bytes = moved
        /\ \A c \in Blocks : c # b /\ c # start[f] => heap'[c] = heap[c]
    <3> HIDE DEF moved
    <3>1. b # start[f] /\ DOMAIN heap = Blocks
      BY <1>2, <1>5 DEF TypeOK
    <3> QED BY <1>5, <2>2, <2>6, <3>1
  <2>8. CASE g = f
    <3> HIDE DEF moved, o
    <3>1. i \in 1..size[f] /\ Memory(g)' = b /\ Memory(g) = start[f]
      BY <1>4, <1>7, <2>8
    <3>2. heap'[b].bytes[i] = moved[i]
      BY <2>7
    <3> QED BY <2>3, <2>5, <3>1, <3>2
  <2>9. CASE g # f
    <3>1. start[g] \in Blocks /\ start[g] # b
      BY <1>5, <1>6, <1>7
    <3>2. start[g] # start[f]
      BY <1>2, <1>7, <2>9 DEF MemInv
    <3> QED BY <1>4, <2>7, <2>9, <3>1, <3>2
  <2> QED BY <2>8, <2>9
<1>8. ASSUME NEW g \in Files, size[g] > 0, start[f] = NULL
      PROVE  heap' = heap /\ Memory(g)' = Memory(g)
  BY <1>2, <1>4, <1>8 DEF WriteMove, MemInv
<1> QED BY <1>1, <1>7, <1>8, ContentKept

(* The last step of a write is the write.                                  *)
LEMMA StoreWrites ==
    ASSUME KvfsInv, KvfsInv', NEW t \in Threads, WriteStore(t), NEW f \in Files, f = open[t].file
    PROVE  /\ \A g \in Files : g # f => Content(g)' = Content(g)
           /\ Content(f)' = Whole!Overwrite(Content(f), open[t].pos, word[t])
<1> DEFINE b == new[t]
           pos == open[t].pos
           w == word[t]
           n == EndOf(t)
           over == Whole!Overwrite(Content(f), pos, w)
<1> USE DEF KvfsInv
<1>1. /\ pc[t] = "store" /\ pc' = [pc EXCEPT ![t] = "idle"]
      /\ start' = [start EXCEPT ![f] = b]
  BY DEF WriteStore, Return
<1>2. /\ \A u \in Threads : u # t => pc[u] = "idle"
      /\ size[f] \in Nat /\ pos \in Nat /\ w \in Seq(Bytes) /\ Len(w) \in Nat
  BY <1>1, Writer
<1>3. /\ n \in Nat
      /\ size' = [size EXCEPT ![f] = n]
      /\ b = NULL => n = 0 /\ heap' = heap
      /\ b # NULL =>
            /\ b \in Blocks /\ heap[b].bytes \in Seq(Bytes) /\ Len(heap[b].bytes) = n
            /\ heap' = [heap EXCEPT ![b] = [used |-> TRUE, bytes |-> Stored(t)]]
            /\ \A g \in Files : g # f => start[g] # b
  BY StoreFacts
<1>4. ContentInv /\ ContentInv' /\ MemoryInv /\ MemoryInv'
  BY ContentHolds, MemoryHolds, AfterHolds
<1>5. \A u \in Threads : pc'[u] # "store"
  BY <1>1, <1>2 DEF TypeOK
<1>6. /\ Memory(f) = b /\ Memory(f)' = b
      /\ \A g \in Files : g # f => Memory(g) = start[g] /\ Memory(g)' = start[g]
  BY <1>1, <1>2, <1>4, <1>5 DEF MemoryInv, TypeOK
<1>7. ASSUME NEW g \in Files, g # f PROVE Content(g)' = Content(g)
  <2>1. size'[g] = size[g] /\ size[g] \in Nat
    BY <1>3, <1>7 DEF TypeOK
  <2>2. size[g] > 0 => heap'[start[g]] = heap[start[g]]
    <3>1. size[g] > 0 => start[g] \in Blocks
      BY <1>4, <1>6, <1>7 DEF ContentInv
    <3> QED BY <1>3, <1>7, <3>1 DEF TypeOK
  <2>3. \A i \in 1..size[g] : heap'[Memory(g)'].bytes[i] = heap[Memory(g)].bytes[i]
    BY <1>6, <1>7, <2>1, <2>2
  <2> QED BY <1>4, <2>1, <2>3, SameContent
<1>8. /\ Content(f)' \in Seq(Bytes) /\ Len(Content(f)') = n
      /\ Len(Content(f)) = size[f]
      /\ n = IF pos + Len(w) > size[f] THEN pos + Len(w) ELSE size[f]
  BY <1>3, <1>4 DEF ContentInv, TypeOK, EndOf, Longer
<1>9. ASSUME NEW i \in 1..n
      PROVE  Content(f)'[i] = IF i \in (pos + 1)..(pos + Len(w)) THEN w[i - pos]
                              ELSE IF i <= size[f] THEN Content(f)[i] ELSE Zero
  <2>1. b # NULL
    BY <1>3, <1>9
  <2>2. heap'[b].bytes = Stored(t)
    BY <1>3, <2>1 DEF TypeOK
  <2>3. Content(f)'[i] = Stored(t)[i]
    <3>1. size'[f] = n
      BY <1>3 DEF TypeOK
    <3>2. Content(f)'[i] = heap'[Memory(f)'].bytes[i]
      <4>1. i \in 1..size'[f]
        BY <3>1
      <4> QED BY <1>4, <4>1 DEF ContentInv
    <3> QED BY <1>6, <2>2, <3>2
  <2>4. Stored(t)[i] = IF i \in (pos + 1)..(pos + Len(w)) THEN w[i - pos] ELSE heap[b].bytes[i]
    <3>1. heap[b].bytes \in Seq(Bytes) /\ i \in 1..Len(heap[b].bytes)
      BY <1>3, <1>9, <2>1
    <3>2. pos \in Nat /\ w \in Seq(Bytes)
      BY <1>2
    <3>3. \A k \in 1..Len(heap[b].bytes) :
             Copy(heap[b].bytes, pos, w)[k] =
                IF k \in (pos + 1)..(pos + Len(w)) THEN w[k - pos] ELSE heap[b].bytes[k]
      BY <3>1, <3>2, CopyFacts
    <3> QED BY <3>1, <3>3 DEF Stored
  <2>5. i <= size[f] => heap[b].bytes[i] = Content(f)[i]
    BY <1>2, <1>4, <1>6, <1>9 DEF ContentInv
  <2>6. i > size[f] => heap[b].bytes[i] = Zero
    <3>1. i > size[f] => HasNew(t)
      BY <1>1, <1>2, <1>3, <1>9 DEF HasNew, EndOf
    <3>2. i > size[f] => i \in (size[f] + 1)..Len(heap[b].bytes)
      BY <1>2, <1>3, <1>9, <2>1
    <3> QED BY <3>1, <3>2 DEF NewInv
  <2> QED BY <1>2, <1>9, <2>3, <2>4, <2>5, <2>6
<1>10. Content(f)' = over
  <2>1. over = [i \in 1..n |-> IF i \in (pos + 1)..(pos + Len(w)) THEN w[i - pos]
                               ELSE IF i <= size[f] THEN Content(f)[i] ELSE Zero]
    BY <1>8 DEF Whole!Overwrite
  <2>2. \A i \in 1..n : Content(f)'[i] = over[i]
    BY <1>9, <2>1
  <2>3. Content(f)' \in [1..n -> Bytes]
    BY <1>8, LenProperties
  <2> QED BY <2>1, <2>2, <2>3
<1> QED BY <1>7, <1>10

-----------------------------------------------------------------------------
(* What one step is to WholeFile, and to the contents.                     *)

contents == [f \in Files |-> Content(f)]

LEMMA ContentsKept ==
    ASSUME \A f \in Files : Content(f)' = Content(f)
    PROVE  contents' = contents
<1> QED BY DEF contents

LEMMA OpenIsOpen ==
    ASSUME KvfsInv, KvfsInv', NEW t \in Threads, NEW f \in Files, NEW mode \in Modes, Open(t, f, mode)
    PROVE  Whole!Open(t, f, mode) /\ UNCHANGED contents
<1>1. contents' = contents
  BY OutsideKeeps, ContentsKept DEF Open, KvfsInv, TypeOK
<1> QED BY <1>1 DEF Open, Whole!Open, Closed, Whole!Closed, contents

LEMMA CloseIsClose ==
    ASSUME KvfsInv, KvfsInv', NEW t \in Threads, Close(t)
    PROVE  Whole!Close(t) /\ UNCHANGED contents
<1>1. contents' = contents
  BY OutsideKeeps, ContentsKept DEF Close, KvfsInv, TypeOK
<1> QED BY <1>1 DEF Close, Whole!Close, Closed, Whole!Closed, contents

(* Any new position is a seek.                                             *)
LEMMA MoveIsSeek ==
    ASSUME KvfsInv, NEW t \in Threads, NEW p \in Nat, open' = [open EXCEPT ![t].pos = p],
           open[t].file # NULL, got' = <<>>, UNCHANGED contents
    PROVE  Whole!Seek(t)
<1>1. open' = [open EXCEPT ![t] = [file |-> open[t].file, pos |-> p, mode |-> open[t].mode]]
  BY MovedTo DEF KvfsInv
<1>2. open'[t].pos = p
  BY <1>1 DEF KvfsInv, TypeOK
<1> QED BY <1>2 DEF Whole!Seek, contents

LEMMA SeekIsSeek ==
    ASSUME KvfsInv, KvfsInv', NEW t \in Threads, NEW offset \in Offsets,
           NEW whence \in {"SET", "CUR", "END"}, Seek(t, offset, whence)
    PROVE  Whole!Seek(t) /\ UNCHANGED contents
<1>1. PICK p \in 0..MaxSize : open' = [open EXCEPT ![t].pos = p]
  BY DEF Seek
<1>2. /\ pc[t] = "idle" /\ open[t] # Closed /\ got' = <<>>
      /\ UNCHANGED <<callVars, fileVars>>
  BY DEF Seek
<1>3. open[t].file # NULL
  BY <1>2, KvfsFileAssumption DEF KvfsInv, OpenInv
<1>4. \A u \in Threads : u # t => open'[u] = open[u]
  BY <1>1 DEF KvfsInv, TypeOK
<1>5. contents' = contents
  BY <1>2, <1>4, OutsideKeeps, ContentsKept
<1>6. p \in Nat
  BY KvfsFileAssumption
<1> QED BY <1>1, <1>2, <1>3, <1>5, <1>6, MoveIsSeek

LEMMA ReadIsRead ==
    ASSUME KvfsInv, KvfsInv', NEW t \in Threads, NEW n \in Counts, Read(t, n)
    PROVE  Whole!Read(t, n) /\ UNCHANGED contents
<1> DEFINE f == open[t].file
           pos == open[t].pos
<1>1. /\ pc[t] = "idle" /\ gate = NULL /\ open[t] # Closed
      /\ got' = KvfsRead(f, pos, n)
      /\ UNCHANGED <<callVars, fileVars, open>>
  BY DEF Read
<1>2. f \in Files /\ f # NULL /\ pos \in Nat
  BY <1>1, KvfsFileAssumption DEF KvfsInv, OpenInv, TypeOK, OpenFile
<1>3. contents' = contents
  BY <1>1, OutsideKeeps, ContentsKept
<1>4. Content(f) = IF start[f] = NULL THEN <<>> ELSE InMemory(f)
  <2>1. \A u \in Threads : pc[u] = "idle"
    BY <1>1, <1>2, GateOpenFacts
  <2>2. Memory(f) = start[f]
    BY <1>2, <2>1, MemoryHolds DEF MemoryInv
  <2>3. size[f] = extent[f]
    BY <1>2 DEF KvfsInv, MemInv
  <2> QED BY <2>2, <2>3 DEF Content, InMemory
<1>5. Content(f) \in Seq(Bytes)
  BY <1>2, ContentHolds DEF ContentInv
<1>6. start[f] = NULL => SubSeq(Content(f), pos + 1, Len(Content(f))) = <<>>
  <2> SUFFICES ASSUME start[f] = NULL PROVE SubSeq(<<>>, pos + 1, 0) = <<>>
    BY <1>4
  <2>1. SubSeq(<<>>, pos + 1, 0) \in Seq(Bytes) /\ Len(SubSeq(<<>>, pos + 1, 0)) = 0
    BY <1>2, SubSeqProperties
  <2> QED BY <2>1
<1>7. contents[f] = Content(f)
  BY <1>2 DEF contents
<1>8. got' = LET there == SubSeq(Content(f), pos + 1, Len(Content(f)))
             IN  IF n <= Len(there) THEN SubSeq(there, 1, n) ELSE Append(there, Newline)
  BY <1>1, <1>4, <1>6 DEF KvfsRead
<1> QED BY <1>1, <1>2, <1>3, <1>7, <1>8 DEF Whole!Read, contents

LEMMA CallIsTaken ==
    ASSUME KvfsInv, KvfsInv', NEW t \in Threads, NEW w \in Words, WriteCall(t, w)
    PROVE  Whole!Taken /\ UNCHANGED contents
<1>1. contents' = contents
  BY CallKeeps, ContentsKept
<1> QED BY <1>1 DEF WriteCall, Whole!Taken, contents

(* For an append the position is moved to the end before the write.        *)
LEMMA StartIsSeek ==
    ASSUME KvfsInv, KvfsInv', NEW t \in Threads, WriteStart(t)
    PROVE  Whole!Seek(t) /\ UNCHANGED contents
<1>1. pc[t] = "start" /\ open' = [open EXCEPT ![t].pos = Position(t)] /\ got' = <<>>
  BY DEF WriteStart
<1>2. Position(t) \in Nat /\ open[t].file # NULL
  BY <1>1, Writer, KvfsFileAssumption DEF Position
<1>3. contents' = contents
  BY StartKeeps, ContentsKept
<1> QED BY <1>1, <1>2, <1>3, MoveIsSeek

LEMMA AllocIsTaken ==
    ASSUME KvfsInv, KvfsInv', NEW t \in Threads, WriteAlloc(t)
    PROVE  Whole!Taken /\ UNCHANGED contents
<1>1. contents' = contents
  BY AllocKeeps, ContentsKept
<1> QED BY <1>1 DEF WriteAlloc, Whole!Taken, contents

LEMMA MoveIsTaken ==
    ASSUME KvfsInv, KvfsInv', NEW t \in Threads, WriteMove(t)
    PROVE  Whole!Taken /\ UNCHANGED contents
<1>1. contents' = contents
  BY MoveKeeps, ContentsKept
<1> QED BY <1>1 DEF WriteMove, Whole!Taken, contents

LEMMA StoreIsWrite ==
    ASSUME KvfsInv, KvfsInv', NEW t \in Threads, WriteStore(t)
    PROVE  Whole!Write(t, word[t])
<1> DEFINE pos == open[t].pos
           w == word[t]
<1>1. PICK f \in Files : f = open[t].file
  BY Writer DEF WriteStore
<1>2. /\ \A g \in Files : g # f => Content(g)' = Content(g)
      /\ Content(f)' = Whole!Overwrite(Content(f), pos, w)
  BY <1>1, StoreWrites
<1>3. contents' = [contents EXCEPT ![f] = Whole!Overwrite(@, pos, w)]
  BY <1>2 DEF contents
<1>4. /\ "write" \in open[t].mode
      /\ "append" \in open[t].mode => pos = size[f]
  BY <1>1 DEF WriteStore, KvfsInv, CallInv
<1>5. contents[f] = Content(f) /\ Len(Content(f)) = size[f]
  BY ContentHolds DEF contents, ContentInv
<1>6. pos = IF "append" \in open[t].mode THEN Len(contents[f]) ELSE open[t].pos
  BY <1>4, <1>5
<1>7. open' = [open EXCEPT ![t].pos = pos + Len(w)] /\ got' = <<>>
  BY DEF WriteStore
<1> QED BY <1>1, <1>3, <1>4, <1>6, <1>7, KvfsFileAssumption DEF Whole!Write, contents

-----------------------------------------------------------------------------
(* No write in append mode changes or cuts what is there.                  *)
LEMMA AppendExtends ==
    ASSUME KvfsInv, KvfsInv', NEW t \in Threads, WriteStore(t), NEW f \in Files,
           open[t].file = f => "append" \in open[t].mode
    PROVE  IsPrefix(Content(f), Content(f)')
<1>1. /\ Content(f) \in Seq(Bytes) /\ Content(f)' \in Seq(Bytes)
      /\ Len(Content(f)) = size[f] /\ size[f] \in Nat
  BY ContentHolds, AfterHolds DEF ContentInv, KvfsInv, TypeOK
<1>2. PICK g \in Files : g = open[t].file
  BY Writer DEF WriteStore
<1>3. CASE g # f
  <2>1. Content(f)' = Content(f)
    BY <1>2, <1>3, StoreWrites
  <2> QED BY <1>1, <2>1 DEF IsPrefix
<1>4. CASE g = f
  <2> DEFINE pos == open[t].pos
             w == word[t]
  <2>1. Content(f)' = Whole!Overwrite(Content(f), pos, w)
    BY <1>2, <1>4, StoreWrites
  <2>2. pos = size[f] /\ Len(w) \in Nat /\ w \in Seq(Bytes)
    BY <1>2, <1>4, Writer DEF WriteStore, KvfsInv, CallInv
  <2>3. Content(f)' = [i \in 1..(size[f] + Len(w)) |->
                          IF i \in (size[f] + 1)..(size[f] + Len(w)) THEN w[i - size[f]]
                          ELSE IF i <= size[f] THEN Content(f)[i] ELSE Zero]
    BY <1>1, <2>1, <2>2 DEF Whole!Overwrite
  <2>4. Len(Content(f)') = size[f] + Len(w)
    BY <1>1, <2>2, <2>3, LenProperties
  <2>5. \A i \in 1..size[f] : Content(f)'[i] = Content(f)[i]
    BY <1>1, <2>2, <2>3
  <2>6. /\ SubSeq(Content(f), 1, size[f]) \in Seq(Bytes)
        /\ SubSeq(Content(f)', 1, size[f]) \in Seq(Bytes)
        /\ Len(SubSeq(Content(f), 1, size[f])) = size[f]
        /\ Len(SubSeq(Content(f)', 1, size[f])) = size[f]
        /\ \A i \in 1..size[f] : SubSeq(Content(f), 1, size[f])[i] = Content(f)[i]
        /\ \A i \in 1..size[f] : SubSeq(Content(f)', 1, size[f])[i] = Content(f)'[i]
    BY <1>1, <2>2, <2>4, PrefixFacts
  <2>7. SubSeq(Content(f), 1, size[f]) = SubSeq(Content(f)', 1, size[f])
    BY <2>5, <2>6, SeqEqual
  <2> QED BY <1>1, <2>2, <2>4, <2>7 DEF IsPrefix
<1> QED BY <1>3, <1>4

LEMMA KeptExtends ==
    ASSUME KvfsInv, NEW f \in Files, Content(f)' = Content(f)
    PROVE  IsPrefix(Content(f), Content(f)')
<1>1. Content(f) \in Seq(Bytes)
  BY ContentHolds DEF ContentInv
<1> QED BY <1>1 DEF IsPrefix

LEMMA ContentOfContents ==
    ASSUME UNCHANGED contents, NEW f \in Files
    PROVE  Content(f)' = Content(f)
<1> QED BY DEF contents

LEMMA NextExtends ==
    ASSUME KvfsInv, KvfsInv', Next, NEW f \in Files,
           \A t \in Threads : open[t].file = f => "append" \in open[t].mode
    PROVE  IsPrefix(Content(f), Content(f)')
<1>1. CASE \E t \in Threads : WriteStore(t)
  BY <1>1, AppendExtends
<1>2. CASE ~\E t \in Threads : WriteStore(t)
  <2>1. UNCHANGED contents
    BY <1>2, OpenIsOpen, CloseIsClose, SeekIsSeek, ReadIsRead, CallIsTaken, StartIsSeek,
       AllocIsTaken, MoveIsTaken DEF Next
  <2> QED BY <2>1, ContentOfContents, KeptExtends
<1> QED BY <1>1, <1>2

(* Threads that only append to a file lose nothing of each other.          *)
THEOREM AppendsAreKept == Spec => AppendsKept
<1> DEFINE Extends == \A f \in Files :
              (\A t \in Threads : open[t].file = f => "append" \in open[t].mode) =>
                 IsPrefix(Content(f), Content(f)')
<1>1. KvfsInv /\ KvfsInv' /\ [Next]_vars => [Extends]_vars
  BY NextExtends
<1> HIDE DEF Extends
<1>2. Spec => [][Extends]_vars
  BY <1>1, Invariant, PTL DEF Spec
<1> QED BY <1>2 DEF AppendsKept, Extends

(* Reads, writes and seeks are those of WholeFile, each at once.           *)
THEOREM Implementation == Spec => ImplementsWholeFile
<1>1. Init => Whole!Init
  <2> SUFFICES ASSUME Init PROVE Whole!Init
    OBVIOUS
  <2>1. \A f \in Files : Content(f) = <<>>
    BY DEF Init, Content, Memory
  <2> QED BY <2>1 DEF Init, Closed, Whole!Init, Whole!Closed
<1>2. KvfsInv /\ KvfsInv' /\ [Next]_vars => [Whole!Next]_(Whole!vars)
  <2> SUFFICES ASSUME KvfsInv, KvfsInv', [Next]_vars PROVE [Whole!Next]_(Whole!vars)
    OBVIOUS
  <2>1. CASE UNCHANGED vars
    BY <2>1 DEF vars, callVars, fileVars, Whole!vars, Content, Memory
  <2>2. ASSUME NEW t \in Threads, NEW f \in Files, NEW mode \in Modes, Open(t, f, mode)
        PROVE  Whole!Next
    BY <2>2, OpenIsOpen DEF Whole!Next
  <2>3. ASSUME NEW t \in Threads, Close(t) PROVE Whole!Next
    BY <2>3, CloseIsClose DEF Whole!Next
  <2>4. ASSUME NEW t \in Threads, NEW offset \in Offsets, NEW whence \in {"SET", "CUR", "END"},
               Seek(t, offset, whence)
        PROVE  Whole!Next
    BY <2>4, SeekIsSeek DEF Whole!Next
  <2>5. ASSUME NEW t \in Threads, NEW n \in Counts, Read(t, n) PROVE Whole!Next
    BY <2>5, ReadIsRead DEF Whole!Next
  <2>6. ASSUME NEW t \in Threads, NEW w \in Words, WriteCall(t, w) PROVE Whole!Next
    BY <2>6, CallIsTaken DEF Whole!Next
  <2>7. ASSUME NEW t \in Threads, WriteStart(t) PROVE Whole!Next
    BY <2>7, StartIsSeek DEF Whole!Next
  <2>8. ASSUME NEW t \in Threads, WriteAlloc(t) PROVE Whole!Next
    BY <2>8, AllocIsTaken DEF Whole!Next
  <2>9. ASSUME NEW t \in Threads, WriteMove(t) PROVE Whole!Next
    BY <2>9, MoveIsTaken DEF Whole!Next
  <2>10. ASSUME NEW t \in Threads, WriteStore(t) PROVE Whole!Next
    <3>1. word[t] \in Words
      BY <2>10 DEF WriteStore, KvfsInv, CallInv
    <3> QED BY <2>10, <3>1, StoreIsWrite DEF Whole!Next
  <2> QED BY <2>1, <2>2, <2>3, <2>4, <2>5, <2>6, <2>7, <2>8, <2>9, <2>10 DEF Next
<1> QED BY <1>1, <1>2, Invariant, PTL DEF Spec, Whole!Spec, ImplementsWholeFile
=============================================================================
