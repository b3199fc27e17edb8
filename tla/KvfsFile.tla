------------------------------ MODULE KvfsFile ------------------------------
(***************************************************************************)
(* The contents of files: src/fs/kvfs.c, read, write and llseek, called    *)
(* through vfs_open, vfs_read, vfs_write, vfs_lseek and vfs_close.         *)
(*                                                                         *)
(* A write that makes the file longer allocates new memory, copies and     *)
(* frees the old, and only then points the file at the new: each of these  *)
(* is a step, since interrupts are on.  vfs_sem keeps other threads out    *)
(* (OneInsideVfs of module KmtProofs); here it is the variable gate.       *)
(* A read or a seek changes nothing that a step of another thread could    *)
(* see half done, so it is one step, with the gate open.  vfs_close does   *)
(* not wait at the gate.                                                   *)
(*                                                                         *)
(* Offsets are such that no position is negative.                          *)
(***************************************************************************)
EXTENDS Integers, Sequences, SequencesExt

CONSTANTS
    Files,          \* inodes of kvfs, each with its entry of kvfs_files
    Threads,        \* every thread has one descriptor
    Words,          \* what is written
    Counts,         \* how much a read asks for
    Offsets,        \* of lseek
    Modes,          \* flags of open: sets of "write" (O_WRONLY), "append"
    Zero, Newline,  \* bytes with a meaning of their own
    Junk,           \* what memory that is not ours holds
    Blocks,         \* addresses pmm->alloc gives out
    MaxSize,        \* bound of the model: bytes of a file
    NULL

ASSUME KvfsFileAssumption ==
    /\ NULL \notin Files \cup Threads \cup Blocks
    /\ MaxSize \in Nat /\ Counts \subseteq Nat /\ Offsets \subseteq Int
    /\ Modes \subseteq SUBSET {"write", "append"}

VARIABLES
    gate,           \* the thread that is past sem_wait(&vfs_sem) in a write
    pc, word, new,  \* of that write: where it is, buf, newstart
    open,           \* the struct file of each thread
    size,           \* i_size of each file
    start, extent,  \* its entry of kvfs_files: start, and end - start
    heap,           \* the memory blocks
    got             \* what the last step returned, if it was a read

fileVars == <<size, start, extent, heap>>
callVars == <<gate, pc, word, new>>
vars == <<gate, pc, word, new, open, size, start, extent, heap, got>>

(* A struct file, and a descriptor without one.                            *)
OpenFile == [file : Files \cup {NULL}, pos : Nat, mode : SUBSET {"write", "append"}]

Closed == [file |-> NULL, pos |-> 0, mode |-> {}]

Bytes == {Zero, Newline, Junk} \cup UNION {Range(w) : w \in Words}

ASSUME WordsAssumption == Words \subseteq Seq(Bytes)

(* Memory that is not allocated, or no more: whoever gets it writes to it. *)
FreeBlock == [used |-> FALSE, bytes |-> [i \in 1..MaxSize |-> Junk]]

TypeOK ==
    /\ gate \in Threads \cup {NULL}
    /\ pc \in [Threads -> {"idle", "start", "alloc", "move", "store"}]
    /\ word \in [Threads -> Words \cup {<<>>}]
    /\ new \in [Threads -> Blocks \cup {NULL}]
    /\ open \in [Threads -> OpenFile]
    /\ size \in [Files -> Nat] /\ extent \in [Files -> Nat]
    /\ start \in [Files -> Blocks \cup {NULL}]
    /\ heap \in [Blocks -> [used : BOOLEAN, bytes : Seq(Bytes)]]
    /\ got \in Seq(Bytes)

Init ==
    /\ gate = NULL
    /\ pc = [t \in Threads |-> "idle"]
    /\ word = [t \in Threads |-> <<>>]
    /\ new = [t \in Threads |-> NULL]
    /\ open = [t \in Threads |-> Closed]
    /\ size = [f \in Files |-> 0]
    /\ start = [f \in Files |-> NULL]
    /\ extent = [f \in Files |-> 0]
    /\ heap = [b \in Blocks |-> FreeBlock]
    /\ got = <<>>

Zeros(n) == [i \in 1..n |-> Zero]

(* memcpy of w to the address at + 1 of bytes.                             *)
Copy(bytes, at, w) ==
    [i \in DOMAIN bytes |-> IF i - at \in DOMAIN w THEN w[i - at] ELSE bytes[i]]

-----------------------------------------------------------------------------
Open(t, f, mode) ==
    /\ pc[t] = "idle" /\ gate = NULL /\ open[t] = Closed
    /\ open' = [open EXCEPT ![t] = [file |-> f, pos |-> 0, mode |-> mode]]
    /\ got' = <<>> /\ UNCHANGED <<callVars, fileVars>>

Close(t) ==
    /\ pc[t] = "idle" /\ open[t] # Closed
    /\ open' = [open EXCEPT ![t] = Closed]
    /\ got' = <<>> /\ UNCHANGED <<callVars, fileVars>>

(* vfs_lseek and kvfs_llseek.                                              *)
Seek(t, offset, whence) ==
    LET to == CASE whence = "SET" -> offset
                [] whence = "CUR" -> open[t].pos + offset
                [] whence = "END" -> size[open[t].file] + offset
    IN  /\ pc[t] = "idle" /\ gate = NULL /\ open[t] # Closed
        /\ to \in 0..MaxSize
        /\ open' = [open EXCEPT ![t].pos = to]
        /\ got' = <<>> /\ UNCHANGED <<callVars, fileVars>>

(* Mutant: the last byte in memory is left out.                            *)
AllButLast(f) == SubSeq(heap[start[f]].bytes, 1, extent[f] - 1)

InMemory(f) == SubSeq(heap[start[f]].bytes, 1, extent[f])

(* kvfs_read: up to end, then a newline if there is room for it.           *)
KvfsRead(f, pos, n) ==
    LET there == IF start[f] = NULL THEN <<>> ELSE SubSeq(InMemory(f), pos + 1, Len(InMemory(f)))
    IN  IF n <= Len(there) THEN SubSeq(there, 1, n) ELSE Append(there, Newline)

Read(t, n) ==
    /\ pc[t] = "idle" /\ gate = NULL /\ open[t] # Closed
    /\ got' = KvfsRead(open[t].file, open[t].pos, n)
    /\ UNCHANGED <<callVars, fileVars, open>>

(* Mutant: without sem_wait(&vfs_sem).                                     *)
NoGate == TRUE

GateOpen == gate = NULL

WriteCall(t, w) ==
    /\ pc[t] = "idle" /\ GateOpen /\ open[t] # Closed
    /\ size[open[t].file] + Len(w) <= MaxSize /\ open[t].pos + Len(w) <= MaxSize
    /\ gate' = t
    /\ pc' = [pc EXCEPT ![t] = "start"]
    /\ word' = [word EXCEPT ![t] = w]
    /\ got' = <<>> /\ UNCHANGED <<new, open, fileVars>>

(* sem_signal(&vfs_sem), and back to the caller.                           *)
Return(t) ==
    /\ gate' = NULL
    /\ pc' = [pc EXCEPT ![t] = "idle"]
    /\ word' = [word EXCEPT ![t] = <<>>]
    /\ new' = [new EXCEPT ![t] = NULL]

(* Mutant: O_APPEND is not looked at.                                      *)
PositionKept(t) == open[t].pos

(* O_APPEND: every write starts at the end of the file.                    *)
Position(t) ==
    IF "append" \in open[t].mode THEN size[open[t].file] ELSE open[t].pos

(* Mutant: the old memory is kept when only its last byte would not fit.   *)
GrowsLate(f, end) == end > size[f] + 1

Grows(f, end) == end > size[f]

WriteStart(t) ==
    LET f == open[t].file
        pos == Position(t)
    IN  /\ pc[t] = "start"
        /\ open' = [open EXCEPT ![t].pos = pos]
        /\ \/ /\ "write" \notin open[t].mode
              /\ Return(t)
           \/ /\ "write" \in open[t].mode
              /\ IF Grows(f, pos + Len(word[t]))
                   THEN pc' = [pc EXCEPT ![t] = "alloc"] /\ UNCHANGED new
                   ELSE /\ pc' = [pc EXCEPT ![t] = "store"]
                        /\ new' = [new EXCEPT ![t] = start[f]]
              /\ UNCHANGED <<gate, word>>
        /\ got' = <<>> /\ UNCHANGED fileVars

(* pmm->alloc grants whatever memory is free; memory never runs out here.  *)
WriteAlloc(t) ==
    /\ pc[t] = "alloc"
    /\ \E b \in Blocks :
          /\ ~heap[b].used
          /\ heap' = [heap EXCEPT ![b] = [used |-> TRUE,
                                          bytes |-> Zeros(open[t].pos + Len(word[t]))]]
          /\ new' = [new EXCEPT ![t] = b]
    /\ pc' = [pc EXCEPT ![t] = "move"]
    /\ UNCHANGED <<gate, word, open, size, start, extent>> /\ got' = <<>>

WriteMove(t) ==
    LET f == open[t].file
        old == heap[start[f]]
    IN  /\ pc[t] = "move"
        /\ heap' = IF start[f] = NULL THEN heap
                   ELSE [heap EXCEPT ![new[t]].bytes = Copy(@, 0, SubSeq(old.bytes, 1, size[f])),
                                     ![start[f]] = FreeBlock]
        /\ pc' = [pc EXCEPT ![t] = "store"]
        /\ UNCHANGED <<gate, word, new, open, size, start, extent>> /\ got' = <<>>

WriteStore(t) ==
    LET f == open[t].file
        end == open[t].pos + Len(word[t])
    IN  /\ pc[t] = "store"
        /\ heap' = IF new[t] = NULL THEN heap
                   ELSE [heap EXCEPT ![new[t]].bytes = Copy(@, open[t].pos, word[t])]
        /\ size' = [size EXCEPT ![f] = IF Grows(f, end) THEN end ELSE @]
        /\ extent' = [extent EXCEPT ![f] = IF Grows(f, end) THEN end ELSE @]
        /\ start' = [start EXCEPT ![f] = new[t]]
        /\ open' = [open EXCEPT ![t].pos = end]
        /\ Return(t)
        /\ got' = <<>>

Next ==
    \E t \in Threads :
        \/ \E f \in Files, mode \in Modes : Open(t, f, mode)
        \/ Close(t)
        \/ \E offset \in Offsets, whence \in {"SET", "CUR", "END"} : Seek(t, offset, whence)
        \/ \E n \in Counts : Read(t, n)
        \/ \E w \in Words : WriteCall(t, w)
        \/ WriteStart(t) \/ WriteAlloc(t) \/ WriteMove(t) \/ WriteStore(t)

Spec == Init /\ [][Next]_vars

-----------------------------------------------------------------------------
(* Properties.                                                             *)

(* i_size, by which writes go, is end - start, by which reads go, and the  *)
(* memory is that long.                                                    *)
ExtentExact ==
    \A f \in Files :
        /\ size[f] = extent[f]
        /\ (start[f] # NULL /\ heap[start[f]].used) => Len(heap[start[f]].bytes) = size[f]

(* memcpy to the new memory stays inside what was allocated.               *)
StoresInside ==
    \A t \in Threads :
        (pc[t] = "store" /\ word[t] # <<>>) =>
            /\ new[t] # NULL /\ heap[new[t]].used
            /\ open[t].pos + Len(word[t]) <= Len(heap[new[t]].bytes)

(* Lengths and bounds fit, in every state of a write.                      *)
FileInv == TypeOK /\ ExtentExact /\ StoresInside

Growing(t) == pc[t] \in {"move", "store"}

(* Outside a write every file has its own memory, in use, and no other     *)
(* memory is in use: none is lost, and none is used after it is freed.     *)
MemoryOwned ==
    (\A t \in Threads : ~Growing(t)) =>
        /\ {b \in Blocks : heap[b].used} = {start[f] : f \in Files} \ {NULL}
        /\ \A f, g \in Files : start[f] = start[g] /\ start[f] # NULL => f = g

(* The memory with the bytes of a file: the new one once they are there.   *)
Memory(f) ==
    LET moved == {t \in Threads : pc[t] = "store" /\ open[t].file = f}
    IN  IF moved = {} THEN start[f] ELSE new[CHOOSE t \in moved : TRUE]

Content(f) == IF Memory(f) = NULL THEN <<>> ELSE SubSeq(heap[Memory(f)].bytes, 1, size[f])

(* Threads that write to a file in append mode only, like those of         *)
(* threadfuncvfswrite in vfs_test.c, lose nothing of each other.           *)
AppendsKept ==
    [][\A f \in Files :
          (\A t \in Threads : open[t].file = f => "append" \in open[t].mode) =>
             IsPrefix(Content(f), Content(f)')]_vars

Whole == INSTANCE WholeFile WITH content <- [f \in Files |-> Content(f)]

(* Each call is as if it happened at once (WholeFile).                     *)
ImplementsWholeFile == Whole!Spec
=============================================================================
