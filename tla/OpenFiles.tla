----------------------------- MODULE OpenFiles -----------------------------
(***************************************************************************)
(* Descriptors and struct files: vfs_open, vfs_read, vfs_write, vfs_lseek  *)
(* and vfs_close of src/vfs.c, the file operations of procfs and devfs     *)
(* they dispatch to, and the life of a thread's descriptors in src/kmt.c.  *)
(*                                                                         *)
(* All but vfs_close run between sem_wait and sem_signal on vfs_sem, here  *)
(* the variable gate (OneInsideVfs of KmtProofs); interrupts are on,       *)
(* so the calls are split where another thread could notice.  vfs_close    *)
(* gives the struct file back and clears the descriptor in two steps, with *)
(* no gate.  pmm->alloc grants any memory that nobody uses (FreshMemory of *)
(* Pmm).  What a path leads to is module Namespace, what a kvfs file holds *)
(* and where its position goes is module KvfsFile.                         *)
(*                                                                         *)
(* A thread reads, writes, seeks and closes descriptors it has open, and   *)
(* is torn down outside of the file system (HoldersLive).                  *)
(***************************************************************************)
EXTENDS Integers, FiniteSets

CONSTANTS
    Threads, launchd,
    MAX_FILE_PER_THREAD,
    Addresses,              \* where struct files can be allocated
    Kvfs, Proc, Devices,    \* inodes of the three file systems; of devfs,
    null,                   \* all behave alike but this one
    Counts,                 \* nbyte of a call
    Lengths,                \* how long a text may be, and i_size
    Offsets, MaxPos,        \* of lseek, and a bound of the model on positions
    NULL

Nodes == Kvfs \cup Proc \cup Devices
Fds == 3..(MAX_FILE_PER_THREAD - 1)     \* above STDERR_FILENO

ASSUME OpenFilesAssumption ==
    /\ launchd \in Threads
    /\ NULL \notin Threads \cup Addresses \cup Nodes
    /\ MAX_FILE_PER_THREAD \in Nat
    /\ Counts \subseteq Nat /\ Lengths \subseteq Nat /\ MaxPos \in Nat /\ Offsets \subseteq Int

VARIABLES
    pool,           \* the threads that are in thread_pool
    fds,            \* file_descriptors of each thread object, from 3 on
    file,           \* the memory of struct files
    gate,           \* the thread that is past sem_wait(&vfs_sem)
    at,             \* where each thread is in a call, and of that call
    fd, new, nbyte, \* the descriptor, the struct file made, the bytes to go
    printed,        \* the last character written to stdout or stderr
    result          \* what the last step returned, if it was a read

callVars == <<gate, at, fd, new, nbyte>>
vars == <<pool, fds, file, gate, at, fd, new, nbyte, printed, result>>

(* struct file, and memory that is none                                    *)
File == [node : Nodes, pos : 0..MaxPos]
NoFile == [node |-> NULL, pos |-> 0]

TypeOK ==
    /\ pool \subseteq Threads
    /\ fds \in [Threads -> [Fds -> Addresses \cup {NULL}]]
    /\ file \in [Addresses -> File \cup {NoFile}]
    /\ gate \in Threads \cup {NULL}
    /\ at \in [Threads -> {"idle", "path", "store", "read", "write", "seek", "print", "clear"}]
    /\ fd \in [Threads -> Fds \cup {NULL}]
    /\ new \in [Threads -> Addresses \cup {NULL}]
    /\ nbyte \in [Threads -> Nat]
    /\ printed \in [by : Threads \cup {NULL}, left : Nat]

Init ==
    /\ pool = {launchd}
    /\ fds = [t \in Threads |-> [i \in Fds |-> NULL]]
    /\ file = [a \in Addresses |-> NoFile]
    /\ gate = NULL
    /\ at = [t \in Threads |-> "idle"]
    /\ fd = [t \in Threads |-> NULL]
    /\ new = [t \in Threads |-> NULL]
    /\ nbyte = [t \in Threads |-> 0]
    /\ printed = [by |-> NULL, left |-> 0]
    /\ result = <<>>

-----------------------------------------------------------------------------
(* Mutant: there is no semaphore.                                          *)
NoGate == TRUE

GateOpen == gate = NULL

(* sem_wait(&vfs_sem) has let t into the call p, with its arguments.       *)
Enter(t, p, i, n) ==
    /\ t \in pool /\ at[t] = "idle"
    /\ GateOpen
    /\ gate' = t
    /\ at' = [at EXCEPT ![t] = p]
    /\ fd' = [fd EXCEPT ![t] = i]
    /\ nbyte' = [nbyte EXCEPT ![t] = n]
    /\ result' = <<>>
    /\ UNCHANGED <<pool, fds, file, new, printed>>

Inside(t, p) == at[t] = p /\ UNCHANGED pool

Stay(t, p) == at' = [at EXCEPT ![t] = p] /\ result' = <<>> /\ UNCHANGED <<gate, fd>>

(* sem_signal(&vfs_sem), and back to the caller.                           *)
Leave(t, r) ==
    /\ gate' = NULL
    /\ at' = [at EXCEPT ![t] = "idle"]
    /\ fd' = [fd EXCEPT ![t] = NULL]
    /\ new' = [new EXCEPT ![t] = NULL]
    /\ nbyte' = [nbyte EXCEPT ![t] = 0]
    /\ result' = r

-----------------------------------------------------------------------------
(* Memory never runs out here: Addresses is a bound of the model.          *)
OpenCall(t) == (\E a \in Addresses : file[a] = NoFile) /\ Enter(t, "path", NULL, 0)

(* make_path has led nowhere: return -1, before there is a struct file.    *)
OpenNowhere(t) ==
    /\ Inside(t, "path")
    /\ Leave(t, <<>>)
    /\ UNCHANGED <<fds, file, printed>>

(* make_path has led to an inode: a struct file for it.                    *)
OpenAlloc(t) ==
    /\ Inside(t, "path")
    /\ \E a \in Addresses, n \in Nodes :
          /\ file[a] = NoFile
          /\ file' = [file EXCEPT ![a] = [node |-> n, pos |-> 0]]
          /\ new' = [new EXCEPT ![t] = a]
    /\ Stay(t, "store")
    /\ UNCHANGED <<fds, nbyte, printed>>

(* Mutant: it does not matter whether a descriptor is in use.              *)
AnyFds(t) == Fds

FreeFds(t) == {i \in Fds : fds[t][i] = NULL}

OpenStore(t) ==
    /\ Inside(t, "store")
    /\ \E i \in FreeFds(t) :
          /\ \A j \in FreeFds(t) : i <= j
          /\ fds' = [fds EXCEPT ![t][i] = new[t]]
    /\ Leave(t, <<>>)
    /\ UNCHANGED <<file, printed>>

(* No free descriptor: return -1, and nobody knows the struct file.        *)
OpenFull(t) ==
    /\ Inside(t, "store")
    /\ FreeFds(t) = {}
    /\ Leave(t, <<>>)
    /\ UNCHANGED <<fds, file, printed>>

-----------------------------------------------------------------------------
CallOn(t, p, i, n) == fds[t][i] # NULL /\ Enter(t, p, i, n)

The(t) == file[fds[t][fd[t]]]

There(len, pos) == IF pos < len THEN len - pos ELSE 0

(* Mutant: the newline is added without looking for room.                  *)
NewlineAlways(len, pos, n) ==
    (IF n <= There(len, pos) THEN n ELSE There(len, pos)) + 1

(* proc_read and kvfs_read: the text from the position on, and a newline   *)
(* if there is room for it.                                                *)
TextRead(len, pos, n) ==
    IF n <= There(len, pos) THEN n ELSE There(len, pos) + 1

(* What read may return; -1 is for a thread that is gone.                  *)
Reads(f, n) ==
    IF f.node \in Devices
      THEN {IF f.node = null THEN 0 ELSE n}
      ELSE {TextRead(len, f.pos, n) : len \in Lengths} \cup {-1 : p \in {f.node} \cap Proc}

Read(t) ==
    /\ Inside(t, "read")
    /\ \E got \in Reads(The(t), nbyte[t]) : Leave(t, <<nbyte[t], got>>)
    /\ UNCHANGED <<fds, file, printed>>

(* Only kvfs_write does something.                                         *)
Write(t) ==
    /\ Inside(t, "write")
    /\ IF The(t).node \in Kvfs
         THEN \E to \in 0..MaxPos : file' = [file EXCEPT ![fds[t][fd[t]]].pos = to]
         ELSE UNCHANGED file
    /\ Leave(t, <<>>)
    /\ UNCHANGED <<fds, printed>>

(* llseek, alike in the three; only kvfs sets i_size.                      *)
SeekTo(f) ==
    {to \in 0..MaxPos : \E o \in Offsets, len \in Lengths : to \in {o, f.pos + o, len + o}}

Seek(t) ==
    /\ Inside(t, "seek")
    /\ \E to \in SeekTo(The(t)) : file' = [file EXCEPT ![fds[t][fd[t]]].pos = to]
    /\ Leave(t, <<>>)
    /\ UNCHANGED <<fds, printed>>

(* A write to stdout or stderr: one printf for every character.            *)
PrintCall(t, n) == Enter(t, "print", NULL, n)

PrintChar(t) ==
    /\ Inside(t, "print")
    /\ nbyte[t] > 0
    /\ nbyte' = [nbyte EXCEPT ![t] = @ - 1]
    /\ printed' = [by |-> t, left |-> nbyte[t] - 1]
    /\ Stay(t, "print")
    /\ UNCHANGED <<fds, file, new>>

PrintDone(t) ==
    /\ Inside(t, "print")
    /\ nbyte[t] = 0
    /\ Leave(t, <<>>)
    /\ UNCHANGED <<fds, file, printed>>

-----------------------------------------------------------------------------
(* vfs_close: pmm->free, then the descriptor.                              *)
CloseFree(t, i) ==
    /\ t \in pool /\ at[t] = "idle"
    /\ fds[t][i] # NULL
    /\ file' = [file EXCEPT ![fds[t][i]] = NoFile]
    /\ at' = [at EXCEPT ![t] = "clear"]
    /\ fd' = [fd EXCEPT ![t] = i]
    /\ result' = <<>>
    /\ UNCHANGED <<pool, fds, gate, new, nbyte, printed>>

(* Mutant: the descriptor keeps what it had.                               *)
Kept(p) == p

Cleared(p) == NULL

CloseClear(t) ==
    /\ Inside(t, "clear")
    /\ fds' = [fds EXCEPT ![t][fd[t]] = Cleared(@)]
    /\ at' = [at EXCEPT ![t] = "idle"]
    /\ fd' = [fd EXCEPT ![t] = NULL]
    /\ result' = <<>>
    /\ UNCHANGED <<file, gate, new, nbyte, printed>>

(* kmt_create: the descriptors of the thread object are NULL, whatever it  *)
(* had open when it was torn down.                                         *)
ThreadStarts(t) ==
    /\ t \notin pool
    /\ pool' = pool \cup {t}
    /\ fds' = [fds EXCEPT ![t] = [i \in Fds |-> NULL]]
    /\ result' = <<>>
    /\ UNCHANGED <<file, callVars, printed>>

ThreadEnds(t) ==
    /\ t \in pool \ {launchd} /\ at[t] = "idle"
    /\ pool' = pool \ {t}
    /\ result' = <<>>
    /\ UNCHANGED <<fds, file, callVars, printed>>

Next ==
    \E t \in Threads :
        \/ OpenCall(t) \/ OpenNowhere(t) \/ OpenAlloc(t) \/ OpenStore(t) \/ OpenFull(t)
        \/ \E i \in Fds, n \in Counts, p \in {"read", "write"} : CallOn(t, p, i, n)
        \/ \E i \in Fds : CallOn(t, "seek", i, 0)
        \/ Read(t) \/ Write(t) \/ Seek(t)
        \/ \E n \in Counts : PrintCall(t, n)
        \/ PrintChar(t) \/ PrintDone(t)
        \/ \E i \in Fds : CloseFree(t, i)
        \/ CloseClear(t)
        \/ ThreadStarts(t) \/ ThreadEnds(t)

Spec == Init /\ [][Next]_vars

-----------------------------------------------------------------------------
(* Descriptor i of t leads to a struct file: not while t is closing it.    *)
Valid(t, i) == fds[t][i] # NULL /\ ~(at[t] = "clear" /\ fd[t] = i)

Allocated == \A t \in Threads, i \in Fds : Valid(t, i) => file[fds[t][i]] # NoFile

Unshared ==
    \A t, u \in Threads, i, j \in Fds :
       Valid(t, i) /\ Valid(u, j) /\ fds[t][i] = fds[u][j] => t = u /\ i = j

InHand ==
    \A t, u \in Threads, i \in Fds :
       new[t] # NULL => file[new[t]] # NoFile /\ (Valid(u, i) => fds[u][i] # new[t])

(* Every descriptor leads to a struct file of its own, though closing one  *)
(* does not wait at the gate and another thread may be granted the memory  *)
(* before the descriptor is cleared: no two descriptors share a position,  *)
(* none leads to freed memory, and none is freed twice.                    *)
FilesOwned == TypeOK /\ Allocated /\ Unshared /\ InHand

(* A struct file is lost, allocated with nobody to give it back, in two    *)
(* ways only: an open that finds no descriptor, and a thread object that   *)
(* is used again after it was torn down with files open.                   *)
Lost(a) ==
    /\ file[a] # NoFile
    /\ \A t \in Threads : new[t] # a /\ \A i \in Fds : Valid(t, i) => fds[t][i] # a

LeaksOnly ==
    [][\A a \in Addresses : ~Lost(a) /\ Lost(a)' =>
          \E t \in Threads : OpenFull(t) \/ ThreadStarts(t)]_vars

(* What threads write to stdout comes out word by word: between the first  *)
(* and the last character of a call nobody else's is written.              *)
StdoutWhole ==
    [][printed' # printed =>
          \/ printed.left = 0
          \/ printed' = [printed EXCEPT !.left = @ - 1]]_vars

(* A read fits into the buffer it was called with, newline included.       *)
ReadsFit == result # <<>> => result[2] \in -1..result[1]
=============================================================================
