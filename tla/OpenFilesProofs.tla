-------------------------- MODULE OpenFilesProofs --------------------------
(***************************************************************************)
(* Proofs about OpenFiles, for all sets of threads, addresses and inodes:  *)
(* FilesOwned, StdoutWhole, ReadsFit and LeaksOnly.                        *)
(***************************************************************************)
EXTENDS OpenFiles, TLAPS

(* What a call in progress may rely on: its thread is in the pool and is   *)
(* the one past the semaphore, unless it is in vfs_close; its descriptor   *)
(* is open; a struct file is in hand only between its making and storing.  *)
CallInv ==
    \A t \in Threads :
       /\ at[t] # "idle" => t \in pool
       /\ at[t] \notin {"idle", "clear"} => gate = t
       /\ at[t] \in {"read", "write", "seek", "clear"} => fd[t] \in Fds /\ fds[t][fd[t]] # NULL
       /\ new[t] # NULL => at[t] = "store"

(* A word that is not finished is being written.                           *)
WordInv ==
    printed.left > 0 => /\ printed.by \in Threads
                        /\ at[printed.by] = "print"
                        /\ nbyte[printed.by] = printed.left

OpenInv == FilesOwned /\ CallInv /\ WordInv

(* The result of a read is apart.                                          *)
LEMMA ReadsBound ==
    ASSUME NEW f \in File, NEW n \in Nat, NEW r \in Reads(f, n)
    PROVE  r \in -1..n
<1>1. ASSUME NEW len \in Lengths PROVE TextRead(len, f.pos, n) \in 0..n
  <2>1. len \in Nat /\ f.pos \in Nat
    BY OpenFilesAssumption DEF File
  <2> QED BY <2>1 DEF TextRead, There
<1>2. CASE f.node \in Devices
  BY <1>2 DEF Reads
<1>3. CASE f.node \notin Devices
  <2>1. r \in {TextRead(len, f.pos, n) : len \in Lengths} \/ r = -1
    BY <1>3 DEF Reads
  <2> QED BY <2>1, <1>1
<1> QED BY <1>2, <1>3

LEMMA InitInv == Init => OpenInv /\ ReadsFit
<1> SUFFICES ASSUME Init PROVE OpenInv /\ ReadsFit
  OBVIOUS
<1>1. NoFile \in File \cup {NoFile}
  OBVIOUS
<1>2. TypeOK
  BY OpenFilesAssumption DEF Init, TypeOK
<1>3. Allocated /\ Unshared /\ InHand
  BY DEF Init, Allocated, Unshared, InHand, Valid
<1> QED BY <1>2, <1>3 DEF Init, OpenInv, FilesOwned, CallInv, WordInv, ReadsFit

LEMMA EnterInv ==
    ASSUME OpenInv, NEW t \in Threads,
           NEW p \in {"path", "read", "write", "seek", "print"},
           NEW i \in Fds \cup {NULL}, NEW n \in Nat,
           Enter(t, p, i, n),
           p \in {"read", "write", "seek"} => i \in Fds /\ fds[t][i] # NULL
    PROVE  OpenInv'
<1> USE DEF OpenInv, FilesOwned
<1>1. /\ \A u \in Threads : at'[u] = IF u = t THEN p ELSE at[u]
      /\ \A u \in Threads : fd'[u] = IF u = t THEN i ELSE fd[u]
      /\ \A u \in Threads : nbyte'[u] = IF u = t THEN n ELSE nbyte[u]
  BY DEF Enter, TypeOK
<1>2. TypeOK'
  BY DEF Enter, TypeOK
<1>3. \A u \in Threads, j \in Fds : Valid(u, j)' <=> Valid(u, j)
  BY <1>1 DEF Enter, Valid
<1>4. Allocated' /\ Unshared' /\ InHand'
  BY <1>3 DEF Enter, Allocated, Unshared, InHand
<1>5. CallInv'
  BY <1>1, OpenFilesAssumption DEF Enter, GateOpen, CallInv, TypeOK
<1>6. WordInv'
  BY <1>1 DEF Enter, WordInv, TypeOK
<1> QED BY <1>2, <1>4, <1>5, <1>6

(* Leaving the file system changes nothing but the call's own variables.   *)
LEMMA LeaveCall ==
    ASSUME OpenInv, NEW t \in Threads, at[t] \notin {"idle", "clear"},
           at[t] = "print" => nbyte[t] = 0,
           NEW r, Leave(t, r), UNCHANGED <<pool, printed>>,
           fds' \in [Threads -> [Fds -> Addresses \cup {NULL}]],
           file' \in [Addresses -> File \cup {NoFile}]
    PROVE  /\ TypeOK' /\ WordInv'
           /\ \A u \in Threads : /\ new'[u] = NULL
                                 /\ fd'[u] = IF u = t THEN NULL ELSE fd[u]
                                 /\ at'[u] = IF u = t THEN "idle" ELSE at[u]
           /\ (\A u \in Threads \ {t} : fds'[u] = fds[u]) => CallInv'
<1> USE DEF OpenInv, FilesOwned
<1>1. gate = t /\ \A u \in Threads : new[u] # NULL => u = t
  BY DEF CallInv
<1>2. /\ \A u \in Threads : at'[u] = IF u = t THEN "idle" ELSE at[u]
      /\ \A u \in Threads : fd'[u] = IF u = t THEN NULL ELSE fd[u]
      /\ \A u \in Threads : new'[u] = IF u = t THEN NULL ELSE new[u]
      /\ \A u \in Threads : nbyte'[u] = IF u = t THEN 0 ELSE nbyte[u]
  BY DEF Leave, TypeOK
<1>3. TypeOK'
  BY DEF Leave, TypeOK
<1>4. WordInv'
  <2>1. ~(printed.left > 0)
    BY <1>1 DEF WordInv, CallInv, TypeOK
  <2> QED BY <2>1 DEF WordInv
<1>5. ASSUME \A u \in Threads \ {t} : fds'[u] = fds[u]
      PROVE  CallInv'
  <2>1. \A u \in Threads \ {t} : at[u] \in {"idle", "clear"} /\ fds'[u] = fds[u]
    BY <1>1, <1>5 DEF CallInv
  <2> QED BY <1>1, <1>2, <2>1 DEF Leave, CallInv
<1> QED BY <1>1, <1>2, <1>3, <1>4, <1>5

(* open: the struct file made is in the caller's hand ...                  *)
LEMMA OpenAllocInv == ASSUME OpenInv, NEW t \in Threads, OpenAlloc(t) PROVE OpenInv'
<1> USE DEF OpenInv, FilesOwned
<1>1. PICK a \in Addresses, n \in Nodes :
        /\ file[a] = NoFile
        /\ file' = [file EXCEPT ![a] = [node |-> n, pos |-> 0]]
        /\ new' = [new EXCEPT ![t] = a]
  BY DEF OpenAlloc
<1>2. /\ at[t] = "path" /\ at' = [at EXCEPT ![t] = "store"]
      /\ UNCHANGED <<pool, fds, gate, fd, nbyte, printed>>
  BY DEF OpenAlloc, Inside, Stay
<1>3. [node |-> n, pos |-> 0] \in File /\ [node |-> n, pos |-> 0] # NoFile
  BY OpenFilesAssumption DEF File, NoFile
<1>4. /\ file'[a] # NoFile /\ \A b \in Addresses \ {a} : file'[b] = file[b]
      /\ new'[t] = a /\ \A u \in Threads \ {t} : new'[u] = new[u]
      /\ at'[t] = "store" /\ \A u \in Threads \ {t} : at'[u] = at[u]
  BY <1>1, <1>2, <1>3 DEF TypeOK
<1>5. TypeOK'
  BY <1>1, <1>2, <1>3 DEF TypeOK
<1>6. \A u \in Threads \ {t} : new[u] = NULL
  BY <1>2 DEF CallInv
<1>7. \A u \in Threads, i \in Fds :
         /\ Valid(u, i)' <=> Valid(u, i)
         /\ Valid(u, i) => fds[u][i] \in Addresses \ {a}
  BY <1>1, <1>2, <1>4 DEF Valid, Allocated, TypeOK
<1>8. Allocated' /\ Unshared'
  BY <1>2, <1>4, <1>7 DEF Allocated, Unshared
<1>9. InHand'
  BY <1>2, <1>4, <1>6, <1>7 DEF InHand
<1>10. CallInv'
  BY <1>2, <1>4 DEF CallInv
<1>11. WordInv'
  BY <1>2, <1>4 DEF WordInv
<1> QED BY <1>5, <1>8, <1>9, <1>10, <1>11

(* ... and in no other place until it is in the free descriptor.           *)
LEMMA OpenStoreInv == ASSUME OpenInv, NEW t \in Threads, OpenStore(t) PROVE OpenInv'
<1> USE DEF OpenInv, FilesOwned
<1>1. PICK k \in Fds : fds[t][k] = NULL /\ fds' = [fds EXCEPT ![t][k] = new[t]]
  BY DEF OpenStore, FreeFds
<1>2. /\ at[t] = "store" /\ Leave(t, <<>>) /\ UNCHANGED <<pool, file, printed>>
  BY DEF OpenStore, Inside
<1>3. /\ fds' \in [Threads -> [Fds -> Addresses \cup {NULL}]]
      /\ fds'[t][k] = new[t]
      /\ \A i \in Fds \ {k} : fds'[t][i] = fds[t][i]
      /\ \A u \in Threads \ {t} : fds'[u] = fds[u]
  BY <1>1 DEF TypeOK
<1>4. /\ TypeOK' /\ WordInv' /\ CallInv'
      /\ \A u \in Threads : /\ new'[u] = NULL
                            /\ fd'[u] = IF u = t THEN NULL ELSE fd[u]
                            /\ at'[u] = IF u = t THEN "idle" ELSE at[u]
  BY <1>2, <1>3, LeaveCall DEF TypeOK
<1>5. \A u \in Threads, i \in Fds :
         ~(u = t /\ i = k) => (Valid(u, i)' <=> Valid(u, i)) /\ fds'[u][i] = fds[u][i]
  BY <1>2, <1>3, <1>4 DEF Valid
<1>6. Valid(t, k)' => new[t] # NULL /\ fds'[t][k] = new[t]
  BY <1>3 DEF Valid
<1>7. Allocated'
  BY <1>2, <1>5, <1>6 DEF Allocated, InHand
<1>8. Unshared'
  BY <1>5, <1>6 DEF Unshared, InHand
<1>9. InHand'
  BY <1>4 DEF InHand
<1> QED BY <1>4, <1>7, <1>8, <1>9

(* The end of a call that leaves the descriptors alone and changes at most *)
(* the position of the struct file it worked on.                           *)
LEMMA LeaveInv ==
    ASSUME OpenInv, NEW t \in Threads, at[t] \notin {"idle", "clear"},
           at[t] = "print" => nbyte[t] = 0,
           NEW r, Leave(t, r), UNCHANGED <<pool, fds, printed>>,
           file' \in [Addresses -> File \cup {NoFile}],
           \A a \in Addresses : file'[a] = NoFile <=> file[a] = NoFile
    PROVE  OpenInv'
<1> USE DEF OpenInv, FilesOwned
<1>1. /\ TypeOK' /\ WordInv' /\ CallInv'
      /\ \A u \in Threads : /\ new'[u] = NULL
                            /\ fd'[u] = IF u = t THEN NULL ELSE fd[u]
                            /\ at'[u] = IF u = t THEN "idle" ELSE at[u]
  BY LeaveCall DEF TypeOK
<1>2. \A u \in Threads, i \in Fds :
         /\ Valid(u, i)' <=> Valid(u, i)
         /\ Valid(u, i) => fds[u][i] \in Addresses
  BY <1>1 DEF Valid, TypeOK
<1>3. Allocated' /\ Unshared' /\ InHand'
  BY <1>1, <1>2 DEF Allocated, Unshared, InHand
<1> QED BY <1>1, <1>3

LEMMA OpenFullInv == ASSUME OpenInv, NEW t \in Threads, OpenFull(t) PROVE OpenInv'
  BY LeaveInv DEF OpenFull, Inside, OpenInv, FilesOwned, TypeOK

LEMMA OpenNowhereInv == ASSUME OpenInv, NEW t \in Threads, OpenNowhere(t) PROVE OpenInv'
  BY LeaveInv DEF OpenNowhere, Inside, OpenInv, FilesOwned, TypeOK

LEMMA ReadInv == ASSUME OpenInv, NEW t \in Threads, Read(t) PROVE OpenInv'
<1>1. PICK r : Leave(t, r)
  BY DEF Read
<1> QED BY <1>1, LeaveInv DEF Read, Inside, OpenInv, FilesOwned, TypeOK

LEMMA PrintDoneInv == ASSUME OpenInv, NEW t \in Threads, PrintDone(t) PROVE OpenInv'
  BY LeaveInv DEF PrintDone, Inside, OpenInv, FilesOwned, TypeOK

(* The struct file a read, a write or a seek works on is there.            *)
LEMMA TheFile ==
    ASSUME OpenInv, NEW t \in Threads, at[t] \in {"read", "write", "seek"}
    PROVE  fds[t][fd[t]] \in Addresses /\ The(t) \in File
<1>1. fd[t] \in Fds /\ Valid(t, fd[t])
  BY DEF OpenInv, CallInv, Valid
<1>2. fds[t][fd[t]] \in Addresses /\ The(t) # NoFile
  BY <1>1 DEF OpenInv, FilesOwned, TypeOK, Allocated, The, Valid
<1> QED BY <1>2 DEF OpenInv, FilesOwned, TypeOK, The

LEMMA MoveInv ==
    ASSUME OpenInv, NEW t \in Threads, at[t] \in {"write", "seek"},
           NEW to \in 0..MaxPos, file' = [file EXCEPT ![fds[t][fd[t]]].pos = to],
           Leave(t, <<>>), UNCHANGED <<pool, fds, printed>>
    PROVE  OpenInv'
<1> DEFINE a == fds[t][fd[t]]
           f == [file[a] EXCEPT !.pos = to]
<1>1. a \in Addresses /\ file[a] \in File
  BY TheFile DEF The
<1>2. f \in File /\ f # NoFile /\ file[a] # NoFile
  BY <1>1, OpenFilesAssumption DEF File, NoFile
<1>3. file' = [file EXCEPT ![a] = f]
  OBVIOUS
<1>4. /\ file' \in [Addresses -> File \cup {NoFile}]
      /\ \A b \in Addresses : file'[b] = NoFile <=> file[b] = NoFile
  <2>1. file \in [Addresses -> File \cup {NoFile}]
    BY DEF OpenInv, FilesOwned, TypeOK
  <2> HIDE DEF a, f
  <2> QED BY <1>1, <1>2, <1>3, <2>1
<1> QED BY <1>4, LeaveInv

LEMMA WriteInv == ASSUME OpenInv, NEW t \in Threads, Write(t) PROVE OpenInv'
<1>1. CASE The(t).node \in Kvfs
  BY <1>1, MoveInv DEF Write, Inside
<1>2. CASE The(t).node \notin Kvfs
  BY <1>2, LeaveInv DEF Write, Inside, OpenInv, FilesOwned, TypeOK
<1> QED BY <1>1, <1>2

LEMMA SeekInv == ASSUME OpenInv, NEW t \in Threads, Seek(t) PROVE OpenInv'
<1>1. PICK to \in SeekTo(The(t)) : file' = [file EXCEPT ![fds[t][fd[t]]].pos = to]
  BY DEF Seek
<1>2. to \in 0..MaxPos
  BY DEF SeekTo
<1> QED BY <1>1, <1>2, MoveInv DEF Seek, Inside

LEMMA PrintInv == ASSUME OpenInv, NEW t \in Threads, PrintChar(t) PROVE OpenInv'
<1> USE DEF OpenInv, FilesOwned
<1>1. /\ at[t] = "print" /\ nbyte[t] \in Nat /\ nbyte[t] > 0
      /\ UNCHANGED <<pool, fds, file, gate, fd, new>>
      /\ at' = at /\ nbyte' = [nbyte EXCEPT ![t] = nbyte[t] - 1]
      /\ printed' = [by |-> t, left |-> nbyte[t] - 1]
  BY DEF PrintChar, Inside, Stay, TypeOK
<1>2. TypeOK'
  BY <1>1 DEF TypeOK
<1>3. Allocated' /\ Unshared' /\ InHand' /\ CallInv'
  BY <1>1 DEF Allocated, Unshared, InHand, CallInv, Valid
<1>4. WordInv'
  BY <1>1 DEF WordInv, TypeOK
<1> QED BY <1>2, <1>3, <1>4

(* close: from pmm->free on the descriptor is not valid any more, so the   *)
(* memory may be granted again before the descriptor is cleared.           *)
LEMMA CloseFreeInv ==
    ASSUME OpenInv, NEW t \in Threads, NEW i \in Fds, CloseFree(t, i) PROVE OpenInv'
<1> USE DEF OpenInv, FilesOwned
<1> DEFINE a == fds[t][i]
<1>1. /\ t \in pool /\ at[t] = "idle" /\ a \in Addresses /\ a # NULL
      /\ file' = [file EXCEPT ![a] = NoFile]
      /\ at' = [at EXCEPT ![t] = "clear"] /\ fd' = [fd EXCEPT ![t] = i]
      /\ UNCHANGED <<pool, fds, gate, new, nbyte, printed>>
  BY DEF CloseFree, TypeOK
<1>2. Valid(t, i)
  BY <1>1 DEF Valid
<1>3. TypeOK'
  BY <1>1 DEF TypeOK
<1>4. \A u \in Threads : /\ at'[u] = IF u = t THEN "clear" ELSE at[u]
                        /\ fd'[u] = IF u = t THEN i ELSE fd[u]
  BY <1>1 DEF TypeOK
<1>5. \A u \in Threads, j \in Fds :
         Valid(u, j)' => Valid(u, j) /\ ~(u = t /\ j = i) /\ fds[u][j] \in Addresses \ {a}
  BY <1>1, <1>2, <1>4 DEF Valid, Unshared, TypeOK
<1>6. \A b \in Addresses \ {a} : file'[b] = file[b]
  BY <1>1 DEF TypeOK
<1>7. Allocated' /\ Unshared'
  BY <1>1, <1>5, <1>6 DEF Allocated, Unshared
<1>8. \A u \in Threads : new[u] # NULL => new[u] \in Addresses \ {a}
  BY <1>2 DEF InHand, TypeOK
<1>9. InHand'
  BY <1>1, <1>5, <1>6, <1>8 DEF InHand
<1>10. CallInv'
  BY <1>1, <1>4 DEF CallInv
<1>11. WordInv'
  BY <1>1, <1>4 DEF WordInv
<1> QED BY <1>3, <1>7, <1>9, <1>10, <1>11

LEMMA CloseClearInv == ASSUME OpenInv, NEW t \in Threads, CloseClear(t) PROVE OpenInv'
<1> USE DEF OpenInv, FilesOwned
<1>1. /\ at[t] = "clear" /\ fd[t] \in Fds
      /\ fds' = [fds EXCEPT ![t] = [fds[t] EXCEPT ![fd[t]] = NULL]]
      /\ at' = [at EXCEPT ![t] = "idle"] /\ fd' = [fd EXCEPT ![t] = NULL]
      /\ UNCHANGED <<pool, file, gate, new, nbyte, printed>>
  BY DEF CloseClear, Inside, Cleared, CallInv
<1>2. /\ fds' \in [Threads -> [Fds -> Addresses \cup {NULL}]]
      /\ fds'[t][fd[t]] = NULL
      /\ \A i \in Fds \ {fd[t]} : fds'[t][i] = fds[t][i]
      /\ \A u \in Threads \ {t} : fds'[u] = fds[u]
  BY <1>1 DEF TypeOK
<1>3. \A u \in Threads : /\ at'[u] = IF u = t THEN "idle" ELSE at[u]
                        /\ fd'[u] = IF u = t THEN NULL ELSE fd[u]
  BY <1>1 DEF TypeOK
<1>4. TypeOK'
  BY <1>1, <1>2 DEF TypeOK
<1>5. \A u \in Threads, i \in Fds : Valid(u, i)' => Valid(u, i) /\ fds'[u][i] = fds[u][i]
  BY <1>1, <1>2, <1>3 DEF Valid
<1>6. Allocated' /\ Unshared' /\ InHand'
  BY <1>1, <1>5 DEF Allocated, Unshared, InHand
<1>7. CallInv'
  BY <1>1, <1>2, <1>3 DEF CallInv
<1>8. WordInv'
  BY <1>1, <1>3 DEF WordInv
<1> QED BY <1>4, <1>6, <1>7, <1>8

(* A thread that is created anew is in no call.                            *)
LEMMA ThreadStartsInv == ASSUME OpenInv, NEW t \in Threads, ThreadStarts(t) PROVE OpenInv'
<1> USE DEF OpenInv, FilesOwned
<1>1. /\ t \notin pool /\ pool' = pool \cup {t}
      /\ fds' = [fds EXCEPT ![t] = [i \in Fds |-> NULL]]
      /\ UNCHANGED <<file, gate, at, fd, new, nbyte, printed>>
  BY DEF ThreadStarts, callVars
<1>2. /\ fds' \in [Threads -> [Fds -> Addresses \cup {NULL}]]
      /\ \A i \in Fds : fds'[t][i] = NULL
      /\ \A u \in Threads \ {t} : fds'[u] = fds[u]
  BY <1>1 DEF TypeOK
<1>3. TypeOK'
  BY <1>1, <1>2 DEF TypeOK
<1>4. \A u \in Threads, i \in Fds : Valid(u, i)' => Valid(u, i) /\ fds'[u][i] = fds[u][i]
  BY <1>1, <1>2 DEF Valid
<1>5. Allocated' /\ Unshared' /\ InHand'
  BY <1>1, <1>4 DEF Allocated, Unshared, InHand
<1>6. CallInv'
  BY <1>1, <1>2 DEF CallInv
<1>7. WordInv'
  BY <1>1 DEF WordInv
<1> QED BY <1>3, <1>5, <1>6, <1>7

LEMMA ThreadEndsInv == ASSUME OpenInv, NEW t \in Threads, ThreadEnds(t) PROVE OpenInv'
<1> USE DEF OpenInv, FilesOwned
<1>1. /\ at[t] = "idle" /\ pool' = pool \ {t}
      /\ UNCHANGED <<fds, file, gate, at, fd, new, nbyte, printed>>
  BY DEF ThreadEnds, callVars
<1>2. TypeOK' /\ Allocated' /\ Unshared' /\ InHand'
  BY <1>1 DEF TypeOK, Allocated, Unshared, InHand, Valid
<1>3. CallInv' /\ WordInv'
  BY <1>1 DEF CallInv, WordInv
<1> QED BY <1>2, <1>3

-----------------------------------------------------------------------------
LEMMA NextInv == ASSUME OpenInv, [Next]_vars PROVE OpenInv'
<1>1. CASE UNCHANGED vars
  BY <1>1 DEF vars, OpenInv, FilesOwned, TypeOK, Allocated, Unshared, InHand, CallInv, WordInv,
              Valid
<1>2. ASSUME NEW t \in Threads, OpenCall(t) PROVE OpenInv'
  BY <1>2, EnterInv DEF OpenCall
<1>3. ASSUME NEW t \in Threads, NEW i \in Fds, NEW n \in Nat,
             NEW p \in {"read", "write", "seek"}, CallOn(t, p, i, n)
      PROVE  OpenInv'
  BY <1>3, EnterInv DEF CallOn
<1>4. ASSUME NEW t \in Threads, NEW n \in Counts, PrintCall(t, n) PROVE OpenInv'
  <2>1. n \in Nat
    BY OpenFilesAssumption
  <2> QED BY <1>4, <2>1, EnterInv DEF PrintCall
<1> QED
  BY <1>1, <1>2, <1>3, <1>4, OpenAllocInv, OpenStoreInv, OpenFullInv,
     OpenNowhereInv, ReadInv, WriteInv,
     SeekInv, PrintInv, PrintDoneInv, CloseFreeInv, CloseClearInv, ThreadStartsInv,
     ThreadEndsInv, OpenFilesAssumption DEF Next

(* Every descriptor leads to a struct file of its own: vfs_open and        *)
(* vfs_close, interrupted anywhere, with any number of threads.            *)
THEOREM EachItsFile == Spec => []FilesOwned
<1>1. OpenInv => FilesOwned
  BY DEF OpenInv
<1> QED BY InitInv, NextInv, <1>1, PTL DEF Spec

(* vfs_write to stdout: a word is not cut by a word of another thread.     *)
THEOREM WordsWhole == Spec => StdoutWhole
<1>1. ASSUME OpenInv, [Next]_vars
      PROVE  [printed.left = 0 \/ printed' = [printed EXCEPT !.left = @ - 1]]_printed
  <2>1. ASSUME NEW t \in Threads, PrintChar(t)
        PROVE  printed.left = 0 \/ printed' = [printed EXCEPT !.left = @ - 1]
    <3>1. at[t] = "print" /\ printed' = [by |-> t, left |-> nbyte[t] - 1]
      BY <2>1 DEF PrintChar, Inside
    <3>2. printed \in [by : Threads \cup {NULL}, left : Nat]
      BY <1>1 DEF OpenInv, FilesOwned, TypeOK
    <3>3. CASE printed.left > 0
      <4>1. printed.by = t /\ nbyte[t] = printed.left
        BY <1>1, <3>1, <3>3 DEF OpenInv, WordInv, CallInv
      <4> QED BY <3>1, <3>2, <4>1
    <3> QED BY <3>2, <3>3
  <2>2. printed' = printed \/ \E t \in Threads : PrintChar(t)
    BY <1>1 DEF Next, vars, OpenCall, OpenNowhere, OpenAlloc, OpenStore, OpenFull, CallOn,
                Enter, Read, Write, Seek, PrintCall, PrintDone, CloseFree, CloseClear, ThreadStarts,
                ThreadEnds
  <2> QED BY <2>1, <2>2
<1>2. [printed.left = 0 \/ printed' = [printed EXCEPT !.left = @ - 1]]_printed =>
      [printed' # printed =>
          \/ printed.left = 0
          \/ printed' = [printed EXCEPT !.left = @ - 1]]_vars
  OBVIOUS
<1> QED BY InitInv, NextInv, <1>1, <1>2, PTL DEF Spec, StdoutWhole

(* The read of every file system stays inside the caller's buffer.         *)
THEOREM ReadsInside == Spec => []ReadsFit
<1>1. ASSUME OpenInv, ReadsFit, [Next]_vars PROVE ReadsFit'
  <2>1. ASSUME NEW t \in Threads, Read(t) PROVE ReadsFit'
    <3>1. The(t) \in File /\ nbyte[t] \in Nat
      BY <1>1, <2>1, TheFile DEF Read, Inside, OpenInv, FilesOwned, TypeOK
    <3>2. PICK got \in Reads(The(t), nbyte[t]) : result' = <<nbyte[t], got>>
      BY <2>1 DEF Read, Leave
    <3> QED BY <3>1, <3>2, ReadsBound DEF ReadsFit
  <2>2. result' \in {result, <<>>} \/ \E t \in Threads : Read(t)
    BY <1>1 DEF Next, vars, OpenCall, OpenNowhere, OpenAlloc, OpenStore, OpenFull, CallOn,
                Enter, Stay, Leave, Write, Seek, PrintCall, PrintChar, PrintDone, CloseFree, CloseClear,
                ThreadStarts, ThreadEnds
  <2> QED BY <1>1, <2>1, <2>2 DEF ReadsFit
<1> QED BY InitInv, NextInv, <1>1, PTL DEF Spec

-----------------------------------------------------------------------------
(* Who can still give a struct file back.                                  *)
Held(a) ==
    \E t \in Threads : new[t] = a \/ \E i \in Fds : Valid(t, i) /\ fds[t][i] = a

(* No step but OpenFull and ThreadStarts drops the last way to a file.     *)
StaysHeld(a) == Held(a) => Held(a)' \/ file'[a] = NoFile

Made(a) == file'[a] # NoFile => file[a] # NoFile \/ Held(a)'

Keeps == \A a \in Addresses : StaysHeld(a) /\ Made(a)

LEMMA KeepsLeaks == ASSUME Keeps, NEW a \in Addresses, Lost(a)' PROVE Lost(a)
<1>1. Lost(a) <=> file[a] # NoFile /\ ~Held(a)
  BY DEF Lost, Held
<1>2. Lost(a)' <=> file'[a] # NoFile /\ ~Held(a)'
  BY DEF Lost, Held
<1> QED BY <1>1, <1>2 DEF Keeps, StaysHeld, Made

(* A step that leaves the holders as they are and makes no struct file.    *)
LEMMA SameHolders ==
    ASSUME UNCHANGED <<fds, new>>,
           \A t \in Threads, i \in Fds : Valid(t, i)' <=> Valid(t, i),
           \A a \in Addresses : file'[a] # NoFile => file[a] # NoFile
    PROVE  Keeps
  BY DEF Keeps, StaysHeld, Made, Held

LEMMA EnterKeeps ==
    ASSUME OpenInv, NEW t \in Threads,
           NEW p \in {"path", "read", "write", "seek", "print"},
           NEW i, NEW n, Enter(t, p, i, n)
    PROVE  Keeps
<1>1. \A u \in Threads : /\ at'[u] = IF u = t THEN p ELSE at[u]
                        /\ fd'[u] = IF u = t THEN i ELSE fd[u]
  BY DEF Enter, OpenInv, FilesOwned, TypeOK
<1>2. \A u \in Threads, j \in Fds : Valid(u, j)' <=> Valid(u, j)
  BY <1>1 DEF Enter, Valid
<1> QED BY <1>2, SameHolders DEF Enter

(* The end of a call with no struct file in hand.                          *)
LEMMA LeaveKeeps ==
    ASSUME OpenInv, NEW t \in Threads, at[t] \in {"path", "read", "write", "seek", "print"},
           NEW r, Leave(t, r), UNCHANGED fds,
           \A a \in Addresses : file'[a] # NoFile => file[a] # NoFile
    PROVE  Keeps
<1>1. new[t] = NULL
  BY DEF OpenInv, CallInv
<1>2. new' = new
  BY <1>1 DEF Leave, OpenInv, FilesOwned, TypeOK
<1>3. \A u \in Threads : /\ at'[u] = IF u = t THEN "idle" ELSE at[u]
                        /\ fd'[u] = IF u = t THEN NULL ELSE fd[u]
  BY DEF Leave, OpenInv, FilesOwned, TypeOK
<1>4. \A u \in Threads, j \in Fds : Valid(u, j)' <=> Valid(u, j)
  BY <1>3 DEF Valid
<1> QED BY <1>2, <1>4, SameHolders

LEMMA MoveKeeps ==
    ASSUME OpenInv, NEW t \in Threads, at[t] \in {"write", "seek"},
           NEW to, file' = [file EXCEPT ![fds[t][fd[t]]].pos = to],
           NEW r, Leave(t, r), UNCHANGED fds
    PROVE  Keeps
<1>1. fds[t][fd[t]] \in Addresses /\ file[fds[t][fd[t]]] # NoFile
  BY TheFile, OpenFilesAssumption DEF The, File, NoFile
<1>2. \A a \in Addresses : file'[a] # NoFile => file[a] # NoFile
  BY <1>1 DEF OpenInv, FilesOwned, TypeOK
<1> QED BY <1>2, LeaveKeeps

LEMMA OpenAllocKeeps == ASSUME OpenInv, NEW t \in Threads, OpenAlloc(t) PROVE Keeps
<1> USE DEF OpenInv, FilesOwned
<1>1. PICK a \in Addresses, n \in Nodes :
        /\ file' = [file EXCEPT ![a] = [node |-> n, pos |-> 0]]
        /\ new' = [new EXCEPT ![t] = a]
  BY DEF OpenAlloc
<1>2. new[t] = NULL /\ at[t] = "path" /\ at' = [at EXCEPT ![t] = "store"] /\ UNCHANGED <<fds, fd>>
  BY DEF OpenAlloc, Inside, Stay, CallInv
<1>3. \A u \in Threads, j \in Fds : Valid(u, j)' <=> Valid(u, j)
  BY <1>2 DEF Valid, TypeOK
<1>4. /\ new'[t] = a /\ \A u \in Threads \ {t} : new'[u] = new[u]
      /\ \A b \in Addresses \ {a} : file'[b] = file[b]
  BY <1>1 DEF TypeOK
<1>5. NULL \notin Addresses
  BY OpenFilesAssumption
<1>6. ASSUME NEW b \in Addresses PROVE StaysHeld(b)
  BY <1>2, <1>3, <1>4, <1>5 DEF StaysHeld, Held
<1>7. ASSUME NEW b \in Addresses PROVE Made(b)
  BY <1>4 DEF Made, Held
<1> QED BY <1>6, <1>7 DEF Keeps

LEMMA OpenStoreKeeps == ASSUME OpenInv, NEW t \in Threads, OpenStore(t) PROVE Keeps
<1> USE DEF OpenInv, FilesOwned
<1>1. PICK k \in Fds : fds[t][k] = NULL /\ fds' = [fds EXCEPT ![t][k] = new[t]]
  BY DEF OpenStore, FreeFds
<1>2. /\ at[t] = "store" /\ UNCHANGED file
      /\ \A u \in Threads : new'[u] = IF u = t THEN NULL ELSE new[u]
      /\ \A u \in Threads : at'[u] = IF u = t THEN "idle" ELSE at[u]
      /\ \A u \in Threads : fd'[u] = IF u = t THEN NULL ELSE fd[u]
  BY DEF OpenStore, Inside, Leave, TypeOK
<1>3. /\ fds'[t][k] = new[t]
      /\ \A u \in Threads, i \in Fds : ~(u = t /\ i = k) => fds'[u][i] = fds[u][i]
  BY <1>1 DEF TypeOK
<1>4. \A u \in Threads, i \in Fds : Valid(u, i) => Valid(u, i)' /\ fds'[u][i] = fds[u][i]
  BY <1>1, <1>2, <1>3 DEF Valid
<1>5. new[t] # NULL => Valid(t, k)'
  BY <1>2, <1>3 DEF Valid
<1>6. NULL \notin Addresses
  BY OpenFilesAssumption
<1>7. ASSUME NEW a \in Addresses PROVE StaysHeld(a)
  BY <1>2, <1>3, <1>4, <1>5, <1>6 DEF StaysHeld, Held
<1> QED BY <1>2, <1>7 DEF Keeps, Made

LEMMA CloseFreeKeeps ==
    ASSUME OpenInv, NEW t \in Threads, NEW i \in Fds, CloseFree(t, i) PROVE Keeps
<1> USE DEF OpenInv, FilesOwned
<1>1. /\ UNCHANGED <<fds, new>>
      /\ \A u \in Threads : at'[u] = IF u = t THEN "clear" ELSE at[u]
      /\ \A u \in Threads : fd'[u] = IF u = t THEN i ELSE fd[u]
      /\ at[t] = "idle"
      /\ \A b \in Addresses : file'[b] = IF b = fds[t][i] THEN NoFile ELSE file[b]
  BY DEF CloseFree, TypeOK
<1>2. \A u \in Threads, j \in Fds : Valid(u, j) => Valid(u, j)' \/ (u = t /\ j = i)
  BY <1>1 DEF Valid
<1>3. ASSUME NEW a \in Addresses PROVE StaysHeld(a)
  BY <1>1, <1>2 DEF StaysHeld, Held
<1> QED BY <1>1, <1>3 DEF Keeps, Made

LEMMA CloseClearKeeps == ASSUME OpenInv, NEW t \in Threads, CloseClear(t) PROVE Keeps
<1> USE DEF OpenInv, FilesOwned
<1>1. /\ at[t] = "clear" /\ UNCHANGED <<file, new>>
      /\ \A u \in Threads : at'[u] = IF u = t THEN "idle" ELSE at[u]
      /\ \A u \in Threads : fd'[u] = IF u = t THEN NULL ELSE fd[u]
      /\ \A u \in Threads, j \in Fds : ~(u = t /\ j = fd[t]) => fds'[u][j] = fds[u][j]
  BY DEF CloseClear, Inside, TypeOK
<1>2. \A u \in Threads, j \in Fds : Valid(u, j) => Valid(u, j)' /\ fds'[u][j] = fds[u][j]
  BY <1>1 DEF Valid
<1>3. ASSUME NEW a \in Addresses PROVE StaysHeld(a)
  BY <1>1, <1>2 DEF StaysHeld, Held
<1> QED BY <1>1, <1>3 DEF Keeps, Made

LEMMA NextKeeps ==
    ASSUME OpenInv, [Next]_vars,
           \A t \in Threads : ~OpenFull(t) /\ ~ThreadStarts(t)
    PROVE  Keeps
<1>1. CASE UNCHANGED vars
  BY <1>1, SameHolders DEF vars, Valid
<1>2. ASSUME NEW t \in Threads, OpenCall(t) PROVE Keeps
  BY <1>2, EnterKeeps DEF OpenCall
<1>3. ASSUME NEW t \in Threads, NEW i \in Fds, NEW n,
             NEW p \in {"read", "write", "seek"}, CallOn(t, p, i, n)
      PROVE  Keeps
  BY <1>3, EnterKeeps DEF CallOn
<1>4. ASSUME NEW t \in Threads, NEW n \in Counts, PrintCall(t, n) PROVE Keeps
  BY <1>4, EnterKeeps DEF PrintCall
<1>5. ASSUME NEW t \in Threads, Read(t) PROVE Keeps
  <2>1. PICK r : Leave(t, r)
    BY <1>5 DEF Read
  <2> QED BY <1>5, <2>1, LeaveKeeps DEF Read, Inside
<1>6. ASSUME NEW t \in Threads, Write(t) PROVE Keeps
  <2>1. CASE The(t).node \in Kvfs
    BY <1>6, <2>1, MoveKeeps DEF Write, Inside
  <2>2. CASE The(t).node \notin Kvfs
    BY <1>6, <2>2, LeaveKeeps DEF Write, Inside
  <2> QED BY <2>1, <2>2
<1>7. ASSUME NEW t \in Threads, Seek(t) PROVE Keeps
  BY <1>7, MoveKeeps DEF Seek, Inside
<1>8. ASSUME NEW t \in Threads, PrintChar(t) PROVE Keeps
  <2>1. UNCHANGED <<fds, file, new, fd>> /\ at' = at
    BY <1>8 DEF PrintChar, Inside, Stay, OpenInv, FilesOwned, TypeOK
  <2> QED BY <2>1, SameHolders DEF Valid
<1>9. ASSUME NEW t \in Threads, PrintDone(t) PROVE Keeps
  BY <1>9, LeaveKeeps DEF PrintDone, Inside
<1>10. ASSUME NEW t \in Threads, ThreadEnds(t) PROVE Keeps
  BY <1>10, SameHolders DEF ThreadEnds, callVars, Valid
<1>11. ASSUME NEW t \in Threads, OpenNowhere(t) PROVE Keeps
  BY <1>11, LeaveKeeps DEF OpenNowhere, Inside
<1> QED
  BY <1>1, <1>2, <1>3, <1>4, <1>5, <1>6, <1>7, <1>8, <1>9, <1>10, <1>11, OpenAllocKeeps,
     OpenStoreKeeps, CloseFreeKeeps, CloseClearKeeps DEF Next

(* A struct file is lost by an open without a free descriptor and by the   *)
(* second life of a thread_t, and by nothing else.                         *)
THEOREM LeaksKnown == Spec => LeaksOnly
<1>1. ASSUME OpenInv, [Next]_vars
      PROVE  [\A a \in Addresses : ~Lost(a) /\ Lost(a)' =>
                \E t \in Threads : OpenFull(t) \/ ThreadStarts(t)]_vars
  BY <1>1, NextKeeps, KeepsLeaks
<1> QED BY InitInv, NextInv, <1>1, PTL DEF Spec, LeaksOnly
=============================================================================
