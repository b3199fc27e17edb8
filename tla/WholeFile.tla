----------------------------- MODULE WholeFile ------------------------------
(***************************************************************************)
(* What read, write and lseek promise of a file: each call happens at      *)
(* once, on the whole contents.                                            *)
(***************************************************************************)
EXTENDS Integers, Sequences

CONSTANTS Files, Threads, Words, Counts, Modes, Zero, Newline, NULL

VARIABLES
    content,        \* the bytes of each file
    open,           \* the file each thread has open: its name, position, mode
    got             \* what the last step returned, if it was a read

vars == <<content, open, got>>

Closed == [file |-> NULL, pos |-> 0, mode |-> {}]

Init ==
    /\ content = [f \in Files |-> <<>>]
    /\ open = [t \in Threads |-> Closed]
    /\ got = <<>>

Open(t, f, mode) ==
    /\ open[t] = Closed
    /\ open' = [open EXCEPT ![t] = [file |-> f, pos |-> 0, mode |-> mode]]
    /\ got' = <<>> /\ UNCHANGED content

Close(t) ==
    /\ open[t] # Closed
    /\ open' = [open EXCEPT ![t] = Closed]
    /\ got' = <<>> /\ UNCHANGED content

(* The old bytes, with those of w from pos on, and zeros in a gap.         *)
Overwrite(old, pos, w) ==
    [i \in 1..(IF pos + Len(w) > Len(old) THEN pos + Len(w) ELSE Len(old)) |->
        IF i \in (pos + 1)..(pos + Len(w)) THEN w[i - pos]
        ELSE IF i <= Len(old) THEN old[i] ELSE Zero]

Write(t, w) ==
    LET f == open[t].file
        pos == IF "append" \in open[t].mode THEN Len(content[f]) ELSE open[t].pos
    IN  /\ f # NULL
        /\ content' = IF "write" \in open[t].mode
                        THEN [content EXCEPT ![f] = Overwrite(@, pos, w)] ELSE content
        /\ open' = [open EXCEPT ![t].pos =
                       IF "write" \in open[t].mode THEN pos + Len(w) ELSE pos]
        /\ got' = <<>>

(* At most n bytes from the position, and a newline when there are fewer;  *)
(* the position stays.                                                     *)
Read(t, n) ==
    LET f == open[t].file
        there == SubSeq(content[f], open[t].pos + 1, Len(content[f]))
    IN  /\ f # NULL
        /\ got' = IF n <= Len(there) THEN SubSeq(there, 1, n) ELSE Append(there, Newline)
        /\ UNCHANGED <<content, open>>

Seek(t) ==
    /\ open[t].file # NULL
    /\ open'[t].pos \in Nat
    /\ open' = [open EXCEPT ![t].pos = open'[t].pos]
    /\ got' = <<>> /\ UNCHANGED content

(* The caller has taken what it read.                                      *)
Taken == got' = <<>> /\ UNCHANGED <<content, open>>

Next ==
    \/ Taken
    \/ \E t \in Threads :
        \/ \E f \in Files, mode \in Modes : Open(t, f, mode)
        \/ Close(t)
        \/ \E w \in Words : Write(t, w)
        \/ \E n \in Counts : Read(t, n)
        \/ Seek(t)

Spec == Init /\ [][Next]_vars
=============================================================================
