---------------------------- MODULE MCKvfsFile ----------------------------
EXTENDS KvfsFile, TLC

TwoWords == {<<"x">>, <<"y", "z">>}
FileModes == {{}, {"write"}, {"write", "append"}}
(* Which file, thread or block is which makes no difference.               *)
Symmetry == Permutations(Files) \cup Permutations(Threads) \cup Permutations(Blocks)
=============================================================================
