------------------------------- MODULE MCPmm -------------------------------
(***************************************************************************)
(* An instance for model checking whose sizes keep to HeadStays, as the    *)
(* theorems of PmmProofs ask.                                              *)
(***************************************************************************)
EXTENDS Pmm

ASSUME HeadStaysHere == HeadStays
=============================================================================
