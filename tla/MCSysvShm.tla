----------------------------- MODULE MCSysvShm -----------------------------
(* An instance of SysvShm for TLC: an input of three different blocks.      *)
EXTENDS SysvShm

MCBlock == {"a", "b", "c"}
MCInput == <<"a", "b", "c">>
=============================================================================
