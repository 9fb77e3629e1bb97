----------------------------- MODULE MCSysvMsg -----------------------------
(* Instances of SysvMsg for TLC: two clients, one whose file does not fit  *)
(* into its queue at once and one whose file is empty.                     *)
EXTENDS SysvMsg

CONSTANTS c1, c2

MCBlock == {"a", "b"}
MCFile == [c \in {c1, c2} |-> IF c = c1 THEN <<"a", "b">> ELSE <<>>]

SignalOnly == {"sigS"}
=============================================================================
