----------------------------- MODULE MCUdpEcho -----------------------------
(* An instance of UdpEcho for TLC: two clients with two arguments each;    *)
(* the first one of c2 is too long to be sent.                             *)
EXTENDS UdpEcho

CONSTANTS c1, c2

MCArgs == [c \in {c1, c2} |-> 2]
MCTooLong == [c \in {c1, c2} |-> IF c = c2 THEN {1} ELSE {}]

\* A server that has IPv4 only, and localhost as the resolver orders it.
MCServerAddrs == <<4>>
MCHostAddrs == <<6, 4>>
=============================================================================
