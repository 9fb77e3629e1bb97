---------------------------- MODULE MCUnixSocket ----------------------------
(* An instance of UnixSocket for TLC.  Three groups of processes: those of *)
(* one kind, twice, and one of each kind that take the path from another.  *)
EXTENDS UnixSocket

CONSTANTS s1, s2, d1, d2, a1, a2, x1, x2

MCStrServer == {s1, s2}
MCDataServer == {d1, d2}
MCStrClient == {a1, a2}
MCDataClient == {x1, x2}
MCTogether == {{s1, s2, a1, a2}, {s1, d1, a1, x1}, {d1, d2, x1, x2}}
=============================================================================
