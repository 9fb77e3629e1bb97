--------------------------- MODULE MCCharDrivers ---------------------------
(* An instance of CharDrivers for TLC.  Drivers that share nothing with    *)
(* each other meet only the one beside them.                               *)
EXTENDS CharDrivers

\* The two class drivers share the name of their class and the majors.
MCTogether == {{"class", "mydev"}, {"char", "misc"}, {"first", "uevent"}}
MCDynamic == {253, 254}

\* Every registration may fail.
MCFaults == Drivers \X What
=============================================================================
