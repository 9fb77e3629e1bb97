--------------------------- MODULE MCProgressBar ---------------------------
(* An instance of ProgressBar for TLC: a thread that draws two bars, or a  *)
(* bar three times, beside one that draws a bar as long as _bar in it.     *)
EXTENDS ProgressBar

CONSTANTS t1, t2

MCThread == {t1, t2}
MCCalls == [t \in MCThread |-> IF t = t1 THEN 4 ELSE 2]

MCArgs == [thread : {t1}, own : BOOLEAN, style : {"CHR", "BGC"}, len : {1, 2, 4}]
          \cup {[thread |-> t1, own |-> FALSE, style |-> "NUM", len |-> 2]}
          \cup [thread : {t2}, own : {FALSE}, style : {"CHR", "BGC"}, len : {4}]
=============================================================================
