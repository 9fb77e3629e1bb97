----------------------------- MODULE ProgressBar -----------------------------
(***************************************************************************)
(* The progress bar of colorprint.c.  A bar is drawn into a buffer of its  *)
(* own or, for bar == NULL, into _bar, which all such bars share; then the *)
(* buffer is printed as a string.  Threads that draw at once interleave    *)
(* between any two of these operations on memory.                          *)
(*                                                                         *)
(* The percentage is p / Steps.  Where Steps is a power of two, the code's *)
(* arithmetic in float is exact and (int)(len * percent) is Whole below.   *)
(* What clprogress() does with colours and titles is left out.             *)
(***************************************************************************)
EXTENDS Integers, Sequences, FiniteSets, FiniteSetsExt

CONSTANTS
  Thread,
  MAX_BAR_LENGTH,
  Args,       \* what may be passed to clprogress_init(), and by whom
  Steps,      \* percentages are multiples of 1 / Steps
  Calls       \* of each thread: how many calls it makes (a bound)

ASSUME BarAssumption ==
  /\ "_bar" \notin Thread /\ MAX_BAR_LENGTH \in Nat \ {0}
  /\ Steps \in Nat \ {0}
  /\ Calls \in [Thread -> Nat]
  /\ Args \subseteq [thread : Thread, own : BOOLEAN, style : {"NUM", "CHR", "BGC"}, len : Nat \ {0}]

VARIABLES
  mem,        \* of each buffer: its cells, and one more at either end
  pc, calls,  \* of each thread: what it does next; how many calls it has made
  bar,        \* of each thread: its progress_t
  percent,    \* of each thread: the percentage it shows, in steps
  out,        \* of each thread: the one or two strings it has printed last
  high,       \* history: the longest row of # that a thread's bar had to show
  used        \* history: all the bars that were set up

vars == <<mem, pc, calls, bar, percent, out, high, used>>

Bars == [thread : Thread, own : BOOLEAN, style : {"NUM", "CHR", "BGC"}, len : 1..MAX_BAR_LENGTH]
Cell == {"space", "mark", "nul", "unset"}     \* "unset": not known
Buffer == {"_bar"} \cup Thread
Index == -1..MAX_BAR_LENGTH

TypeOK ==
  /\ mem \in [Buffer -> [Index -> Cell]]
  /\ pc \in [Thread -> {"none", "blank", "end", "ready", "fill", "clear", "zero", "cut", "print"}]
  /\ calls \in [Thread -> Nat] /\ percent \in [Thread -> 0..Steps]
  /\ \A t \in Thread : bar[t] \in Bars
  /\ \A t \in Thread : \A i \in 1..Len(out[t]) : out[t][i] \in Seq(Cell)
  /\ high \in [Thread -> Nat] /\ used \subseteq Bars

\* _bar is static; what a caller passes, at least one cell longer, is not set.
Fresh == [b \in Buffer |-> [i \in Index |->
            IF b = "_bar" /\ i \in 0..(MAX_BAR_LENGTH - 1) THEN "nul" ELSE "unset"]]

Init ==
  /\ mem = Fresh /\ pc = [t \in Thread |-> "none"] /\ calls = [t \in Thread |-> 0]
  /\ bar = [t \in Thread |-> [thread |-> t, own |-> FALSE, style |-> "NUM", len |-> 1]]
  /\ percent = [t \in Thread |-> 0] /\ out = [t \in Thread |-> <<>>]
  /\ high = [t \in Thread |-> 0] /\ used = {}

-----------------------------------------------------------------------------
(* Operators.                                                              *)

\* Mutant: the bar is drawn as long as it was asked for.
MutNoClamp(len) == len

Clamp(len) == IF len > MAX_BAR_LENGTH THEN MAX_BAR_LENGTH ELSE len

\* Mutant: the buffer of the caller is not used.
MutIgnored(t, own) == "_bar"

Buf(t, own) == IF own THEN t ELSE "_bar"

Pro(t) == Buf(t, bar[t].own)
Whole(t) == (bar[t].len * percent[t]) \div Steps
Offset(t) == IF Whole(t) - 1 < 0 THEN 0 ELSE Whole(t) - 1

\* memset() of n cells from the first, and an assignment to one cell.
Memset(b, c, n) == mem' = [mem EXCEPT ![b] = [i \in Index |-> IF i \in 0..(n - 1) THEN c ELSE @[i]]]
Store(b, k, c) == mem' = [mem EXCEPT ![b] = [i \in Index |-> IF i = k THEN c ELSE @[i]]]

\* What %s prints from cell k on; one that gets to the last cell goes on outside.
Str(b, k) ==
  LET end == Min({i \in Index : i >= k /\ mem[b][i] = "nul"} \cup {MAX_BAR_LENGTH + 1})
  IN  [i \in 1..(end - k) |-> mem[b][k + i - 1]]

Goto(t, from, to) == pc[t] = from /\ pc' = [pc EXCEPT ![t] = to]

-----------------------------------------------------------------------------
(* clprogress_init().                                                      *)

InitBar(t) ==
  /\ pc[t] \in {"none", "ready"} /\ pc' = [pc EXCEPT ![t] = "blank"]
  /\ calls[t] < Calls[t] /\ calls' = [calls EXCEPT ![t] = @ + 1]
  /\ \E a \in Args :
        a.thread = t /\ bar' = [bar EXCEPT ![t] = [a EXCEPT !.len = Clamp(@)]]
  /\ used' = used \cup {bar'[t]}
  /\ out' = [out EXCEPT ![t] = <<>>] /\ high' = [high EXCEPT ![t] = 0]
  /\ UNCHANGED <<mem, percent>>

Blank(t) ==
  /\ Goto(t, "blank", "end") /\ Memset(Pro(t), "space", bar[t].len)
  /\ UNCHANGED <<calls, bar, percent, out, high, used>>

End(t) ==
  /\ Goto(t, "end", "ready") /\ Store(Pro(t), bar[t].len - 1, "nul")
  /\ UNCHANGED <<calls, bar, percent, out, high, used>>

-----------------------------------------------------------------------------
(* clprogress().                                                           *)

Show(t) ==
  /\ Goto(t, "ready", CASE bar[t].style = "NUM" -> "print" [] bar[t].style = "CHR" -> "fill"
                        [] bar[t].style = "BGC" -> "clear")
  /\ calls[t] < Calls[t] /\ calls' = [calls EXCEPT ![t] = @ + 1]
  /\ \E p \in 0..Steps : percent' = [percent EXCEPT ![t] = p]
  /\ UNCHANGED <<mem, bar, out, high, used>>

\* PROGRESS_CHR_STYLE: nothing is blanked, so that a bar never gets shorter.
Fill(t) ==
  /\ Goto(t, "fill", "print") /\ Memset(Pro(t), "mark", Offset(t))
  /\ high' = [high EXCEPT ![t] = IF Offset(t) > @ THEN Offset(t) ELSE @]
  /\ UNCHANGED <<calls, bar, percent, out, used>>

\* PROGRESS_BGC_STYLE: all is blanked, with the terminating zero, and two zeros
\* are stored, the first of them at -1 when the product is less than 1.
Clear(t) ==
  /\ Goto(t, "clear", "zero") /\ Memset(Pro(t), "space", bar[t].len)
  /\ UNCHANGED <<calls, bar, percent, out, high, used>>

Zero(t) ==
  /\ Goto(t, "zero", "cut") /\ Store(Pro(t), Whole(t) - 1, "nul")
  /\ UNCHANGED <<calls, bar, percent, out, high, used>>

Cut(t) ==
  /\ Goto(t, "cut", "print") /\ Store(Pro(t), Offset(t), "nul")
  /\ UNCHANGED <<calls, bar, percent, out, high, used>>

Strings(t) == CASE bar[t].style = "NUM" -> <<>>
                [] bar[t].style = "CHR" -> <<Str(Pro(t), 0)>>
                [] bar[t].style = "BGC" -> <<Str(Pro(t), 0), Str(Pro(t), Offset(t) + 1)>>

PrintBar(t) ==
  /\ Goto(t, "print", "ready") /\ out' = [out EXCEPT ![t] = Strings(t)]
  /\ UNCHANGED <<mem, calls, bar, percent, high, used>>

-----------------------------------------------------------------------------
Step(t) == \/ InitBar(t) \/ Blank(t) \/ End(t)
           \/ Show(t) \/ Fill(t) \/ Clear(t) \/ Zero(t) \/ Cut(t) \/ PrintBar(t)

Next == \E t \in Thread : Step(t)

Spec == Init /\ [][Next]_vars

-----------------------------------------------------------------------------
(* Properties.                                                             *)

On(b) == {r \in used : Buf(r.thread, r.own) = b}

\* Whoever draws what into which buffer, and however long a bar is asked for: no
\* cell is written but those of _bar that a bar drawn there takes up, and the one
\* before the buffer, by a BGC bar.
WritesInside == \A b \in Buffer, i \in Index :
   mem[b][i] # Fresh[b][i] =>
      \E r \in On(b) : \/ i \in 0..(r.len - 1) /\ i < MAX_BAR_LENGTH
                       \/ i = -1 /\ r.style = "BGC"

\* The buffer is for this thread only: it was passed, or nobody else passes NULL.
Alone(t) == bar[t].own \/ \A r \in used : r.own \/ r.thread = t

Row(c, n) == [i \in 1..n |-> c]

Right(t) ==
   LET len == bar[t].len
       rest == len - Offset(t) - 1
   IN  /\ bar[t].style = "CHR" =>
             out[t][1] = [i \in 1..(len - 1) |-> IF i <= high[t] THEN "mark" ELSE "space"]
       /\ bar[t].style = "BGC" =>
             /\ out[t][1] = Row("space", Offset(t))
             /\ Len(out[t][2]) >= rest /\ \A i \in 1..rest : out[t][2][i] = "space"
             /\ (~bar[t].own /\ len < MAX_BAR_LENGTH /\ \A r \in On("_bar") : r.len <= len)
                  => Len(out[t][2]) = rest

\* Thread safety, as the header promises it for a buffer that the caller passes:
\* whatever the others draw, a # bar shows the largest percentage so far, and
\* a BGC bar is cut at its percentage.  The second half of a BGC bar runs on
\* behind the bar's end, over what it finds there; in _bar it finds a zero, if
\* no longer bar was drawn and the bar is not of the full length.
BarRight == \A t \in Thread : pc[t] = "ready" /\ out[t] # <<>> /\ Alone(t) => Right(t)
=============================================================================
