--------------------------- MODULE TerminalProofs ---------------------------
(***************************************************************************)
(* colorprint.c, for any number of threads, any lengths and percentages:   *)
(* where it writes, and what a thread whose buffer is its own prints.      *)
(*                                                                         *)
(* pty_demo, for any size of the pseudo-terminal and of size_t, and any    *)
(* number of lines: nothing but the user's input ends the relay once the   *)
(* shell was started.                                                      *)
(***************************************************************************)
EXTENDS ProgressBar, PtyRelay, SequenceTheorems, WellFoundedInduction, TLAPS

\* A thread that has set up a bar draws what was recorded; only BGC bars are cut.
BarInv ==
  /\ DOMAIN mem = Buffer /\ DOMAIN pc = Thread
  /\ bar \in [Thread -> Bars] /\ percent \in [Thread -> 0..Steps] /\ used \subseteq Bars
  /\ \A t \in Thread : /\ bar[t].thread = t
                       /\ pc[t] # "none" => bar[t] \in used
                       /\ pc[t] \in {"clear", "zero", "cut"} => bar[t].style = "BGC"
  /\ WritesInside

\* An integer quotient of a part is at most the whole.
LEMMA Quotient ==
  ASSUME NEW l \in Nat, NEW n \in Nat \ {0}, NEW p \in 0..n
  PROVE  (l * p) \div n \in 0..l
<1>1. l * p \in Nat /\ l * p <= l * n
  OBVIOUS
<1> DEFINE q == (l * p) \div n
<1>2. q \in Nat /\ n * q <= l * p
  BY <1>1
<1>3. q <= l
  <2> SUFFICES ASSUME q >= l + 1 PROVE FALSE
    BY <1>2
  <2> HIDE DEF q
  <2>1. n * q >= n * (l + 1)
    BY <1>2
  <2>2. n * (l + 1) = l * n + n
    OBVIOUS
  <2>3. QED
    BY <1>1, <1>2, <2>1, <2>2
<1>4. QED
  BY <1>2, <1>3

\* The end of the filled part lies within the bar.
LEMMA OffsetInside ==
  ASSUME BarInv, NEW t \in Thread
  PROVE  /\ Whole(t) \in 0..bar[t].len /\ Offset(t) \in 0..(bar[t].len - 1)
         /\ bar[t].len \in 1..MAX_BAR_LENGTH /\ Pro(t) \in Buffer
<1>1. bar[t] \in Bars /\ percent[t] \in 0..Steps /\ bar[t].len \in Nat
  BY BarAssumption DEF BarInv, Bars
<1>2. Whole(t) \in 0..bar[t].len
  BY <1>1, Quotient, BarAssumption DEF Whole
<1>3. bar[t].len \in 1..MAX_BAR_LENGTH /\ Pro(t) \in Buffer
  BY <1>1 DEF Bars, Pro, Buf, Buffer
<1>4. QED
  BY <1>2, <1>3, BarAssumption DEF Offset

\* One write into the cells of the thread's bar, or a zero before a BGC bar.
LEMMA WriteInside ==
  ASSUME BarInv, NEW t \in Thread, bar[t] \in used, used' = used,
         NEW S, S \subseteq 0..(bar[t].len - 1) \/ (S = {-1} /\ bar[t].style = "BGC"),
         \A b \in Buffer, i \in Index : mem'[b][i] = mem[b][i] \/ (b = Pro(t) /\ i \in S)
  PROVE  WritesInside'
<1> SUFFICES ASSUME NEW b \in Buffer, NEW i \in Index, mem'[b][i] # Fresh[b][i]
             PROVE  \E r \in On(b) : \/ i \in 0..(r.len - 1) /\ i < MAX_BAR_LENGTH
                                     \/ i = -1 /\ r.style = "BGC"
  BY DEF WritesInside, On
<1>1. CASE mem'[b][i] = mem[b][i]
  BY <1>1 DEF BarInv, WritesInside
<1>2. CASE b = Pro(t) /\ i \in S
  <2>1. bar[t] \in On(b)
    BY <1>2 DEF On, Pro, BarInv
  <2>2. bar[t].len \in 1..MAX_BAR_LENGTH
    BY OffsetInside
  <2>3. i \in 0..(bar[t].len - 1) => i < MAX_BAR_LENGTH
    BY <2>2, BarAssumption
  <2>4. QED
    BY <1>2, <2>1, <2>3
<1>3. QED
  BY <1>1, <1>2

LEMMA MemsetInside ==
  ASSUME BarInv, NEW t \in Thread, bar[t] \in used, used' = used,
         NEW c, NEW n \in 0..bar[t].len, Memset(Pro(t), c, n)
  PROVE  WritesInside' /\ DOMAIN mem' = Buffer
<1>1. Pro(t) \in Buffer /\ bar[t].len \in Nat
  BY OffsetInside, BarAssumption
<1>2. \A b \in Buffer, i \in Index : mem'[b][i] = mem[b][i] \/ (b = Pro(t) /\ i \in 0..(n - 1))
  BY <1>1 DEF Memset, BarInv
<1>3. 0..(n - 1) \subseteq 0..(bar[t].len - 1)
  BY <1>1
<1>4. WritesInside'
  BY ONLY BarInv, t \in Thread, bar[t] \in used, used' = used, <1>2, <1>3, WriteInside
<1>5. QED
  BY <1>4 DEF Memset, BarInv

LEMMA StoreInside ==
  ASSUME BarInv, NEW t \in Thread, bar[t] \in used, used' = used,
         NEW k \in Int, k \in 0..(bar[t].len - 1) \/ (k = -1 /\ bar[t].style = "BGC"),
         NEW c, Store(Pro(t), k, c)
  PROVE  WritesInside' /\ DOMAIN mem' = Buffer
<1>1. Pro(t) \in Buffer
  BY OffsetInside
<1>2. \A b \in Buffer, i \in Index : mem'[b][i] = mem[b][i] \/ (b = Pro(t) /\ i \in {k})
  BY <1>1 DEF Store, BarInv
<1>3. {k} \subseteq 0..(bar[t].len - 1) \/ ({k} = {-1} /\ bar[t].style = "BGC")
  OBVIOUS
<1>4. WritesInside'
  BY ONLY BarInv, t \in Thread, bar[t] \in used, used' = used, <1>2, <1>3, WriteInside
<1>5. QED
  BY <1>4 DEF Store, BarInv

\* Steps that leave the memory and the bars alone.
LEMMA QuietStep ==
  ASSUME BarInv, NEW t \in Thread, Show(t) \/ PrintBar(t)
  PROVE  BarInv'
<1> USE DEF Goto
<1>1. WritesInside'
  BY DEF BarInv, Show, PrintBar, WritesInside, On
<1>2. percent' \in [Thread -> 0..Steps]
  BY DEF BarInv, Show, PrintBar
<1>3. DOMAIN pc' = Thread /\ mem' = mem /\ bar' = bar /\ used' = used
  BY DEF BarInv, Show, PrintBar
<1>4. \A s \in Thread : /\ pc'[s] # "none" => pc[s] # "none"
                        /\ pc'[s] \in {"clear", "zero", "cut"} => bar[s].style = "BGC"
  <2>1. bar[t].style \in {"NUM", "CHR", "BGC"}
    BY DEF BarInv, Bars
  <2>2. CASE Show(t)
    BY <2>1, <2>2 DEF BarInv, Show
  <2>3. CASE PrintBar(t)
    BY <2>3 DEF BarInv, PrintBar
  <2>4. QED
    BY <2>2, <2>3
<1>5. QED
  BY <1>1, <1>2, <1>3, <1>4 DEF BarInv

LEMMA InitStep ==
  ASSUME BarInv, NEW t \in Thread, InitBar(t)
  PROVE  BarInv'
<1>1. PICK a \in Args : a.thread = t /\ bar' = [bar EXCEPT ![t] = [a EXCEPT !.len = Clamp(@)]]
  BY DEF InitBar
<1> DEFINE new == [a EXCEPT !.len = Clamp(@)]
<1>2. new \in Bars /\ new.thread = t
  BY <1>1, BarAssumption DEF Bars, Clamp
<1> HIDE DEF new
<1>3. bar' = [bar EXCEPT ![t] = new]
  BY <1>1 DEF new
<1>4. used' = used \cup {new}
  BY <1>3 DEF InitBar, BarInv
<1>5. WritesInside'
  BY <1>4 DEF InitBar, BarInv, WritesInside, On
<1>6. QED
  BY <1>2, <1>3, <1>4, <1>5 DEF InitBar, BarInv

LEMMA DrawStep ==
  ASSUME BarInv, NEW t \in Thread, Blank(t) \/ End(t) \/ Fill(t) \/ Clear(t) \/ Zero(t) \/ Cut(t)
  PROVE  BarInv'
<1> USE DEF Goto
<1>1. bar[t] \in used /\ used' = used /\ bar' = bar /\ percent' = percent
  BY DEF BarInv, Blank, End, Fill, Clear, Zero, Cut
<1>2. /\ Whole(t) \in 0..bar[t].len /\ Offset(t) \in 0..(bar[t].len - 1)
      /\ bar[t].len \in 1..MAX_BAR_LENGTH
  BY OffsetInside
<1>3. bar[t].len \in 0..bar[t].len /\ Offset(t) \in 0..bar[t].len /\ bar[t].len - 1 \in 0..(bar[t].len - 1)
  BY <1>2, BarAssumption
<1>4. WritesInside' /\ DOMAIN mem' = Buffer
  <2>1. CASE Blank(t) \/ Clear(t)
    BY <2>1, <1>1, <1>3, MemsetInside DEF Blank, Clear
  <2>2. CASE Fill(t)
    BY <2>2, <1>1, <1>3, MemsetInside DEF Fill
  <2>3. CASE End(t)
    BY <2>3, <1>1, <1>3, StoreInside DEF End
  <2>4. CASE Cut(t)
    BY <2>4, <1>1, <1>2, StoreInside DEF Cut
  <2>5. CASE Zero(t)
    <3>1. bar[t].style = "BGC"
      BY <2>5 DEF Zero, BarInv
    <3>2. Whole(t) - 1 \in 0..(bar[t].len - 1) \/ Whole(t) - 1 = -1
      BY <1>2
    <3>3. QED
      BY <2>5, <1>1, <1>2, <3>1, <3>2, StoreInside DEF Zero
  <2>6. QED
    BY <2>1, <2>2, <2>3, <2>4, <2>5
<1>5. QED
  BY <1>1, <1>4 DEF BarInv, Blank, End, Fill, Clear, Zero, Cut

LEMMA BarInit == Init => BarInv
  BY BarAssumption DEF Init, BarInv, WritesInside, Bars, Fresh

LEMMA BarStep == BarInv /\ [Next]_vars => BarInv'
<1> SUFFICES ASSUME BarInv, [Next]_vars PROVE BarInv'
  OBVIOUS
<1>1. CASE Next
  BY <1>1, QuietStep, InitStep, DrawStep DEF Next, Step
<1>2. CASE UNCHANGED vars
  BY <1>2 DEF BarInv, WritesInside, On, vars
<1>3. QED
  BY <1>1, <1>2

\* For any threads, lengths and percentages: no cell outside a bar is written,
\* but the one before a BGC bar.
THEOREM WritesConfined == Spec => []WritesInside
BY BarInit, BarStep, PTL DEF Spec, BarInv

-----------------------------------------------------------------------------
(* Thread safety.                                                          *)

\* A nonempty set of natural numbers has a least element.
Below == OpToRel(<, Nat)
LEMMA LeastNatural ==
  ASSUME NEW T \in SUBSET Nat, T # {}
  PROVE  \E x \in T : \A y \in T : x <= y
<1>1. \A x, y \in Nat : x < y => <<x, y>> \in Below
  BY DEF OpToRel, Below
<1>2. IsWellFoundedOn(Below, Nat)
  BY NatLessThanWellFounded DEF Below
<1>3. PICK x \in T : \A y \in T : ~ (<<y, x>> \in Below)
  BY <1>2, WFMin
<1>4. ASSUME NEW y \in T PROVE x <= y
  <2>1. ~(<<y, x>> \in Below)
    BY <1>3
  <2>2. y \in Nat /\ x \in Nat
    OBVIOUS
  <2>3. ~(y < x)
    BY <1>1, <2>1, <2>2
  <2>4. QED
    BY <2>2, <2>3
<1>5. QED
  BY <1>4

\* No cell from k on, before e, is a zero; a bar of marks; a bar with a cut.
Unbroken(b, k, e) == \A i \in k..(e - 1) : mem[b][i] # "nul"
Marked(b, n, h) ==
  \A i \in 0..(n - 1) : mem[b][i] = IF i = n - 1 THEN "nul" ELSE IF i < h THEN "mark" ELSE "space"
CutAt(b, n, o) == \A i \in 0..(n - 1) : mem[b][i] = IF i = o THEN "nul" ELSE "space"

\* A string ends at its first zero.
LEMMA StrEnds ==
  ASSUME NEW b, NEW k \in Nat, NEW e \in Index, k <= e, mem[b][e] = "nul", Unbroken(b, k, e)
  PROVE  Str(b, k) = [i \in 1..(e - k) |-> mem[b][k + i - 1]]
<1> DEFINE E == {i \in Index : i >= k /\ mem[b][i] = "nul"} \cup {MAX_BAR_LENGTH + 1}
<1>1. e \in E /\ \A x \in E : x \in Int /\ e <= x
  BY BarAssumption DEF Index, Unbroken
<1>2. e \in Int
  BY BarAssumption DEF Index
<1> HIDE DEF E
<1>3. Min(E) = e
  <2>1. Min(E) \in E /\ \A x \in E : Min(E) <= x
    BY <1>1 DEF Min
  <2>2. Min(E) \in Int /\ Min(E) <= e /\ e <= Min(E)
    BY <1>1, <2>1
  <2>3. QED
    BY <1>2, <2>2
<1>4. QED
  BY <1>3 DEF Str, E

\* A string has no end before the first zero.
LEMMA StrLasts ==
  ASSUME NEW b, NEW k \in Nat, NEW e \in Nat, k <= e, e <= MAX_BAR_LENGTH + 1, Unbroken(b, k, e)
  PROVE  \E end \in Nat : /\ end >= e /\ Len(Str(b, k)) = end - k
                         /\ \A i \in 1..(end - k) : Str(b, k)[i] = mem[b][k + i - 1]
<1> DEFINE E == {i \in Index : i >= k /\ mem[b][i] = "nul"} \cup {MAX_BAR_LENGTH + 1}
<1>1. E \in SUBSET Nat /\ E # {} /\ \A x \in E : x >= e
  BY BarAssumption DEF Index, Unbroken
<1>2. Str(b, k) = [i \in 1..(Min(E) - k) |-> mem[b][k + i - 1]]
  BY DEF Str
<1> HIDE DEF E
<1>3. \E x \in E : \A y \in E : x <= y
  BY <1>1, LeastNatural
<1>4. Min(E) \in E
  BY <1>3 DEF Min
<1>5. Min(E) \in Nat /\ Min(E) >= e /\ Min(E) - k \in Nat
  <2>1. Min(E) \in Nat /\ Min(E) >= e
    BY <1>1, <1>4
  <2>2. QED
    BY <2>1
<1>6. Len(Str(b, k)) = Min(E) - k /\ \A i \in 1..(Min(E) - k) : Str(b, k)[i] = mem[b][k + i - 1]
  BY <1>2, <1>5
<1>7. QED
  BY <1>5, <1>6

\* What the bar of a thread holds between two of its operations, if nobody else
\* uses the buffer.
Drawn(t) ==
  LET len == bar[t].len
      cells == mem[Pro(t)]
  IN  /\ pc[t] \in {"blank", "end"} => high[t] = 0
      /\ pc[t] = "end" => \A i \in 0..(len - 1) : cells[i] = "space"
      /\ bar[t].style = "CHR" /\ pc[t] \in {"ready", "fill", "print"} =>
            \A i \in 0..(len - 1) :
               cells[i] = IF i = len - 1 THEN "nul" ELSE IF i < high[t] THEN "mark" ELSE "space"
      /\ bar[t].style = "BGC" /\ pc[t] = "zero" => \A i \in 0..(len - 1) : cells[i] = "space"
      /\ bar[t].style = "BGC" /\ pc[t] = "cut" =>
            \A i \in 0..(len - 1) : i # Whole(t) - 1 => cells[i] = "space"
      /\ bar[t].style = "BGC" /\ pc[t] = "print" =>
            \A i \in 0..(len - 1) : cells[i] = IF i = Offset(t) THEN "nul" ELSE "space"

RightInv ==
  /\ BarInv
  /\ DOMAIN out = Thread /\ high \in [Thread -> Nat]
  /\ \A t \in Thread : pc[t] \in {"none", "blank", "end", "ready", "fill", "clear", "zero", "cut", "print"}
  /\ \A t \in Thread : bar[t].style = "CHR" => pc[t] \notin {"clear", "zero", "cut"}
  /\ \A t \in Thread : bar[t].style = "BGC" => pc[t] # "fill"
  /\ \A t \in Thread : pc[t] \in {"blank", "end"} => out[t] = <<>>
  /\ \A t \in Thread : Alone(t) => Drawn(t)
  /\ BarRight

\* A step of one thread leaves the private buffer of another one alone.
LEMMA OtherStep ==
  ASSUME RightInv, NEW t \in Thread, NEW u \in Thread, t # u, Step(u)
  PROVE  /\ (Alone(t) => Drawn(t))'
         /\ (pc[t] = "ready" /\ out[t] # <<>> /\ Alone(t) => Right(t))'
<1>1. /\ pc'[t] = pc[t] /\ bar'[t] = bar[t] /\ high'[t] = high[t]
      /\ out'[t] = out[t] /\ percent'[t] = percent[t]
  BY DEF RightInv, BarInv, Step, InitBar, Blank, End, Show, Fill, Clear, Zero, Cut, PrintBar, Goto
<1>2. used \subseteq used'
  BY DEF Step, InitBar, Blank, End, Show, Fill, Clear, Zero, Cut, PrintBar
<1>3. SUFFICES ASSUME Alone(t)' PROVE Drawn(t)' /\ (pc'[t] = "ready" /\ out'[t] # <<>> => Right(t)')
  BY DEF Alone
<1>4. Alone(t)
  BY <1>1, <1>2, <1>3 DEF Alone
<1>5. mem' = mem \/ (bar[u] \in used /\ \A b \in Buffer : b # Pro(u) => mem'[b] = mem[b])
  <2>1. pc[u] # "none" => bar[u] \in used
    BY DEF RightInv, BarInv
  <2>2. QED
    BY <2>1 DEF RightInv, BarInv, Step, InitBar, Blank, End, Show, Fill, Clear, Zero, Cut, PrintBar, Goto, Memset, Store
<1>6. bar[u] \in used => Pro(u) # Pro(t)
  <2>1. bar[u].thread = u
    BY DEF RightInv, BarInv
  <2>2. QED
    BY <1>4, <2>1, BarAssumption DEF Alone, Pro, Buf
<1>7. Pro(t) \in Buffer
  BY DEF Pro, Buf, Buffer
<1>8. mem'[Pro(t)] = mem[Pro(t)]
  BY <1>5, <1>6, <1>7
<1>9. Pro(t)' = Pro(t) /\ Whole(t)' = Whole(t) /\ Offset(t)' = Offset(t)
  BY <1>1 DEF Pro, Whole, Offset
<1>10. Drawn(t)'
  <2>1. Drawn(t)
    BY <1>4 DEF RightInv
  <2>2. QED
    BY <1>1, <1>8, <1>9, <2>1 DEF Drawn
<1>11. ASSUME pc'[t] = "ready", out'[t] # <<>> PROVE Right(t)'
  <2>1. Right(t)
    BY <1>1, <1>4, <1>11 DEF RightInv, BarRight
  <2>2. On("_bar") \subseteq On("_bar")'
    BY <1>2 DEF On
  <2>3. QED
    BY <1>1, <1>9, <2>1, <2>2 DEF Right
<1>12. QED
  BY <1>10, <1>11

\* What a thread does to its own buffer.
LEMMA MemsetCells ==
  ASSUME BarInv, NEW t \in Thread, NEW c, NEW n, Memset(Pro(t), c, n)
  PROVE  \A i \in Index : mem'[Pro(t)][i] = IF i \in 0..(n - 1) THEN c ELSE mem[Pro(t)][i]
BY OffsetInside DEF Memset, BarInv

LEMMA StoreCells ==
  ASSUME BarInv, NEW t \in Thread, NEW c, NEW k, Store(Pro(t), k, c)
  PROVE  \A i \in Index : mem'[Pro(t)][i] = IF i = k THEN c ELSE mem[Pro(t)][i]
BY OffsetInside DEF Store, BarInv

LEMMA OwnDrawn ==
  ASSUME RightInv, NEW t \in Thread, Step(t), ~InitBar(t), Alone(t)
  PROVE  Drawn(t)'
<1>1. BarInv /\ Drawn(t) /\ DOMAIN pc = Thread
  BY DEF RightInv, BarInv
<1>2. /\ Whole(t) \in 0..bar[t].len /\ Offset(t) \in 0..(bar[t].len - 1)
      /\ bar[t].len \in 1..MAX_BAR_LENGTH /\ bar[t].len \in Nat
      /\ \A i \in 0..(bar[t].len - 1) : i \in Index /\ i \in Int
      /\ high[t] \in Nat
      /\ Offset(t) = IF Whole(t) - 1 < 0 THEN 0 ELSE Whole(t) - 1
  <2>1. /\ Whole(t) \in 0..bar[t].len /\ Offset(t) \in 0..(bar[t].len - 1)
        /\ bar[t].len \in 1..MAX_BAR_LENGTH
    BY <1>1, OffsetInside
  <2>2. bar[t].len \in Nat /\ \A i \in 0..(bar[t].len - 1) : i \in Index /\ i \in Int
    BY <2>1, BarAssumption DEF Index
  <2>3. QED
    BY <2>1, <2>2 DEF RightInv, Offset
<1>3. bar' = bar /\ Pro(t)' = Pro(t)
  BY DEF Step, Blank, End, Show, Fill, Clear, Zero, Cut, PrintBar, Pro
<1>4. ~Show(t) => Whole(t)' = Whole(t) /\ Offset(t)' = Offset(t)
  BY <1>3 DEF Step, Blank, End, Fill, Clear, Zero, Cut, PrintBar, Whole, Offset
<1>5. /\ bar[t].style = "CHR" => pc[t] \notin {"clear", "zero", "cut"}
      /\ bar[t].style = "BGC" => pc[t] # "fill"
  BY DEF RightInv
<1> USE DEF Goto
<1>6. CASE Blank(t)
  <2>1. \A i \in Index : mem'[Pro(t)][i] = IF i \in 0..(bar[t].len - 1) THEN "space" ELSE mem[Pro(t)][i]
    BY <1>1, <1>6, MemsetCells DEF Blank
  <2>2. pc[t] = "blank" /\ pc'[t] = "end" /\ high' = high
    BY <1>1, <1>6 DEF Blank
  <2>3. \A i \in 0..(bar[t].len - 1) : mem'[Pro(t)][i] = "space"
    BY <1>2, <2>1
  <2>4. high'[t] = 0
    BY <1>1, <2>2 DEF Drawn
  <2>5. QED
    BY <1>3, <2>2, <2>3, <2>4 DEF Drawn
<1>7. CASE End(t)
  <2>1. \A i \in Index : mem'[Pro(t)][i] = IF i = bar[t].len - 1 THEN "nul" ELSE mem[Pro(t)][i]
    BY <1>1, <1>7, StoreCells DEF End
  <2>2. pc[t] = "end" /\ pc'[t] = "ready" /\ high' = high
    BY <1>1, <1>7 DEF End
  <2>3. QED
    BY <1>1, <1>2, <1>3, <2>1, <2>2 DEF Drawn
<1>8. CASE Show(t)
  <2>1. /\ pc[t] = "ready" /\ mem' = mem /\ high' = high
        /\ pc'[t] = CASE bar[t].style = "NUM" -> "print" [] bar[t].style = "CHR" -> "fill"
                      [] bar[t].style = "BGC" -> "clear"
    BY <1>1, <1>8 DEF Show
  <2>2. bar[t].style \in {"NUM", "CHR", "BGC"}
    BY <1>1 DEF BarInv, Bars
  <2>3. QED
    BY <1>1, <1>2, <1>3, <2>1, <2>2 DEF Drawn
<1>9. CASE Fill(t)
  <2>1. \A i \in Index : mem'[Pro(t)][i] = IF i \in 0..(Offset(t) - 1) THEN "mark" ELSE mem[Pro(t)][i]
    BY <1>1, <1>9, MemsetCells DEF Fill
  <2>2. /\ pc[t] = "fill" /\ pc'[t] = "print"
        /\ high'[t] = IF Offset(t) > high[t] THEN Offset(t) ELSE high[t]
    BY <1>1, <1>9 DEF Fill, RightInv
  <2>3. bar[t].style = "CHR" =>
          \A i \in 0..(bar[t].len - 1) :
             mem[Pro(t)][i] = IF i = bar[t].len - 1 THEN "nul" ELSE IF i < high[t] THEN "mark" ELSE "space"
    BY <1>1, <2>2 DEF Drawn
  <2>4. ASSUME bar[t].style = "CHR", NEW i \in 0..(bar[t].len - 1)
        PROVE  mem'[Pro(t)][i] = IF i = bar[t].len - 1 THEN "nul" ELSE IF i < high'[t] THEN "mark" ELSE "space"
    <3>1. mem[Pro(t)][i] = IF i = bar[t].len - 1 THEN "nul" ELSE IF i < high[t] THEN "mark" ELSE "space"
      BY <2>3, <2>4
    <3>2. mem'[Pro(t)][i] = IF i \in 0..(Offset(t) - 1) THEN "mark" ELSE mem[Pro(t)][i]
      BY <1>2, <2>1
    <3>3. i \in Int /\ 0 <= i /\ Offset(t) \in Int /\ Offset(t) <= bar[t].len - 1
      BY <1>2
    <3>4. QED
      BY <1>2, <2>2, <3>1, <3>2, <3>3
  <2>5. QED
    BY <1>3, <1>5, <2>2, <2>4 DEF Drawn
<1>10. CASE Clear(t)
  <2>1. \A i \in Index : mem'[Pro(t)][i] = IF i \in 0..(bar[t].len - 1) THEN "space" ELSE mem[Pro(t)][i]
    BY <1>1, <1>10, MemsetCells DEF Clear
  <2>2. pc[t] = "clear" /\ pc'[t] = "zero"
    BY <1>1, <1>10 DEF Clear
  <2>3. \A i \in 0..(bar[t].len - 1) : mem'[Pro(t)][i] = "space"
    BY <1>2, <2>1
  <2>4. QED
    BY <1>3, <1>5, <2>2, <2>3 DEF Drawn
<1>11. CASE Zero(t)
  <2>1. \A i \in Index : mem'[Pro(t)][i] = IF i = Whole(t) - 1 THEN "nul" ELSE mem[Pro(t)][i]
    BY <1>1, <1>11, StoreCells DEF Zero
  <2>2. pc[t] = "zero" /\ pc'[t] = "cut"
    BY <1>1, <1>11 DEF Zero
  <2>3. Whole(t)' = Whole(t)
    BY <1>3, <1>11 DEF Zero, Whole
  <2>4. QED
    BY <1>1, <1>2, <1>3, <1>5, <2>1, <2>2, <2>3 DEF Drawn
<1>12. CASE Cut(t)
  <2>1. \A i \in Index : mem'[Pro(t)][i] = IF i = Offset(t) THEN "nul" ELSE mem[Pro(t)][i]
    BY <1>1, <1>12, StoreCells DEF Cut
  <2>2. pc[t] = "cut" /\ pc'[t] = "print"
    BY <1>1, <1>12 DEF Cut
  <2>3. Offset(t)' = Offset(t)
    BY <1>3, <1>12 DEF Cut, Offset, Whole
  <2>4. bar[t].style = "BGC" => \A i \in 0..(bar[t].len - 1) : i # Whole(t) - 1 => mem[Pro(t)][i] = "space"
    BY <1>1, <2>2 DEF Drawn
  <2>5. ASSUME bar[t].style = "BGC", NEW i \in 0..(bar[t].len - 1)
        PROVE  mem'[Pro(t)][i] = IF i = Offset(t) THEN "nul" ELSE "space"
    <3>1. mem'[Pro(t)][i] = IF i = Offset(t) THEN "nul" ELSE mem[Pro(t)][i]
      BY <1>2, <2>1
    <3>2. i # Whole(t) - 1 => mem[Pro(t)][i] = "space"
      BY <2>4, <2>5
    <3>3. i = Whole(t) - 1 => i = Offset(t)
      BY <1>2
    <3>4. QED
      BY <3>1, <3>2, <3>3
  <2>6. QED
    BY <1>3, <1>5, <2>2, <2>3, <2>5 DEF Drawn
<1>13. CASE PrintBar(t)
  <2>1. pc[t] = "print" /\ pc'[t] = "ready" /\ mem' = mem /\ high' = high
    BY <1>1, <1>13 DEF PrintBar
  <2>2. QED
    BY <1>1, <1>3, <2>1 DEF Drawn
<1>14. QED
  BY <1>6, <1>7, <1>8, <1>9, <1>10, <1>11, <1>12, <1>13 DEF Step

\* What a drawn bar reads as.
LEMMA ChrRead ==
  ASSUME NEW b, NEW n \in 1..MAX_BAR_LENGTH, NEW h \in Nat, Marked(b, n, h)
  PROVE  Str(b, 0) = [i \in 1..(n - 1) |-> IF i <= h THEN "mark" ELSE "space"]
<1>1. n \in Nat /\ n - 1 \in Index /\ n - 1 \in Nat /\ 0 <= n - 1
  BY BarAssumption DEF Index
<1>2. mem[b][n - 1] = "nul"
  BY <1>1 DEF Marked
<1>3. ASSUME NEW i \in 0..(n - 1 - 1) PROVE mem[b][i] = IF i < h THEN "mark" ELSE "space"
  <2>1. i \in 0..(n - 1) /\ i # n - 1
    BY <1>1
  <2>2. QED
    BY <2>1 DEF Marked
<1>4. Unbroken(b, 0, n - 1)
  BY <1>3 DEF Unbroken
<1>5. Str(b, 0) = [i \in 1..(n - 1 - 0) |-> mem[b][0 + i - 1]]
  <2>1. 0 \in Nat
    OBVIOUS
  <2>2. QED
    BY <1>1, <1>2, <1>4, <2>1, StrEnds
<1>6. ASSUME NEW i \in 1..(n - 1) PROVE mem[b][0 + i - 1] = IF i <= h THEN "mark" ELSE "space"
  <2>1. 0 + i - 1 \in 0..(n - 1 - 1) /\ (0 + i - 1 < h <=> i <= h)
    BY <1>1
  <2>2. QED
    BY <1>3, <2>1
<1>7. n - 1 - 0 = n - 1
  BY <1>1
<1>8. QED
  BY <1>5, <1>6, <1>7

\* The first part of a cut bar.
LEMMA CutRead ==
  ASSUME NEW b, NEW n \in 1..MAX_BAR_LENGTH, NEW o \in 0..(n - 1), CutAt(b, n, o)
  PROVE  Str(b, 0) = Row("space", o)
<1>1. n \in Nat /\ o \in Nat /\ o \in Index /\ 0 <= o /\ 0 \in Nat /\ o - 0 = o
  BY BarAssumption DEF Index
<1>2. mem[b][o] = "nul"
  BY DEF CutAt
<1>3. ASSUME NEW i \in 0..(o - 1) PROVE mem[b][i] = "space"
  <2>1. i \in 0..(n - 1) /\ i # o
    BY <1>1
  <2>2. QED
    BY <2>1 DEF CutAt
<1>4. Unbroken(b, 0, o)
  BY <1>3 DEF Unbroken
<1>5. Str(b, 0) = [i \in 1..(o - 0) |-> mem[b][0 + i - 1]]
  BY <1>1, <1>2, <1>4, StrEnds
<1>6. ASSUME NEW i \in 1..o PROVE mem[b][0 + i - 1] = "space"
  <2>1. 0 + i - 1 \in 0..(o - 1)
    BY <1>1
  <2>2. QED
    BY <1>3, <2>1
<1>7. QED
  BY <1>1, <1>5, <1>6 DEF Row

\* What is read from a cell on, up to the bar's end.
LEMMA TailRead ==
  ASSUME NEW b, NEW n \in 1..MAX_BAR_LENGTH, NEW k \in Nat, k <= n,
         \A i \in k..(n - 1) : mem[b][i] = "space"
  PROVE  /\ Len(Str(b, k)) >= n - k
         /\ \A i \in 1..(n - k) : Str(b, k)[i] = "space"
         /\ n < MAX_BAR_LENGTH /\ mem[b][n] = "nul" => Len(Str(b, k)) = n - k
<1>1. n \in Nat /\ n <= MAX_BAR_LENGTH + 1 /\ n \in Index /\ n - k \in Nat
  BY BarAssumption DEF Index
<1>2. Unbroken(b, k, n)
  BY DEF Unbroken
<1>3. PICK end \in Nat : /\ end >= n /\ Len(Str(b, k)) = end - k
                         /\ \A i \in 1..(end - k) : Str(b, k)[i] = mem[b][k + i - 1]
  BY <1>1, <1>2, StrLasts
<1>4. end - k >= n - k
  BY <1>1, <1>3
<1>5. ASSUME NEW i \in 1..(n - k) PROVE Str(b, k)[i] = "space"
  <2>1. i \in 1..(end - k) /\ k + i - 1 \in k..(n - 1)
    BY <1>1, <1>3
  <2>2. QED
    BY <1>3, <2>1
<1>6. ASSUME n < MAX_BAR_LENGTH, mem[b][n] = "nul" PROVE Len(Str(b, k)) = n - k
  <2>1. Str(b, k) = [i \in 1..(n - k) |-> mem[b][k + i - 1]]
    BY <1>1, <1>2, <1>6, StrEnds
  <2>2. QED
    BY <1>1, <2>1
<1>7. QED
  BY <1>3, <1>4, <1>5, <1>6

\* What a thread prints from a buffer that nobody else uses.
LEMMA PrintRight ==
  ASSUME RightInv, NEW t \in Thread, PrintBar(t), Alone(t)
  PROVE  Right(t)'
<1>1. BarInv /\ Drawn(t) /\ pc[t] = "print" /\ out'[t] = Strings(t)
  BY DEF RightInv, BarInv, PrintBar, Goto
<1>2. bar[t].len \in 1..MAX_BAR_LENGTH /\ Offset(t) \in 0..(bar[t].len - 1) /\ high[t] \in Nat
  BY <1>1, OffsetInside DEF RightInv
<1>3. /\ bar' = bar /\ used' = used /\ high' = high /\ Offset(t)' = Offset(t)
      /\ On("_bar")' = On("_bar")
  BY DEF PrintBar, Offset, Whole, On
<1>4. ASSUME bar[t].style = "CHR"
      PROVE  out'[t][1] = [i \in 1..(bar[t].len - 1) |-> IF i <= high[t] THEN "mark" ELSE "space"]
  <2>1. Marked(Pro(t), bar[t].len, high[t])
    BY <1>1, <1>4 DEF Drawn, Marked
  <2>2. out'[t][1] = Str(Pro(t), 0)
    BY <1>1, <1>4 DEF Strings
  <2>3. QED
    BY <1>2, <2>1, <2>2, ChrRead
<1>5. ASSUME bar[t].style = "BGC"
      PROVE  /\ out'[t][1] = Row("space", Offset(t))
             /\ Len(out'[t][2]) >= bar[t].len - Offset(t) - 1
             /\ \A i \in 1..(bar[t].len - Offset(t) - 1) : out'[t][2][i] = "space"
             /\ (~bar[t].own /\ bar[t].len < MAX_BAR_LENGTH /\ \A r \in On("_bar") : r.len <= bar[t].len)
                  => Len(out'[t][2]) = bar[t].len - Offset(t) - 1
  <2>1. CutAt(Pro(t), bar[t].len, Offset(t))
    BY <1>1, <1>5 DEF Drawn, CutAt
  <2>2. out'[t][1] = Str(Pro(t), 0) /\ out'[t][2] = Str(Pro(t), Offset(t) + 1)
    BY <1>1, <1>5 DEF Strings
  <2>3. ASSUME ~bar[t].own, bar[t].len < MAX_BAR_LENGTH, \A r \in On("_bar") : r.len <= bar[t].len
        PROVE  mem[Pro(t)][bar[t].len] = "nul"
    <3>1. Pro(t) = "_bar" /\ "_bar" \in Buffer
      BY <2>3 DEF Pro, Buf, Buffer
    <3>2. bar[t].len \in Index /\ bar[t].len \in 0..(MAX_BAR_LENGTH - 1) /\ bar[t].len # -1
      BY <1>2, <2>3, BarAssumption DEF Index
    <3>3. ASSUME NEW r \in On("_bar") PROVE bar[t].len \notin 0..(r.len - 1)
      <4>1. r.len \in 1..MAX_BAR_LENGTH
        BY <1>1 DEF BarInv, Bars, On
      <4>2. r.len <= bar[t].len
        BY <2>3
      <4>3. QED
        BY <1>2, <4>1, <4>2, BarAssumption
    <3>4. mem["_bar"][bar[t].len] = Fresh["_bar"][bar[t].len]
      BY <1>1, <3>1, <3>2, <3>3 DEF BarInv, WritesInside
    <3>5. Fresh["_bar"][bar[t].len] = "nul"
      BY <3>1, <3>2 DEF Fresh
    <3>6. QED
      BY <3>1, <3>4, <3>5
  <2>4. Str(Pro(t), 0) = Row("space", Offset(t))
    BY <1>2, <2>1, CutRead
  <2>5. PICK k \in Nat : k = Offset(t) + 1
    BY <1>2
  <2>6. k <= bar[t].len /\ \A i \in k..(bar[t].len - 1) : mem[Pro(t)][i] = "space"
    BY <1>2, <2>1, <2>5 DEF CutAt
  <2>7. /\ Len(Str(Pro(t), k)) >= bar[t].len - k
        /\ \A i \in 1..(bar[t].len - k) : Str(Pro(t), k)[i] = "space"
        /\ bar[t].len < MAX_BAR_LENGTH /\ mem[Pro(t)][bar[t].len] = "nul"
             => Len(Str(Pro(t), k)) = bar[t].len - k
    BY <1>2, <2>6, TailRead
  <2>8. bar[t].len - k = bar[t].len - Offset(t) - 1
    BY <1>2, <2>5
  <2>9. out'[t][2] = Str(Pro(t), k)
    BY <2>2, <2>5
  <2>10. QED
    BY <2>2, <2>3, <2>4, <2>7, <2>8, <2>9
<1>6. QED
  BY <1>3, <1>4, <1>5 DEF Right

LEMMA RightStep == RightInv /\ [Next]_vars => RightInv'
<1> SUFFICES ASSUME RightInv, [Next]_vars PROVE RightInv'
  OBVIOUS
<1>1. CASE UNCHANGED vars
  <2>1. /\ mem' = mem /\ pc' = pc /\ bar' = bar /\ percent' = percent
        /\ out' = out /\ high' = high /\ used' = used
    BY <1>1 DEF vars
  <2>2. BarInv'
    BY <2>1 DEF RightInv, BarInv, WritesInside, On
  <2>3. \A t \in Thread : Pro(t)' = Pro(t) /\ Whole(t)' = Whole(t) /\ Offset(t)' = Offset(t) /\ (Alone(t)' <=> Alone(t))
    BY <2>1 DEF Pro, Whole, Offset, Alone
  <2>4. \A t \in Thread : (Alone(t) => Drawn(t))'
    <3> SUFFICES ASSUME NEW t \in Thread, Alone(t)' PROVE Drawn(t)'
      OBVIOUS
    <3>1. Drawn(t)
      BY <2>3 DEF RightInv
    <3>2. QED
      BY <2>1, <2>3, <3>1 DEF Drawn
  <2>5. BarRight'
    <3> SUFFICES ASSUME NEW t \in Thread, pc'[t] = "ready", out'[t] # <<>>, Alone(t)' PROVE Right(t)'
      BY DEF BarRight
    <3>1. Right(t)
      BY <2>1, <2>3 DEF RightInv, BarRight
    <3>2. On("_bar")' = On("_bar")
      BY <2>1 DEF On
    <3>3. QED
      BY <2>1, <2>3, <3>1, <3>2 DEF Right
  <2>6. QED
    BY <2>1, <2>2, <2>4, <2>5 DEF RightInv
<1>2. ASSUME NEW u \in Thread, Step(u) PROVE RightInv'
  <2>1. BarInv'
    BY <1>2, QuietStep, InitStep, DrawStep DEF Step, RightInv
  <2>2. DOMAIN out' = Thread /\ high' \in [Thread -> Nat]
    <3>1. Offset(u) \in Nat
      BY OffsetInside, BarAssumption DEF RightInv
    <3>2. QED
      BY <1>2, <3>1 DEF RightInv, Step, InitBar, Blank, End, Show, Fill, Clear, Zero, Cut, PrintBar
  <2>3. \A t \in Thread :
           /\ pc'[t] \in {"none", "blank", "end", "ready", "fill", "clear", "zero", "cut", "print"}
           /\ bar'[t].style = "CHR" => pc'[t] \notin {"clear", "zero", "cut"}
           /\ bar'[t].style = "BGC" => pc'[t] # "fill"
           /\ pc'[t] \in {"blank", "end"} => out'[t] = <<>>
    <3>1. bar[u].style \in {"NUM", "CHR", "BGC"}
      BY DEF RightInv, BarInv, Bars
    <3>2. CASE InitBar(u)
      BY <3>2 DEF RightInv, BarInv, InitBar
    <3>3. CASE Show(u)
      BY <3>1, <3>3 DEF RightInv, BarInv, Show, Goto
    <3>4. CASE Blank(u)
      BY <3>4 DEF RightInv, BarInv, Blank, Goto
    <3>5. CASE End(u)
      BY <3>5 DEF RightInv, BarInv, End, Goto
    <3>6. CASE Fill(u)
      BY <3>6 DEF RightInv, BarInv, Fill, Goto
    <3>7. CASE Clear(u) \/ Zero(u) \/ Cut(u)
      <4>1. bar' = bar /\ out' = out /\ bar[u].style # "CHR" /\ pc'[u] \in {"zero", "cut", "print"}
            /\ \A t \in Thread \ {u} : pc'[t] = pc[t]
        BY <3>7 DEF RightInv, BarInv, Clear, Zero, Cut, Goto
      <4>2. QED
        BY <4>1 DEF RightInv
    <3>8. CASE PrintBar(u)
      BY <3>8 DEF RightInv, BarInv, PrintBar, Goto
    <3>9. QED
      BY <1>2, <3>2, <3>3, <3>4, <3>5, <3>6, <3>7, <3>8 DEF Step
  <2>4. ASSUME NEW t \in Thread PROVE (Alone(t) => Drawn(t))'
    <3>1. CASE t # u
      BY <1>2, <3>1, OtherStep
    <3>2. CASE InitBar(u) /\ t = u
      <4>1. pc'[t] = "blank" /\ high'[t] = 0
        BY <3>2 DEF RightInv, BarInv, InitBar
      <4>2. QED
        BY <4>1 DEF Drawn
    <3>3. CASE ~InitBar(u) /\ t = u
      <4>1. Alone(t)' => Alone(t)
        BY <1>2, <3>3 DEF Step, Blank, End, Show, Fill, Clear, Zero, Cut, PrintBar, Alone
      <4>2. Alone(t) => Drawn(t)'
        BY <1>2, <3>3, OwnDrawn
      <4>3. QED
        BY <4>1, <4>2
    <3>4. QED
      BY <3>1, <3>2, <3>3
  <2>5. ASSUME NEW t \in Thread PROVE (pc[t] = "ready" /\ out[t] # <<>> /\ Alone(t) => Right(t))'
    <3>1. CASE t # u
      BY <1>2, <3>1, OtherStep
    <3>2. CASE PrintBar(u) /\ t = u
      <4>1. Alone(t)' => Alone(t)
        BY <3>2 DEF PrintBar, Alone
      <4>2. Alone(t) => Right(t)'
        BY <3>2, PrintRight
      <4>3. QED
        BY <4>1, <4>2
    <3>3. CASE InitBar(u) /\ t = u
      BY <3>3 DEF RightInv, InitBar
    <3>4. CASE Show(u) /\ t = u
      <4>1. bar[u].style \in {"NUM", "CHR", "BGC"}
        BY DEF RightInv, BarInv, Bars
      <4>2. QED
        BY <3>4, <4>1 DEF RightInv, BarInv, Show, Goto
    <3>5. CASE End(u) /\ t = u
      <4>1. out'[t] = <<>>
        BY <3>5 DEF RightInv, End, Goto
      <4>2. QED
        BY <4>1
    <3>6. CASE (Blank(u) \/ Fill(u) \/ Clear(u) \/ Zero(u) \/ Cut(u)) /\ t = u
      <4>1. pc'[t] \in {"end", "print", "zero", "cut"}
        BY <3>6 DEF RightInv, BarInv, Blank, Fill, Clear, Zero, Cut, Goto
      <4>2. QED
        BY <4>1
    <3>7. QED
      BY <1>2, <3>1, <3>2, <3>3, <3>4, <3>5, <3>6 DEF Step
  <2>6. BarRight'
    BY <2>5 DEF BarRight
  <2>7. QED
    BY <2>1, <2>2, <2>3, <2>4, <2>6 DEF RightInv
<1>3. QED
  BY <1>1, <1>2 DEF Next

\* For any threads, lengths and percentages: what a thread prints from a buffer
\* of its own is right, whatever the others do.
THEOREM ThreadSafe == Spec => []BarRight
<1>1. Init => RightInv
  BY BarInit DEF Init, RightInv, Drawn, BarRight
<1>2. QED
  BY <1>1, RightStep, PTL DEF Spec, RightInv

\* A string is a sequence of cells, wherever it ends.
LEMMA StrType ==
  ASSUME mem \in [Buffer -> [Index -> Cell]], NEW b \in Buffer, NEW k \in 0..MAX_BAR_LENGTH
  PROVE  Str(b, k) \in Seq(Cell)
<1> DEFINE E == {i \in Index : i >= k /\ mem[b][i] = "nul"} \cup {MAX_BAR_LENGTH + 1}
<1>1. E \in SUBSET Nat /\ E # {} /\ \A i \in E : k <= i /\ i <= MAX_BAR_LENGTH + 1
  BY BarAssumption DEF Index
<1>2. PICK end \in E : \A y \in E : end <= y
  BY <1>1, LeastNatural
<1>3. end \in Nat /\ k <= end /\ end <= MAX_BAR_LENGTH + 1 /\ end \in E /\ E \subseteq Nat
  BY <1>1, <1>2
<1> HIDE DEF E
<1>4. Min(E) = end
  <2>1. Min(E) \in E /\ \A y \in E : Min(E) <= y
    BY <1>2, <1>3 DEF Min
  <2>2. Min(E) \in Nat /\ Min(E) <= end /\ end <= Min(E)
    BY <1>2, <1>3, <2>1
  <2>3. QED
    BY <1>3, <2>2
<1>5. Str(b, k) = [i \in 1..(end - k) |-> mem[b][k + i - 1]]
  BY <1>4 DEF Str, E
<1>6. end - k \in Nat
  BY <1>3
<1>7. \A i \in 1..(end - k) : mem[b][k + i - 1] \in Cell
  <2>1. \A i \in 1..(end - k) : k + i - 1 \in Index
    BY <1>3, BarAssumption DEF Index
  <2>2. QED
    BY <2>1
<1>8. QED
  BY <1>5, <1>6, <1>7

\* What the invariants leave out of the types.
CellTypes ==
  /\ mem \in [Buffer -> [Index -> Cell]]
  /\ pc \in [Thread -> {"none", "blank", "end", "ready", "fill", "clear", "zero", "cut", "print"}]
  /\ calls \in [Thread -> Nat] /\ high \in [Thread -> Nat] /\ DOMAIN out = Thread
  /\ \A t \in Thread : \A i \in 1..Len(out[t]) : out[t][i] \in Seq(Cell)

LEMMA CellStep == BarInv /\ CellTypes /\ [Next]_vars => CellTypes'
<1> SUFFICES ASSUME BarInv, CellTypes, [Next]_vars PROVE CellTypes'
  OBVIOUS
<1> USE DEF Goto
<1>1. CASE UNCHANGED vars
  BY <1>1 DEF vars, CellTypes
<1>2. ASSUME NEW t \in Thread, Blank(t) \/ End(t) \/ Fill(t) \/ Clear(t) \/ Zero(t) \/ Cut(t)
      PROVE  CellTypes'
  <2>1. UNCHANGED <<calls, out>> /\ Offset(t) \in Nat
    BY <1>2, OffsetInside DEF Blank, End, Fill, Clear, Zero, Cut
  <2>2. \E c \in Cell : (\E n : Memset(Pro(t), c, n)) \/ (\E k : Store(Pro(t), k, c))
    BY <1>2 DEF Blank, End, Fill, Clear, Zero, Cut, Cell
  <2>3. mem' \in [Buffer -> [Index -> Cell]]
    <3>1. PICK c \in Cell : (\E n : Memset(Pro(t), c, n)) \/ (\E k : Store(Pro(t), k, c))
      BY <2>2
    <3>2. mem \in [Buffer -> [Index -> Cell]]
      BY DEF CellTypes
    <3>3. ASSUME NEW n, Memset(Pro(t), c, n) PROVE mem' \in [Buffer -> [Index -> Cell]]
      BY <3>2, <3>3 DEF Memset
    <3>4. ASSUME NEW k, Store(Pro(t), k, c) PROVE mem' \in [Buffer -> [Index -> Cell]]
      BY <3>2, <3>4 DEF Store
    <3>5. QED
      BY <3>1, <3>3, <3>4
  <2>4. high' \in [Thread -> Nat]
    BY <1>2, <2>1 DEF CellTypes, Blank, End, Fill, Clear, Zero, Cut
  <2>5. pc' \in [Thread -> {"none", "blank", "end", "ready", "fill", "clear", "zero", "cut", "print"}]
    BY <1>2 DEF CellTypes, Blank, End, Fill, Clear, Zero, Cut
  <2>6. QED
    BY <2>1, <2>3, <2>4, <2>5 DEF CellTypes
<1>3. ASSUME NEW t \in Thread, InitBar(t) PROVE CellTypes'
  BY <1>3 DEF InitBar, CellTypes
<1>4. ASSUME NEW t \in Thread, Show(t) PROVE CellTypes'
  <2>1. bar[t].style \in {"NUM", "CHR", "BGC"}
    BY DEF BarInv, Bars
  <2>2. QED
    BY <1>4, <2>1 DEF Show, CellTypes
<1>5. ASSUME NEW t \in Thread, PrintBar(t) PROVE CellTypes'
  <2>1. Pro(t) \in Buffer /\ 0 \in 0..MAX_BAR_LENGTH /\ Offset(t) + 1 \in 0..MAX_BAR_LENGTH
    BY OffsetInside, BarAssumption
  <2>2. Str(Pro(t), 0) \in Seq(Cell) /\ Str(Pro(t), Offset(t) + 1) \in Seq(Cell)
    BY <2>1, StrType DEF CellTypes
  <2>3. bar[t].style \in {"NUM", "CHR", "BGC"}
    BY DEF BarInv, Bars
  <2>4. \A i \in 1..Len(Strings(t)) : Strings(t)[i] \in Seq(Cell)
    BY <2>2, <2>3 DEF Strings
  <2>5. out' = [out EXCEPT ![t] = Strings(t)]
    BY <1>5 DEF PrintBar
  <2> HIDE DEF Goto
  <2>6. \A s \in Thread : \A i \in 1..Len(out'[s]) : out'[s][i] \in Seq(Cell)
    BY <2>4, <2>5 DEF CellTypes
  <2>7. QED
    BY <1>5, <2>5, <2>6 DEF PrintBar, CellTypes, Goto
<1>6. QED
  BY <1>1, <1>2, <1>3, <1>4, <1>5 DEF Next, Step

\* For any threads, lengths and percentages: a bar is between 1 and
\* MAX_BAR_LENGTH long, whatever clprogress_init() is asked for, a percentage is
\* one of Steps, and what a thread prints are cells of a buffer.
THEOREM BarTypes == Spec => []TypeOK
<1>1. Init => CellTypes
  BY BarAssumption DEF Init, CellTypes, Fresh, Cell, Buffer
<1>2. BarInv /\ CellTypes => TypeOK
  BY DEF BarInv, CellTypes, TypeOK
<1>3. QED
  BY <1>1, <1>2, BarInit, BarStep, CellStep, PTL DEF Spec

-----------------------------------------------------------------------------
(* The relay of pty_demo.                                                  *)

\* read()'s -1 is the largest size_t.
LEMMA SizeTWraps == SizeT(1) = 1 /\ SizeT(-1) = SizeMax - 1 /\ SizeMax - 1 > 1
<1>1. \A m \in Nat : m > 2 => 1 % m = 1 /\ (-1) % m = m - 1
  OBVIOUS
<1>2. SizeMax \in Nat /\ SizeMax > 2
  BY PtyAssumption, Zenon DEF PtyAssumption
<1>3. 1 % SizeMax = 1 /\ (-1) % SizeMax = SizeMax - 1
  BY <1>1, <1>2
<1>4. SizeMax - 1 > 1
  BY <1>2
<1>5. QED
  BY <1>3, <1>4, Zenon DEF SizeT

\* Neither a line nor a read() that failed ends the loop.
LEMMA AllGoOn == GoesOn(1) /\ GoesOn(-1)
<1>1. SizeMax - 1 > 0 /\ ~(SizeMax - 1 = 1)
  <2>1. SizeMax \in Nat
    BY PtyAssumption, Zenon DEF PtyAssumption
  <2>2. QED
    BY <2>1, SizeTWraps
<1>2. GoesOn(1)
  BY SizeTWraps DEF GoesOn
<1>3. GoesOn(-1)
  <2>1. SizeT(-1) = SizeMax - 1 /\ ~(SizeMax - 1 = 1) /\ ~(SizeMax - 1 <= 0)
    BY <1>1, SizeTWraps, PtyAssumption DEF PtyAssumption
  <2>2. QED
    BY <2>1 DEF GoesOn
<1>4. QED
  BY <1>2, <1>3

\* The relay reads its input only when there is some or its end, and has a
\* line in its hand as long as it is to be written.
RelayInv == /\ rpc \in {"open", "fork"} => child = "none"
            /\ rpc = "stdin" => stdin # <<>> \/ eof
            /\ rpc = "write" => hand # <<>>
            /\ OnlyUserEnds

LEMMA RelayStep == RelayInv /\ [PtyNext]_ptyVars => RelayInv'
<1> SUFFICES ASSUME RelayInv, [PtyNext]_ptyVars PROVE RelayInv'
  OBVIOUS
<1> USE DEF RelayInv, OnlyUserEnds, relay, user, pty
<1>1. CASE ROpen
  BY <1>1 DEF ROpen
<1>2. CASE RFork
  BY <1>2 DEF RFork, Fails
<1>3. CASE RSelect
  BY <1>3 DEF RSelect, Ready, Fails
<1>4. CASE RStdin
  <2>1. CASE rpc' = AfterStdin /\ UNCHANGED <<hand, stdin>>
    BY <1>4, <2>1 DEF RStdin, AfterStdin
  <2>2. CASE stdin # <<>> /\ hand' = <<Head(stdin)>> /\ rpc' = "write"
    BY <2>2
  <2>3. CASE stdin = <<>> /\ rpc' = "done" /\ UNCHANGED stdin
    BY <1>4, <2>3 DEF RStdin
  <2>4. QED
    BY <1>4, <2>1, <2>2, <2>3, AllGoOn DEF RStdin
<1>5. CASE RWrite
  BY <1>5 DEF RWrite, AfterStdin
<1>6. CASE RMaster
  <2>1. /\ rpc = "master" /\ UNCHANGED <<hand, child, stdin, eof>>
        /\ rpc' = "select" \/ (rpc' = "done" /\ failed' = failed \cup {"print"})
    BY <1>6, AllGoOn DEF RMaster, Fails
  <2>2. QED
    BY <2>1
<1>13. CASE RKill
  <2>1. rpc' = "done" /\ failed' = failed \cup {"signal"}
    BY <1>13 DEF RKill, Fails
  <2>2. QED
    BY <2>1
<1>7. CASE Child
  <2>1. /\ child \in {"setsid", "open", "setup"} /\ UNCHANGED <<relay, user>>
        /\ child' # "none" /\ (rpc = "done" /\ slave # "open" => slave' # "open")
    BY <1>7 DEF Child, CSetsid, COpen, CSetup, Ends
  <2>2. QED
    BY <2>1
<1>8. CASE ShellReads \/ ShellWrites \/ ShellExits
  <2>1. /\ child = "shell" /\ UNCHANGED <<rpc, hand, stdin, eof, failed>>
        /\ (slave # "open" => slave' # "open")
    BY <1>8 DEF ShellReads, ShellWrites, ShellExits, Ends
  <2>2. QED
    BY <2>1
<1>9. CASE UserTypes
  BY <1>9 DEF UserTypes
<1>10. CASE UserEnds
  BY <1>10 DEF UserEnds
<1>11. CASE UNCHANGED ptyVars
  BY <1>11 DEF ptyVars
<1>12. QED
  BY <1>1, <1>2, <1>3, <1>4, <1>5, <1>6, <1>7, <1>8, <1>9, <1>10, <1>11, <1>13 DEF PtyNext, Relay

\* For any pseudo-terminal and any width of size_t: neither the end of the shell
\* nor a read() that fails ends the relay; the end of its input does, a line
\* nobody takes, another call that fails, or the user.
THEOREM RelayOutlivesShell == PtySpec => []OnlyUserEnds
<1>1. PtyInit => RelayInv
  BY DEF PtyInit, RelayInv, OnlyUserEnds
<1>2. RelayInv => OnlyUserEnds
  BY DEF RelayInv
<1>3. QED
  BY <1>1, <1>2, RelayStep, PTL DEF PtySpec

LEMMA PtyTypeStep == PtyTypeOK /\ [PtyNext]_ptyVars => PtyTypeOK'
<1> SUFFICES ASSUME PtyTypeOK, [PtyNext]_ptyVars PROVE PtyTypeOK'
  OBVIOUS
<1> USE PtyAssumption DEF PtyAssumption, PtyTypeOK, relay, user, pty
<1>1. CASE ROpen
  BY <1>1 DEF ROpen
<1>2. CASE RFork
  BY <1>2 DEF RFork, Fails
<1>3. CASE RSelect
  BY <1>3 DEF RSelect, Ready, Fails
<1>4. CASE RStdin
  <2>1. hand' \in Seq(Line) /\ Len(hand') <= 1 /\ stdin' \in Seq(Line)
    <3>1. CASE stdin # <<>> /\ hand' = <<Head(stdin)>> /\ stdin' = Tail(stdin)
      <4>1. hand' = <<Head(stdin)>> /\ stdin' = Tail(stdin)
        BY <3>1
      <4>2. stdin \in Seq(Line) /\ Head(stdin) \in Line /\ Tail(stdin) \in Seq(Line)
        BY <3>1
      <4>3. <<Head(stdin)>> \in Seq(Line) /\ Len(<<Head(stdin)>>) = 1
        BY <4>2
      <4>4. QED
        BY <4>1, <4>2, <4>3
    <3>2. CASE UNCHANGED <<hand, stdin>>
      BY <3>2
    <3>3. QED
      BY <1>4, <3>1, <3>2 DEF RStdin
  <2>2. QED
    BY <1>4, <2>1 DEF RStdin, AfterStdin, Fails
<1>5. CASE RWrite
  <2>1. toShell' \in Seq(Line) /\ Len(toShell') <= InCap /\ hand' \in Seq(Line) /\ Len(hand') <= 1
    <3>1. CASE UNCHANGED <<hand, toShell>>
      BY <3>1
    <3>2. CASE Len(toShell) < InCap /\ toShell' = toShell \o hand /\ hand' = <<>>
      <4>1. toShell \o hand \in Seq(Line) /\ Len(toShell \o hand) = Len(toShell) + Len(hand)
        BY ConcatProperties
      <4>2. QED
        BY <3>2, <4>1
    <3>3. QED
      BY <1>5, <3>1, <3>2 DEF RWrite
  <2>2. QED
    BY <1>5, <2>1 DEF RWrite, AfterStdin
<1>6. CASE RMaster
  <2>1. screen' \in Seq(Said) /\ fromShell' \in Seq(Said) /\ Len(fromShell') <= OutCap
    <3>1. CASE fromShell # <<>>
      <4>1. /\ screen' = Append(screen, Head(fromShell)) \/ UNCHANGED screen
            /\ fromShell' = Tail(fromShell)
        BY <1>6, <3>1 DEF RMaster
      <4>2. Head(fromShell) \in Said /\ Tail(fromShell) \in Seq(Said) /\ Len(Tail(fromShell)) = Len(fromShell) - 1
        BY <3>1
      <4>3. Append(screen, Head(fromShell)) \in Seq(Said) /\ screen \in Seq(Said)
        BY <4>2
      <4>4. screen' \in Seq(Said)
        BY <4>1, <4>3
      <4>5. fromShell' \in Seq(Said) /\ Len(fromShell') <= OutCap
        BY <4>1, <4>2
      <4>6. QED
        BY <4>4, <4>5
    <3>2. CASE fromShell = <<>>
      BY <1>6, <3>2 DEF RMaster
    <3>3. QED
      BY <3>1, <3>2
  <2>2. rpc' \in {"select", "done"} /\ failed' \subseteq PtyFaults
    BY <1>6 DEF RMaster, Fails
  <2>3. UNCHANGED <<ready, hand, child, slave, toShell, user, said>>
    BY <1>6 DEF RMaster
  <2>4. QED
    BY <2>1, <2>2, <2>3
<1>15. CASE RKill
  BY <1>15 DEF RKill, Fails
<1>7. CASE CSetsid
  BY <1>7 DEF CSetsid
<1>8. CASE COpen \/ CSetup \/ ShellExits
  BY <1>8 DEF COpen, CSetup, ShellExits, Ends
<1>9. CASE ShellReads
  BY <1>9 DEF ShellReads
<1>10. CASE ShellWrites
  <2>1. fromShell' \in Seq(Said) /\ Len(fromShell') <= OutCap /\ said' \in 0..MaxSaid
    BY <1>10 DEF ShellWrites, Said
  <2>2. QED
    BY <1>10, <2>1 DEF ShellWrites
<1>11. CASE UserTypes
  <2>1. stdin' \in Seq(Line) /\ typed' \in 0..MaxTyped
    BY <1>11 DEF UserTypes, Line
  <2>2. QED
    BY <1>11, <2>1 DEF UserTypes
<1>12. CASE UserEnds
  BY <1>12 DEF UserEnds
<1>13. CASE UNCHANGED ptyVars
  BY <1>13 DEF ptyVars
<1>14. QED
  BY <1>1, <1>2, <1>3, <1>4, <1>5, <1>6, <1>7, <1>8, <1>9, <1>10, <1>11, <1>12, <1>13, <1>15
     DEF PtyNext, Relay, Child

\* For any number of lines and any size of the pseudo-terminal: the relay holds
\* one line at most, and neither direction overflows.
THEOREM PtyTypes == PtySpec => []PtyTypeOK
<1>1. PtyInit => PtyTypeOK
  <2>1. <<>> \in Seq(Line) /\ <<>> \in Seq(Said) /\ Len(<<>>) = 0
    OBVIOUS
  <2>2. InCap >= 0 /\ OutCap >= 0 /\ 0 \in 0..MaxTyped /\ 0 \in 0..MaxSaid
    BY PtyAssumption DEF PtyAssumption
  <2>3. SUFFICES ASSUME PtyInit PROVE PtyTypeOK
    OBVIOUS
  <2>4. /\ hand = <<>> /\ stdin = <<>> /\ toShell = <<>> /\ fromShell = <<>> /\ screen = <<>>
        /\ rpc = "open" /\ ready = {} /\ child = "none" /\ slave = "new" /\ eof = FALSE
        /\ typed = 0 /\ said = 0 /\ failed = {}
    BY <2>3 DEF PtyInit
  <2>5. /\ hand \in Seq(Line) /\ Len(hand) <= 1 /\ stdin \in Seq(Line)
        /\ toShell \in Seq(Line) /\ Len(toShell) <= InCap
    BY <2>1, <2>2, <2>4
  <2>6. fromShell \in Seq(Said) /\ Len(fromShell) <= OutCap /\ screen \in Seq(Said)
    BY <2>1, <2>2, <2>4
  <2>7. QED
    BY <2>2, <2>4, <2>5, <2>6 DEF PtyTypeOK
<1>2. QED
  BY <1>1, PtyTypeStep, PTL DEF PtySpec
=============================================================================
