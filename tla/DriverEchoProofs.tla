-------------------------- MODULE DriverEchoProofs --------------------------
(***************************************************************************)
(* Whom one reaches: the driver behind a device, the message behind an     *)
(* answer.  The two have nothing else in common.                           *)
(*                                                                         *)
(* CharDrivers, for any set of the drivers, any dynamic majors, loads,     *)
(* interleaving and failing registrations: whom an open() reaches, and     *)
(* what a module leaves behind when it is freed.  DrvInv is the inductive  *)
(* invariant: what the kernel's tables hold of each load, and what its     *)
(* driver will still take back.                                            *)
(*                                                                         *)
(* UdpEcho, for any clients, messages, addresses and faults of the net:    *)
(* which message a printed answer repeats.                                 *)
(***************************************************************************)
EXTENDS CharDrivers, UdpEcho, FiniteSetTheorems, SequenceTheorems, WellFoundedInduction, TLAPS

(* What the tables of the drivers say, step by step.                       *)

Numbered == {"class", "mydev"}     \* the drivers that ask for a free major
Has(u, w) == \E i \in 1..Len(u) : u[i] = w
Gets(d, n) == {InitOf(d)[k].get : k \in 1..(n - 1)}
NoDups(u) == \A i, k \in 1..Len(u) : u[i] = u[k] => i = k
All(d) == Gets(d, Len(InitOf(d)) + 1)
Before(u, a, b) == \A i \in 1..Len(u) : u[i] = a => \E k \in 1..Len(u) : i < k /\ u[k] = b
Orderly(d, u) == /\ \A w : Has(u, w) => w \in All(d)
                 /\ d \in Numbered => Before(u, "cdev", "region") /\ Before(u, "cdev2", "region")
                 /\ Before(u, "node", "cdev") /\ Before(u, "node2", "cdev2")

LEMMA TableOf ==
  /\ InitOf("class") = ClassInit /\ InitOf("mydev") = MydevInit /\ InitOf("char") = CharInit
  /\ InitOf("first") = FirstInit /\ InitOf("misc") = MiscInit /\ InitOf("uevent") = UeventInit
  /\ ExitOf("class") = ClassExit /\ ExitOf("mydev") = MydevExit /\ ExitOf("char") = CharExit
  /\ ExitOf("first") = FirstExit /\ ExitOf("misc") = MiscExit /\ ExitOf("uevent") = UeventExit
  BY DEF InitOf, ExitOf

LEMMA Lengths ==
  /\ Len(InitOf("class")) = 4 /\ Len(InitOf("mydev")) = 6 /\ Len(InitOf("char")) = 2
  /\ Len(InitOf("first")) = 2 /\ Len(InitOf("misc")) = 1 /\ Len(InitOf("uevent")) = 2
  BY TableOf DEF ClassInit, MydevInit, CharInit, FirstInit, MiscInit, UeventInit

LEMMA StepsOf ==
  /\ InitOf("class")[1] = Step("region", <<>>)
  /\ InitOf("class")[2] = Step("cdev", <<"region">>)
  /\ InitOf("class")[3] = Step("class", <<"region", "cdev">>)
  /\ InitOf("class")[4] = Step("node", <<"class", "region", "cdev">>)
  /\ InitOf("mydev")[1] = Step("region", <<>>)
  /\ InitOf("mydev")[2] = Unchecked("cdev")
  /\ InitOf("mydev")[3] = Step("cdev2", <<"region">>)
  /\ InitOf("mydev")[4] = Step("class", <<"cdev", "region">>)
  /\ InitOf("mydev")[5] = Unchecked("node")
  /\ InitOf("mydev")[6] = [get |-> "node2", test |-> {"node"}, back |-> <<"class", "cdev", "region">>]
  /\ InitOf("char")[1] = Step("region", <<>>) /\ InitOf("char")[2] = Step("cdev", <<"region">>)
  /\ InitOf("first")[1] = Step("region", <<>>) /\ InitOf("first")[2] = Step("cdev", <<"region">>)
  /\ InitOf("misc")[1] = Step("misc", <<>>)
  /\ InitOf("uevent")[1] = Step("kobj", <<>>) /\ InitOf("uevent")[2] = Step("attr", <<"kobj">>)
<1>1. ASSUME NEW a, NEW b, NEW c, NEW e, NEW f, NEW g
      PROVE  /\ <<a>>[1] = a /\ <<a, b>>[1] = a /\ <<a, b>>[2] = b
             /\ <<a, b, c, e>>[1] = a /\ <<a, b, c, e>>[2] = b
             /\ <<a, b, c, e>>[3] = c /\ <<a, b, c, e>>[4] = e
             /\ <<a, b, c, e, f, g>>[1] = a /\ <<a, b, c, e, f, g>>[2] = b
             /\ <<a, b, c, e, f, g>>[3] = c /\ <<a, b, c, e, f, g>>[4] = e
             /\ <<a, b, c, e, f, g>>[5] = f /\ <<a, b, c, e, f, g>>[6] = g
  OBVIOUS
<1>c. /\ ClassInit[1] = Step("region", <<>>) /\ ClassInit[2] = Step("cdev", <<"region">>)
      /\ ClassInit[3] = Step("class", <<"region", "cdev">>)
      /\ ClassInit[4] = Step("node", <<"class", "region", "cdev">>)
  BY <1>1, Zenon DEF ClassInit
<1>m. /\ MydevInit[1] = Step("region", <<>>) /\ MydevInit[2] = Unchecked("cdev")
      /\ MydevInit[3] = Step("cdev2", <<"region">>) /\ MydevInit[4] = Step("class", <<"cdev", "region">>)
      /\ MydevInit[5] = Unchecked("node")
      /\ MydevInit[6] = [get |-> "node2", test |-> {"node"}, back |-> <<"class", "cdev", "region">>]
  BY <1>1, Zenon DEF MydevInit
<1>f. /\ CharInit[1] = Step("region", <<>>) /\ CharInit[2] = Step("cdev", <<"region">>)
      /\ FirstInit[1] = Step("region", <<>>) /\ FirstInit[2] = Step("cdev", <<"region">>)
  BY <1>1, Zenon DEF CharInit, FirstInit
<1>u. /\ MiscInit[1] = Step("misc", <<>>)
      /\ UeventInit[1] = Step("kobj", <<>>) /\ UeventInit[2] = Step("attr", <<"kobj">>)
  BY <1>1, Zenon DEF MiscInit, UeventInit
<1> QED
  BY <1>c, <1>m, <1>f, <1>u, TableOf, Zenon

LEMMA LengthIs == \A d \in Drivers : Len(InitOf(d)) \in 1..6
<1>1. \A d \in Drivers : \/ Len(InitOf(d)) = 4 \/ Len(InitOf(d)) = 6
                          \/ Len(InitOf(d)) = 2 \/ Len(InitOf(d)) = 1
  BY Lengths, Zenon DEF Drivers
<1>2. QED
  BY <1>1

LEMMA GetsOf ==
  ASSUME NEW d \in Drivers
  PROVE  /\ Gets(d, 1) = {}
         /\ \A n \in 1..Len(InitOf(d)) : Gets(d, n + 1) = Gets(d, n) \cup {InitOf(d)[n].get}
<1>1. Len(InitOf(d)) \in 1..6
  BY LengthIs
<1>2. \A n \in 1..Len(InitOf(d)) : 1..n = (1..(n - 1)) \cup {n}
  BY <1>1
<1>3. \A n \in 1..Len(InitOf(d)) : (n + 1) - 1 = n
  BY <1>1
<1>4. 1..(1 - 1) = {}
  OBVIOUS
<1>5. QED
  BY <1>2, <1>3, <1>4 DEF Gets

LEMMA AllOf ==
  /\ Gets("class", 1) = {} /\ Gets("class", 2) = {"region"}
  /\ Gets("class", 3) = {"region", "cdev"} /\ Gets("class", 4) = {"region", "cdev", "class"}
  /\ Gets("class", 5) = {"region", "cdev", "class", "node"}
  /\ Gets("mydev", 1) = {} /\ Gets("mydev", 2) = {"region"}
  /\ Gets("mydev", 3) = {"region", "cdev"} /\ Gets("mydev", 4) = {"region", "cdev", "cdev2"}
  /\ Gets("mydev", 5) = {"region", "cdev", "cdev2", "class"}
  /\ Gets("mydev", 6) = {"region", "cdev", "cdev2", "class", "node"}
  /\ Gets("mydev", 7) = {"region", "cdev", "cdev2", "class", "node", "node2"}
  /\ \A d \in {"char", "first"} : Gets(d, 1) = {} /\ Gets(d, 2) = {"region"} /\ Gets(d, 3) = {"region", "cdev"}
  /\ Gets("misc", 1) = {} /\ Gets("misc", 2) = {"misc"}
  /\ Gets("uevent", 1) = {} /\ Gets("uevent", 2) = {"kobj"} /\ Gets("uevent", 3) = {"kobj", "attr"}
<1>1. \A d \in Drivers : \A n \in 1..Len(InitOf(d)) : Gets(d, n + 1) = Gets(d, n) \cup {InitOf(d)[n].get}
  BY GetsOf
<1>2. \A d \in Drivers : Gets(d, 1) = {}
  BY GetsOf
<1>c. /\ Gets("class", 2) = {"region"} /\ Gets("class", 3) = {"region", "cdev"}
      /\ Gets("class", 4) = {"region", "cdev", "class"} /\ Gets("class", 5) = {"region", "cdev", "class", "node"}
  <2>1. \A n \in 1..4 : Gets("class", n + 1) = Gets("class", n) \cup {InitOf("class")[n].get}
    BY <1>1, Lengths, Zenon DEF Drivers
  <2>2. /\ Gets("class", 2) = Gets("class", 1) \cup {"region"}
        /\ Gets("class", 3) = Gets("class", 2) \cup {"cdev"}
        /\ Gets("class", 4) = Gets("class", 3) \cup {"class"}
        /\ Gets("class", 5) = Gets("class", 4) \cup {"node"}
    BY <2>1, StepsOf, 1 + 1 = 2, 2 + 1 = 3, 3 + 1 = 4, 4 + 1 = 5 DEF Step
  <2>3. QED
    BY <2>2, <1>2 DEF Drivers
<1>m. /\ Gets("mydev", 2) = {"region"} /\ Gets("mydev", 3) = {"region", "cdev"}
      /\ Gets("mydev", 4) = {"region", "cdev", "cdev2"}
      /\ Gets("mydev", 5) = {"region", "cdev", "cdev2", "class"}
      /\ Gets("mydev", 6) = {"region", "cdev", "cdev2", "class", "node"}
      /\ Gets("mydev", 7) = {"region", "cdev", "cdev2", "class", "node", "node2"}
  <2>1. \A n \in 1..6 : Gets("mydev", n + 1) = Gets("mydev", n) \cup {InitOf("mydev")[n].get}
    BY <1>1, Lengths, Zenon DEF Drivers
  <2>2. /\ Gets("mydev", 2) = Gets("mydev", 1) \cup {"region"}
        /\ Gets("mydev", 3) = Gets("mydev", 2) \cup {"cdev"}
        /\ Gets("mydev", 4) = Gets("mydev", 3) \cup {"cdev2"}
    BY <2>1, StepsOf, 1 + 1 = 2, 2 + 1 = 3, 3 + 1 = 4 DEF Step, Unchecked
  <2>3. /\ Gets("mydev", 5) = Gets("mydev", 4) \cup {"class"}
        /\ Gets("mydev", 6) = Gets("mydev", 5) \cup {"node"}
        /\ Gets("mydev", 7) = Gets("mydev", 6) \cup {"node2"}
    BY <2>1, StepsOf, 4 + 1 = 5, 5 + 1 = 6, 6 + 1 = 7 DEF Step, Unchecked
  <2>4. QED
    BY <2>2, <2>3, <1>2 DEF Drivers
<1>f. ASSUME NEW d \in {"char", "first"}
      PROVE  Gets(d, 2) = {"region"} /\ Gets(d, 3) = {"region", "cdev"}
  <2>0. Len(InitOf(d)) = 2 /\ d \in Drivers
    BY Lengths, Zenon DEF Drivers
  <2>1. Gets(d, 2) = Gets(d, 1) \cup {InitOf(d)[1].get} /\ Gets(d, 3) = Gets(d, 2) \cup {InitOf(d)[2].get}
    BY <1>1, <2>0, 1 + 1 = 2, 2 + 1 = 3
  <2>2. InitOf(d)[1].get = "region" /\ InitOf(d)[2].get = "cdev"
    BY StepsOf DEF Step
  <2>3. QED
    BY <2>1, <2>2, <1>2 DEF Drivers
<1>u. Gets("misc", 2) = {"misc"} /\ Gets("uevent", 2) = {"kobj"} /\ Gets("uevent", 3) = {"kobj", "attr"}
  <2>1. /\ Gets("misc", 2) = Gets("misc", 1) \cup {InitOf("misc")[1].get}
        /\ Gets("uevent", 2) = Gets("uevent", 1) \cup {InitOf("uevent")[1].get}
        /\ Gets("uevent", 3) = Gets("uevent", 2) \cup {InitOf("uevent")[2].get}
    BY <1>1, Lengths, 1 + 1 = 2, 2 + 1 = 3 DEF Drivers
  <2>2. QED
    BY <2>1, <1>2, StepsOf DEF Drivers, Step
<1> QED
  BY <1>2, <1>c, <1>m, <1>f, <1>u DEF Drivers

\* Every step registers something new; when it fails, what the driver has
\* got is taken back, forgotten, or what failed.
LEMMA StepFacts ==
  ASSUME NEW d \in Drivers, NEW n \in 1..Len(InitOf(d))
  PROVE  /\ Len(InitOf(d)) \in 1..6
         /\ Gets(d, 1) = {} /\ Gets(d, n + 1) = Gets(d, n) \cup {InitOf(d)[n].get}
         /\ InitOf(d)[n].get \notin Gets(d, n)
         /\ Gets(d, n + 1) \subseteq All(d) /\ All(d) \subseteq What
<1>1. Len(InitOf(d)) \in 1..6 /\ Gets(d, 1) = {} /\ Gets(d, n + 1) = Gets(d, n) \cup {InitOf(d)[n].get}
  BY LengthIs, GetsOf
<1>c. CASE d = "class"
  <2>0. Len(InitOf(d)) = 4
    BY <1>c, Lengths, Zenon
  <2>1. n = 1 \/ n = 2 \/ n = 3 \/ n = 4
    BY <2>0
  <2>2. All(d) = {"region", "cdev", "class", "node"}
    BY <1>c, Lengths, AllOf, 4 + 1 = 5 DEF All
  <2>3. InitOf(d)[n].get \notin Gets(d, n) /\ InitOf(d)[n].get \in All(d) /\ Gets(d, n) \subseteq All(d)
    BY <1>c, <2>1, <2>2, StepsOf, AllOf DEF Step
  <2>4. QED
    BY <1>1, <2>2, <2>3 DEF What
<1>m. CASE d = "mydev"
  <2>0. Len(InitOf(d)) = 6
    BY <1>m, Lengths, Zenon
  <2>1. n = 1 \/ n = 2 \/ n = 3 \/ n = 4 \/ n = 5 \/ n = 6
    BY <2>0
  <2>2. All(d) = {"region", "cdev", "cdev2", "class", "node", "node2"}
    BY <1>m, Lengths, AllOf, 6 + 1 = 7 DEF All
  <2>3. InitOf(d)[n].get \notin Gets(d, n) /\ InitOf(d)[n].get \in All(d) /\ Gets(d, n) \subseteq All(d)
    <3>0. CASE n = 1
      BY <1>m, <3>0, <2>2, StepsOf, AllOf DEF Step
    <3>1. CASE n = 2
      BY <1>m, <3>1, <2>2, StepsOf, AllOf DEF Unchecked
    <3>5. CASE n = 3
      BY <1>m, <3>5, <2>2, StepsOf, AllOf DEF Step
    <3>2. CASE n = 4 \/ n = 5
      BY <1>m, <3>2, <2>2, StepsOf, AllOf DEF Step, Unchecked
    <3>3. CASE n = 6
      BY <1>m, <3>3, <2>2, StepsOf, AllOf DEF Step, Unchecked
    <3>4. QED
      BY <2>1, <3>0, <3>1, <3>2, <3>3, <3>5
  <2>4. QED
    BY <1>1, <2>2, <2>3 DEF What
<1>f. CASE d \in {"char", "first"}
  <2>0. Len(InitOf(d)) = 2
    BY <1>f, Lengths, Zenon
  <2>1. n = 1 \/ n = 2
    BY <2>0
  <2>2. All(d) = {"region", "cdev"}
    BY <1>f, <2>0, AllOf, 2 + 1 = 3 DEF All
  <2>3. InitOf(d)[n].get \notin Gets(d, n) /\ InitOf(d)[n].get \in All(d) /\ Gets(d, n) \subseteq All(d)
    BY <1>f, <2>1, <2>2, StepsOf, AllOf DEF Step
  <2>4. QED
    BY <1>1, <2>2, <2>3 DEF What
<1>u. CASE d \in {"misc", "uevent"}
  <2>0. IF d = "misc" THEN Len(InitOf(d)) = 1 ELSE d = "uevent" /\ Len(InitOf(d)) = 2
    BY <1>u, Lengths
  <2>1. n = 1 \/ (d = "uevent" /\ n = 2)
    <3>1. CASE d = "misc"
      <4>1. n \in 1..1
        BY <2>0, <3>1
      <4>2. QED
        BY <4>1
    <3>2. CASE d = "uevent" /\ Len(InitOf(d)) = 2
      <4>1. n \in 1..2
        BY <3>2
      <4>2. QED
        BY <3>2, <4>1
    <3>3. QED
      BY <1>u, <2>0, <3>1, <3>2
  <2>2. All(d) = IF d = "misc" THEN {"misc"} ELSE {"kobj", "attr"}
    BY <1>u, <2>0, AllOf, 1 + 1 = 2, 2 + 1 = 3 DEF All
  <2>3. InitOf(d)[n].get \notin Gets(d, n) /\ InitOf(d)[n].get \in All(d) /\ Gets(d, n) \subseteq All(d)
    BY <1>u, <2>1, <2>2, StepsOf, AllOf DEF Step
  <2>4. QED
    BY <1>1, <2>2, <2>3 DEF What
<1> QED
  BY <1>c, <1>m, <1>f, <1>u DEF Drivers

\* Lists of a few things.
LEMMA List0 ==
  /\ \A w : Has(<<>>, w) <=> w \in {}
  /\ NoDups(<<>>)
<1> DEFINE u == <<>>
<1>1. Len(u) = 0
  OBVIOUS
<1>2. \A i : i \notin 1..0
  OBVIOUS
<1> HIDE DEF u
<1>3. \A w : Has(u, w) <=> w \in {}
  BY <1>1, <1>2 DEF Has
<1>4. NoDups(u)
  BY <1>1, <1>2 DEF NoDups
<1>5. QED
  BY <1>3, <1>4 DEF u

LEMMA List1 ==
  ASSUME NEW a
  PROVE  /\ \A w : Has(<<a>>, w) <=> w \in {a}
         /\ NoDups(<<a>>)
<1> DEFINE u == <<a>>
<1>1. Len(u) = 1 /\ u[1] = a
  OBVIOUS
<1>2. \A i : i \in 1..1 <=> i = 1
  OBVIOUS
<1> HIDE DEF u
<1>3. \A w : Has(u, w) <=> w \in {a}
  BY <1>1, <1>2 DEF Has
<1>4. NoDups(u)
  BY <1>1, <1>2 DEF NoDups
<1>5. QED
  BY <1>3, <1>4 DEF u

LEMMA List2 ==
  ASSUME NEW a, NEW b
  PROVE  /\ \A w : Has(<<a, b>>, w) <=> w \in {a, b}
         /\ a # b => NoDups(<<a, b>>)
<1> DEFINE u == <<a, b>>
<1>1. Len(u) = 2 /\ u[1] = a /\ u[2] = b
  OBVIOUS
<1>2. \A i : i \in 1..2 <=> i = 1 \/ i = 2
  OBVIOUS
<1> HIDE DEF u
<1>3. \A w : Has(u, w) <=> w \in {a, b}
  BY <1>1, <1>2 DEF Has
<1>4. a # b => NoDups(u)
  BY <1>1, <1>2 DEF NoDups
<1>5. QED
  BY <1>3, <1>4 DEF u

LEMMA List3 ==
  ASSUME NEW a, NEW b, NEW c
  PROVE  /\ \A w : Has(<<a, b, c>>, w) <=> w \in {a, b, c}
         /\ a # b /\ a # c /\ b # c => NoDups(<<a, b, c>>)
<1> DEFINE u == <<a, b, c>>
<1>1. Len(u) = 3 /\ u[1] = a /\ u[2] = b /\ u[3] = c
  OBVIOUS
<1>2. \A i : i \in 1..3 <=> i = 1 \/ i = 2 \/ i = 3
  OBVIOUS
<1> HIDE DEF u
<1>3. \A w : Has(u, w) <=> w \in {a, b, c}
  BY <1>1, <1>2 DEF Has
<1>4. a # b /\ a # c /\ b # c => NoDups(u)
  BY <1>1, <1>2 DEF NoDups
<1>5. QED
  BY <1>3, <1>4 DEF u

LEMMA List4 ==
  ASSUME NEW a, NEW b, NEW c, NEW e
  PROVE  /\ \A w : Has(<<a, b, c, e>>, w) <=> w \in {a, b, c, e}
         /\ a # b /\ a # c /\ a # e /\ b # c /\ b # e /\ c # e => NoDups(<<a, b, c, e>>)
<1> DEFINE u == <<a, b, c, e>>
<1>1. Len(u) = 4 /\ u[1] = a /\ u[2] = b /\ u[3] = c /\ u[4] = e
  OBVIOUS
<1>2. \A i : i \in 1..4 <=> i = 1 \/ i = 2 \/ i = 3 \/ i = 4
  OBVIOUS
<1> HIDE DEF u
<1>3. \A w : Has(u, w) <=> w \in {a, b, c, e}
  BY <1>1, <1>2 DEF Has
<1>4. a # b /\ a # c /\ a # e /\ b # c /\ b # e /\ c # e => NoDups(u)
  BY <1>1, <1>2 DEF NoDups
<1>5. QED
  BY <1>3, <1>4 DEF u

LEMMA List6 ==
  ASSUME NEW a, NEW b, NEW c, NEW e, NEW f, NEW g
  PROVE  /\ \A w : Has(<<a, b, c, e, f, g>>, w) <=> w \in {a, b, c, e, f, g}
         /\ a # b /\ a # c /\ a # e /\ a # f /\ a # g /\ b # c /\ b # e /\ b # f /\ b # g /\ c # e /\ c # f /\ c # g /\ e # f /\ e # g /\ f # g => NoDups(<<a, b, c, e, f, g>>)
<1> DEFINE u == <<a, b, c, e, f, g>>
<1>1. Len(u) = 6 /\ u[1] = a /\ u[2] = b /\ u[3] = c /\ u[4] = e /\ u[5] = f /\ u[6] = g
  OBVIOUS
<1>2. \A i : i \in 1..6 <=> i = 1 \/ i = 2 \/ i = 3 \/ i = 4 \/ i = 5 \/ i = 6
  OBVIOUS
<1> HIDE DEF u
<1>3. \A w : Has(u, w) <=> w \in {a, b, c, e, f, g}
  BY <1>1, <1>2 DEF Has
<1>4. a # b /\ a # c /\ a # e /\ a # f /\ a # g /\ b # c /\ b # e /\ b # f /\ b # g /\ c # e /\ c # f /\ c # g /\ e # f /\ e # g /\ f # g => NoDups(u)
  BY <1>1, <1>2 DEF NoDups
<1>5. QED
  BY <1>3, <1>4 DEF u

\* What a failed step leaves is taken back or forgotten; no error path takes
\* back a cdev of a driver that does not forget one.
BackOk(d, n, s) ==
  /\ s.back \in Seq(What) /\ NoDups(s.back)
  /\ d \in Numbered => IF n = 1 THEN s.get = "region" /\ s.test = {"region"} /\ ~Has(s.back, "region")
                                 ELSE s.get # "region"
  /\ \/ s.test = {}
     \/ \E x \in What : /\ s.test = {x}
                       /\ \A w \in Gets(d, n + 1) \ {x} : Has(s.back, w) \/ w \in Forgotten(d)
  /\ \A w : Has(s.back, w) /\ IsCdev(w) => w \in Forgotten(d)

LEMMA StepBack ==
  ASSUME NEW get \in What, NEW back \in Seq(What)
  PROVE  /\ Step(get, back).get = get /\ Step(get, back).test = {get} /\ Step(get, back).back = back
         /\ Unchecked(get).get = get /\ Unchecked(get).test = {} /\ Unchecked(get).back = <<>>
  BY DEF Step, Unchecked

LEMMA ForgottenBy == /\ Forgotten("mydev") = {"cdev", "cdev2", "node2"} /\ Forgotten("class") = {"cdev"}
                     /\ \A d \in Drivers \ {"mydev", "class"} : Forgotten(d) = {}
  BY DEF Forgotten, Drivers

LEMMA ClassBack == \A n \in 1..4 : BackOk("class", n, InitOf("class")[n])
<1>1. BackOk("class", 1, InitOf("class")[1])
  <2> DEFINE s == InitOf("class")[1]
  <2>1. s.get = "region" /\ s.test = {"region"} /\ s.back = <<>>
    BY StepsOf DEF Step, Unchecked
  <2>2. <<>> \in Seq(What)
    BY DEF What
  <2>5. NoDups(<<>>) /\ \A w : Has(<<>>, w) <=> w \in {}
    BY List0
  <2>3. Gets("class", 1 + 1) = {"region"}
    BY AllOf, 1 + 1 = 2
  <2> HIDE DEF s
  <2>4. s.test = {"region"} /\ \A w \in Gets("class", 1 + 1) \ {"region"} : Has(s.back, w) \/ w \in Forgotten("class")
    BY <2>1, <2>3, <2>5, ForgottenBy DEF Drivers
  <2>6. BackOk("class", 1, s)
    BY <2>1, <2>2, <2>4, <2>5, ForgottenBy DEF BackOk, IsCdev, Numbered, What, Drivers
  <2>7. QED
    BY <2>6 DEF s
<1>2. BackOk("class", 2, InitOf("class")[2])
  <2> DEFINE s == InitOf("class")[2]
  <2>1. s.get = "cdev" /\ s.test = {"cdev"} /\ s.back = <<"region">>
    BY StepsOf DEF Step, Unchecked
  <2>2. <<"region">> \in Seq(What)
    BY DEF What
  <2>5. NoDups(<<"region">>) /\ \A w : Has(<<"region">>, w) <=> w \in {"region"}
    BY List1
  <2>3. Gets("class", 2 + 1) = {"region", "cdev"}
    BY AllOf, 2 + 1 = 3
  <2> HIDE DEF s
  <2>4. s.test = {"cdev"} /\ \A w \in Gets("class", 2 + 1) \ {"cdev"} : Has(s.back, w) \/ w \in Forgotten("class")
    BY <2>1, <2>3, <2>5, ForgottenBy DEF Drivers
  <2>6. BackOk("class", 2, s)
    BY <2>1, <2>2, <2>4, <2>5, ForgottenBy DEF BackOk, IsCdev, Numbered, What, Drivers
  <2>7. QED
    BY <2>6 DEF s
<1>3. BackOk("class", 3, InitOf("class")[3])
  <2> DEFINE s == InitOf("class")[3]
  <2>1. s.get = "class" /\ s.test = {"class"} /\ s.back = <<"region", "cdev">>
    BY StepsOf DEF Step, Unchecked
  <2>2. <<"region", "cdev">> \in Seq(What)
    BY DEF What
  <2>5. NoDups(<<"region", "cdev">>) /\ \A w : Has(<<"region", "cdev">>, w) <=> w \in {"region", "cdev"}
    BY List2
  <2>3. Gets("class", 3 + 1) = {"region", "cdev", "class"}
    BY AllOf, 3 + 1 = 4
  <2> HIDE DEF s
  <2>4. s.test = {"class"} /\ \A w \in Gets("class", 3 + 1) \ {"class"} : Has(s.back, w) \/ w \in Forgotten("class")
    BY <2>1, <2>3, <2>5, ForgottenBy DEF Drivers
  <2>6. BackOk("class", 3, s)
    BY <2>1, <2>2, <2>4, <2>5, ForgottenBy DEF BackOk, IsCdev, Numbered, What, Drivers
  <2>7. QED
    BY <2>6 DEF s
<1>4. BackOk("class", 4, InitOf("class")[4])
  <2> DEFINE s == InitOf("class")[4]
  <2>1. s.get = "node" /\ s.test = {"node"} /\ s.back = <<"class", "region", "cdev">>
    BY StepsOf DEF Step, Unchecked
  <2>2. <<"class", "region", "cdev">> \in Seq(What)
    BY DEF What
  <2>5. NoDups(<<"class", "region", "cdev">>) /\ \A w : Has(<<"class", "region", "cdev">>, w) <=> w \in {"class", "region", "cdev"}
    BY List3
  <2>3. Gets("class", 4 + 1) = {"region", "cdev", "class", "node"}
    BY AllOf, 4 + 1 = 5
  <2> HIDE DEF s
  <2>4. s.test = {"node"} /\ \A w \in Gets("class", 4 + 1) \ {"node"} : Has(s.back, w) \/ w \in Forgotten("class")
    BY <2>1, <2>3, <2>5, ForgottenBy DEF Drivers
  <2>6. BackOk("class", 4, s)
    BY <2>1, <2>2, <2>4, <2>5, ForgottenBy DEF BackOk, IsCdev, Numbered, What, Drivers
  <2>7. QED
    BY <2>6 DEF s
<1> QED
  BY <1>1, <1>2, <1>3, <1>4

LEMMA MydevBack == \A n \in 1..6 : BackOk("mydev", n, InitOf("mydev")[n])
<1>1. BackOk("mydev", 1, InitOf("mydev")[1])
  <2> DEFINE s == InitOf("mydev")[1]
  <2>1. s.get = "region" /\ s.test = {"region"} /\ s.back = <<>>
    BY StepsOf DEF Step, Unchecked
  <2>2. <<>> \in Seq(What)
    BY DEF What
  <2>5. NoDups(<<>>) /\ \A w : Has(<<>>, w) <=> w \in {}
    BY List0
  <2>3. Gets("mydev", 1 + 1) = {"region"}
    BY AllOf, 1 + 1 = 2
  <2> HIDE DEF s
  <2>4. s.test = {"region"} /\ \A w \in Gets("mydev", 1 + 1) \ {"region"} : Has(s.back, w) \/ w \in Forgotten("mydev")
    BY <2>1, <2>3, <2>5, ForgottenBy DEF Drivers
  <2>6. BackOk("mydev", 1, s)
    BY <2>1, <2>2, <2>4, <2>5, ForgottenBy DEF BackOk, IsCdev, Numbered, What, Drivers
  <2>7. QED
    BY <2>6 DEF s
<1>2. BackOk("mydev", 2, InitOf("mydev")[2])
  <2> DEFINE s == InitOf("mydev")[2]
  <2>1. s.get = "cdev" /\ s.test = {} /\ s.back = <<>>
    BY StepsOf DEF Step, Unchecked
  <2>2. <<>> \in Seq(What)
    BY DEF What
  <2>5. NoDups(<<>>) /\ \A w : Has(<<>>, w) <=> w \in {}
    BY List0
  <2>3. Gets("mydev", 2 + 1) = {"region", "cdev"}
    BY AllOf, 2 + 1 = 3
  <2> HIDE DEF s
  <2>6. BackOk("mydev", 2, s)
    BY <2>1, <2>2, <2>5, ForgottenBy DEF BackOk, IsCdev, Numbered, What, Drivers
  <2>7. QED
    BY <2>6 DEF s
<1>3. BackOk("mydev", 3, InitOf("mydev")[3])
  <2> DEFINE s == InitOf("mydev")[3]
  <2>1. s.get = "cdev2" /\ s.test = {"cdev2"} /\ s.back = <<"region">>
    BY StepsOf DEF Step, Unchecked
  <2>2. <<"region">> \in Seq(What)
    BY DEF What
  <2>5. NoDups(<<"region">>) /\ \A w : Has(<<"region">>, w) <=> w \in {"region"}
    BY List1
  <2>3. Gets("mydev", 3 + 1) = {"region", "cdev", "cdev2"}
    BY AllOf, 3 + 1 = 4
  <2> HIDE DEF s
  <2>4. s.test = {"cdev2"} /\ \A w \in Gets("mydev", 3 + 1) \ {"cdev2"} : Has(s.back, w) \/ w \in Forgotten("mydev")
    BY <2>1, <2>3, <2>5, ForgottenBy DEF Drivers
  <2>6. BackOk("mydev", 3, s)
    BY <2>1, <2>2, <2>4, <2>5, ForgottenBy DEF BackOk, IsCdev, Numbered, What, Drivers
  <2>7. QED
    BY <2>6 DEF s
<1>4. BackOk("mydev", 4, InitOf("mydev")[4])
  <2> DEFINE s == InitOf("mydev")[4]
  <2>1. s.get = "class" /\ s.test = {"class"} /\ s.back = <<"cdev", "region">>
    BY StepsOf DEF Step, Unchecked
  <2>2. <<"cdev", "region">> \in Seq(What)
    BY DEF What
  <2>5. NoDups(<<"cdev", "region">>) /\ \A w : Has(<<"cdev", "region">>, w) <=> w \in {"cdev", "region"}
    BY List2
  <2>3. Gets("mydev", 4 + 1) = {"region", "cdev", "cdev2", "class"}
    BY AllOf, 4 + 1 = 5
  <2> HIDE DEF s
  <2>4. s.test = {"class"} /\ \A w \in Gets("mydev", 4 + 1) \ {"class"} : Has(s.back, w) \/ w \in Forgotten("mydev")
    BY <2>1, <2>3, <2>5, ForgottenBy DEF Drivers
  <2>6. BackOk("mydev", 4, s)
    BY <2>1, <2>2, <2>4, <2>5, ForgottenBy DEF BackOk, IsCdev, Numbered, What, Drivers
  <2>7. QED
    BY <2>6 DEF s
<1>5. BackOk("mydev", 5, InitOf("mydev")[5])
  <2> DEFINE s == InitOf("mydev")[5]
  <2>1. s.get = "node" /\ s.test = {} /\ s.back = <<>>
    BY StepsOf DEF Step, Unchecked
  <2>2. <<>> \in Seq(What)
    BY DEF What
  <2>5. NoDups(<<>>) /\ \A w : Has(<<>>, w) <=> w \in {}
    BY List0
  <2>3. Gets("mydev", 5 + 1) = {"region", "cdev", "cdev2", "class", "node"}
    BY AllOf, 5 + 1 = 6
  <2> HIDE DEF s
  <2>6. BackOk("mydev", 5, s)
    BY <2>1, <2>2, <2>5, ForgottenBy DEF BackOk, IsCdev, Numbered, What, Drivers
  <2>7. QED
    BY <2>6 DEF s
<1>6. BackOk("mydev", 6, InitOf("mydev")[6])
  <2> DEFINE s == InitOf("mydev")[6]
  <2>1. s.get = "node2" /\ s.test = {"node"} /\ s.back = <<"class", "cdev", "region">>
    BY StepsOf
  <2>2. <<"class", "cdev", "region">> \in Seq(What)
    BY DEF What
  <2>5. NoDups(<<"class", "cdev", "region">>) /\ \A w : Has(<<"class", "cdev", "region">>, w) <=> w \in {"class", "cdev", "region"}
    BY List3
  <2>3. Gets("mydev", 6 + 1) = {"region", "cdev", "cdev2", "class", "node", "node2"}
    BY AllOf, 6 + 1 = 7
  <2> HIDE DEF s
  <2>4. s.test = {"node"} /\ \A w \in Gets("mydev", 6 + 1) \ {"node"} : Has(s.back, w) \/ w \in Forgotten("mydev")
    BY <2>1, <2>3, <2>5, ForgottenBy DEF Drivers
  <2>6. BackOk("mydev", 6, s)
    BY <2>1, <2>2, <2>4, <2>5, ForgottenBy DEF BackOk, IsCdev, Numbered, What, Drivers
  <2>7. QED
    BY <2>6 DEF s
<1> QED
  BY <1>1, <1>2, <1>3, <1>4, <1>5, <1>6

LEMMA CharBack == \A n \in 1..2 : BackOk("char", n, InitOf("char")[n])
<1>1. BackOk("char", 1, InitOf("char")[1])
  <2> DEFINE s == InitOf("char")[1]
  <2>1. s.get = "region" /\ s.test = {"region"} /\ s.back = <<>>
    BY StepsOf DEF Step, Unchecked
  <2>2. <<>> \in Seq(What)
    BY DEF What
  <2>5. NoDups(<<>>) /\ \A w : Has(<<>>, w) <=> w \in {}
    BY List0
  <2>3. Gets("char", 1 + 1) = {"region"}
    BY AllOf, 1 + 1 = 2
  <2> HIDE DEF s
  <2>4. s.test = {"region"} /\ \A w \in Gets("char", 1 + 1) \ {"region"} : Has(s.back, w) \/ w \in Forgotten("char")
    BY <2>1, <2>3, <2>5, ForgottenBy DEF Drivers
  <2>6. BackOk("char", 1, s)
    BY <2>1, <2>2, <2>4, <2>5, ForgottenBy DEF BackOk, IsCdev, Numbered, What, Drivers
  <2>7. QED
    BY <2>6 DEF s
<1>2. BackOk("char", 2, InitOf("char")[2])
  <2> DEFINE s == InitOf("char")[2]
  <2>1. s.get = "cdev" /\ s.test = {"cdev"} /\ s.back = <<"region">>
    BY StepsOf DEF Step, Unchecked
  <2>2. <<"region">> \in Seq(What)
    BY DEF What
  <2>5. NoDups(<<"region">>) /\ \A w : Has(<<"region">>, w) <=> w \in {"region"}
    BY List1
  <2>3. Gets("char", 2 + 1) = {"region", "cdev"}
    BY AllOf, 2 + 1 = 3
  <2> HIDE DEF s
  <2>4. s.test = {"cdev"} /\ \A w \in Gets("char", 2 + 1) \ {"cdev"} : Has(s.back, w) \/ w \in Forgotten("char")
    BY <2>1, <2>3, <2>5, ForgottenBy DEF Drivers
  <2>6. BackOk("char", 2, s)
    BY <2>1, <2>2, <2>4, <2>5, ForgottenBy DEF BackOk, IsCdev, Numbered, What, Drivers
  <2>7. QED
    BY <2>6 DEF s
<1> QED
  BY <1>1, <1>2

LEMMA FirstBack == \A n \in 1..2 : BackOk("first", n, InitOf("first")[n])
<1>1. BackOk("first", 1, InitOf("first")[1])
  <2> DEFINE s == InitOf("first")[1]
  <2>1. s.get = "region" /\ s.test = {"region"} /\ s.back = <<>>
    BY StepsOf DEF Step, Unchecked
  <2>2. <<>> \in Seq(What)
    BY DEF What
  <2>5. NoDups(<<>>) /\ \A w : Has(<<>>, w) <=> w \in {}
    BY List0
  <2>3. Gets("first", 1 + 1) = {"region"}
    BY AllOf, 1 + 1 = 2
  <2> HIDE DEF s
  <2>4. s.test = {"region"} /\ \A w \in Gets("first", 1 + 1) \ {"region"} : Has(s.back, w) \/ w \in Forgotten("first")
    BY <2>1, <2>3, <2>5, ForgottenBy DEF Drivers
  <2>6. BackOk("first", 1, s)
    BY <2>1, <2>2, <2>4, <2>5, ForgottenBy DEF BackOk, IsCdev, Numbered, What, Drivers
  <2>7. QED
    BY <2>6 DEF s
<1>2. BackOk("first", 2, InitOf("first")[2])
  <2> DEFINE s == InitOf("first")[2]
  <2>1. s.get = "cdev" /\ s.test = {"cdev"} /\ s.back = <<"region">>
    BY StepsOf DEF Step, Unchecked
  <2>2. <<"region">> \in Seq(What)
    BY DEF What
  <2>5. NoDups(<<"region">>) /\ \A w : Has(<<"region">>, w) <=> w \in {"region"}
    BY List1
  <2>3. Gets("first", 2 + 1) = {"region", "cdev"}
    BY AllOf, 2 + 1 = 3
  <2> HIDE DEF s
  <2>4. s.test = {"cdev"} /\ \A w \in Gets("first", 2 + 1) \ {"cdev"} : Has(s.back, w) \/ w \in Forgotten("first")
    BY <2>1, <2>3, <2>5, ForgottenBy DEF Drivers
  <2>6. BackOk("first", 2, s)
    BY <2>1, <2>2, <2>4, <2>5, ForgottenBy DEF BackOk, IsCdev, Numbered, What, Drivers
  <2>7. QED
    BY <2>6 DEF s
<1> QED
  BY <1>1, <1>2

LEMMA MiscBack == \A n \in 1..1 : BackOk("misc", n, InitOf("misc")[n])
<1>1. BackOk("misc", 1, InitOf("misc")[1])
  <2> DEFINE s == InitOf("misc")[1]
  <2>1. s.get = "misc" /\ s.test = {"misc"} /\ s.back = <<>>
    BY StepsOf DEF Step, Unchecked
  <2>2. <<>> \in Seq(What)
    BY DEF What
  <2>5. NoDups(<<>>) /\ \A w : Has(<<>>, w) <=> w \in {}
    BY List0
  <2>3. Gets("misc", 1 + 1) = {"misc"}
    BY AllOf, 1 + 1 = 2
  <2> HIDE DEF s
  <2>4. s.test = {"misc"} /\ \A w \in Gets("misc", 1 + 1) \ {"misc"} : Has(s.back, w) \/ w \in Forgotten("misc")
    BY <2>1, <2>3, <2>5, ForgottenBy DEF Drivers
  <2>6. BackOk("misc", 1, s)
    BY <2>1, <2>2, <2>4, <2>5, ForgottenBy DEF BackOk, IsCdev, Numbered, What, Drivers
  <2>7. QED
    BY <2>6 DEF s
<1> QED
  BY <1>1

LEMMA UeventBack == \A n \in 1..2 : BackOk("uevent", n, InitOf("uevent")[n])
<1>1. BackOk("uevent", 1, InitOf("uevent")[1])
  <2> DEFINE s == InitOf("uevent")[1]
  <2>1. s.get = "kobj" /\ s.test = {"kobj"} /\ s.back = <<>>
    BY StepsOf DEF Step, Unchecked
  <2>2. <<>> \in Seq(What)
    BY DEF What
  <2>5. NoDups(<<>>) /\ \A w : Has(<<>>, w) <=> w \in {}
    BY List0
  <2>3. Gets("uevent", 1 + 1) = {"kobj"}
    BY AllOf, 1 + 1 = 2
  <2> HIDE DEF s
  <2>4. s.test = {"kobj"} /\ \A w \in Gets("uevent", 1 + 1) \ {"kobj"} : Has(s.back, w) \/ w \in Forgotten("uevent")
    BY <2>1, <2>3, <2>5, ForgottenBy DEF Drivers
  <2>6. BackOk("uevent", 1, s)
    BY <2>1, <2>2, <2>4, <2>5, ForgottenBy DEF BackOk, IsCdev, Numbered, What, Drivers
  <2>7. QED
    BY <2>6 DEF s
<1>2. BackOk("uevent", 2, InitOf("uevent")[2])
  <2> DEFINE s == InitOf("uevent")[2]
  <2>1. s.get = "attr" /\ s.test = {"attr"} /\ s.back = <<"kobj">>
    BY StepsOf DEF Step, Unchecked
  <2>2. <<"kobj">> \in Seq(What)
    BY DEF What
  <2>5. NoDups(<<"kobj">>) /\ \A w : Has(<<"kobj">>, w) <=> w \in {"kobj"}
    BY List1
  <2>3. Gets("uevent", 2 + 1) = {"kobj", "attr"}
    BY AllOf, 2 + 1 = 3
  <2> HIDE DEF s
  <2>4. s.test = {"attr"} /\ \A w \in Gets("uevent", 2 + 1) \ {"attr"} : Has(s.back, w) \/ w \in Forgotten("uevent")
    BY <2>1, <2>3, <2>5, ForgottenBy DEF Drivers
  <2>6. BackOk("uevent", 2, s)
    BY <2>1, <2>2, <2>4, <2>5, ForgottenBy DEF BackOk, IsCdev, Numbered, What, Drivers
  <2>7. QED
    BY <2>6 DEF s
<1> QED
  BY <1>1, <1>2

LEMMA BackFacts ==
  ASSUME NEW d \in Drivers, NEW n \in 1..Len(InitOf(d)) PROVE BackOk(d, n, InitOf(d)[n])
<1>1. CASE d = "class"
  BY <1>1, Lengths, ClassBack, Zenon
<1>2. CASE d = "mydev"
  BY <1>2, Lengths, MydevBack, Zenon
<1>3. CASE d = "char"
  BY <1>3, Lengths, CharBack, Zenon
<1>4. CASE d = "first"
  BY <1>4, Lengths, FirstBack, Zenon
<1>5. CASE d = "misc"
  BY <1>5, Lengths, MiscBack, Zenon
<1>6. CASE d = "uevent"
  BY <1>6, Lengths, UeventBack, Zenon
<1> QED
  BY <1>1, <1>2, <1>3, <1>4, <1>5, <1>6 DEF Drivers

\* What a driver registers at all.
LEMMA AllIs ==
  /\ All("class") = {"region", "cdev", "class", "node"}
  /\ All("mydev") = {"region", "cdev", "cdev2", "class", "node", "node2"}
  /\ \A d \in {"char", "first"} : All(d) = {"region", "cdev"}
  /\ All("misc") = {"misc"} /\ All("uevent") = {"kobj", "attr"}
<1>1. All("class") = Gets("class", 5) /\ All("mydev") = Gets("mydev", 7)
  BY Lengths, 4 + 1 = 5, 6 + 1 = 7 DEF All
<1>2. \A d \in {"char", "first", "uevent"} : All(d) = Gets(d, 3)
  <2> SUFFICES ASSUME NEW d \in {"char", "first", "uevent"} PROVE All(d) = Gets(d, 3)
    OBVIOUS
  <2>1. Len(InitOf(d)) = 2
    BY Lengths, Zenon
  <2>2. QED
    BY <2>1, 2 + 1 = 3 DEF All
<1>3. All("misc") = Gets("misc", 2)
  BY Lengths, 1 + 1 = 2 DEF All
<1>4. QED
  BY <1>1, <1>2, <1>3, AllOf

\* exit() takes everything back, a device before its cdev, a cdev before its
\* numbers.
ExitOk(d, u) == /\ u \in Seq(What) /\ NoDups(u) /\ Orderly(d, u)
                /\ \A w \in All(d) : Has(u, w)

LEMMA ExitFacts == ASSUME NEW d \in Drivers PROVE ExitOk(d, ExitOf(d))
<1>1. CASE d = "class"
  <2> DEFINE u == ClassExit
  <2>1. u \in Seq(What) /\ Len(u) = 4 /\ u[1] = "node" /\ u[2] = "class" /\ u[3] = "cdev" /\ u[4] = "region"
    BY DEF ClassExit, What
  <2>2. NoDups(u) /\ \A w : Has(u, w) <=> w \in {"node", "class", "cdev", "region"}
    BY List4 DEF ClassExit
  <2>3. \A i \in 1..4 : i = 1 \/ i = 2 \/ i = 3 \/ i = 4
    OBVIOUS
  <2> HIDE DEF u
  <2>4. /\ Before(u, "cdev", "region") /\ Before(u, "cdev2", "region")
        /\ Before(u, "node", "cdev") /\ Before(u, "node2", "cdev2")
    BY <2>1, <2>3 DEF Before
  <2>5. QED
    BY <1>1, <2>1, <2>2, <2>4, TableOf, AllIs DEF ExitOk, Orderly, u
<1>2. CASE d = "mydev"
  <2> DEFINE u == MydevExit
  <2>1. /\ u \in Seq(What) /\ Len(u) = 6
        /\ u[1] = "node" /\ u[2] = "node2" /\ u[3] = "class" /\ u[4] = "cdev" /\ u[5] = "cdev2" /\ u[6] = "region"
    BY DEF MydevExit, What
  <2>2. NoDups(u) /\ \A w : Has(u, w) <=> w \in {"node", "node2", "class", "cdev", "cdev2", "region"}
    BY List6 DEF MydevExit
  <2>3. \A i \in 1..6 : i = 1 \/ i = 2 \/ i = 3 \/ i = 4 \/ i = 5 \/ i = 6
    OBVIOUS
  <2> HIDE DEF u
  <2>4. /\ Before(u, "cdev", "region") /\ Before(u, "cdev2", "region")
        /\ Before(u, "node", "cdev") /\ Before(u, "node2", "cdev2")
    BY <2>1, <2>3 DEF Before
  <2>5. QED
    BY <1>2, <2>1, <2>2, <2>4, TableOf, AllIs DEF ExitOk, Orderly, u
<1>3. CASE d \in Drivers \ {"class", "mydev"}
  <2> DEFINE u == ExitOf(d)
  <2>1. u \in Seq(What) /\ NoDups(u) /\ \A w : Has(u, w) <=> w \in All(d)
    <3>1. CASE d \in {"char", "first"}
      <4>1. u = <<"cdev", "region">>
        BY <3>1, TableOf DEF CharExit, FirstExit
      <4>2. <<"cdev", "region">> \in Seq(What)
        BY DEF What
      <4>3. QED
        BY <4>1, <4>2, <3>1, List2, AllIs
    <3>2. CASE d = "misc"
      <4>1. u = <<"misc">>
        BY <3>2, TableOf DEF MiscExit
      <4>2. <<"misc">> \in Seq(What)
        BY DEF What
      <4>3. QED
        BY <4>1, <4>2, <3>2, List1, AllIs
    <3>3. CASE d = "uevent"
      <4>1. u = <<"attr", "kobj">>
        BY <3>3, TableOf DEF UeventExit
      <4>2. <<"attr", "kobj">> \in Seq(What)
        BY DEF What
      <4>3. QED
        BY <4>1, <4>2, <3>3, List2, AllIs
    <3>4. QED
      BY <1>3, <3>1, <3>2, <3>3 DEF Drivers
  <2>2. ~Has(u, "node") /\ ~Has(u, "node2")
    BY <1>3, <2>1, AllIs DEF Drivers
  <2> HIDE DEF u
  <2>3. Before(u, "node", "cdev") /\ Before(u, "node2", "cdev2")
    BY <2>2 DEF Before, Has
  <2>4. QED
    BY <1>3, <2>1, <2>3 DEF ExitOk, Orderly, Numbered, u
<1> QED
  BY <1>1, <1>2, <1>3

\* The first and the last of some numbers.
LEMMA Least ==
  ASSUME NEW T \in SUBSET Nat, T # {}
  PROVE  \E i \in T : \A r \in T : i <= r
<1>1. PICK i \in T : \A r \in T : ~(<<r, i>> \in OpToRel(<, Nat))
  BY NatLessThanWellFounded, WFMin
<1>2. ASSUME NEW r \in T PROVE i <= r
  <2>1. ~(r < i)
    BY <1>1 DEF OpToRel
  <2>2. QED
    BY <2>1
<1>3. QED
  BY <1>2

LEMMA FirstHit ==
  ASSUME NEW T, T \subseteq Nat, T # {}
  PROVE  LET h == CHOOSE i \in T : \A r \in T : i <= r IN h \in T /\ \A r \in T : h <= r
  BY Least

LEMMA GreatestMajor ==
  ASSUME NEW T, \A m \in T : m \in Nat /\ m <= 4095, T # {}
  PROVE  (CHOOSE m \in T : \A k \in T : k <= m) \in T
<1> DEFINE U == {4095 - m : m \in T}
<1>1. U \subseteq Nat /\ U # {}
  OBVIOUS
<1>0. \A S \in SUBSET Nat : S # {} => \E h \in S : \A r \in S : h <= r
  BY Least
<1>2. \E h \in U : \A r \in U : h <= r
  <2> HIDE DEF U
  <2>1. QED
    BY <1>1, <1>0
<1>3. PICK x \in T : \A r \in U : 4095 - x <= r
  BY <1>2
<1>4. ASSUME NEW k \in T PROVE k <= x
  <2>1. 4095 - x <= 4095 - k
    BY <1>3
  <2>2. QED
    BY <2>1
<1>5. QED
  BY <1>4

LEMMA CdevKeys ==
  ASSUME NEW d, NEW e, NEW m, NEW n, NEW v, NEW w, IsCdev(v), IsCdev(w)
  PROVE  Key(d, v, m) = Key(e, w, n) <=> m = n /\ (v = "cdev2" <=> w = "cdev2")
<1>1. /\ Key(d, v, m) = <<m, IF v = "cdev2" THEN 1 ELSE 0>>
      /\ Key(e, w, n) = <<n, IF w = "cdev2" THEN 1 ELSE 0>>
  BY DEF Key, IsCdev
<1>2. QED
  BY <1>1

(* The inductive invariant.                                                *)

Numbers == Dynamic \cup {0, 10, 202, 222}
Keys == {Key(d, w, m) : d \in Drivers, w \in What, m \in Numbers}
Entries == [what : What, key : Keys, by : Loads]
Majors(d) == IF d \in Numbered THEN Dynamic ELSE {Static(d)}

\* While a driver with numbers of its own has them: until it gives them back.
HasRegion(d) == /\ d \in Numbered
                /\ \/ st[d] \in {"init", "live"} /\ "region" \in ok[d]
                   \/ st[d] \in {"fail", "exit"} /\ Has(undo[d], "region")

\* An entry of the load a driver is in is one that it has got and will take
\* back or forget; any other entry is one that a failed load forgot.
Held(d, w, key) == /\ key = Key(d, w, major[d]) /\ w \in ok[d]
                   /\ st[d] = "exit" => Has(undo[d], w)
                   /\ st[d] = "fail" => Has(undo[d], w) \/ w \in Forgotten(d)
EntryOk(e) == /\ e.by[2] <= loads[e.by[1]] /\ e.what \in All(e.by[1])
              /\ \E m \in Majors(e.by[1]) : e.key = Key(e.by[1], e.what, m)
              /\ Loaded(e.by) => Held(e.by[1], e.what, e.key)
              /\ ~Loaded(e.by) => e.by \in failed /\ e.what \in Forgotten(e.by[1])
RegOk == \A i \in 1..Len(reg) : EntryOk(reg[i])

DriverOk(d) ==
  /\ ok[d] \subseteq All(d)
  /\ st[d] # "out" => loads[d] \in 1..MaxLoads
  /\ st[d] = "init" => at[d] \in 1..Len(InitOf(d)) /\ ok[d] \subseteq Gets(d, at[d])
  /\ d \in Numbered /\ ((st[d] = "init" /\ at[d] > 1) \/ st[d] \in {"live", "exit"}) => "region" \in ok[d]
  /\ st[d] = "fail" => Load(d) \in failed /\ \A w : Has(undo[d], w) /\ IsCdev(w) => w \in Forgotten(d)
  /\ st[d] \in {"fail", "exit"} => NoDups(undo[d])
  /\ st[d] = "exit" => Orderly(d, undo[d])
  /\ HasRegion(d) => /\ major[d] \in Dynamic
                     /\ \E i \in 1..Len(reg) : reg[i] = Entry("region", <<major[d]>>, Load(d))
  /\ d \notin Numbered => major[d] = Static(d)
AllOk == \A d \in Driver : DriverOk(d)

\* No major is given out twice, and nothing is registered twice.
OneRegion == \A m \in Dynamic : \A i, k \in 1..Len(reg) :
   reg[i].what = "region" /\ reg[k].what = "region" /\ reg[i].key = <<m>> /\ reg[k].key = <<m>> => i = k
Single == \A i, k \in 1..Len(reg) : reg[i].what = reg[k].what /\ reg[i].by = reg[k].by => i = k

\* Of the cdevs with one number, that of the driver that has it is the first.
NewestOf(d) == HasRegion(d) => \A i, k \in 1..Len(reg) :
   IsCdev(reg[i].what) /\ IsCdev(reg[k].what) /\ reg[i].key = reg[k].key
      /\ reg[i].by = Load(d) /\ reg[k].by # Load(d) => i < k
Newest == \A d \in Driver : NewestOf(d)

\* Until a load fails, the cdevs that were added are there until taken back.
ServedOf(d, c) ==
  c \in ok[d] /\ (st[d] \in {"init", "live"} \/ (st[d] = "exit" /\ Has(undo[d], c))) =>
     \E i \in 1..Len(reg) : reg[i].what = c /\ reg[i].by = Load(d)
CdevsStay == failed = {} => \A d \in Driver : \A c \in {"cdev", "cdev2"} : ServedOf(d, c)

OpenInv == /\ OpenInCode
           /\ \A d \in Driver : st[d] = "exit" => Load(d) \notin opened \/ Load(d) \in failed

DrvInv == /\ TypeOK /\ reg \in Seq(Entries)
          /\ RegOk /\ AllOk /\ OneRegion /\ Single /\ Newest /\ CdevsStay
          /\ OpenInv /\ NoWildOpen

\* What a step of driver x leaves alone.
Frame(x) == /\ \A d \in Driver \ {x} : /\ st'[d] = st[d] /\ at'[d] = at[d] /\ ok'[d] = ok[d]
                                       /\ undo'[d] = undo[d] /\ major'[d] = major[d]
                                       /\ loads'[d] = loads[d]
            /\ failed \subseteq failed'

LEMMA Prepended ==
  ASSUME NEW S, NEW s \in Seq(S), NEW e \in S
  PROVE  /\ <<e>> \o s \in Seq(S) /\ Len(<<e>> \o s) = Len(s) + 1
         /\ (<<e>> \o s)[1] = e
         /\ \A i \in 1..Len(s) : (<<e>> \o s)[i + 1] = s[i]
         /\ \A i \in 1..(Len(s) + 1) : i # 1 => i - 1 \in 1..Len(s) /\ (<<e>> \o s)[i] = s[i - 1]
<1>1. <<e>> \in Seq(S) /\ Len(<<e>>) = 1 /\ <<e>>[1] = e
  OBVIOUS
<1>2. /\ <<e>> \o s \in Seq(S) /\ Len(<<e>> \o s) = 1 + Len(s)
      /\ \A i \in 1..(1 + Len(s)) : (<<e>> \o s)[i] = IF i <= 1 THEN <<e>>[i] ELSE s[i - 1]
  BY <1>1, ConcatProperties
<1>3. Len(s) \in Nat
  OBVIOUS
<1> DEFINE t == <<e>> \o s
<1> HIDE DEF t
<1>4. QED
  BY <1>1, <1>2, <1>3 DEF t

LEMMA Removed ==
  ASSUME NEW S, NEW s \in Seq(S), NEW k \in 1..Len(s)
  PROVE  /\ RemoveAt(s, k) \in Seq(S) /\ Len(RemoveAt(s, k)) = Len(s) - 1
         /\ \A i \in 1..(Len(s) - 1) : RemoveAt(s, k)[i] = s[IF i < k THEN i ELSE i + 1]
         /\ \A r \in 1..Len(s) : r # k => \E i \in 1..(Len(s) - 1) : RemoveAt(s, k)[i] = s[r]
<1>1. Len(s) \in Nat /\ k \in Nat /\ 1 <= k /\ k <= Len(s) /\ \A i \in 1..Len(s) : s[i] \in S
  OBVIOUS
<1> DEFINE a == SubSeq(s, 1, k - 1)
           b == SubSeq(s, k + 1, Len(s))
<1>2. /\ a \in Seq(S) /\ Len(a) = k - 1
      /\ \A i \in 1..(k - 1) : a[i] = s[i]
  <2>1. /\ a \in Seq(S) /\ Len(a) = IF 1 <= k - 1 THEN (k - 1) - 1 + 1 ELSE 0
        /\ \A i \in 1..((k - 1) - 1 + 1) : a[i] = s[1 + i - 1]
    BY <1>1, SubSeqProperties
  <2> HIDE DEF a
  <2>2. QED
    BY <1>1, <2>1
<1>3. /\ b \in Seq(S) /\ Len(b) = Len(s) - k
      /\ \A i \in 1..(Len(s) - k) : b[i] = s[k + i]
  <2>1. /\ b \in Seq(S) /\ Len(b) = IF k + 1 <= Len(s) THEN Len(s) - (k + 1) + 1 ELSE 0
        /\ \A i \in 1..(Len(s) - (k + 1) + 1) : b[i] = s[(k + 1) + i - 1]
    BY <1>1, SubSeqProperties
  <2> HIDE DEF b
  <2>2. QED
    BY <1>1, <2>1
<1> DEFINE t == a \o b
<1>4. RemoveAt(s, k) = t
  BY DEF RemoveAt
<1> HIDE DEF a, b
<1>5. /\ t \in Seq(S) /\ Len(t) = Len(a) + Len(b)
      /\ \A i \in 1..(Len(a) + Len(b)) : t[i] = IF i <= Len(a) THEN a[i] ELSE b[i - Len(a)]
  BY <1>2, <1>3, ConcatProperties
<1> HIDE DEF t
<1>6. Len(t) = Len(s) - 1
  BY <1>1, <1>2, <1>3, <1>5
<1>7. \A i \in 1..(Len(s) - 1) : t[i] = s[IF i < k THEN i ELSE i + 1]
  <2> SUFFICES ASSUME NEW i \in 1..(Len(s) - 1) PROVE t[i] = s[IF i < k THEN i ELSE i + 1]
    OBVIOUS
  <2>1. CASE i < k
    BY <1>1, <1>2, <1>3, <1>5, <2>1
  <2>2. CASE ~(i < k)
    <3>0. Len(a) = k - 1 /\ i \in 1..(Len(a) + Len(b)) /\ ~(i <= Len(a))
      BY <1>1, <1>2, <1>3, <2>2
    <3>1. t[i] = b[i - (k - 1)]
      BY <1>5, <3>0
    <3>2. i - (k - 1) \in 1..(Len(s) - k) /\ k + (i - (k - 1)) = i + 1
      BY <1>1, <2>2
    <3>3. QED
      BY <1>3, <2>2, <3>1, <3>2
  <2>3. QED
    BY <2>1, <2>2
<1>8. ASSUME NEW r \in 1..Len(s), r # k
      PROVE  \E i \in 1..(Len(s) - 1) : t[i] = s[r]
  <2>1. CASE r < k
    <3>1. r \in 1..(Len(s) - 1)
      BY <1>1, <2>1
    <3>2. QED
      BY <1>7, <2>1, <3>1
  <2>2. CASE ~(r < k)
    <3>1. r - 1 \in 1..(Len(s) - 1) /\ ~(r - 1 < k) /\ (r - 1) + 1 = r
      BY <1>1, <1>8, <2>2
    <3>2. QED
      BY <1>7, <3>1
  <2>3. QED
    BY <2>1, <2>2
<1>9. QED
  BY <1>4, <1>5, <1>6, <1>7, <1>8

LEMMA LoadFacts ==
  ASSUME DrvInv, NEW l \in Loads
  PROVE  /\ l[1] \in Driver /\ l[2] \in 1..MaxLoads /\ l = <<l[1], l[2]>>
         /\ Load(l[1]) = <<l[1], loads[l[1]]>>
         /\ l = Load(l[1]) <=> l[2] = loads[l[1]]
  BY DEF DrvInv, Loads, Load

LEMMA DrvTypes ==
  ASSUME DrvInv, NEW d \in Driver
  PROVE  /\ d \in Drivers /\ DriverOk(d) /\ loads[d] \in 0..MaxLoads
         /\ st[d] \in {"out", "init", "live", "fail", "exit"}
         /\ undo[d] \in Seq(What) /\ ok[d] \subseteq What
         /\ st[d] # "out" => loads[d] \in 1..MaxLoads
<1>1. DriverOk(d)
  BY DEF DrvInv, AllOk
<1>2. /\ d \in Drivers /\ loads[d] \in 0..MaxLoads
      /\ st[d] \in {"out", "init", "live", "fail", "exit"}
      /\ undo[d] \in Seq(What) /\ ok[d] \subseteq What
  BY DriverAssumption DEF DriverAssumption, DrvInv, TypeOK
<1>3. st[d] # "out" => loads[d] \in 1..MaxLoads
  BY <1>1, Zenon DEF DriverOk
<1>4. QED
  BY <1>1, <1>2, <1>3

LEMMA BackUse ==
  ASSUME NEW d, NEW n, NEW s, BackOk(d, n, s)
  PROVE  /\ d \in Numbered /\ n = 1 => s.get = "region" /\ s.test = {"region"}
         /\ d \in Numbered /\ n = 1 => ~Has(s.back, "region")
         /\ d \in Numbered /\ n # 1 => s.get # "region"
         /\ \A T : T \subseteq Gets(d, n + 1) /\ ~(s.test \subseteq T)
               => \A w \in T : Has(s.back, w) \/ w \in Forgotten(d)
         /\ \A w : Has(s.back, w) /\ IsCdev(w) => w \in Forgotten(d)
<1>1. ASSUME NEW T, T \subseteq Gets(d, n + 1), ~(s.test \subseteq T), NEW w \in T
      PROVE  Has(s.back, w) \/ w \in Forgotten(d)
  <2>1. s.test # {}
    BY <1>1
  <2>2. PICK x \in What : s.test = {x} /\ \A v \in Gets(d, n + 1) \ {x} : Has(s.back, v) \/ v \in Forgotten(d)
    BY <2>1, Zenon DEF BackOk
  <2>3. w # x /\ w \in Gets(d, n + 1)
    BY <1>1, <2>2
  <2>4. QED
    BY <2>2, <2>3
<1>2. QED
  BY <1>1, Zenon DEF BackOk

\* What a step of an init function does.
Registered(x, s) ==
  /\ ok' = [ok EXCEPT ![x] = ok[x] \cup {s.get}] /\ ~Taken(x, s.get)
  /\ IF s.get = "region" /\ x \in Numbered
     THEN /\ major'[x] \in Free /\ \A d \in Driver \ {x} : major'[d] = major[d]
          /\ major' \in [Driver -> Numbers]
     ELSE major' = major
  /\ reg' = <<Entry(s.get, Key(x, s.get, major'[x]), Load(x))>> \o reg

GoesOn(x, s) == /\ s.test \subseteq ok'[x]
                /\ st' = [st EXCEPT ![x] = IF at[x] = Len(InitOf(x)) THEN "live" ELSE "init"]
                /\ at' = [at EXCEPT ![x] = at[x] + 1] /\ UNCHANGED <<undo, failed>>

Fails(x, s) == /\ ~(s.test \subseteq ok'[x])
               /\ st' = [st EXCEPT ![x] = "fail"] /\ failed' = failed \cup {Load(x)}
               /\ undo' = [undo EXCEPT ![x] = s.back] /\ UNCHANGED at

LEMMA InitFacts ==
  ASSUME DrvInv, NEW x \in Driver, InitStep(x)
  PROVE  LET s == InitOf(x)[at[x]] IN
         /\ st[x] = "init" /\ at[x] \in 1..Len(InitOf(x)) /\ UNCHANGED <<loads, opened, wild>>
         /\ Registered(x, s) \/ UNCHANGED <<ok, major, reg>>
         /\ GoesOn(x, s) \/ Fails(x, s)
         /\ s.get \in What /\ s.get \in All(x) /\ s.get \notin ok[x]
         /\ ok[x] \subseteq Gets(x, at[x])
         /\ Gets(x, at[x] + 1) = Gets(x, at[x]) \cup {s.get} /\ Gets(x, at[x] + 1) \subseteq All(x)
         /\ BackOk(x, at[x], s)
         /\ at[x] = 1 => ok[x] = {}
         /\ at[x] > 1 /\ x \in Numbered => "region" \in ok[x]
<1> DEFINE s == InitOf(x)[at[x]]
<1>1. st[x] = "init" /\ UNCHANGED <<loads, opened, wild>>
  BY DEF InitStep
<1>2. /\ at[x] \in 1..Len(InitOf(x)) /\ ok[x] \subseteq Gets(x, at[x])
      /\ at[x] > 1 /\ x \in Numbered => "region" \in ok[x]
  BY <1>1, DrvTypes DEF DriverOk
<1>3. /\ Gets(x, 1) = {} /\ Gets(x, at[x] + 1) = Gets(x, at[x]) \cup {s.get}
      /\ s.get \notin Gets(x, at[x]) /\ Gets(x, at[x] + 1) \subseteq All(x) /\ All(x) \subseteq What
  BY <1>2, DrvTypes, StepFacts
<1>4. BackOk(x, at[x], s)
  BY <1>2, DrvTypes, BackFacts
<1> HIDE DEF s
<1>5. GoesOn(x, s) \/ Fails(x, s)
  BY DEF InitStep, GoesOn, Fails, s
<1>6. Registers(x, s) \/ UNCHANGED <<ok, major, reg>>
  BY DEF InitStep, Refused, s
<1>7. ASSUME Registers(x, s) PROVE Registered(x, s)
  <2>1. /\ ok' = [ok EXCEPT ![x] = ok[x] \cup {s.get}] /\ ~Taken(x, s.get)
        /\ reg' = <<Entry(s.get, Key(x, s.get, major'[x]), Load(x))>> \o reg
    BY <1>7 DEF Registers
  <2>2. CASE s.get = "region" /\ x \in Numbered
    <3> DEFINE top == CHOOSE m \in Free : \A k \in Free : k <= m
    <3>1. Free # {} /\ major' = [major EXCEPT ![x] = top]
      BY <1>7, <2>2 DEF Registers, Numbered
    <3>2. Free \subseteq Dynamic /\ \A m \in Free : m \in Nat /\ m <= 4095
      <4>1. Free \subseteq Dynamic
        BY DEF Free
      <4>2. \A m \in Dynamic : m \in Nat /\ m <= 4095
        BY DriverAssumption DEF DriverAssumption
      <4>3. QED
        BY <4>1, <4>2
    <3>3. top \in Free
      BY <3>1, <3>2, GreatestMajor
    <3> HIDE DEF top
    <3>4. major \in [Driver -> Numbers]
      BY DEF DrvInv, TypeOK, Numbers
    <3>5. QED
      BY <2>1, <2>2, <3>1, <3>2, <3>3, <3>4 DEF Registered, Numbers
  <2>3. CASE ~(s.get = "region" /\ x \in Numbered)
    <3>1. major' = major
      BY <1>7, <2>3 DEF Registers, Numbered
    <3>2. QED
      BY <2>1, <2>3, <3>1 DEF Registered
  <2>4. QED
    BY <2>2, <2>3
<1>8. at[x] = 1 => ok[x] = {}
  BY <1>2, <1>3
<1>9. QED
  BY <1>1, <1>2, <1>3, <1>4, <1>5, <1>6, <1>7, <1>8 DEF s

\* The entry that is new.
LEMMA NewEntry ==
  ASSUME DrvInv, NEW x \in Driver, InitStep(x), Registered(x, InitOf(x)[at[x]])
  PROVE  LET s == InitOf(x)[at[x]]
             e == Entry(s.get, Key(x, s.get, major'[x]), Load(x))
         IN  /\ e \in Entries /\ reg' \in Seq(Entries) /\ Len(reg') = Len(reg) + 1 /\ Len(reg) \in Nat
             /\ reg'[1] = e /\ \A i \in 1..Len(reg) : reg'[i + 1] = reg[i]
             /\ \A i \in 1..Len(reg') : i # 1 => i - 1 \in 1..Len(reg) /\ reg'[i] = reg[i - 1]
             /\ major' \in [Driver -> Numbers] /\ major'[x] \in Majors(x)
             /\ Load(x) \in Loads
<1> DEFINE s == InitOf(x)[at[x]]
           e == Entry(s.get, Key(x, s.get, major'[x]), Load(x))
<1>1. /\ s.get \in What /\ BackOk(x, at[x], s) /\ at[x] \in 1..Len(InitOf(x)) /\ Len(InitOf(x)) \in Nat
      /\ at[x] > 1 /\ x \in Numbered => "region" \in ok[x]
      /\ st[x] = "init"
  BY InitFacts, DrvTypes, LengthIs
<1>2. x \in Drivers /\ DriverOk(x) /\ major \in [Driver -> Numbers] /\ reg \in Seq(Entries)
  BY DrvTypes DEF DrvInv, TypeOK, Numbers
<1> HIDE DEF s
<1>3. /\ IF s.get = "region" /\ x \in Numbered
         THEN /\ major'[x] \in Free /\ major' \in [Driver -> Numbers]
         ELSE major' = major
      /\ reg' = <<e>> \o reg
  BY DEF Registered, s
<1>4. major' \in [Driver -> Numbers] /\ major'[x] \in Majors(x)
  <2>1. CASE s.get = "region" /\ x \in Numbered
    BY <1>3, <2>1 DEF Majors, Free
  <2>2. CASE x \in Numbered /\ s.get # "region"
    <3>1. "region" \in ok[x]
      BY <1>1, <2>2 DEF BackOk
    <3>2. major[x] \in Dynamic
      BY <1>1, <1>2, <2>2, <3>1 DEF HasRegion, DriverOk
    <3>3. QED
      BY <1>2, <1>3, <2>2, <3>2 DEF Majors
  <2>3. CASE x \notin Numbered
    BY <1>2, <1>3, <2>3 DEF Majors, DriverOk
  <2>4. QED
    BY <2>1, <2>2, <2>3
<1>5. Load(x) \in Loads
  <2>1. loads[x] \in 1..MaxLoads
    BY <1>1, DrvTypes
  <2>2. QED
    BY <2>1 DEF Load, Loads
<1>6. e \in Entries
  <2>1. Key(x, s.get, major'[x]) \in Keys
    BY <1>1, <1>2, <1>4 DEF Keys
  <2>2. QED
    BY <1>1, <1>5, <2>1 DEF Entries, Entry
<1> HIDE DEF e
<1>7. QED
  BY <1>2, <1>3, <1>4, <1>5, <1>6, Prepended DEF e, s

\* What an init step does to its driver.
LEMMA InitMoves ==
  ASSUME DrvInv, NEW x \in Driver, InitStep(x)
  PROVE  /\ Frame(x) /\ loads' = loads /\ st[x] = "init" /\ st'[x] \in {"init", "live", "fail"}
         /\ ok[x] \subseteq ok'[x] /\ ok'[x] \subseteq Gets(x, at[x] + 1) /\ ok'[x] \subseteq All(x)
         /\ ok[x] # {} => major'[x] = major[x]
         /\ st'[x] = "fail" =>
              /\ undo'[x] = InitOf(x)[at[x]].back /\ Load(x) \in failed'
              /\ \A w \in ok'[x] : Has(undo'[x], w) \/ w \in Forgotten(x)
         /\ st'[x] # "fail" =>
              /\ failed' = failed /\ at'[x] = at[x] + 1
              /\ x \in Numbered => "region" \in ok'[x]
         /\ st'[x] = "init" => at'[x] \in 1..Len(InitOf(x))
<1> DEFINE s == InitOf(x)[at[x]]
<1>1. /\ st[x] = "init" /\ at[x] \in 1..Len(InitOf(x)) /\ UNCHANGED <<loads, opened, wild>>
      /\ Registered(x, s) \/ UNCHANGED <<ok, major, reg>>
      /\ GoesOn(x, s) \/ Fails(x, s)
      /\ s.get \in All(x) /\ s.get \notin ok[x] /\ ok[x] \subseteq Gets(x, at[x])
      /\ Gets(x, at[x] + 1) = Gets(x, at[x]) \cup {s.get} /\ Gets(x, at[x] + 1) \subseteq All(x)
      /\ BackOk(x, at[x], s)
      /\ at[x] = 1 => ok[x] = {}
      /\ at[x] > 1 /\ x \in Numbered => "region" \in ok[x]
  BY InitFacts
<1>2. Len(InitOf(x)) \in 1..6
  BY DrvTypes, LengthIs
<1>t. /\ st \in [Driver -> {"out", "init", "live", "fail", "exit"}] /\ at \in [Driver -> 1..7]
      /\ ok \in [Driver -> SUBSET What] /\ undo \in [Driver -> Seq(What)]
  BY DEF DrvInv, TypeOK
<1> HIDE DEF s
<1>b. /\ x \in Numbered /\ at[x] = 1 => s.get = "region" /\ s.test = {"region"}
      /\ x \in Numbered /\ at[x] # 1 => s.get # "region"
      /\ \A T : T \subseteq Gets(x, at[x] + 1) /\ ~(s.test \subseteq T)
            => \A w \in T : Has(s.back, w) \/ w \in Forgotten(x)
  <2>1. BackOk(x, at[x], s)
    BY <1>1
  <2>2. QED
    BY <2>1, BackUse
<1>3. /\ ok'[x] = ok[x] \cup {s.get} \/ ok'[x] = ok[x]
      /\ \A d \in Driver \ {x} : ok'[d] = ok[d] /\ major'[d] = major[d]
      /\ ok[x] # {} => major'[x] = major[x]
  <2>1. CASE Registered(x, s)
    <3>1. s.get = "region" /\ x \in Numbered => ok[x] = {}
      BY <1>1, <1>b
    <3>2. QED
      BY <1>t, <2>1, <3>1 DEF Registered
  <2>2. CASE UNCHANGED <<ok, major, reg>>
    BY <2>2
  <2>3. QED
    BY <1>1, <2>1, <2>2
<1>4. ok[x] \subseteq ok'[x] /\ ok'[x] \subseteq Gets(x, at[x] + 1) /\ ok'[x] \subseteq All(x)
  BY <1>1, <1>3
<1>5. CASE Fails(x, s)
  <2>1. /\ st'[x] = "fail" /\ undo'[x] = s.back /\ failed' = failed \cup {Load(x)} /\ at' = at
        /\ \A d \in Driver \ {x} : st'[d] = st[d] /\ undo'[d] = undo[d]
        /\ ~(s.test \subseteq ok'[x])
    BY <1>5, <1>t DEF Fails
  <2>2. \A w \in ok'[x] : Has(s.back, w) \/ w \in Forgotten(x)
    BY <1>4, <1>b, <2>1
  <2>3. QED
    BY <1>1, <1>3, <1>4, <2>1, <2>2 DEF Frame, s
<1>6. CASE GoesOn(x, s)
  <2>1. /\ st'[x] = IF at[x] = Len(InitOf(x)) THEN "live" ELSE "init"
        /\ undo' = undo /\ failed' = failed /\ at'[x] = at[x] + 1 /\ s.test \subseteq ok'[x]
        /\ \A d \in Driver \ {x} : st'[d] = st[d] /\ at'[d] = at[d]
    BY <1>6, <1>t DEF GoesOn
  <2>2. x \in Numbered => "region" \in ok'[x]
    <3>1. CASE at[x] = 1
      BY <1>b, <2>1, <3>1
    <3>2. CASE at[x] # 1
      BY <1>1, <1>2, <1>4, <3>2
    <3>3. QED
      BY <3>1, <3>2
  <2>3. st'[x] = "init" => at'[x] \in 1..Len(InitOf(x))
    BY <1>1, <1>2, <2>1
  <2>4. QED
    BY <1>1, <1>3, <1>4, <2>1, <2>2, <2>3 DEF Frame
<1>7. QED
  BY <1>1, <1>5, <1>6

\* A step of driver x leaves the entries of the others in order.
LEMMA OtherEntry ==
  ASSUME NEW x \in Driver, Frame(x), NEW e \in Entries, EntryOk(e), e.by[1] # x
  PROVE  EntryOk(e)'
<1> DEFINE d == e.by[1]
<1>1. d \in Driver \ {x} /\ e.by \in Loads
  BY DEF Entries, Loads
<1> HIDE DEF d
<1>2. /\ st'[d] = st[d] /\ ok'[d] = ok[d] /\ undo'[d] = undo[d] /\ major'[d] = major[d]
      /\ loads'[d] = loads[d] /\ failed \subseteq failed'
  BY <1>1 DEF Frame
<1>3. Loaded(e.by)' <=> Loaded(e.by)
  BY <1>2 DEF Loaded, Load, d
<1>4. Held(d, e.what, e.key) => Held(d, e.what, e.key)'
  BY <1>2 DEF Held
<1>5. QED
  BY <1>2, <1>3, <1>4 DEF EntryOk, d

LEMMA RegInit ==
  ASSUME DrvInv, NEW x \in Driver, InitStep(x)
  PROVE  RegOk'
<1> USE DEF DrvInv
<1>1. ASSUME NEW e \in Entries, EntryOk(e) PROVE EntryOk(e)'
  <2>1. CASE e.by[1] # x
    BY <1>1, <2>1, InitMoves, OtherEntry
  <2>2. CASE e.by[1] = x
    <3>1. Loaded(e.by)' <=> Loaded(e.by)
      BY <2>2, InitMoves DEF Loaded, Load
    <3>2. ASSUME Held(x, e.what, e.key) PROVE Held(x, e.what, e.key)'
      <4>1. e.what \in ok[x] /\ e.key = Key(x, e.what, major[x])
        BY <3>2 DEF Held
      <4>2. e.what \in ok'[x] /\ e.key = Key(x, e.what, major'[x])
        BY <4>1, InitMoves
      <4>3. QED
        BY <4>2, InitMoves DEF Held
    <3>3. failed \subseteq failed' /\ loads' = loads
      BY InitMoves DEF Frame
    <3>4. QED
      BY <1>1, <2>2, <3>1, <3>2, <3>3 DEF EntryOk
  <2>3. QED
    BY <2>1, <2>2
<1> DEFINE s == InitOf(x)[at[x]]
           new == Entry(s.get, Key(x, s.get, major'[x]), Load(x))
<1>2. CASE Registered(x, s)
  <2>1. /\ new \in Entries /\ reg'[1] = new /\ major'[x] \in Majors(x) /\ Load(x) \in Loads
        /\ \A i \in 1..Len(reg') : i # 1 => i - 1 \in 1..Len(reg) /\ reg'[i] = reg[i - 1]
    BY <1>2, NewEntry
  <2>2. s.get \in All(x)
    BY InitFacts
  <2> HIDE DEF s
  <2>3. s.get \in ok'[x]
    BY <1>2 DEF Registered, TypeOK
  <2>4. PICK e \in Entries : e = new
    BY <2>1
  <2>5. e.what = s.get /\ e.key = Key(x, s.get, major'[x]) /\ e.by = <<x, loads[x]>>
    BY <2>4 DEF Entry, Load
  <2>6. e.by[1] = x /\ e.by[2] = loads[x]
    BY <2>5
  <2>7. loads' = loads /\ st'[x] # "out" /\ loads[x] <= loads[x]
    <3>1. loads' = loads /\ st'[x] # "out"
      BY InitMoves
    <3>2. QED
      BY <3>1 DEF TypeOK
  <2> HIDE DEF new
  <2>8. Loaded(e.by)'
    BY <2>5, <2>6, <2>7 DEF Loaded, Load
  <2>9. Held(x, e.what, e.key)'
    <3>1. /\ st'[x] # "exit"
          /\ st'[x] = "fail" => \A w \in ok'[x] : Has(undo'[x], w) \/ w \in Forgotten(x)
      BY InitMoves
    <3>2. QED
      BY <2>3, <2>5, <3>1 DEF Held
  <2>10. EntryOk(e)'
    BY <2>1, <2>2, <2>5, <2>6, <2>7, <2>8, <2>9 DEF EntryOk
  <2>11. ASSUME NEW i \in 1..Len(reg') PROVE EntryOk(reg[i])'
    <3>1. CASE i = 1
      BY <2>1, <2>4, <2>10, <3>1
    <3>2. CASE i # 1
      <4>1. PICK k \in 1..Len(reg) : reg'[i] = reg[k]
        BY <2>1, <3>2
      <4>2. PICK f \in Entries : f = reg[k] /\ EntryOk(f)
        BY DEF RegOk
      <4>3. EntryOk(f)'
        BY <1>1, <4>2
      <4>4. QED
        BY <4>1, <4>2, <4>3
    <3>3. QED
      BY <3>1, <3>2
  <2>12. QED
    BY <2>11 DEF RegOk
<1>3. CASE reg' = reg
  <2>1. ASSUME NEW i \in 1..Len(reg) PROVE EntryOk(reg[i])'
    <3>1. PICK f \in Entries : f = reg[i] /\ EntryOk(f)
      BY DEF RegOk
    <3>2. EntryOk(f)'
      BY <1>1, <3>1
    <3>3. QED
      BY <1>3, <3>1, <3>2
  <2>2. QED
    BY <1>3, <2>1 DEF RegOk
<1>4. QED
  BY <1>2, <1>3, InitFacts

LEMMA OtherDriver ==
  ASSUME DrvInv, NEW x \in Driver, Frame(x), NEW d \in Driver \ {x}
  PROVE  /\ HasRegion(d)' <=> HasRegion(d)
         /\ Load(d)' = Load(d) /\ major'[d] = major[d] /\ st'[d] = st[d] /\ ok'[d] = ok[d] /\ undo'[d] = undo[d]
         /\ (HasRegion(d) => \E i \in 1..Len(reg') : reg'[i] = Entry("region", <<major[d]>>, Load(d)))
               => DriverOk(d)'
<1>1. /\ st'[d] = st[d] /\ at'[d] = at[d] /\ ok'[d] = ok[d] /\ undo'[d] = undo[d] /\ major'[d] = major[d]
      /\ loads'[d] = loads[d] /\ failed \subseteq failed'
  BY DEF Frame
<1>2. HasRegion(d)' <=> HasRegion(d)
  BY <1>1 DEF HasRegion
<1>3. Load(d)' = Load(d)
  BY <1>1 DEF Load
<1>4. DriverOk(d)
  BY DrvTypes
<1>5. ASSUME HasRegion(d) => \E i \in 1..Len(reg') : reg'[i] = Entry("region", <<major[d]>>, Load(d))
      PROVE  DriverOk(d)'
  <2>1. /\ ok[d] \subseteq All(d)
        /\ st[d] # "out" => loads[d] \in 1..MaxLoads
        /\ st[d] = "init" => at[d] \in 1..Len(InitOf(d)) /\ ok[d] \subseteq Gets(d, at[d])
        /\ d \in Numbered /\ ((st[d] = "init" /\ at[d] > 1) \/ st[d] \in {"live", "exit"}) => "region" \in ok[d]
        /\ st[d] = "fail" => Load(d) \in failed /\ \A w : Has(undo[d], w) /\ IsCdev(w) => w \in Forgotten(d)
        /\ st[d] \in {"fail", "exit"} => NoDups(undo[d])
        /\ st[d] = "exit" => Orderly(d, undo[d])
        /\ d \notin Numbered => major[d] = Static(d)
        /\ HasRegion(d) => major[d] \in Dynamic
    BY <1>4, Zenon DEF DriverOk
  <2>2. st[d] = "fail" => Load(d) \in failed'
    BY <1>1, <2>1
  <2>3. HasRegion(d)' => /\ major'[d] \in Dynamic
                         /\ \E i \in 1..Len(reg') : reg'[i] = Entry("region", <<major'[d]>>, Load(d)')
    BY <1>1, <1>2, <1>3, <1>5, <2>1
  <2>4. QED
    BY <1>1, <1>3, <2>1, <2>2, <2>3, Zenon DEF DriverOk
<1>6. QED
  BY <1>1, <1>2, <1>3, <1>5

\* Nothing an init step registers takes the place of anything else.
LEMMA InitKeeps ==
  ASSUME DrvInv, NEW x \in Driver, InitStep(x)
  PROVE  /\ reg' \in Seq(Entries)
         /\ \A i \in 1..Len(reg) : \E k \in 1..Len(reg') : reg'[k] = reg[i]
<1>1. CASE Registered(x, InitOf(x)[at[x]])
  <2>1. /\ reg' \in Seq(Entries) /\ Len(reg') = Len(reg) + 1 /\ Len(reg) \in Nat
        /\ \A i \in 1..Len(reg) : reg'[i + 1] = reg[i]
    BY <1>1, NewEntry
  <2>2. \A i \in 1..Len(reg) : i + 1 \in 1..Len(reg')
    BY <2>1
  <2>3. QED
    BY <2>1, <2>2
<1>2. CASE reg' = reg
  BY <1>2 DEF DrvInv
<1>3. QED
  BY <1>1, <1>2, InitFacts

LEMMA AllInit ==
  ASSUME DrvInv, NEW x \in Driver, InitStep(x)
  PROVE  AllOk' /\ \A d \in Driver : HasRegion(d)' => HasRegion(d) \/ (d = x /\ ok[x] = {})
<1> DEFINE s == InitOf(x)[at[x]]
<1>1. ASSUME NEW d \in Driver \ {x} PROVE DriverOk(d)' /\ (HasRegion(d)' => HasRegion(d))
  <2>1. Frame(x)
    BY InitMoves
  <2>2. HasRegion(d) => \E i \in 1..Len(reg) : reg[i] = Entry("region", <<major[d]>>, Load(d))
    BY DrvTypes, Zenon DEF DriverOk
  <2>3. HasRegion(d) => \E i \in 1..Len(reg') : reg'[i] = Entry("region", <<major[d]>>, Load(d))
    BY <2>2, InitKeeps
  <2>4. QED
    BY <2>1, <2>3, OtherDriver
<1>2. /\ st[x] = "init" /\ BackOk(x, at[x], s) /\ DriverOk(x)
      /\ Gets(x, at[x] + 1) \subseteq All(x) /\ at[x] \in 1..Len(InitOf(x)) /\ Len(InitOf(x)) \in 1..6
      /\ at[x] = 1 => ok[x] = {}
      /\ at[x] > 1 /\ x \in Numbered => "region" \in ok[x]
  BY InitFacts, DrvTypes, LengthIs
<1>3. /\ st'[x] \in {"init", "live", "fail"}
      /\ st'[x] = "fail" => undo'[x] = s.back /\ Load(x) \in failed'
      /\ st'[x] # "fail" => /\ at'[x] = at[x] + 1
                            /\ x \in Numbered => "region" \in ok'[x]
      /\ st'[x] = "init" => at'[x] \in 1..Len(InitOf(x))
      /\ ok'[x] \subseteq Gets(x, at[x] + 1) /\ ok'[x] \subseteq All(x)
      /\ loads' = loads
      /\ ok[x] # {} => major'[x] = major[x]
  BY InitMoves
<1>4. Registered(x, s) \/ UNCHANGED <<ok, major, reg>>
  BY InitFacts
<1>5. Load(x)' = Load(x)
  BY <1>3 DEF Load
<1> HIDE DEF s
<1>b. /\ x \in Numbered /\ at[x] = 1 => ~Has(s.back, "region")
      /\ x \in Numbered /\ at[x] = 1 => s.get = "region"
      /\ x \in Numbered /\ at[x] # 1 => s.get # "region"
      /\ \A w : Has(s.back, w) /\ IsCdev(w) => w \in Forgotten(x)
  BY <1>2, BackUse
<1>6. ASSUME "region" \in ok[x], x \in Numbered
      PROVE  /\ HasRegion(x) /\ major'[x] \in Dynamic
             /\ \E i \in 1..Len(reg') : reg'[i] = Entry("region", <<major'[x]>>, Load(x))
  <2>1. HasRegion(x)
    BY <1>2, <1>6 DEF HasRegion
  <2>2. major[x] \in Dynamic /\ \E i \in 1..Len(reg) : reg[i] = Entry("region", <<major[x]>>, Load(x))
    BY <1>2, <2>1, Zenon DEF DriverOk
  <2>3. major'[x] = major[x]
    BY <1>3, <1>6
  <2>4. QED
    BY <2>1, <2>2, <2>3, InitKeeps
<1>7. ASSUME HasRegion(x)'
      PROVE  /\ HasRegion(x) \/ ok[x] = {}
             /\ major'[x] \in Dynamic
             /\ \E i \in 1..Len(reg') : reg'[i] = Entry("region", <<major'[x]>>, Load(x))
  <2>1. CASE "region" \in ok[x]
    BY <1>6, <1>7, <2>1 DEF HasRegion
  <2>2. CASE "region" \notin ok[x]
    <3>1. x \in Numbered
      BY <1>7 DEF HasRegion
    <3>2. at[x] = 1
      BY <1>2, <2>2, <3>1
    <3>3. st'[x] # "fail"
      BY <1>3, <1>b, <1>7, <3>2 DEF HasRegion
    <3>4. "region" \in ok'[x]
      BY <1>3, <3>1, <3>3
    <3>5. Registered(x, s)
      BY <1>4, <2>2, <3>4
    <3>6. s.get = "region"
      BY <1>b, <3>1, <3>2
    <3>7. major'[x] \in Dynamic
      BY <3>1, <3>5, <3>6 DEF Registered, Free
    <3>8. reg'[1] = Entry("region", <<major'[x]>>, Load(x)) /\ 1 \in 1..Len(reg')
      <4>1. /\ reg'[1] = Entry(s.get, Key(x, s.get, major'[x]), Load(x))
            /\ Len(reg') = Len(reg) + 1 /\ Len(reg) \in Nat
        BY <3>5, NewEntry DEF s
      <4>2. Key(x, "region", major'[x]) = <<major'[x]>>
        BY DEF Key
      <4>3. QED
        BY <3>6, <4>1, <4>2
    <3>9. QED
      BY <1>2, <3>2, <3>7, <3>8
  <2>3. QED
    BY <2>1, <2>2
<1>8. DriverOk(x)'
  <2>1. st'[x] # "out" => loads'[x] \in 1..MaxLoads
    BY <1>2, <1>3, DrvTypes
  <2>2. st'[x] = "init" => at'[x] \in 1..Len(InitOf(x)) /\ ok'[x] \subseteq Gets(x, at'[x])
    BY <1>3
  <2>3. x \in Numbered /\ ((st'[x] = "init" /\ at'[x] > 1) \/ st'[x] \in {"live", "exit"}) => "region" \in ok'[x]
    BY <1>3
  <2>4. st'[x] = "fail" => Load(x)' \in failed' /\ \A w : Has(undo'[x], w) /\ IsCdev(w) => w \in Forgotten(x)
    BY <1>3, <1>5, <1>b
  <2>5. st'[x] \in {"fail", "exit"} => NoDups(undo'[x])
    BY <1>2, <1>3 DEF BackOk
  <2>6. st'[x] = "exit" => Orderly(x, undo'[x])
    BY <1>3
  <2>7. HasRegion(x)' => /\ major'[x] \in Dynamic
                         /\ \E i \in 1..Len(reg') : reg'[i] = Entry("region", <<major'[x]>>, Load(x)')
    BY <1>5, <1>7
  <2>8. x \notin Numbered => major'[x] = Static(x)
    BY <1>2, <1>4 DEF Registered, DriverOk
  <2>9. ok'[x] \subseteq All(x)
    BY <1>3
  <2>10. QED
    BY <2>1, <2>2, <2>3, <2>4, <2>5, <2>6, <2>7, <2>8, <2>9, Zenon DEF DriverOk
<1>9. QED
  BY <1>1, <1>7, <1>8 DEF AllOk

LEMMA OwnCurrent ==
  ASSUME DrvInv, NEW d \in Driver, st[d] # "out", NEW i \in 1..Len(reg), reg[i].by = Load(d)
  PROVE  Held(d, reg[i].what, reg[i].key)
<1>1. EntryOk(reg[i])
  BY DEF DrvInv, RegOk
<1>2. reg[i].by[1] = d /\ Loaded(reg[i].by)
  BY DEF Load, Loaded
<1>3. QED
  BY <1>1, <1>2 DEF EntryOk

LEMMA RegionHeld ==
  ASSUME DrvInv, NEW d \in Driver, HasRegion(d)
  PROVE  /\ major[d] \in Dynamic /\ st[d] # "out" /\ d \in Numbered
         /\ \E i \in 1..Len(reg) : reg[i] = Entry("region", <<major[d]>>, Load(d))
<1>1. DriverOk(d)
  BY DrvTypes
<1>2. QED
  BY <1>1, Zenon DEF DriverOk, HasRegion

LEMMA TwoRegions ==
  ASSUME DrvInv, NEW d \in Driver, NEW x \in Driver, HasRegion(d), HasRegion(x), major[d] = major[x]
  PROVE  d = x
<1>1. PICK i \in 1..Len(reg) : reg[i] = Entry("region", <<major[d]>>, Load(d))
  BY RegionHeld
<1>2. PICK k \in 1..Len(reg) : reg[k] = Entry("region", <<major[x]>>, Load(x))
  BY RegionHeld
<1>3. major[d] \in Dynamic
  BY RegionHeld
<1>4. /\ reg[i].what = "region" /\ reg[k].what = "region" /\ reg[i].key = <<major[d]>> /\ reg[k].key = <<major[d]>>
      /\ reg[i].by = Load(d) /\ reg[k].by = Load(x)
  BY <1>1, <1>2 DEF Entry
<1>5. i = k
  BY <1>3, <1>4 DEF DrvInv, OneRegion
<1>6. QED
  BY <1>4, <1>5 DEF Load

LEMMA StaticIs == \A d \in Drivers : Static(d) \notin Dynamic
<1>1. \A d \in Drivers : Static(d) \in {0, 10, 202, 222}
  BY DEF Static, Drivers
<1>2. 0 \notin Dynamic /\ 10 \notin Dynamic /\ 202 \notin Dynamic /\ 222 \notin Dynamic
  BY DriverAssumption DEF DriverAssumption
<1>3. QED
  BY <1>1, <1>2

LEMMA OneInit ==
  ASSUME DrvInv, NEW x \in Driver, InitStep(x)
  PROVE  OneRegion' /\ Single'
<1> DEFINE s == InitOf(x)[at[x]]
           new == Entry(s.get, Key(x, s.get, major'[x]), Load(x))
<1>1. CASE Registered(x, s)
  <2>1. /\ Len(reg) \in Nat /\ reg'[1] = new
        /\ \A i \in 1..Len(reg') : i # 1 => i - 1 \in 1..Len(reg) /\ reg'[i] = reg[i - 1]
        /\ major'[x] \in Majors(x)
    BY <1>1, NewEntry
  <2>2. new.what = s.get /\ new.key = Key(x, s.get, major'[x]) /\ new.by = Load(x)
    BY DEF Entry
  <2>3. s.get \notin ok[x] /\ st[x] = "init"
    BY InitFacts
  <2> HIDE DEF s, new
  <2>4. ASSUME NEW m \in Dynamic, NEW k \in 1..Len(reg), reg[k].what = "region", reg[k].key = <<m>>
        PROVE  ~(new.what = "region" /\ new.key = <<m>>)
    <3>1. SUFFICES ASSUME new.what = "region", new.key = <<m>> PROVE FALSE
      OBVIOUS
    <3>2. s.get = "region" /\ major'[x] = m
      BY <2>2, <3>1 DEF Key
    <3>3. x \in Numbered
      BY <2>1, <3>2, DrvTypes, StaticIs DEF Majors
    <3>4. m \in Free
      BY <1>1, <3>2, <3>3 DEF Registered
    <3>5. QED
      BY <2>4, <3>4 DEF Free
  <2>5. ASSUME NEW k \in 1..Len(reg) PROVE ~(reg[k].what = new.what /\ reg[k].by = new.by)
    <3>1. reg[k].by = Load(x) => reg[k].what \in ok[x]
      BY <2>3, OwnCurrent DEF Held
    <3>2. QED
      BY <2>2, <2>3, <3>1
  <2>6. OneRegion'
    <3>1. ASSUME NEW m \in Dynamic, NEW i \in 1..Len(reg'), NEW k \in 1..Len(reg'),
                 reg'[i].what = "region", reg'[k].what = "region", reg'[i].key = <<m>>, reg'[k].key = <<m>>
          PROVE  i = k
      <4>1. i = 1 <=> k = 1
        BY <2>1, <2>4, <3>1
      <4>2. ASSUME i # 1, k # 1 PROVE i = k
        <5>1. i - 1 = k - 1
          BY <2>1, <3>1, <4>2 DEF DrvInv, OneRegion
        <5>2. QED
          BY <5>1
      <4>3. QED
        BY <4>1, <4>2
    <3>2. QED
      BY <3>1 DEF OneRegion
  <2>7. Single'
    <3>1. ASSUME NEW i \in 1..Len(reg'), NEW k \in 1..Len(reg'),
                 reg'[i].what = reg'[k].what, reg'[i].by = reg'[k].by
          PROVE  i = k
      <4>1. i = 1 <=> k = 1
        BY <2>1, <2>5, <3>1
      <4>2. ASSUME i # 1, k # 1 PROVE i = k
        <5>0. /\ i - 1 \in 1..Len(reg) /\ k - 1 \in 1..Len(reg)
              /\ reg[i - 1].what = reg[k - 1].what /\ reg[i - 1].by = reg[k - 1].by
          BY <2>1, <3>1, <4>2
        <5>1. i - 1 = k - 1
          BY <5>0, Zenon DEF DrvInv, Single
        <5>2. QED
          BY <5>1
      <4>3. QED
        BY <4>1, <4>2
    <3>2. QED
      BY <3>1 DEF Single
  <2>8. QED
    BY <2>6, <2>7
<1>2. CASE reg' = reg
  BY <1>2 DEF DrvInv, OneRegion, Single
<1>3. QED
  BY <1>1, <1>2, InitFacts

LEMMA NewestInit ==
  ASSUME DrvInv, NEW x \in Driver, InitStep(x)
  PROVE  Newest'
<1> DEFINE s == InitOf(x)[at[x]]
           new == Entry(s.get, Key(x, s.get, major'[x]), Load(x))
<1>1. SUFFICES ASSUME NEW d \in Driver, HasRegion(d)',
                      NEW i \in 1..Len(reg'), NEW k \in 1..Len(reg'),
                      IsCdev(reg'[i].what), IsCdev(reg'[k].what), reg'[i].key = reg'[k].key,
                      reg'[i].by = Load(d), reg'[k].by # Load(d)
               PROVE  i < k
  <2>1. \A d \in Driver : Load(d)' = Load(d)
    BY InitMoves DEF Load
  <2>2. QED
    BY <2>1 DEF Newest, NewestOf
<1>2. HasRegion(d) \/ (d = x /\ ok[x] = {})
  BY <1>1, AllInit
<1>3. st[d] # "out" /\ st[x] = "init"
  BY <1>2, InitFacts DEF HasRegion
<1>4. ASSUME NEW a \in 1..Len(reg), NEW b \in 1..Len(reg),
             IsCdev(reg[a].what), IsCdev(reg[b].what), reg[a].key = reg[b].key,
             reg[a].by = Load(d), reg[b].by # Load(d)
      PROVE  a < b
  <2>1. Held(d, reg[a].what, reg[a].key)
    BY <1>3, <1>4, OwnCurrent
  <2>2. HasRegion(d)
    BY <1>2, <2>1 DEF Held
  <2>3. QED
    BY <1>4, <2>2 DEF DrvInv, Newest, NewestOf
<1>5. CASE Registered(x, s)
  <2>1. /\ Len(reg) \in Nat /\ reg'[1] = new
        /\ \A r \in 1..Len(reg') : r # 1 => r - 1 \in 1..Len(reg) /\ reg'[r] = reg[r - 1]
        /\ major'[x] \in Majors(x)
    BY <1>5, NewEntry
  <2>2. new.what = s.get /\ new.key = Key(x, s.get, major'[x]) /\ new.by = Load(x)
    BY DEF Entry
  <2>3. BackOk(x, at[x], s) /\ at[x] \in Nat /\ at[x] >= 1
    BY InitFacts, DrvTypes, LengthIs
  <2>4. at[x] > 1 /\ x \in Numbered => "region" \in ok[x]
    BY InitFacts
  <2> HIDE DEF s, new
  <2>5. ASSUME i # 1, k = 1 PROVE FALSE
    <3>1. d # x
      BY <1>1, <2>1, <2>2, <2>5
    <3>2. HasRegion(d)
      BY <1>2, <3>1
    <3>3. PICK a \in 1..Len(reg) : reg'[i] = reg[a]
      BY <2>1, <2>5
    <3>4. reg[a].key = Key(d, reg[a].what, major[d])
      BY <1>1, <1>3, <3>3, OwnCurrent DEF Held
    <3>5. IsCdev(s.get) /\ IsCdev(reg[a].what) /\ Key(d, reg[a].what, major[d]) = Key(x, s.get, major'[x])
      BY <1>1, <2>1, <2>2, <2>5, <3>3, <3>4
    <3>6. major[d] = major'[x] /\ major[d] \in Dynamic
      <4>1. major[d] \in Dynamic
        BY <3>2, RegionHeld
      <4>2. Key(d, reg[a].what, major[d]) = Key(x, s.get, major'[x])
              <=> major[d] = major'[x] /\ (reg[a].what = "cdev2" <=> s.get = "cdev2")
        BY <3>5, CdevKeys
      <4>3. QED
        BY <3>5, <4>1, <4>2
    <3>7. x \in Numbered
      BY <2>1, <3>6, DrvTypes, StaticIs DEF Majors
    <3>8. s.get # "region"
      BY <3>5 DEF IsCdev
    <3>9. "region" \in ok[x]
      <4>1. at[x] # 1
        BY <2>3, <3>7, <3>8, BackUse
      <4>2. QED
        BY <2>3, <2>4, <3>7, <4>1
    <3>10. HasRegion(x) /\ major'[x] = major[x]
      BY <1>3, <3>7, <3>9, InitMoves DEF HasRegion
    <3>11. QED
      BY <3>1, <3>2, <3>6, <3>10, TwoRegions
  <2>6. CASE i = 1
    <3>1. Load(x) = Load(d)
      BY <1>1, <2>1, <2>2, <2>6
    <3>2. k # 1
      BY <1>1, <2>1, <2>2, <2>6
    <3>3. QED
      BY <2>6, <3>2
  <2>7. CASE i # 1 /\ k # 1
    <3>1. i - 1 < k - 1
      BY <1>1, <1>4, <2>1, <2>7
    <3>2. QED
      BY <3>1
  <2>8. QED
    BY <2>5, <2>6, <2>7
<1>6. CASE reg' = reg
  BY <1>1, <1>4, <1>6
<1>7. QED
  BY <1>5, <1>6, InitFacts

LEMMA ServedInit ==
  ASSUME DrvInv, NEW x \in Driver, InitStep(x)
  PROVE  CdevsStay'
<1>1. SUFFICES ASSUME failed' = {}, NEW d \in Driver, NEW c \in {"cdev", "cdev2"}, c \in ok'[d],
                      st'[d] \in {"init", "live"} \/ (st'[d] = "exit" /\ Has(undo'[d], c))
               PROVE  \E i \in 1..Len(reg') : reg'[i].what = c /\ reg'[i].by = Load(d)
  <2>1. \A d \in Driver : Load(d)' = Load(d)
    BY InitMoves DEF Load
  <2>2. QED
    BY <2>1 DEF CdevsStay, ServedOf
<1>2. Frame(x) /\ st[x] = "init"
  BY InitMoves
<1>3. failed = {}
  BY <1>1, <1>2 DEF Frame
<1>4. ASSUME c \in ok[d] PROVE \E i \in 1..Len(reg) : reg[i].what = c /\ reg[i].by = Load(d)
  <2>1. st[d] \in {"init", "live"} \/ (st[d] = "exit" /\ Has(undo[d], c))
    BY <1>1, <1>2 DEF Frame
  <2>2. QED
    BY <1>3, <1>4, <2>1 DEF DrvInv, CdevsStay, ServedOf
<1>5. CASE c \in ok[d]
  BY <1>4, <1>5, InitKeeps
<1>6. CASE c \notin ok[d]
  <2> DEFINE s == InitOf(x)[at[x]]
  <2>1. d = x
    BY <1>1, <1>2, <1>6 DEF Frame
  <2>2. Registered(x, s)
    BY <1>1, <1>6, InitFacts
  <2>3. /\ reg'[1] = Entry(s.get, Key(x, s.get, major'[x]), Load(x))
        /\ Len(reg') = Len(reg) + 1 /\ Len(reg) \in Nat
    BY <2>2, NewEntry
  <2> HIDE DEF s
  <2>4. c = s.get
    BY <1>1, <1>6, <2>1, <2>2 DEF Registered, DrvInv, TypeOK
  <2>5. reg'[1].what = c /\ reg'[1].by = Load(d) /\ 1 \in 1..Len(reg')
    BY <2>1, <2>3, <2>4 DEF Entry
  <2>6. QED
    BY <2>5
<1>7. QED
  BY <1>5, <1>6

LEMMA OpenInit ==
  ASSUME DrvInv, NEW x \in Driver, InitStep(x)
  PROVE  OpenInv' /\ NoWildOpen'
<1>1. /\ Frame(x) /\ loads' = loads /\ st[x] = "init" /\ st'[x] \in {"init", "live", "fail"}
      /\ UNCHANGED <<opened, wild>> /\ failed \subseteq failed'
  BY InitMoves, InitFacts DEF Frame
<1>2. ASSUME NEW l \in opened PROVE Loaded(l)' \/ l \in failed'
  <2>1. l \in Loads
    BY DEF DrvInv, TypeOK
  <2>2. l[1] \in Driver
    BY <2>1, LoadFacts
  <2>3. Loaded(l) => Loaded(l)'
    BY <1>1, <2>2 DEF Frame, Loaded, Load
  <2>4. QED
    BY <1>1, <2>3 DEF DrvInv, OpenInv, OpenInCode
<1>3. ASSUME NEW d \in Driver, st'[d] = "exit" PROVE Load(d)' \notin opened' \/ Load(d)' \in failed'
  <2>1. d # x /\ st[d] = "exit" /\ Load(d)' = Load(d)
    BY <1>1, <1>3 DEF Frame, Load
  <2>2. QED
    BY <1>1, <2>1 DEF DrvInv, OpenInv
<1>4. OpenInv'
  BY <1>1, <1>2, <1>3 DEF OpenInv, OpenInCode
<1>5. NoWildOpen'
  BY <1>1 DEF DrvInv, NoWildOpen
<1>6. QED
  BY <1>4, <1>5

LEMMA TypeInit ==
  ASSUME DrvInv, NEW x \in Driver, InitStep(x)
  PROVE  TypeOK' /\ reg' \in Seq(Entries)
<1> DEFINE s == InitOf(x)[at[x]]
<1>1. /\ at[x] \in 1..Len(InitOf(x)) /\ Len(InitOf(x)) \in 1..6
      /\ Registered(x, s) \/ UNCHANGED <<ok, major, reg>>
      /\ GoesOn(x, s) \/ Fails(x, s)
      /\ UNCHANGED <<loads, opened, wild>>
      /\ s.get \in What /\ BackOk(x, at[x], s) /\ st[x] # "out"
  BY InitFacts, DrvTypes, LengthIs
<1>2. TypeOK /\ reg' \in Seq(Entries)
  BY InitKeeps DEF DrvInv
<1>3. Load(x) \in Loads
  BY <1>1, DrvTypes DEF Load, Loads
<1>4. Registered(x, s) => major' \in [Driver -> Numbers]
  BY NewEntry
<1> HIDE DEF s
<1>t. /\ st \in [Driver -> {"out", "init", "live", "fail", "exit"}] /\ at \in [Driver -> 1..7]
      /\ ok \in [Driver -> SUBSET What] /\ undo \in [Driver -> Seq(What)]
      /\ major \in [Driver -> Numbers]
  BY <1>2 DEF TypeOK, Numbers
<1>5. ok' \in [Driver -> SUBSET What] /\ major' \in [Driver -> Dynamic \cup {0, 10, 202, 222}]
  <2>1. major' \in [Driver -> Numbers]
    BY <1>1, <1>4, <1>t DEF Registered
  <2>2. ok' = ok \/ ok' = [ok EXCEPT ![x] = ok[x] \cup {s.get}]
    BY <1>1 DEF Registered
  <2>3. ok' \in [Driver -> SUBSET What]
    <3>1. s.get \in What
      BY <1>1
    <3>2. ok[x] \cup {s.get} \in SUBSET What
      BY <1>t, <3>1
    <3>3. QED
      BY <1>t, <2>2, <3>2
  <2>4. QED
    BY <2>1, <2>3 DEF Numbers
<1>6. at' \in [Driver -> 1..7] /\ st' \in [Driver -> {"out", "init", "live", "fail", "exit"}]
  <2>1. at[x] + 1 \in 1..7
    <3>1. at[x] \in 1..Len(InitOf(x)) /\ Len(InitOf(x)) \in 1..6
      BY <1>1, Zenon
    <3> DEFINE n == Len(InitOf(x))
    <3>2. at[x] \in 1..n /\ n \in 1..6
      BY <3>1
    <3> HIDE DEF n
    <3>3. QED
      BY <3>2
  <2>2. at' = at \/ at' = [at EXCEPT ![x] = at[x] + 1]
    BY <1>1 DEF GoesOn, Fails
  <2>3. \E v \in {"live", "init", "fail"} : st' = [st EXCEPT ![x] = v]
    BY <1>1 DEF GoesOn, Fails
  <2>4. QED
    BY <1>t, <2>1, <2>2, <2>3
<1>7. undo' \in [Driver -> Seq(What)]
  <2>1. s.back \in Seq(What)
    BY <1>1 DEF BackOk
  <2>2. undo' = undo \/ undo' = [undo EXCEPT ![x] = s.back]
    BY <1>1 DEF GoesOn, Fails
  <2>3. QED
    BY <1>t, <2>1, <2>2
<1>8. failed' \subseteq Loads
  BY <1>1, <1>2, <1>3 DEF TypeOK, GoesOn, Fails
<1>9. \A i \in 1..Len(reg') : reg'[i].what \in What /\ reg'[i].by \in Loads
  <2>1. \A i \in 1..Len(reg') : reg'[i] \in Entries
    BY <1>2
  <2>2. QED
    BY <2>1 DEF Entries
<1>10. wild' \in BOOLEAN
  BY <1>1, <1>2 DEF TypeOK
<1>11. loads' \in [Driver -> 0..MaxLoads] /\ opened' \subseteq Loads
  BY <1>1, <1>2 DEF TypeOK
<1>12. QED
  BY <1>2, <1>5, <1>6, <1>7, <1>8, <1>9, <1>10, <1>11 DEF TypeOK

LEMMA InitPreserves ==
  ASSUME DrvInv, NEW x \in Driver, InitStep(x)
  PROVE  DrvInv'
  BY RegInit, AllInit, OneInit, NewestInit, ServedInit, OpenInit, TypeInit DEF DrvInv

(* The steps that leave the kernel's tables alone.                         *)

LEMMA Quiet ==
  ASSUME DrvInv, NEW x \in Driver, Frame(x), reg' = reg, DriverOk(x)',
         HasRegion(x)' => HasRegion(x) /\ Load(x)' = Load(x),
         \A e \in Entries : EntryOk(e) /\ e.by[1] = x => EntryOk(e)',
         failed' = {} => \A c \in {"cdev", "cdev2"} : ServedOf(x, c)'
  PROVE  RegOk' /\ AllOk' /\ OneRegion' /\ Single' /\ Newest' /\ CdevsStay'
<1>1. RegOk'
  <2>1. ASSUME NEW i \in 1..Len(reg) PROVE EntryOk(reg[i])'
    <3>1. PICK f \in Entries : f = reg[i] /\ EntryOk(f)
      BY DEF RegOk, DrvInv
    <3>2. EntryOk(f)'
      BY <3>1, OtherEntry
    <3>3. QED
      BY <3>1, <3>2
  <2>2. QED
    BY <2>1 DEF RegOk
<1>2. AllOk'
  <2>1. ASSUME NEW d \in Driver \ {x} PROVE DriverOk(d)'
    <3>1. HasRegion(d) => \E i \in 1..Len(reg') : reg'[i] = Entry("region", <<major[d]>>, Load(d))
      BY RegionHeld
    <3>2. QED
      BY <3>1, OtherDriver
  <2>2. QED
    BY <2>1 DEF AllOk
<1>3. OneRegion' /\ Single'
  BY DEF DrvInv, OneRegion, Single
<1>4. Newest'
  <2>1. \A d \in Driver : HasRegion(d)' => HasRegion(d) /\ Load(d)' = Load(d)
    BY OtherDriver
  <2>2. QED
    BY <2>1 DEF DrvInv, Newest, NewestOf
<1>5. CdevsStay'
  <2>1. SUFFICES ASSUME failed' = {}, NEW d \in Driver \ {x}, NEW c \in {"cdev", "cdev2"}
                 PROVE  ServedOf(d, c)'
    BY DEF CdevsStay
  <2>2. failed = {}
    BY <2>1 DEF Frame
  <2>3. ServedOf(d, c)
    BY <2>2 DEF DrvInv, CdevsStay
  <2>4. Load(d)' = Load(d) /\ st'[d] = st[d] /\ ok'[d] = ok[d] /\ undo'[d] = undo[d]
    BY OtherDriver
  <2>5. QED
    BY <2>3, <2>4 DEF ServedOf
<1>6. QED
  BY <1>1, <1>2, <1>3, <1>4, <1>5

LEMMA DriverTypes ==
  ASSUME DrvInv
  PROVE  /\ st \in [Driver -> {"out", "init", "live", "fail", "exit"}] /\ at \in [Driver -> 1..7]
         /\ ok \in [Driver -> SUBSET What] /\ undo \in [Driver -> Seq(What)]
         /\ major \in [Driver -> Dynamic \cup {0, 10, 202, 222}] /\ loads \in [Driver -> 0..MaxLoads]
         /\ opened \subseteq Loads /\ failed \subseteq Loads /\ wild \in BOOLEAN
         /\ \A i \in 1..Len(reg) : reg[i].what \in What /\ reg[i].by \in Loads
         /\ reg \in Seq(Entries) /\ MaxLoads \in Nat
  BY DriverAssumption DEF DriverAssumption, DrvInv, TypeOK

LEMMA InsmodPreserves ==
  ASSUME DrvInv, NEW x \in Driver, Insmod(x)
  PROVE  DrvInv'
<1>1. /\ st[x] = "out" /\ loads[x] < MaxLoads
      /\ st' = [st EXCEPT ![x] = "init"] /\ loads' = [loads EXCEPT ![x] = loads[x] + 1]
      /\ at' = [at EXCEPT ![x] = 1] /\ ok' = [ok EXCEPT ![x] = {}]
      /\ major' = [major EXCEPT ![x] = Static(x)]
      /\ UNCHANGED <<undo, reg, opened, wild, failed>>
  BY DEF Insmod
<1>t. /\ x \in Drivers /\ Len(InitOf(x)) \in 1..6 /\ loads[x] \in 0..MaxLoads /\ MaxLoads \in Nat
      /\ reg \in Seq(Entries)
  BY DrvTypes, DriverTypes, LengthIs
<1>2. /\ st'[x] = "init" /\ loads'[x] = loads[x] + 1 /\ at'[x] = 1 /\ ok'[x] = {} /\ major'[x] = Static(x)
      /\ reg' = reg /\ Frame(x)
  BY <1>1, DriverTypes DEF Frame
<1>3. ~HasRegion(x)'
  BY <1>2 DEF HasRegion
<1>4. DriverOk(x)'
  <2>1. loads'[x] \in 1..MaxLoads
    BY <1>1, <1>2, <1>t
  <2>2. at'[x] \in 1..Len(InitOf(x)) /\ ok'[x] \subseteq Gets(x, at'[x]) /\ ok'[x] \subseteq All(x)
    <3> DEFINE n == Len(InitOf(x))
    <3>1. n \in 1..6
      BY <1>t
    <3> HIDE DEF n
    <3>2. 1 \in 1..n
      BY <3>1
    <3>3. QED
      BY <1>2, <3>2 DEF n
  <2>3. ~(at'[x] > 1)
    BY <1>2
  <2>4. QED
    BY <1>2, <1>3, <2>1, <2>2, <2>3, Zenon DEF DriverOk
<1>5. ASSUME NEW e \in Entries, EntryOk(e), e.by[1] = x PROVE EntryOk(e)'
  <2>1. e.by[2] <= loads[x] /\ e.by[2] \in Nat
    BY <1>5 DEF EntryOk, Entries, Loads
  <2>2. ~Loaded(e.by)
    BY <1>1, <1>5 DEF Loaded
  <2>3. ~(e.by = Load(x)')
    BY <1>2, <1>t, <2>1 DEF Load
  <2>4. ~Loaded(e.by)'
    BY <1>5, <2>3 DEF Loaded, Load
  <2>5. e.by[2] <= loads'[x]
    BY <1>2, <1>t, <2>1
  <2>6. QED
    BY <1>1, <1>5, <2>2, <2>4, <2>5 DEF EntryOk
<1>6. \A c \in {"cdev", "cdev2"} : ServedOf(x, c)'
  BY <1>2 DEF ServedOf
<1>7. RegOk' /\ AllOk' /\ OneRegion' /\ Single' /\ Newest' /\ CdevsStay'
  BY <1>2, <1>3, <1>4, <1>5, <1>6, Quiet
<1>8. OpenInv'
  <2>1. ASSUME NEW l \in opened PROVE Loaded(l)' \/ l \in failed'
    <3>1. Loaded(l) \/ l \in failed
      BY DEF DrvInv, OpenInv, OpenInCode
    <3>2. l[1] \in Driver
      BY LoadFacts, DriverTypes
    <3>3. Loaded(l) => l[1] # x
      BY <1>1 DEF Loaded
    <3>4. Loaded(l) => Loaded(l)'
      BY <1>2, <3>2, <3>3 DEF Frame, Loaded, Load
    <3>5. QED
      BY <1>1, <3>1, <3>4
  <2>2. ASSUME NEW d \in Driver, st'[d] = "exit" PROVE Load(d)' \notin opened' \/ Load(d)' \in failed'
    <3>1. d # x /\ st[d] = "exit" /\ Load(d)' = Load(d)
      BY <1>2, <2>2 DEF Frame, Load
    <3>2. QED
      BY <1>1, <3>1 DEF DrvInv, OpenInv
  <2>3. QED
    BY <1>1, <2>1, <2>2 DEF OpenInv, OpenInCode
<1>9. TypeOK'
  <2>1. Static(x) \in {0, 10, 202, 222}
    BY <1>t DEF Static, Drivers
  <2>2. loads[x] + 1 \in 0..MaxLoads
    BY <1>1, <1>t
  <2>3. /\ st' \in [Driver -> {"out", "init", "live", "fail", "exit"}] /\ at' \in [Driver -> 1..7]
        /\ ok' \in [Driver -> SUBSET What] /\ major' \in [Driver -> Dynamic \cup {0, 10, 202, 222}]
        /\ loads' \in [Driver -> 0..MaxLoads]
    BY <1>1, <2>1, <2>2, DriverTypes
  <2>4. QED
    BY <1>1, <2>3, DriverTypes DEF TypeOK
<1>10. NoWildOpen'
  BY <1>1 DEF DrvInv, NoWildOpen
<1>11. QED
  BY <1>2, <1>t, <1>7, <1>8, <1>9, <1>10 DEF DrvInv

LEMMA RmmodPreserves ==
  ASSUME DrvInv, NEW x \in Driver, Rmmod(x)
  PROVE  DrvInv'
<1>1. /\ st[x] = "live" /\ Load(x) \notin opened
      /\ st' = [st EXCEPT ![x] = "exit"] /\ undo' = [undo EXCEPT ![x] = ExitOf(x)]
      /\ UNCHANGED <<at, ok, major, loads, reg, opened, wild, failed>>
  BY DEF Rmmod
<1>t. /\ x \in Drivers /\ DriverOk(x) /\ loads[x] \in 1..MaxLoads /\ reg \in Seq(Entries)
      /\ ExitOk(x, ExitOf(x))
  BY <1>1, DrvTypes, DriverTypes, ExitFacts
<1>2. /\ st'[x] = "exit" /\ undo'[x] = ExitOf(x) /\ reg' = reg /\ Frame(x) /\ failed' = failed
      /\ ok'[x] = ok[x] /\ major'[x] = major[x] /\ loads'[x] = loads[x] /\ Load(x)' = Load(x)
  BY <1>1, DriverTypes DEF Frame, Load
<1>3. /\ ok[x] \subseteq All(x)
      /\ x \in Numbered => "region" \in ok[x]
      /\ x \notin Numbered => major[x] = Static(x)
  BY <1>1, <1>t, Zenon DEF DriverOk
<1>4. HasRegion(x)' => HasRegion(x)
  BY <1>1, <1>3 DEF HasRegion
<1>5. DriverOk(x)'
  <2>1. NoDups(undo'[x]) /\ Orderly(x, undo'[x])
    BY <1>2, <1>t DEF ExitOk
  <2>2. HasRegion(x)' => /\ major'[x] \in Dynamic
                         /\ \E i \in 1..Len(reg') : reg'[i] = Entry("region", <<major'[x]>>, Load(x)')
    BY <1>2, <1>4, RegionHeld
  <2>3. QED
    BY <1>2, <1>3, <1>t, <2>1, <2>2, Zenon DEF DriverOk
<1>6. ASSUME NEW e \in Entries, EntryOk(e), e.by[1] = x PROVE EntryOk(e)'
  <2>1. Loaded(e.by)' <=> Loaded(e.by)
    BY <1>1, <1>2, <1>6 DEF Loaded
  <2>2. Held(x, e.what, e.key) => Held(x, e.what, e.key)'
    BY <1>2, <1>3, <1>t DEF Held, ExitOk
  <2>3. QED
    BY <1>2, <1>6, <2>1, <2>2 DEF EntryOk
<1>7. failed' = {} => \A c \in {"cdev", "cdev2"} : ServedOf(x, c)'
  <2>1. SUFFICES ASSUME failed = {}, NEW c \in {"cdev", "cdev2"} PROVE ServedOf(x, c)'
    BY <1>2
  <2>2. ServedOf(x, c)
    BY <2>1 DEF DrvInv, CdevsStay
  <2>3. c \in ok[x] => \E i \in 1..Len(reg) : reg[i].what = c /\ reg[i].by = Load(x)
    BY <1>1, <2>2 DEF ServedOf
  <2>4. QED
    BY <1>2, <2>3 DEF ServedOf
<1>8. RegOk' /\ AllOk' /\ OneRegion' /\ Single' /\ Newest' /\ CdevsStay'
  BY <1>2, <1>4, <1>5, <1>6, <1>7, Quiet
<1>9. OpenInv'
  <2>1. ASSUME NEW l \in opened PROVE Loaded(l)' \/ l \in failed'
    <3>1. Loaded(l) \/ l \in failed
      BY DEF DrvInv, OpenInv, OpenInCode
    <3>2. l[1] \in Driver
      BY LoadFacts, DriverTypes
    <3>3. Loaded(l) => Loaded(l)'
      BY <1>1, <1>2, <3>2 DEF Frame, Loaded, Load
    <3>4. QED
      BY <1>1, <3>1, <3>3
  <2>2. ASSUME NEW d \in Driver, st'[d] = "exit" PROVE Load(d)' \notin opened' \/ Load(d)' \in failed'
    <3>1. CASE d = x
      BY <1>1, <1>2, <3>1
    <3>2. CASE d # x
      <4>1. st[d] = "exit" /\ Load(d)' = Load(d)
        BY <1>2, <2>2, <3>2 DEF Frame, Load
      <4>2. QED
        BY <1>1, <4>1 DEF DrvInv, OpenInv
    <3>3. QED
      BY <3>1, <3>2
  <2>3. QED
    BY <1>1, <2>1, <2>2 DEF OpenInv, OpenInCode
<1>10. TypeOK'
  <2>1. ExitOf(x) \in Seq(What)
    BY <1>t DEF ExitOk
  <2>2. /\ st' \in [Driver -> {"out", "init", "live", "fail", "exit"}]
        /\ undo' \in [Driver -> Seq(What)]
    BY <1>1, <2>1, DriverTypes
  <2>3. QED
    BY <1>1, <2>2, DriverTypes DEF TypeOK
<1>11. NoWildOpen'
  BY <1>1 DEF DrvInv, NoWildOpen
<1>12. QED
  BY <1>2, <1>t, <1>8, <1>9, <1>10, <1>11 DEF DrvInv

LEMMA GonePreserves ==
  ASSUME DrvInv, NEW x \in Driver, Gone(x)
  PROVE  DrvInv'
<1>1. /\ st[x] \in {"fail", "exit"} /\ undo[x] = <<>>
      /\ st' = [st EXCEPT ![x] = "out"]
      /\ UNCHANGED <<at, ok, undo, major, loads, reg, opened, wild, failed>>
  BY DEF Gone
<1>t. x \in Drivers /\ DriverOk(x) /\ reg \in Seq(Entries)
  BY DrvTypes, DriverTypes
<1>2. /\ st'[x] = "out" /\ reg' = reg /\ Frame(x) /\ failed' = failed
      /\ ok'[x] = ok[x] /\ major'[x] = major[x] /\ loads' = loads /\ Load(x)' = Load(x)
  BY <1>1, DriverTypes DEF Frame, Load
<1>3. /\ ok[x] \subseteq All(x)
      /\ st[x] = "fail" => Load(x) \in failed
      /\ x \notin Numbered => major[x] = Static(x)
  BY <1>t, Zenon DEF DriverOk
<1>4. ~HasRegion(x)'
  BY <1>2 DEF HasRegion
<1>5. DriverOk(x)'
  BY <1>2, <1>3, <1>4, Zenon DEF DriverOk
<1>6. ASSUME NEW e \in Entries, EntryOk(e), e.by[1] = x PROVE EntryOk(e)'
  <2>1. ~Loaded(e.by)'
    BY <1>2, <1>6 DEF Loaded
  <2>2. ASSUME Loaded(e.by) PROVE e.by \in failed /\ e.what \in Forgotten(x)
    <3>1. Held(x, e.what, e.key)
      BY <1>6, <2>2 DEF EntryOk
    <3>2. ~Has(undo[x], e.what)
      BY <1>1, List0
    <3>3. st[x] = "fail" /\ e.what \in Forgotten(x)
      BY <1>1, <3>1, <3>2 DEF Held
    <3>4. e.by = Load(x)
      BY <1>6, <2>2 DEF Loaded
    <3>5. QED
      BY <1>3, <3>3, <3>4
  <2>3. QED
    BY <1>2, <1>6, <2>1, <2>2 DEF EntryOk
<1>7. \A c \in {"cdev", "cdev2"} : ServedOf(x, c)'
  BY <1>2 DEF ServedOf
<1>8. RegOk' /\ AllOk' /\ OneRegion' /\ Single' /\ Newest' /\ CdevsStay'
  BY <1>2, <1>4, <1>5, <1>6, <1>7, Quiet
<1>9. OpenInv'
  <2>1. ASSUME NEW l \in opened PROVE Loaded(l)' \/ l \in failed'
    <3>1. Loaded(l) \/ l \in failed
      BY DEF DrvInv, OpenInv, OpenInCode
    <3>2. l[1] \in Driver
      BY LoadFacts, DriverTypes
    <3>3. ASSUME Loaded(l), l \notin failed PROVE l[1] # x
      <4>1. SUFFICES ASSUME l[1] = x PROVE FALSE
        OBVIOUS
      <4>2. l = Load(x)
        BY <3>3, <4>1 DEF Loaded
      <4>3. st[x] # "fail" /\ Load(x) \notin opened
        BY <1>1, <1>3, <3>3, <4>2 DEF DrvInv, OpenInv
      <4>4. QED
        BY <4>2, <4>3
    <3>4. Loaded(l) /\ l \notin failed => Loaded(l)'
      BY <1>2, <3>2, <3>3 DEF Frame, Loaded, Load
    <3>5. QED
      BY <1>1, <3>1, <3>4
  <2>2. ASSUME NEW d \in Driver, st'[d] = "exit" PROVE Load(d)' \notin opened' \/ Load(d)' \in failed'
    <3>1. d # x /\ st[d] = "exit" /\ Load(d)' = Load(d)
      BY <1>2, <2>2 DEF Frame, Load
    <3>2. QED
      BY <1>1, <3>1 DEF DrvInv, OpenInv
  <2>3. QED
    BY <1>1, <2>1, <2>2 DEF OpenInv, OpenInCode
<1>10. TypeOK'
  <2>1. st' \in [Driver -> {"out", "init", "live", "fail", "exit"}]
    BY <1>1, DriverTypes
  <2>2. QED
    BY <1>1, <2>1, DriverTypes DEF TypeOK
<1>11. NoWildOpen'
  BY <1>1 DEF DrvInv, NoWildOpen
<1>12. QED
  BY <1>2, <1>t, <1>8, <1>9, <1>10, <1>11 DEF DrvInv

\* What an open() or a close() leaves alone.
LEMMA Still ==
  ASSUME DrvInv, UNCHANGED <<st, at, ok, undo, major, loads, reg, failed>>
  PROVE  /\ RegOk' /\ AllOk' /\ OneRegion' /\ Single' /\ Newest' /\ CdevsStay' /\ reg' \in Seq(Entries)
         /\ \A d \in Driver : Load(d)' = Load(d)
         /\ \A l \in Loads : Loaded(l)' <=> Loaded(l)
<1>1. \A d \in Driver : Load(d)' = Load(d) /\ (HasRegion(d)' <=> HasRegion(d))
  BY DEF Load, HasRegion
<1>2. \A l \in Loads : Loaded(l)' <=> Loaded(l)
  BY DEF Loaded, Load
<1>3. RegOk'
  <2>1. RegOk
    BY DEF DrvInv
  <2>2. QED
    BY <2>1 DEF RegOk, EntryOk, Held, Loaded, Load
<1>4. AllOk'
  <2>1. AllOk
    BY DEF DrvInv
  <2>2. QED
    BY <1>1, <2>1 DEF AllOk, DriverOk
<1>5. OneRegion' /\ Single'
  BY DEF DrvInv, OneRegion, Single
<1>6. Newest'
  BY <1>1 DEF DrvInv, Newest, NewestOf
<1>7. CdevsStay'
  BY <1>1 DEF DrvInv, CdevsStay, ServedOf
<1>8. QED
  BY <1>1, <1>2, <1>3, <1>4, <1>5, <1>6, <1>7, DriverTypes

LEMMA OpenPreserves ==
  ASSUME DrvInv, NEW key, Open(key)
  PROVE  DrvInv'
<1>1. /\ Found(key) # {} /\ UNCHANGED <<st, at, ok, undo, major, loads, reg, failed>>
      /\ wild' = (wild \/ ~Loaded(Reached(key)))
      /\ opened' = IF Loaded(Reached(key)) /\ st[Reached(key)[1]] # "exit"
                   THEN opened \cup {Reached(key)} ELSE opened
  BY DEF Open
<1>2. PICK i \in 1..Len(reg) : Reached(key) = reg[i].by
  <2>1. Found(key) \subseteq 1..Len(reg) /\ Found(key) \subseteq Nat
    BY DEF Found
  <2>2. (CHOOSE i \in Found(key) : \A r \in Found(key) : i <= r) \in Found(key)
    BY <1>1, <2>1, FirstHit
  <2>3. QED
    BY <2>1, <2>2 DEF Reached
<1> DEFINE l == Reached(key)
<1> HIDE DEF l
<1>3. l = reg[i].by /\ l \in Loads /\ l[1] \in Driver
  BY <1>2, DriverTypes, LoadFacts DEF l
<1>4. ~Loaded(l) => failed # {}
  <2>1. EntryOk(reg[i])
    BY DEF DrvInv, RegOk
  <2>2. QED
    BY <1>3, <2>1 DEF EntryOk
<1>5. NoWildOpen'
  BY <1>1, <1>4 DEF DrvInv, NoWildOpen, l
<1>6. opened' = IF Loaded(l) /\ st[l[1]] # "exit" THEN opened \cup {l} ELSE opened
  BY <1>1 DEF l
<1>7. OpenInv'
  <2>1. ASSUME NEW k \in opened' PROVE Loaded(k)' \/ k \in failed'
    <3>1. k \in Loads /\ (Loaded(k) \/ k \in failed)
      BY <1>3, <1>6, DriverTypes DEF DrvInv, OpenInv, OpenInCode
    <3>2. QED
      BY <1>1, <3>1, Still
  <2>2. ASSUME NEW d \in Driver, st'[d] = "exit" PROVE Load(d)' \notin opened' \/ Load(d)' \in failed'
    <3>1. st[d] = "exit" /\ Load(d)' = Load(d)
      BY <1>1, <2>2, Still
    <3>2. Load(d) \notin opened \/ Load(d) \in failed
      BY <3>1 DEF DrvInv, OpenInv
    <3>3. Load(d)[1] = d
      BY DEF Load
    <3>4. QED
      BY <1>1, <1>6, <3>1, <3>2, <3>3
  <2>3. QED
    BY <2>1, <2>2 DEF OpenInv, OpenInCode
<1>8. TypeOK'
  <2>1. opened' \subseteq Loads /\ wild' \in BOOLEAN
    BY <1>1, <1>3, <1>6, DriverTypes
  <2>2. QED
    BY <1>1, <2>1, DriverTypes DEF TypeOK
<1>9. QED
  BY <1>1, <1>5, <1>7, <1>8, Still DEF DrvInv

LEMMA ClosePreserves ==
  ASSUME DrvInv, NEW l \in opened, Close(l)
  PROVE  DrvInv'
<1>1. opened' = opened \ {l} /\ UNCHANGED <<st, at, ok, undo, major, loads, reg, wild, failed>>
  BY DEF Close
<1>2. OpenInv'
  <2>1. ASSUME NEW k \in opened' PROVE Loaded(k)' \/ k \in failed'
    <3>1. k \in Loads /\ (Loaded(k) \/ k \in failed)
      BY <1>1, DriverTypes DEF DrvInv, OpenInv, OpenInCode
    <3>2. QED
      BY <1>1, <3>1, Still
  <2>2. ASSUME NEW d \in Driver, st'[d] = "exit" PROVE Load(d)' \notin opened' \/ Load(d)' \in failed'
    <3>1. st[d] = "exit" /\ Load(d)' = Load(d)
      BY <1>1, <2>2, Still
    <3>2. QED
      BY <1>1, <3>1 DEF DrvInv, OpenInv
  <2>3. QED
    BY <2>1, <2>2 DEF OpenInv, OpenInCode
<1>3. TypeOK' /\ NoWildOpen'
  BY <1>1, DriverTypes DEF TypeOK, DrvInv, NoWildOpen
<1>4. QED
  BY <1>1, <1>2, <1>3, Still DEF DrvInv

(* Taking back.                                                            *)

\* The lists of what there is still to take back get shorter at the front.
LEMMA Shorter ==
  ASSUME NEW d, NEW u \in Seq(What), u # <<>>, NoDups(u)
  PROVE  /\ Head(u) \in What /\ Has(u, Head(u)) /\ Tail(u) \in Seq(What) /\ NoDups(Tail(u))
         /\ \A w : Has(Tail(u), w) <=> Has(u, w) /\ w # Head(u)
         /\ Orderly(d, u) => Orderly(d, Tail(u))
<1> DEFINE t == Tail(u)
           h == Head(u)
<1>1. /\ h \in What /\ t \in Seq(What) /\ Len(t) = Len(u) - 1 /\ Len(u) \in Nat /\ 1 \in 1..Len(u) /\ u[1] = h
      /\ \A i \in 1..Len(t) : t[i] = u[i + 1]
  OBVIOUS
<1> HIDE DEF t, h
<1>2. \A i \in 1..Len(t) : i + 1 \in 1..Len(u) /\ i + 1 # 1
  BY <1>1
<1>3. \A i \in 1..Len(u) : i # 1 => i - 1 \in 1..Len(t) /\ t[i - 1] = u[i]
  BY <1>1
<1>4. Has(u, h)
  BY <1>1 DEF Has
<1>5. \A i, k \in 1..Len(u) : u[i] = u[k] => i = k
  BY DEF NoDups
<1>6. NoDups(t)
  <2>1. ASSUME NEW i \in 1..Len(t), NEW k \in 1..Len(t), t[i] = t[k] PROVE i = k
    <3>1. i + 1 = k + 1
      BY <1>1, <1>2, <1>5, <2>1
    <3>2. QED
      BY <3>1
  <2>2. QED
    BY <2>1 DEF NoDups
<1>7. ASSUME NEW w PROVE Has(t, w) <=> Has(u, w) /\ w # h
  <2>1. ASSUME Has(t, w) PROVE Has(u, w) /\ w # h
    <3>1. PICK i \in 1..Len(t) : t[i] = w
      BY <2>1 DEF Has
    <3>2. i + 1 \in 1..Len(u) /\ u[i + 1] = w /\ i + 1 # 1
      BY <1>1, <1>2, <3>1
    <3>3. QED
      BY <1>1, <1>5, <3>2 DEF Has
  <2>2. ASSUME Has(u, w), w # h PROVE Has(t, w)
    <3>1. PICK i \in 1..Len(u) : u[i] = w
      BY <2>2 DEF Has
    <3>2. i # 1
      BY <1>1, <2>2, <3>1
    <3>3. QED
      BY <1>3, <3>1, <3>2 DEF Has
  <2>3. QED
    BY <2>1, <2>2
<1>8. ASSUME NEW a, NEW b, Before(u, a, b) PROVE Before(t, a, b)
  <2>1. SUFFICES ASSUME NEW i \in 1..Len(t), t[i] = a PROVE \E k \in 1..Len(t) : i < k /\ t[k] = b
    BY DEF Before
  <2>2. i + 1 \in 1..Len(u) /\ u[i + 1] = a
    BY <1>1, <1>2, <2>1
  <2>3. PICK k \in 1..Len(u) : i + 1 < k /\ u[k] = b
    BY <1>8, <2>2 DEF Before
  <2>4. k # 1 /\ i < k - 1
    BY <2>3
  <2>5. QED
    BY <1>3, <2>3, <2>4
<1>9. Orderly(d, u) => Orderly(d, t)
  BY <1>7, <1>8 DEF Orderly
<1>10. QED
  BY <1>1, <1>4, <1>6, <1>7, <1>9 DEF t, h

LEMMA BeforeHas == ASSUME NEW u, NEW a, NEW b, Before(u, a, b), Has(u, a) PROVE Has(u, b)
  BY DEF Before, Has

\* What the table loses.
At(k, i) == IF i < k THEN i ELSE i + 1
Loses(k) == /\ k \in 1..Len(reg) /\ Len(reg') = Len(reg) - 1
            /\ \A i \in 1..Len(reg') : At(k, i) \in 1..Len(reg) /\ At(k, i) # k /\ reg'[i] = reg[At(k, i)]
            /\ \A i, r \in 1..Len(reg') : At(k, i) < At(k, r) <=> i < r
            /\ \A r \in 1..Len(reg) : r # k => \E i \in 1..Len(reg') : reg'[i] = reg[r]

LEMMA TakeFacts ==
  ASSUME DrvInv, NEW x \in Driver, TakeBack(x)
  PROVE  LET w == Head(undo[x]) IN
         /\ Frame(x) /\ UNCHANGED <<st, at, ok, major, loads, opened, wild, failed>>
         /\ st[x] \in {"fail", "exit"} /\ w \in What /\ Has(undo[x], w)
         /\ undo' = [undo EXCEPT ![x] = Tail(undo[x])]
         /\ undo'[x] \in Seq(What) /\ NoDups(undo'[x])
         /\ \A v : Has(undo'[x], v) <=> Has(undo[x], v) /\ v # w
         /\ st[x] = "exit" => Orderly(x, undo[x]) /\ Orderly(x, undo'[x])
         /\ reg' \in Seq(Entries)
         /\ \/ reg' = reg /\ \A i \in 1..Len(reg) : ~Matches(x, w, reg[i])
            \/ \E k \in 1..Len(reg) : /\ Loses(k) /\ Matches(x, w, reg[k])
                                      /\ \A i \in 1..Len(reg) : Matches(x, w, reg[i]) => k <= i
<1> DEFINE w == Head(undo[x])
<1>1. /\ st[x] \in {"fail", "exit"} /\ undo[x] # <<>> /\ reg' = Without(x, w)
      /\ undo' = [undo EXCEPT ![x] = Tail(undo[x])]
      /\ UNCHANGED <<st, at, ok, major, loads, opened, wild, failed>>
  BY DEF TakeBack
<1>2. undo'[x] = Tail(undo[x]) /\ Frame(x)
  BY <1>1, DriverTypes DEF Frame
<1>4. /\ w \in What /\ Has(undo[x], w) /\ undo'[x] \in Seq(What) /\ NoDups(undo'[x])
      /\ \A v : Has(undo'[x], v) <=> Has(undo[x], v) /\ v # w
      /\ Orderly(x, undo[x]) => Orderly(x, undo'[x])
  <2>1. undo[x] \in Seq(What) /\ NoDups(undo[x])
    <3>1. DriverOk(x) /\ undo[x] \in Seq(What)
      BY DrvTypes
    <3>2. QED
      BY <1>1, <3>1, Zenon DEF DriverOk
  <2>2. QED
    BY <1>1, <1>2, <2>1, Shorter
<1>5. st[x] = "exit" => Orderly(x, undo[x])
  <2>1. DriverOk(x)
    BY DrvTypes
  <2>2. QED
    BY <2>1, Zenon DEF DriverOk
<1> HIDE DEF w
<1> DEFINE hits == {i \in 1..Len(reg) : Matches(x, w, reg[i])}
           k == CHOOSE i \in hits : \A r \in hits : i <= r
<1>6. reg \in Seq(Entries) /\ Len(reg) \in Nat
  BY DriverTypes
<1>7. CASE hits = {}
  <2>1. reg' = reg
    BY <1>1, <1>7 DEF Without
  <2>2. QED
    BY <1>1, <1>2, <1>4, <1>5, <1>6, <1>7, <2>1 DEF w
<1>8. CASE hits # {}
  <2>1. reg' = RemoveAt(reg, k)
    BY <1>1, <1>8 DEF Without
  <2>2. hits \subseteq Nat /\ hits \subseteq 1..Len(reg)
    OBVIOUS
  <2>3. k \in hits /\ \A r \in hits : k <= r
    <3> HIDE DEF hits
    <3>1. QED
      BY <1>8, <2>2, FirstHit
  <2> HIDE DEF k
  <2>4. /\ reg' \in Seq(Entries) /\ Len(reg') = Len(reg) - 1 /\ k \in 1..Len(reg)
        /\ \A i \in 1..Len(reg') : reg'[i] = reg[At(k, i)]
        /\ \A r \in 1..Len(reg) : r # k => \E i \in 1..Len(reg') : reg'[i] = reg[r]
    <3>1. k \in 1..Len(reg)
      BY <2>2, <2>3
    <3>2. /\ RemoveAt(reg, k) \in Seq(Entries) /\ Len(RemoveAt(reg, k)) = Len(reg) - 1
          /\ \A i \in 1..(Len(reg) - 1) : RemoveAt(reg, k)[i] = reg[IF i < k THEN i ELSE i + 1]
          /\ \A r \in 1..Len(reg) : r # k => \E i \in 1..(Len(reg) - 1) : RemoveAt(reg, k)[i] = reg[r]
      BY <1>6, <3>1, Removed
    <3>3. QED
      BY <2>1, <3>1, <3>2 DEF At
  <2>5. \A i \in 1..Len(reg') : At(k, i) \in 1..Len(reg) /\ At(k, i) # k
    BY <1>6, <2>4 DEF At
  <2>6. \A i, r \in 1..Len(reg') : At(k, i) < At(k, r) <=> i < r
    BY <1>6, <2>4 DEF At
  <2>7. Loses(k)
    BY <2>4, <2>5, <2>6 DEF Loses
  <2>8. Matches(x, w, reg[k]) /\ \A i \in 1..Len(reg) : Matches(x, w, reg[i]) => k <= i
    BY <2>3
  <2> HIDE DEF hits
  <2>9. QED
    BY <1>1, <1>2, <1>4, <1>5, <2>4, <2>7, <2>8 DEF w
<1>9. QED
  BY <1>7, <1>8

\* Two drivers that may have a cdev have different majors.
LEMMA CdevOf ==
  ASSUME NEW d \in Drivers, NEW w \in All(d), IsCdev(w)
  PROVE  /\ d \in Numbered => w \in {"cdev", "cdev2"}
         /\ d \notin Numbered => d \in {"char", "first", "misc"}
         /\ \A v \in All(d) : IsCdev(v) /\ (v = "cdev2" <=> w = "cdev2") => v = w
  BY AllIs DEF Drivers, Numbered, IsCdev

LEMMA StaticCdev ==
  ASSUME NEW d \in {"char", "first", "misc"}, NEW x \in {"char", "first", "misc"}, Static(d) = Static(x)
  PROVE  d = x
  BY DEF Static

\* A driver with a cdev of its own has its numbers.
LEMMA CdevHasRegion ==
  ASSUME DrvInv, NEW d \in Driver, NEW c, IsCdev(c), d \in Numbered,
         (st[d] \in {"init", "live"} /\ c \in ok[d]) \/ (st[d] = "exit" /\ Has(undo[d], c))
  PROVE  HasRegion(d)
<1>1. DriverOk(d) /\ d \in Drivers
  BY DrvTypes
<1>2. CASE st[d] = "init" /\ c \in ok[d]
  <2>1. at[d] \in 1..Len(InitOf(d)) /\ c \in Gets(d, at[d])
    BY <1>1, <1>2, Zenon DEF DriverOk
  <2>2. at[d] # 1
    BY <1>1, <2>1, GetsOf
  <2>3. at[d] > 1
    BY <2>1, <2>2, DriverTypes
  <2>4. "region" \in ok[d]
    BY <1>1, <1>2, <2>3, Zenon DEF DriverOk
  <2>5. QED
    BY <1>2, <2>4 DEF HasRegion
<1>3. CASE st[d] = "live" /\ c \in ok[d]
  <2>1. "region" \in ok[d]
    BY <1>1, <1>3 DEF DriverOk
  <2>2. QED
    BY <1>3, <2>1 DEF HasRegion
<1>4. CASE st[d] = "exit" /\ Has(undo[d], c)
  <2>1. Orderly(d, undo[d])
    BY <1>1, <1>4, Zenon DEF DriverOk
  <2>2. c \in {"cdev", "cdev2"}
    BY <1>1, <1>4, <2>1, CdevOf DEF Orderly
  <2>3. Before(undo[d], c, "region")
    BY <2>1, <2>2 DEF Orderly
  <2>4. Has(undo[d], "region")
    BY <1>4, <2>3, BeforeHas
  <2>5. QED
    BY <1>4, <2>4 DEF HasRegion
<1>5. QED
  BY <1>2, <1>3, <1>4

\* While exit() runs, and for everything an error path does not forget, what
\* is taken back is what the driver itself has registered.
LEMMA OwnHit ==
  ASSUME DrvInv, NEW x \in Driver, NEW w \in What, Has(undo[x], w),
         st[x] = "exit" \/ (st[x] = "fail" /\ w \notin Forgotten(x)),
         NEW i \in 1..Len(reg), reg[i].by = Load(x), reg[i].what = w,
         NEW k \in 1..Len(reg), Matches(x, w, reg[k]),
         \A r \in 1..Len(reg) : Matches(x, w, reg[r]) => k <= r
  PROVE  k = i
<1>1. DriverOk(x) /\ x \in Drivers
  BY DrvTypes
<1>2. ASSUME ~IsCdev(w) PROVE k = i
  <2>1. reg[k].what = w /\ reg[k].by = Load(x)
    BY <1>2 DEF Matches
  <2>2. reg[i].what = reg[k].what /\ reg[i].by = reg[k].by
    BY <2>1
  <2>3. QED
    BY <2>2, Zenon DEF DrvInv, Single
<1>3. ASSUME IsCdev(w) PROVE k = i
  <2>1. st[x] = "exit"
    <3>1. st[x] = "fail" => \A v : Has(undo[x], v) /\ IsCdev(v) => v \in Forgotten(x)
      BY <1>1, Zenon DEF DriverOk
    <3>2. QED
      BY <1>3, <3>1
  <2>2. w \in All(x)
    <3>1. EntryOk(reg[i])
      BY DEF DrvInv, RegOk
    <3>2. reg[i].by[1] = x
      BY DEF Load
    <3>3. QED
      BY <3>1, <3>2 DEF EntryOk
  <2>3. reg[i].key = Key(x, w, major[x])
    BY <2>1, OwnCurrent DEF Held
  <2>4. IsCdev(reg[k].what) /\ reg[k].key = Key(x, w, major[x])
    BY <1>3 DEF Matches
  <2>5. Matches(x, w, reg[i])
    BY <1>3, <2>3 DEF Matches
  <2>6. k <= i
    BY <2>5
  <2>7. CASE reg[k].by = Load(x)
    <3>1. Held(x, reg[k].what, reg[k].key)
      BY <2>1, <2>7, OwnCurrent
    <3>2. Key(x, reg[k].what, major[x]) = Key(x, w, major[x]) /\ reg[k].what \in ok[x]
      BY <2>4, <3>1 DEF Held
    <3>3. reg[k].what = "cdev2" <=> w = "cdev2"
      BY <1>3, <2>4, <3>2, CdevKeys
    <3>4. reg[k].what \in All(x)
      BY <1>1, <3>2, Zenon DEF DriverOk
    <3>5. reg[k].what = w
      BY <1>1, <1>3, <2>2, <2>4, <3>3, <3>4, CdevOf
    <3>6. reg[i].what = reg[k].what /\ reg[i].by = reg[k].by
      BY <2>7, <3>5
    <3>7. QED
      BY <3>6, Zenon DEF DrvInv, Single
  <2>8. CASE reg[k].by # Load(x) /\ x \in Numbered
    <3>1. HasRegion(x)
      BY <1>3, <2>1, <2>8, CdevHasRegion
    <3>2. i < k
      BY <1>3, <2>3, <2>4, <2>8, <3>1 DEF DrvInv, Newest, NewestOf
    <3>3. QED
      BY <2>6, <3>2, DriverTypes
  <2>9. CASE reg[k].by # Load(x) /\ x \notin Numbered
    <3> DEFINE y == reg[k].by[1]
    <3>1. EntryOk(reg[k]) /\ reg[k].by \in Loads /\ y \in Driver /\ y \in Drivers
      BY DriverTypes, LoadFacts, DrvTypes DEF DrvInv, RegOk
    <3> HIDE DEF y
    <3>2. PICK m \in Majors(y) : reg[k].key = Key(y, reg[k].what, m)
      BY <3>1 DEF EntryOk, y
    <3>3. major[x] = Static(x)
      BY <1>1, <2>9, Zenon DEF DriverOk
    <3>4. Key(y, reg[k].what, m) = Key(x, w, major[x])
      BY <2>4, <3>2
    <3>5. m = Static(x)
      BY <1>3, <2>4, <3>3, <3>4, CdevKeys
    <3>6. y \notin Numbered
      BY <1>1, <3>2, <3>5, StaticIs DEF Majors
    <3>7. Static(y) = Static(x)
      BY <3>2, <3>5, <3>6 DEF Majors
    <3>8. reg[k].what \in All(y)
      BY <3>1 DEF EntryOk, y
    <3>9. y \in {"char", "first", "misc"}
      BY <2>4, <3>1, <3>6, <3>8, CdevOf
    <3>10. x \in {"char", "first", "misc"}
      BY <1>1, <1>3, <2>2, <2>9, CdevOf
    <3>11. y = x
      BY <3>7, <3>9, <3>10, StaticCdev
    <3>12. ~Loaded(reg[k].by)
      BY <2>9, <3>11 DEF Loaded, y
    <3>13. reg[k].what \in Forgotten(x)
      BY <3>1, <3>11, <3>12 DEF EntryOk, y
    <3>14. Forgotten(x) = {}
      BY <1>1, <3>10, ForgottenBy
    <3>15. QED
      BY <3>13, <3>14
  <2>10. QED
    BY <2>7, <2>8, <2>9
<1>4. QED
  BY <1>2, <1>3

\* What the tables have after a step that takes back was there before; and
\* nothing goes but what the step takes.
LEMMA TakeReg ==
  ASSUME DrvInv, NEW x \in Driver, TakeBack(x)
  PROVE  /\ \A i \in 1..Len(reg') : \E r \in 1..Len(reg) : reg'[i] = reg[r]
         /\ \A r \in 1..Len(reg) : ~Matches(x, Head(undo[x]), reg[r]) => \E i \in 1..Len(reg') : reg'[i] = reg[r]
<1> DEFINE w == Head(undo[x])
<1> HIDE DEF w
<1>1. CASE reg' = reg
  BY <1>1
<1>2. ASSUME NEW k \in 1..Len(reg), Loses(k), Matches(x, w, reg[k])
      PROVE  /\ \A i \in 1..Len(reg') : \E r \in 1..Len(reg) : reg'[i] = reg[r]
             /\ \A r \in 1..Len(reg) : ~Matches(x, w, reg[r]) => \E i \in 1..Len(reg') : reg'[i] = reg[r]
  BY <1>2 DEF Loses
<1>3. QED
  BY <1>1, <1>2, TakeFacts DEF w

LEMMA RegTake ==
  ASSUME DrvInv, NEW x \in Driver, TakeBack(x)
  PROVE  RegOk'
<1> DEFINE w == Head(undo[x])
<1>1. /\ Frame(x) /\ UNCHANGED <<st, at, ok, major, loads, opened, wild, failed>>
      /\ st[x] \in {"fail", "exit"} /\ w \in What /\ Has(undo[x], w)
      /\ \A v : Has(undo'[x], v) <=> Has(undo[x], v) /\ v # w
      /\ \/ reg' = reg /\ \A i \in 1..Len(reg) : ~Matches(x, w, reg[i])
         \/ \E k \in 1..Len(reg) : /\ Loses(k) /\ Matches(x, w, reg[k])
                                   /\ \A i \in 1..Len(reg) : Matches(x, w, reg[i]) => k <= i
  BY TakeFacts
<1> HIDE DEF w
<1>2. ASSUME NEW r \in 1..Len(reg), reg[r].by = Load(x), st[x] = "exit" \/ w \notin Forgotten(x),
             NEW i \in 1..Len(reg'), reg'[i] = reg[r]
      PROVE  reg[r].what # w
  <2>1. SUFFICES ASSUME reg[r].what = w PROVE FALSE
    OBVIOUS
  <2>2. Held(x, w, reg[r].key)
    BY <1>1, <1>2, <2>1, OwnCurrent
  <2>3. Matches(x, w, reg[r])
    <3>1. CASE IsCdev(w)
      BY <2>1, <2>2, <3>1 DEF Matches, Held
    <3>2. CASE ~IsCdev(w)
      BY <1>2, <2>1, <3>2 DEF Matches
    <3>3. QED
      BY <3>1, <3>2
  <2>4. PICK k \in 1..Len(reg) : /\ Loses(k) /\ Matches(x, w, reg[k])
                                 /\ \A a \in 1..Len(reg) : Matches(x, w, reg[a]) => k <= a
    BY <1>1, <2>3
  <2>5. At(k, i) \in 1..Len(reg) /\ At(k, i) # k /\ reg'[i] = reg[At(k, i)]
    BY <2>4 DEF Loses
  <2>6. k = r
    BY <1>1, <1>2, <2>1, <2>4, OwnHit
  <2>7. At(k, i) = k
    <3> DEFINE a == At(k, i)
    <3> HIDE DEF a
    <3>1. a \in 1..Len(reg) /\ reg[a].by = Load(x) /\ reg[a].what = w
      BY <1>2, <2>1, <2>5 DEF a
    <3>2. k = a
      BY <1>1, <1>2, <2>4, <3>1, OwnHit
    <3>3. QED
      BY <3>2 DEF a
  <2>8. QED
    BY <2>5, <2>7
<1>3. ASSUME NEW i \in 1..Len(reg') PROVE EntryOk(reg[i])'
  <2>1. PICK r \in 1..Len(reg) : reg'[i] = reg[r]
    BY TakeReg
  <2>2. PICK e \in Entries : e = reg[r] /\ EntryOk(e)
    BY DriverTypes DEF DrvInv, RegOk
  <2>3. CASE e.by[1] # x
    <3>1. EntryOk(e)'
      BY <1>1, <2>2, <2>3, OtherEntry
    <3>2. QED
      BY <2>1, <2>2, <3>1
  <2>4. CASE e.by[1] = x
    <3>1. Loaded(e.by)' <=> Loaded(e.by)
      BY <1>1 DEF Loaded, Load
    <3>2. ASSUME Loaded(e.by) PROVE Held(x, e.what, e.key)'
      <4>1. e.by = Load(x)
        BY <2>4, <3>2 DEF Loaded
      <4>2. Held(x, e.what, e.key)
        BY <2>2, <2>4, <3>2 DEF EntryOk
      <4>3. st[x] = "exit" => Has(undo'[x], e.what)
        <5>1. st[x] = "exit" => e.what # w
          BY <1>2, <2>1, <2>2, <4>1
        <5>2. QED
          BY <1>1, <4>2, <5>1 DEF Held
      <4>4. st[x] = "fail" => Has(undo'[x], e.what) \/ e.what \in Forgotten(x)
        <5>1. w \notin Forgotten(x) => e.what # w
          BY <1>2, <2>1, <2>2, <4>1
        <5>2. QED
          BY <1>1, <4>2, <5>1 DEF Held
      <4>5. QED
        BY <1>1, <4>2, <4>3, <4>4 DEF Held
    <3>3. EntryOk(e)'
      BY <1>1, <2>2, <2>4, <3>1, <3>2 DEF EntryOk
    <3>4. QED
      BY <2>1, <2>2, <3>3
  <2>5. QED
    BY <2>3, <2>4
<1>4. QED
  BY <1>3 DEF RegOk

LEMMA AllTake ==
  ASSUME DrvInv, NEW x \in Driver, TakeBack(x)
  PROVE  AllOk' /\ \A d \in Driver : HasRegion(d)' => HasRegion(d)
<1> DEFINE w == Head(undo[x])
<1>1. /\ Frame(x) /\ UNCHANGED <<st, at, ok, major, loads, opened, wild, failed>>
      /\ st[x] \in {"fail", "exit"} /\ w \in What /\ NoDups(undo'[x])
      /\ \A v : Has(undo'[x], v) <=> Has(undo[x], v) /\ v # w
      /\ st[x] = "exit" => Orderly(x, undo[x]) /\ Orderly(x, undo'[x])
  BY TakeFacts
<1>2. \A r \in 1..Len(reg) : ~Matches(x, w, reg[r]) => \E i \in 1..Len(reg') : reg'[i] = reg[r]
  BY TakeReg
<1> HIDE DEF w
<1>3. ASSUME NEW d \in Driver \ {x} PROVE DriverOk(d)' /\ (HasRegion(d)' => HasRegion(d))
  <2>1. ASSUME HasRegion(d) PROVE \E i \in 1..Len(reg') : reg'[i] = Entry("region", <<major[d]>>, Load(d))
    <3>1. PICK r \in 1..Len(reg) : reg[r] = Entry("region", <<major[d]>>, Load(d))
      BY <2>1, RegionHeld
    <3>2. reg[r].what = "region" /\ reg[r].by = Load(d) /\ Load(d) # Load(x)
      BY <3>1 DEF Entry, Load
    <3>3. ~Matches(x, w, reg[r])
      BY <3>2 DEF Matches, IsCdev
    <3>4. QED
      BY <1>2, <3>1, <3>3
  <2>2. QED
    BY <1>1, <2>1, OtherDriver
<1>4. DriverOk(x) /\ Load(x)' = Load(x)
  BY <1>1, DrvTypes DEF Load
<1>5. HasRegion(x)' => HasRegion(x) /\ w # "region"
  BY <1>1 DEF HasRegion
<1>6. HasRegion(x)' => /\ major'[x] \in Dynamic
                       /\ \E i \in 1..Len(reg') : reg'[i] = Entry("region", <<major'[x]>>, Load(x)')
  <2>1. SUFFICES ASSUME HasRegion(x), w # "region"
                 PROVE  /\ major[x] \in Dynamic
                        /\ \E i \in 1..Len(reg') : reg'[i] = Entry("region", <<major[x]>>, Load(x))
    BY <1>1, <1>4, <1>5
  <2>2. PICK r \in 1..Len(reg) : reg[r] = Entry("region", <<major[x]>>, Load(x))
    BY <2>1, RegionHeld
  <2>3. reg[r].what = "region"
    BY <2>2 DEF Entry
  <2>4. ~Matches(x, w, reg[r])
    BY <2>1, <2>3 DEF Matches, IsCdev
  <2>5. QED
    BY <1>2, <2>1, <2>2, <2>4, RegionHeld
<1>7. DriverOk(x)'
  <2>1. /\ ok[x] \subseteq All(x)
        /\ st[x] # "out" => loads[x] \in 1..MaxLoads
        /\ x \in Numbered /\ ((st[x] = "init" /\ at[x] > 1) \/ st[x] \in {"live", "exit"}) => "region" \in ok[x]
        /\ st[x] = "fail" => Load(x) \in failed /\ \A v : Has(undo[x], v) /\ IsCdev(v) => v \in Forgotten(x)
        /\ x \notin Numbered => major[x] = Static(x)
    BY <1>4, Zenon DEF DriverOk
  <2>2. st[x] = "fail" => Load(x) \in failed /\ \A v : Has(undo'[x], v) /\ IsCdev(v) => v \in Forgotten(x)
    BY <1>1, <2>1
  <2>3. st'[x] # "init"
    BY <1>1
  <2>4. QED
    BY <1>1, <1>4, <1>6, <2>1, <2>2, <2>3, Zenon DEF DriverOk
<1>8. QED
  BY <1>3, <1>5, <1>7 DEF AllOk

LEMMA OrderTake ==
  ASSUME DrvInv, NEW x \in Driver, TakeBack(x)
  PROVE  OneRegion' /\ Single' /\ Newest'
<1>1. \A d \in Driver : (HasRegion(d)' => HasRegion(d)) /\ Load(d)' = Load(d)
  BY AllTake, TakeFacts DEF Load
<1>2. CASE reg' = reg
  BY <1>1, <1>2 DEF DrvInv, OneRegion, Single, Newest, NewestOf
<1>3. ASSUME NEW k \in 1..Len(reg), Loses(k) PROVE OneRegion' /\ Single' /\ Newest'
  <2>1. /\ \A i \in 1..Len(reg') : At(k, i) \in 1..Len(reg) /\ reg'[i] = reg[At(k, i)]
        /\ \A i, r \in 1..Len(reg') : At(k, i) < At(k, r) <=> i < r
    BY <1>3 DEF Loses
  <2>2. \A i, r \in 1..Len(reg') : At(k, i) = At(k, r) => i = r
    BY <1>3, DriverTypes DEF At
  <2>3. OneRegion'
    <3>1. ASSUME NEW m \in Dynamic, NEW i \in 1..Len(reg'), NEW r \in 1..Len(reg'),
                 reg'[i].what = "region", reg'[r].what = "region", reg'[i].key = <<m>>, reg'[r].key = <<m>>
          PROVE  i = r
      <4>1. At(k, i) = At(k, r)
        BY <2>1, <3>1 DEF DrvInv, OneRegion
      <4>2. QED
        BY <2>2, <4>1
    <3>2. QED
      BY <3>1 DEF OneRegion
  <2>4. Single'
    <3>1. ASSUME NEW i \in 1..Len(reg'), NEW r \in 1..Len(reg'),
                 reg'[i].what = reg'[r].what, reg'[i].by = reg'[r].by
          PROVE  i = r
      <4>1. /\ At(k, i) \in 1..Len(reg) /\ At(k, r) \in 1..Len(reg)
            /\ reg[At(k, i)].what = reg[At(k, r)].what /\ reg[At(k, i)].by = reg[At(k, r)].by
        BY <2>1, <3>1
      <4>2. At(k, i) = At(k, r)
        BY <4>1, Zenon DEF DrvInv, Single
      <4>3. QED
        BY <2>2, <4>2
    <3>2. QED
      BY <3>1 DEF Single
  <2>5. Newest'
    <3>1. ASSUME NEW d \in Driver, HasRegion(d)', NEW i \in 1..Len(reg'), NEW r \in 1..Len(reg'),
                 IsCdev(reg'[i].what), IsCdev(reg'[r].what), reg'[i].key = reg'[r].key,
                 reg'[i].by = Load(d), reg'[r].by # Load(d)
          PROVE  i < r
      <4>1. HasRegion(d)
        BY <1>1, <3>1
      <4>2. \A a, b \in 1..Len(reg) :
               IsCdev(reg[a].what) /\ IsCdev(reg[b].what) /\ reg[a].key = reg[b].key
                 /\ reg[a].by = Load(d) /\ reg[b].by # Load(d) => a < b
        BY <4>1 DEF DrvInv, Newest, NewestOf
      <4>3. /\ At(k, i) \in 1..Len(reg) /\ At(k, r) \in 1..Len(reg)
            /\ reg'[i] = reg[At(k, i)] /\ reg'[r] = reg[At(k, r)]
        BY <2>1
      <4>4. At(k, i) < At(k, r)
        BY <3>1, <4>2, <4>3
      <4>5. QED
        BY <2>1, <4>4
    <3>2. QED
      BY <1>1, <3>1 DEF Newest, NewestOf
  <2>6. QED
    BY <2>3, <2>4, <2>5
<1>4. QED
  BY <1>2, <1>3, TakeFacts

\* Of two drivers that have their cdevs, neither takes away the other's.
LEMMA NotOthers ==
  ASSUME DrvInv, NEW x \in Driver, NEW d \in Driver, d # x, NEW w, NEW c, IsCdev(w), IsCdev(c),
         st[x] = "exit", Has(undo[x], w),
         (st[d] \in {"init", "live"} /\ c \in ok[d]) \/ (st[d] = "exit" /\ Has(undo[d], c)),
         c \in All(d), w \in All(x)
  PROVE  Key(d, c, major[d]) # Key(x, w, major[x])
<1>1. SUFFICES ASSUME major[d] = major[x] PROVE FALSE
  BY CdevKeys
<1>2. d \in Drivers /\ x \in Drivers /\ DriverOk(d) /\ DriverOk(x)
  BY DrvTypes
<1>3. d \in Numbered => HasRegion(d)
  BY CdevHasRegion
<1>4. x \in Numbered => HasRegion(x)
  BY CdevHasRegion
<1>5. /\ d \in Numbered => major[d] \in Dynamic
      /\ x \in Numbered => major[x] \in Dynamic
  BY <1>3, <1>4, RegionHeld
<1>6. /\ d \notin Numbered => major[d] = Static(d) /\ major[d] \notin Dynamic
      /\ x \notin Numbered => major[x] = Static(x) /\ major[x] \notin Dynamic
  BY <1>2, StaticIs DEF DriverOk
<1>7. CASE d \in Numbered /\ x \in Numbered
  BY <1>1, <1>3, <1>4, <1>7, TwoRegions
<1>8. CASE d \notin Numbered /\ x \notin Numbered
  <2>1. d \in {"char", "first", "misc"} /\ x \in {"char", "first", "misc"}
    BY <1>2, <1>8, CdevOf
  <2>2. Static(d) = Static(x)
    BY <1>1, <1>6, <1>8
  <2>3. QED
    BY <2>1, <2>2, StaticCdev
<1>9. QED
  BY <1>1, <1>5, <1>6, <1>7, <1>8

LEMMA ServedTake ==
  ASSUME DrvInv, NEW x \in Driver, TakeBack(x)
  PROVE  CdevsStay'
<1> DEFINE w == Head(undo[x])
<1>1. /\ Frame(x) /\ UNCHANGED <<st, at, ok, major, loads, opened, wild, failed>>
      /\ st[x] \in {"fail", "exit"} /\ w \in What /\ Has(undo[x], w)
      /\ \A v : Has(undo'[x], v) <=> Has(undo[x], v) /\ v # w
      /\ st[x] = "exit" => Orderly(x, undo[x])
  BY TakeFacts
<1>2. \A r \in 1..Len(reg) : ~Matches(x, w, reg[r]) => \E i \in 1..Len(reg') : reg'[i] = reg[r]
  BY TakeReg
<1> HIDE DEF w
<1>3. SUFFICES ASSUME failed = {}, NEW d \in Driver, NEW c \in {"cdev", "cdev2"}, c \in ok[d],
                      st[d] \in {"init", "live"} \/ (st[d] = "exit" /\ Has(undo'[d], c))
               PROVE  \E i \in 1..Len(reg') : reg'[i].what = c /\ reg'[i].by = Load(d)
  BY <1>1 DEF CdevsStay, ServedOf, Load
<1>4. st[d] \in {"init", "live"} \/ (st[d] = "exit" /\ Has(undo[d], c))
  BY <1>1, <1>3 DEF Frame
<1>5. PICK r \in 1..Len(reg) : reg[r].what = c /\ reg[r].by = Load(d)
  BY <1>3, <1>4 DEF DrvInv, CdevsStay, ServedOf
<1>6. st[x] = "exit" /\ w \in All(x)
  <2>1. DriverOk(x)
    BY DrvTypes
  <2>2. st[x] = "fail" => Load(x) \in failed
    BY <2>1, Zenon DEF DriverOk
  <2>3. st[x] = "exit"
    BY <1>1, <1>3, <2>2
  <2>4. QED
    BY <1>1, <2>3 DEF Orderly
<1>7. reg[r].key = Key(d, c, major[d]) /\ c \in All(d) /\ IsCdev(c)
  <2>1. st[d] # "out"
    BY <1>4
  <2>2. Held(d, reg[r].what, reg[r].key)
    BY <1>5, <2>1, OwnCurrent
  <2>3. DriverOk(d)
    BY DrvTypes
  <2>4. ok[d] \subseteq All(d)
    BY <2>3, Zenon DEF DriverOk
  <2>5. QED
    BY <1>3, <1>5, <2>2, <2>4 DEF Held, IsCdev
<1>8. ~Matches(x, w, reg[r])
  <2>1. SUFFICES ASSUME Matches(x, w, reg[r]) PROVE FALSE
    OBVIOUS
  <2>2. CASE d = x
    <3>1. c # w
      BY <1>1, <1>3, <1>6, <2>2
    <3>2. IsCdev(w) /\ reg[r].key = Key(x, w, major[x])
      BY <1>5, <2>1, <3>1 DEF Matches
    <3>3. c = "cdev2" <=> w = "cdev2"
      BY <1>7, <2>2, <3>2, CdevKeys
    <3>4. x \in Drivers
      BY DrvTypes
    <3>5. QED
      BY <1>6, <1>7, <2>2, <3>1, <3>2, <3>3, <3>4, CdevOf
  <2>3. CASE d # x
    <3>1. Load(d) # Load(x)
      BY <2>3 DEF Load
    <3>2. IsCdev(w) /\ reg[r].key = Key(x, w, major[x])
      BY <1>5, <2>1, <3>1 DEF Matches
    <3>3. QED
      BY <1>1, <1>3, <1>4, <1>6, <1>7, <2>3, <3>2, NotOthers
  <2>4. QED
    BY <2>2, <2>3
<1>9. QED
  BY <1>2, <1>5, <1>8

LEMMA TakePreserves ==
  ASSUME DrvInv, NEW x \in Driver, TakeBack(x)
  PROVE  DrvInv'
<1>1. /\ UNCHANGED <<st, at, ok, major, loads, opened, wild, failed>>
      /\ undo' = [undo EXCEPT ![x] = Tail(undo[x])] /\ undo'[x] \in Seq(What) /\ reg' \in Seq(Entries)
  BY TakeFacts
<1>2. OpenInv' /\ NoWildOpen'
  BY <1>1 DEF DrvInv, OpenInv, OpenInCode, NoWildOpen, Loaded, Load
<1>3. undo' \in [Driver -> Seq(What)]
  BY <1>1, DriverTypes
<1>4. \A i \in 1..Len(reg') : reg'[i].what \in What /\ reg'[i].by \in Loads
  <2>1. \A i \in 1..Len(reg') : reg'[i] \in Entries
    BY <1>1
  <2>2. QED
    BY <2>1 DEF Entries
<1>5. TypeOK'
  BY <1>1, <1>3, <1>4, DriverTypes DEF TypeOK
<1>6. QED
  BY <1>1, <1>2, <1>5, RegTake, AllTake, OrderTake, ServedTake DEF DrvInv

(* The theorems.                                                           *)

LEMMA DrvInvInit == Init => DrvInv
<1>1. SUFFICES ASSUME Init PROVE DrvInv
  OBVIOUS
<1>2. /\ st = [d \in Driver |-> "out"] /\ at = [d \in Driver |-> 1]
      /\ ok = [d \in Driver |-> {}] /\ undo = [d \in Driver |-> <<>>]
      /\ major = [d \in Driver |-> Static(d)]
      /\ reg = <<>> /\ opened = {} /\ wild = FALSE /\ failed = {}
      /\ \E group \in Together : loads = [d \in Driver |-> IF d \in group THEN 0 ELSE MaxLoads]
  BY <1>1 DEF Init
<1>3. loads \in [Driver -> 0..MaxLoads]
  BY <1>2, DriverAssumption DEF DriverAssumption
<1>4. \A d \in Driver : Static(d) \in {0, 10, 202, 222}
  BY DEF Static
<1>6. Len(reg) = 0 /\ 1..Len(reg) = {} /\ reg \in Seq(Entries)
  BY <1>2
<1>5. TypeOK /\ reg \in Seq(Entries)
  <2>1. /\ st \in [Driver -> {"out", "init", "live", "fail", "exit"}] /\ at \in [Driver -> 1..7]
        /\ ok \in [Driver -> SUBSET What] /\ major \in [Driver -> Dynamic \cup {0, 10, 202, 222}]
    BY <1>2, <1>4
  <2>2. undo \in [Driver -> Seq(What)]
    <3>1. <<>> \in Seq(What)
      OBVIOUS
    <3>2. QED
      BY <1>2, <3>1
  <2>3. opened \subseteq Loads /\ wild \in BOOLEAN /\ failed \subseteq Loads
    BY <1>2
  <2>4. QED
    BY <1>3, <1>6, <2>1, <2>2, <2>3 DEF TypeOK
<1>7. RegOk /\ OneRegion /\ Single /\ Newest
  BY <1>6 DEF RegOk, OneRegion, Single, Newest, NewestOf
<1>8. ASSUME NEW d \in Driver PROVE DriverOk(d)
  <2>1. ok[d] = {} /\ st[d] = "out" /\ major[d] = Static(d)
    BY <1>2
  <2>2. ~HasRegion(d)
    BY <2>1 DEF HasRegion
  <2>3. QED
    BY <2>1, <2>2 DEF DriverOk
<1>9. CdevsStay /\ OpenInv /\ NoWildOpen
  BY <1>2 DEF CdevsStay, ServedOf, OpenInv, OpenInCode, NoWildOpen
<1>10. QED
  BY <1>5, <1>7, <1>8, <1>9 DEF DrvInv, AllOk

LEMMA DrvInvStep == DrvInv /\ [Next]_vars => DrvInv'
<1>1. SUFFICES ASSUME DrvInv, [Next]_vars PROVE DrvInv'
  OBVIOUS
<1>2. CASE UNCHANGED vars
  <2>1. /\ UNCHANGED <<st, at, ok, undo, major, loads, reg, failed>> /\ opened' = opened /\ wild' = wild
    BY <1>2 DEF vars
  <2>2. TypeOK' /\ NoWildOpen' /\ OpenInv'
    BY <1>1, <2>1 DEF DrvInv, TypeOK, NoWildOpen, OpenInv, OpenInCode, Loaded, Load
  <2>3. QED
    BY <1>1, <2>1, <2>2, Still DEF DrvInv
<1>3. ASSUME NEW d \in Driver, Insmod(d) PROVE DrvInv'
  BY <1>1, <1>3, InsmodPreserves
<1>4. ASSUME NEW d \in Driver, InitStep(d) PROVE DrvInv'
  BY <1>1, <1>4, InitPreserves
<1>5. ASSUME NEW d \in Driver, Rmmod(d) PROVE DrvInv'
  BY <1>1, <1>5, RmmodPreserves
<1>6. ASSUME NEW d \in Driver, TakeBack(d) PROVE DrvInv'
  BY <1>1, <1>6, TakePreserves
<1>7. ASSUME NEW d \in Driver, Gone(d) PROVE DrvInv'
  BY <1>1, <1>7, GonePreserves
<1>8. ASSUME NEW key \in Nodes, Open(key) PROVE DrvInv'
  BY <1>1, <1>8, OpenPreserves
<1>9. ASSUME NEW l \in opened, Close(l) PROVE DrvInv'
  BY <1>1, <1>9, ClosePreserves
<1>10. QED
  BY <1>1, <1>2, <1>3, <1>4, <1>5, <1>6, <1>7, <1>8, <1>9 DEF Next

LEMMA DrvInvAlways == Spec => []DrvInv
  BY DrvInvInit, DrvInvStep, PTL DEF Spec

\* An entry of the tables, when no load has failed, is of a driver that has
\* all that the node it made leads to.
LEMMA NodeOwner ==
  ASSUME DrvInv, failed = {}, NEW i \in 1..Len(reg), NEW w \in {"node", "node2"}, NEW c,
         reg[i].what = w, c = (IF w = "node" THEN "cdev" ELSE "cdev2"), c \in ok[reg[i].by[1]]
  PROVE  LET d == reg[i].by[1] IN
         /\ d \in Driver /\ reg[i].by = Load(d) /\ HasRegion(d)
         /\ \E k \in 1..Len(reg) : reg[k].what = c /\ reg[k].by = Load(d) /\ reg[k].key = reg[i].key
<1> DEFINE d == reg[i].by[1]
<1>1. EntryOk(reg[i]) /\ Loaded(reg[i].by)
  BY DEF DrvInv, RegOk, EntryOk
<1>2. d \in Driver /\ d \in Drivers /\ DriverOk(d) /\ reg[i].by = Load(d) /\ st[d] # "out"
  BY <1>1, DriverTypes, LoadFacts, DrvTypes DEF Loaded
<1>3. Held(d, w, reg[i].key) /\ w \in All(d)
  BY <1>1 DEF EntryOk
<1>4. c \in ok[d] /\ c \in {"cdev", "cdev2"} /\ IsCdev(c)
  BY DEF IsCdev
<1> HIDE DEF d
<1>5. d \in Numbered
  BY <1>2, <1>3, AllIs DEF Drivers, Numbered
<1>6. st[d] \in {"init", "live"} \/ (st[d] = "exit" /\ Has(undo[d], c))
  <2>1. st[d] = "fail" => Load(d) \in failed
    BY <1>2, Zenon DEF DriverOk
  <2>2. st[d] \in {"init", "live", "exit"}
    BY <1>2, <2>1, DriverTypes
  <2>3. st[d] = "exit" => Has(undo[d], c)
    <3>1. SUFFICES ASSUME st[d] = "exit" PROVE Has(undo[d], c)
      OBVIOUS
    <3>2. Orderly(d, undo[d])
      BY <1>2, <3>1, Zenon DEF DriverOk
    <3>3. Before(undo[d], w, c)
      BY <3>2 DEF Orderly
    <3>4. Has(undo[d], w)
      BY <1>3, <3>1 DEF Held
    <3>5. QED
      BY <3>3, <3>4, BeforeHas
  <2>4. QED
    BY <2>2, <2>3
<1>7. HasRegion(d)
  BY <1>2, <1>4, <1>5, <1>6, CdevHasRegion
<1>8. PICK k \in 1..Len(reg) : reg[k].what = c /\ reg[k].by = Load(d)
  BY <1>2, <1>4, <1>6 DEF DrvInv, CdevsStay, ServedOf
<1>9. Held(d, c, reg[k].key)
  BY <1>2, <1>8, OwnCurrent
<1>10. Key(d, c, major[d]) = Key(d, w, major[d])
  BY DEF Key
<1>11. reg[k].key = reg[i].key
  BY <1>3, <1>9, <1>10 DEF Held
<1>12. QED
  BY <1>2, <1>7, <1>8, <1>11 DEF d

LEMMA OwnerAnswers ==
  ASSUME DrvInv PROVE NodeReaches
<1>1. SUFFICES ASSUME failed = {}, NEW i \in 1..Len(reg), NEW w \in {"node", "node2"}, reg[i].what = w,
                      (IF w = "node" THEN "cdev" ELSE "cdev2") \in ok[reg[i].by[1]]
               PROVE  Found(reg[i].key) # {} /\ Reached(reg[i].key) = reg[i].by
  BY DEF NodeReaches
<1> DEFINE d == reg[i].by[1]
           c == IF w = "node" THEN "cdev" ELSE "cdev2"
           key == reg[i].key
           h == CHOOSE a \in Found(key) : \A b \in Found(key) : a <= b
<1>2. /\ d \in Driver /\ reg[i].by = Load(d) /\ HasRegion(d)
      /\ \E k \in 1..Len(reg) : reg[k].what = c /\ reg[k].by = Load(d) /\ reg[k].key = key
  BY <1>1, NodeOwner
<1>3. c \in {"cdev", "cdev2"} /\ IsCdev(c)
  BY DEF IsCdev
<1> HIDE DEF d, c
<1>4. PICK k \in 1..Len(reg) : reg[k].what = c /\ reg[k].by = Load(d) /\ reg[k].key = key
  BY <1>2
<1>5. k \in Found(key) /\ Found(key) \subseteq 1..Len(reg) /\ Found(key) \subseteq Nat
  BY <1>3, <1>4 DEF Found
<1>6. h \in Found(key) /\ \A b \in Found(key) : h <= b
  BY <1>5, FirstHit
<1>7. Reached(key) = reg[h].by
  BY DEF Reached
<1> HIDE DEF h
<1>8. reg[h].by = Load(d)
  <2>1. SUFFICES ASSUME reg[h].by # Load(d) PROVE FALSE
    OBVIOUS
  <2>2. h \in 1..Len(reg) /\ IsCdev(reg[h].what) /\ reg[h].key = key
    BY <1>5, <1>6 DEF Found
  <2>3. k < h
    BY <1>2, <1>3, <1>4, <2>1, <2>2 DEF DrvInv, Newest, NewestOf
  <2>4. h <= k
    BY <1>5, <1>6
  <2>5. QED
    BY <1>5, <1>6, <2>3, <2>4
<1>9. QED
  BY <1>2, <1>5, <1>7, <1>8

\* Whatever the drivers do, their states, lists and entries keep their types.
THEOREM DriversTyped == Spec => []TypeOK
<1>1. DrvInv => TypeOK
  BY DEF DrvInv
<1>2. QED
  BY <1>1, DrvInvAlways, PTL

\* An open file belongs to a module that is in memory, or to a load whose
\* init function returned an error: rmmod, which .owner stops, never leaves
\* one behind.
THEOREM OpenFilesHaveCode == Spec => []OpenInCode
<1>1. DrvInv => OpenInCode
  BY DEF DrvInv, OpenInv
<1>2. QED
  BY <1>1, DrvInvAlways, PTL

\* However insmod, rmmod, open() and close() of the drivers interleave, no
\* open() goes into a freed cdev before some load has failed.
THEOREM WildOpenNeedsFailure == Spec => []NoWildOpen
<1>1. DrvInv => NoWildOpen
  BY DEF DrvInv
<1>2. QED
  BY <1>1, DrvInvAlways, PTL

\* Until a load fails, an open() of a node in /dev goes to the driver that
\* made the node, if that driver got its cdev.
THEOREM NodesReachTheirDriver == Spec => []NodeReaches
  BY OwnerAnswers, DrvInvAlways, PTL

\* What is in the kernel's tables of a module that is no longer there was
\* left by an error path that forgets it: an exit function leaves nothing.
THEOREM ExitLeavesNothing == Spec => []UnloadedClean
<1>1. DrvInv => UnloadedClean
  BY DEF DrvInv, RegOk, EntryOk, UnloadedClean
<1>2. QED
  BY <1>1, DrvInvAlways, PTL

-----------------------------------------------------------------------------
(* UdpEcho.                                                                *)

(* The messages a client can send, in order.                               *)

LEMMA SendableTo == ASSUME NEW c \in Client PROVE Sendable(c) \subseteq Nat \ {0}
  BY EchoAssumption DEF EchoAssumption, Sendable

LEMMA RankType ==
  ASSUME NEW c \in Client, NEW i \in Nat
  PROVE  IsFiniteSet({n \in Sendable(c) : n <= i}) /\ Rank(c, i) \in Nat
<1>1. Args[c] \in Nat
  BY EchoAssumption DEF EchoAssumption
<1>2. IsFiniteSet(1..Args[c])
  BY <1>1, FS_Interval
<1>3. {n \in Sendable(c) : n <= i} \subseteq 1..Args[c]
  BY DEF Sendable
<1>4. IsFiniteSet({n \in Sendable(c) : n <= i})
  BY <1>2, <1>3, FS_Subset
<1>5. QED
  BY <1>4, FS_CardinalityType DEF Rank

LEMMA RankNext ==
  ASSUME NEW c \in Client, NEW i \in Nat
  PROVE  Rank(c, i + 1) = Rank(c, i) + (IF i + 1 \in Sendable(c) THEN 1 ELSE 0)
<1> DEFINE S == {n \in Sendable(c) : n <= i}
           T == {n \in Sendable(c) : n <= i + 1}
<1>1. IsFiniteSet(S) /\ Sendable(c) \subseteq Nat \ {0} /\ i + 1 \notin S
  BY SendableTo, RankType
<1>2. T = IF i + 1 \in Sendable(c) THEN S \cup {i + 1} ELSE S
  BY <1>1
<1> HIDE DEF S, T
<1>3. Cardinality(S \cup {i + 1}) = Cardinality(S) + 1 /\ Cardinality(S) \in Nat
  BY <1>1, FS_AddElement, FS_CardinalityType
<1>4. Cardinality(T) = Cardinality(S) + (IF i + 1 \in Sendable(c) THEN 1 ELSE 0)
  BY <1>2, <1>3
<1>5. QED
  BY <1>4 DEF Rank, S, T

LEMMA RankGrows ==
  ASSUME NEW c \in Client, NEW i \in Nat, NEW k \in Nat
  PROVE  /\ i <= k => Rank(c, i) <= Rank(c, k)
         /\ i < k /\ k \in Sendable(c) => Rank(c, i) < Rank(c, k)
<1>1. ASSUME NEW n \in Nat, i <= n PROVE Rank(c, i) <= Rank(c, n)
  <2> DEFINE S == {m \in Sendable(c) : m <= i}
             T == {m \in Sendable(c) : m <= n}
  <2>1. Sendable(c) \subseteq Nat
    BY SendableTo
  <2>2. S \subseteq T
    BY <1>1, <2>1
  <2>3. IsFiniteSet(T)
    BY <1>1, RankType
  <2> HIDE DEF S, T
  <2>4. Cardinality(S) <= Cardinality(T)
    BY <2>2, <2>3, FS_Subset
  <2>5. QED
    BY <2>4 DEF Rank, S, T
<1>2. ASSUME i < k, k \in Sendable(c) PROVE Rank(c, i) < Rank(c, k)
  <2>1. k - 1 \in Nat /\ (k - 1) + 1 = k /\ i <= k - 1
    BY <1>2
  <2>2. Rank(c, k) = Rank(c, k - 1) + 1
    BY <1>2, <2>1, RankNext
  <2>3. Rank(c, i) <= Rank(c, k - 1) /\ Rank(c, i) \in Nat /\ Rank(c, k - 1) \in Nat
    BY <1>1, <2>1, RankType
  <2>4. QED
    BY <2>2, <2>3
<1>3. QED
  BY <1>1, <1>2

\* The message of rank k is the k-th that is sent.
LEMMA SentRank ==
  ASSUME NEW c \in Client, NEW i \in Sendable(c)
  PROVE  Sent(c, Rank(c, i)) = i /\ Rank(c, i) \in Nat \ {0}
<1>1. i \in Nat \ {0} /\ Sendable(c) \subseteq Nat
  BY SendableTo
<1>2. \A n \in Sendable(c) : Rank(c, n) = Rank(c, i) => n = i
  <2> SUFFICES ASSUME NEW n \in Sendable(c), n # i PROVE Rank(c, n) # Rank(c, i)
    OBVIOUS
  <2>1. n \in Nat /\ (n < i \/ i < n)
    BY <1>1
  <2>2. Rank(c, n) < Rank(c, i) \/ Rank(c, i) < Rank(c, n)
    BY <1>1, <2>1, RankGrows
  <2>3. Rank(c, n) \in Nat /\ Rank(c, i) \in Nat
    BY <1>1, <2>1, RankType
  <2>4. QED
    BY <2>2, <2>3
<1>3. Rank(c, i) # 0
  <2>1. Rank(c, 0) < Rank(c, i)
    BY <1>1, RankGrows
  <2>2. Rank(c, 0) \in Nat /\ Rank(c, i) \in Nat
    BY <1>1, RankType
  <2>3. QED
    BY <2>1, <2>2
<1>4. Rank(c, i) \in Nat
  BY <1>1, RankType
<1>5. QED
  BY <1>2, <1>3, <1>4 DEF Sent

-----------------------------------------------------------------------------
(* Datagrams and answers.                                                  *)

\* A datagram of a client is of a message it has sent.
Old(m) == /\ m \in Client \X Nat /\ m[2] \in Sendable(m[1]) /\ m[2] <= j[m[1]]
          /\ cpc[m[1]] # "connect" /\ (cpc[m[1]] = "write" => m[2] < j[m[1]])

\* A client has as many answers as it has sent messages before this one.
Echoes(c) == /\ Len(printed[c]) = Rank(c, j[c] - 1)
             /\ cpc[c] = "read" => j[c] \in Sendable(c)
             /\ \A k \in 1..Len(printed[c]) :
                   printed[c][k] \in Sendable(c) /\ Rank(c, printed[c][k]) <= k

EchoTypes == /\ j \in [Client -> Nat \ {0}] /\ printed \in [Client -> Seq(Nat)]
             /\ cpc \in [Client -> {"connect", "write", "read", "done", "failed"}]

PastInv == /\ EchoTypes
           /\ \A m \in requests \cup replies \cup peer : Old(m)
           /\ \A c \in Client : Echoes(c)

LEMMA PastStep == PastInv /\ [EchoNext]_echoVars => PastInv'
<1> SUFFICES ASSUME PastInv, [EchoNext]_echoVars PROVE PastInv'
  OBVIOUS
<1>1. ASSUME UNCHANGED cVars, requests' \cup replies' \cup peer' \subseteq requests \cup replies \cup peer
      PROVE  PastInv'
  <2>1. \A m \in requests \cup replies \cup peer : Old(m)'
    BY <1>1 DEF PastInv, Old, cVars
  <2>2. \A c \in Client : Echoes(c)'
    BY <1>1 DEF PastInv, Echoes, cVars
  <2>3. QED
    BY <1>1, <2>1, <2>2 DEF PastInv, EchoTypes, cVars
<1>2. ASSUME NEW c \in Client, CConnect(c) PROVE PastInv'
  <2>1. /\ cpc[c] = "connect" /\ UNCHANGED <<requests, replies, peer, j, printed>>
        /\ cpc' = cpc \/ \E to \in {"write", "failed"} : cpc' = [cpc EXCEPT ![c] = to]
    BY <1>2 DEF CConnect, sVars
  <2>2. EchoTypes'
    BY <2>1 DEF PastInv, EchoTypes
  <2>3. ASSUME NEW m \in requests \cup replies \cup peer PROVE Old(m)'
    BY <2>1 DEF PastInv, EchoTypes, Old
  <2>4. ASSUME NEW d \in Client PROVE Echoes(d)'
    BY <2>1 DEF PastInv, EchoTypes, Echoes
  <2>5. QED
    BY <2>1, <2>2, <2>3, <2>4 DEF PastInv
<1>3. ASSUME NEW c \in Client, CWrite(c) PROVE PastInv'
  <2>1. cpc[c] = "write" /\ j[c] \in Nat \ {0} /\ UNCHANGED <<replies, peer, printed>>
    BY <1>3 DEF CWrite, PastInv, EchoTypes, sVars
  <2>2. ASSUME NEW to \in {"done", "failed"}, cpc' = [cpc EXCEPT ![c] = to], UNCHANGED <<j, requests>>
        PROVE  PastInv'
    <3>1. EchoTypes'
      BY <2>1, <2>2 DEF PastInv, EchoTypes
    <3>2. ASSUME NEW m \in requests \cup replies \cup peer PROVE Old(m)'
      BY <2>1, <2>2 DEF PastInv, EchoTypes, Old
    <3>3. ASSUME NEW d \in Client PROVE Echoes(d)'
      BY <2>1, <2>2 DEF PastInv, EchoTypes, Echoes
    <3>4. QED
      BY <2>1, <2>2, <3>1, <3>2, <3>3 DEF PastInv
  <2>3. ASSUME j[c] \in TooLong[c], j' = [j EXCEPT ![c] = j[c] + 1], UNCHANGED <<cpc, requests>>
        PROVE  PastInv'
    <3>1. EchoTypes'
      BY <2>1, <2>3 DEF PastInv, EchoTypes
    <3>2. ASSUME NEW m \in requests \cup replies \cup peer PROVE Old(m)'
      <4>1. Old(m)
        BY DEF PastInv
      <4>2. Sendable(m[1]) \subseteq Nat
        BY <4>1, SendableTo DEF Old
      <4>3. QED
        BY <2>1, <2>3, <4>1, <4>2 DEF PastInv, EchoTypes, Old
    <3>3. ASSUME NEW d \in Client PROVE Echoes(d)'
      <4>1. CASE d # c
        BY <2>1, <2>3, <4>1 DEF PastInv, EchoTypes, Echoes
      <4>2. CASE d = c
        <5>1. j[c] \notin Sendable(c) /\ j[c] - 1 \in Nat /\ (j[c] - 1) + 1 = j[c]
          BY <2>1, <2>3 DEF Sendable
        <5>2. Rank(c, j[c]) = Rank(c, j[c] - 1)
          <6>1. Rank(c, (j[c] - 1) + 1) = Rank(c, j[c] - 1) + 0 /\ Rank(c, j[c] - 1) \in Nat
            BY <5>1, RankNext, RankType
          <6>2. QED
            BY <5>1, <6>1
        <5>3. j'[c] - 1 = j[c] /\ cpc'[c] = "write" /\ printed'[c] = printed[c]
          BY <2>1, <2>3 DEF PastInv, EchoTypes
        <5>4. Echoes(c)
          BY DEF PastInv
        <5>5. QED
          BY <4>2, <5>2, <5>3, <5>4 DEF Echoes
      <4>3. QED
        BY <4>1, <4>2
    <3>4. QED
      BY <2>1, <2>3, <3>1, <3>2, <3>3 DEF PastInv
  <2>4. ASSUME j[c] <= Args[c], j[c] \notin TooLong[c], requests' = requests \cup {Exchange(c)},
               cpc' = [cpc EXCEPT ![c] = "read"], UNCHANGED j
        PROVE  PastInv'
    <3>1. EchoTypes'
      BY <2>1, <2>4 DEF PastInv, EchoTypes
    <3>2. j[c] \in Sendable(c)
      <4>1. Args[c] \in Nat
        BY EchoAssumption DEF EchoAssumption
      <4>2. QED
        BY <2>1, <2>4, <4>1 DEF Sendable
    <3>3. ASSUME NEW m \in requests \cup replies \cup peer PROVE Old(m)'
      BY <2>1, <2>4 DEF PastInv, EchoTypes, Old
    <3>4. ASSUME NEW m \in requests' \cup replies' \cup peer' PROVE Old(m)'
      <4>1. CASE m \in requests \cup replies \cup peer
        BY <3>3, <4>1
      <4>2. CASE m = Exchange(c)
        <5>1. m = <<c, j[c]>> /\ j'[c] = j[c] /\ cpc'[c] = "read"
          BY <2>1, <2>4, <4>2 DEF Exchange, PastInv, EchoTypes
        <5>2. QED
          BY <2>1, <3>2, <5>1 DEF Old
      <4>3. QED
        BY <2>1, <2>4, <4>1, <4>2
    <3>5. ASSUME NEW d \in Client PROVE Echoes(d)'
      BY <2>1, <2>4, <3>2 DEF PastInv, EchoTypes, Echoes
    <3>6. QED
      BY <3>1, <3>4, <3>5 DEF PastInv
  <2>5. QED
    BY <1>3, <2>2, <2>3, <2>4 DEF CWrite
<1>4. ASSUME NEW c \in Client, CRead(c) PROVE PastInv'
  <2>1. cpc[c] = "read" /\ j[c] \in Nat \ {0} /\ UNCHANGED <<requests, peer>>
    BY <1>4 DEF CRead, PastInv, EchoTypes, sVars
  <2>2. CASE cpc' = [cpc EXCEPT ![c] = "failed"] /\ UNCHANGED <<replies, printed, j>>
    <3>1. EchoTypes'
      BY <2>1, <2>2 DEF PastInv, EchoTypes
    <3>2. ASSUME NEW m \in requests \cup replies \cup peer PROVE Old(m)'
      BY <2>1, <2>2 DEF PastInv, EchoTypes, Old
    <3>3. ASSUME NEW d \in Client PROVE Echoes(d)'
      BY <2>1, <2>2 DEF PastInv, EchoTypes, Echoes
    <3>4. QED
      BY <2>1, <2>2, <3>1, <3>2, <3>3 DEF PastInv
  <2>3. ASSUME NEW m \in replies, m[1] = c, replies' \subseteq replies,
               printed' = [printed EXCEPT ![c] = Append(printed[c], m[2])],
               j' = [j EXCEPT ![c] = j[c] + 1], cpc' = [cpc EXCEPT ![c] = "write"]
        PROVE  PastInv'
    <3>1. /\ m[2] \in Nat /\ m[2] \in Sendable(c) /\ m[2] <= j[c] /\ j[c] \in Sendable(c)
          /\ printed[c] \in Seq(Nat)
      BY <2>1, <2>3 DEF PastInv, Old, Echoes, EchoTypes
    <3>2. EchoTypes'
      BY <2>1, <2>3, <3>1 DEF PastInv, EchoTypes
    <3>3. ASSUME NEW o \in requests \cup replies \cup peer PROVE Old(o)'
      <4>1. Old(o)
        BY DEF PastInv
      <4>2. Sendable(o[1]) \subseteq Nat
        BY <4>1, SendableTo DEF Old
      <4>3. QED
        BY <2>1, <2>3, <4>1, <4>2 DEF PastInv, EchoTypes, Old
    <3>4. ASSUME NEW d \in Client, d # c PROVE Echoes(d)'
      BY <2>1, <2>3, <3>4 DEF PastInv, EchoTypes, Echoes
    <3>5. Echoes(c)'
      <4>1. j[c] - 1 \in Nat /\ (j[c] - 1) + 1 = j[c]
        BY <2>1
      <4>2. Rank(c, j[c]) = Rank(c, j[c] - 1) + 1
        BY <3>1, <4>1, RankNext
      <4>3. /\ Len(printed'[c]) = Len(printed[c]) + 1 /\ printed'[c][Len(printed[c]) + 1] = m[2]
            /\ \A k \in 1..Len(printed[c]) : printed'[c][k] = printed[c][k]
            /\ j'[c] - 1 = j[c] /\ cpc'[c] = "write" /\ Len(printed[c]) \in Nat
        BY <2>1, <2>3, <3>1 DEF PastInv, EchoTypes
      <4>4. Echoes(c)
        BY DEF PastInv
      <4>5. Rank(c, m[2]) <= Rank(c, j[c])
        BY <2>1, <3>1, RankGrows
      <4>6. Len(printed'[c]) = Rank(c, j'[c] - 1)
        BY <4>2, <4>3, <4>4 DEF Echoes
      <4>7. ASSUME NEW k \in 1..Len(printed'[c])
            PROVE  printed'[c][k] \in Sendable(c) /\ Rank(c, printed'[c][k]) <= k
        <5>1. CASE k \in 1..Len(printed[c])
          BY <4>3, <4>4, <5>1 DEF Echoes
        <5>2. CASE k = Len(printed[c]) + 1
          BY <3>1, <4>2, <4>3, <4>4, <4>5, <5>2 DEF Echoes
        <5>3. QED
          BY <4>3, <5>1, <5>2
      <4>8. QED
        BY <4>3, <4>6, <4>7 DEF Echoes
    <3>6. QED
      BY <2>1, <2>3, <3>2, <3>3, <3>4, <3>5 DEF PastInv
  <2>4. QED
    <3>1. \/ /\ cpc' = [cpc EXCEPT ![c] = "failed"] /\ UNCHANGED <<replies, printed, j>>
          \/ \E m \in replies : /\ m[1] = c /\ replies' \subseteq replies
                                /\ printed' = [printed EXCEPT ![c] = Append(printed[c], m[2])]
                                /\ j' = [j EXCEPT ![c] = j[c] + 1]
                                /\ cpc' = [cpc EXCEPT ![c] = "write"]
      BY <1>4 DEF CRead
    <3>2. QED
      BY <2>2, <2>3, <3>1
<1>5. CASE Server \/ SKill \/ Refuse \/ Lose
  <2>1. UNCHANGED cVars
    BY <1>5 DEF Server, SBind, SRecv, SSend, SKill, Refuse, Lose, sVars
  <2>2. requests' \cup replies' \cup peer' \subseteq requests \cup replies \cup peer
    <3>1. CASE SRecv
      BY <3>1 DEF SRecv
    <3>2. CASE SBind \/ SSend \/ Refuse \/ Lose
      BY <3>2 DEF SBind, SSend, Refuse, Lose, sVars
    <3>3. CASE SKill
      <4>1. requests' \subseteq requests /\ replies' = replies /\ peer' = {}
        BY <3>3 DEF SKill
      <4>2. QED
        BY <4>1
    <3>4. QED
      BY <1>5, <3>1, <3>2, <3>3 DEF Server
  <2>3. QED
    BY <1>1, <2>1, <2>2
<1>6. CASE UNCHANGED echoVars
  BY <1>1, <1>6 DEF echoVars, sVars
<1>7. QED
  BY <1>2, <1>3, <1>4, <1>5, <1>6 DEF EchoNext, ClientStep

LEMMA PastInit == EchoInit => PastInv
<1> SUFFICES ASSUME EchoInit PROVE PastInv
  OBVIOUS
<1>1. EchoTypes /\ requests \cup replies \cup peer = {}
  BY DEF EchoInit, EchoTypes
<1>2. ASSUME NEW c \in Client PROVE Echoes(c)
  <2>1. printed[c] = <<>> /\ j[c] - 1 = 0 /\ cpc[c] = "connect"
    BY DEF EchoInit
  <2>2. {n \in Sendable(c) : n <= 0} = {}
    <3>1. Sendable(c) \subseteq Nat \ {0}
      BY SendableTo
    <3>2. QED
      BY <3>1
  <2>3. Rank(c, 0) = 0
    BY <2>2, FS_EmptySet DEF Rank
  <2>4. QED
    BY <2>1, <2>3 DEF Echoes
<1>3. QED
  BY <1>1, <1>2 DEF PastInv

\* For any clients, messages and addresses, and whatever the network and the
\* server do: an answer is never of a message yet to be sent.
THEOREM EchoOfThePast == EchoSpec => []AnswersPast
<1>1. PastInv => AnswersPast
  <2> SUFFICES ASSUME PastInv, NEW c \in Client, NEW k \in 1..Len(printed[c])
               PROVE  \E n \in 1..k : printed[c][k] = Sent(c, n)
    BY DEF AnswersPast
  <2>1. printed[c][k] \in Sendable(c) /\ Rank(c, printed[c][k]) <= k
    BY DEF PastInv, Echoes
  <2>2. QED
    BY <2>1, SentRank
<1>2. QED
  BY <1>1, PastInit, PastStep, PTL DEF EchoSpec

-----------------------------------------------------------------------------
(* Without copies.                                                         *)

\* The datagram of an exchange is at one place at a time, and its client waits
\* for it; if it has failed meanwhile it reads no more.
Around == requests \cup replies \cup (IF spc = "send" THEN peer ELSE {})
Apart == /\ requests \cap replies = {}
         /\ spc = "send" => peer \cap (requests \cup replies) = {}
Current(m) == m[2] = j[m[1]] /\ cpc[m[1]] \in {"read", "failed"}
InStep(c) == \A k \in 1..Len(printed[c]) : Rank(c, printed[c][k]) = k

MatchInv == ~copied => /\ Apart
                       /\ \A m \in Around : Current(m)
                       /\ \A c \in Client : InStep(c)

LEMMA MatchStep == PastInv /\ MatchInv /\ [EchoNext]_echoVars => MatchInv'
<1> SUFFICES ASSUME PastInv, MatchInv, [EchoNext]_echoVars, ~copied' PROVE MatchInv'
  BY DEF MatchInv
<1>1. ~copied
  BY DEF EchoNext, Server, ClientStep, SBind, SRecv, SSend, SKill, Refuse, Lose, CConnect, CWrite,
         CRead, echoVars, hist
<1>2. Apart /\ (\A m \in Around : Current(m)) /\ \A c \in Client : InStep(c)
  BY <1>1 DEF MatchInv
<1>3. ASSUME UNCHANGED cVars, Apart', Around' \subseteq Around PROVE MatchInv'
  <2>1. \A m \in Around : Current(m)'
    BY <1>2, <1>3 DEF Current, cVars
  <2>2. \A c \in Client : InStep(c)'
    BY <1>2, <1>3 DEF InStep, cVars
  <2>3. QED
    BY <1>3, <2>1, <2>2 DEF MatchInv
<1>4. CASE SBind
  BY <1>2, <1>3, <1>4 DEF SBind, Apart, Around
<1>5. CASE SRecv
  <2>1. PICK m \in requests : /\ spc' = "send" /\ peer' = {m} /\ requests' = requests \ {m}
                              /\ UNCHANGED <<replies, cVars>>
    BY <1>5 DEF SRecv
  <2>2. Apart'
    BY <1>2, <2>1 DEF Apart
  <2>3. QED
    BY <1>3, <2>1, <2>2 DEF Around
<1>6. CASE SSend
  BY <1>2, <1>3, <1>6 DEF SSend, Apart, Around
<1>7. CASE SKill
  <2>1. requests' \subseteq requests /\ UNCHANGED <<replies, cVars>> /\ spc' = "bind"
    BY <1>7 DEF SKill
  <2>2. QED
    BY <1>2, <1>3, <2>1 DEF Apart, Around
<1>8. CASE Refuse \/ Lose
  <2>1. /\ requests' \subseteq requests /\ replies' \subseteq replies
        /\ UNCHANGED <<spc, peer, cVars>>
    BY <1>8 DEF Refuse, Lose, sVars
  <2>2. QED
    BY <1>2, <1>3, <2>1 DEF Apart, Around
<1>9. ASSUME NEW c \in Client, CConnect(c) PROVE MatchInv'
  <2>1. /\ cpc[c] = "connect" /\ UNCHANGED <<requests, replies, peer, spc, j, printed>>
        /\ \A d \in Client : d # c => cpc'[d] = cpc[d]
    BY <1>9 DEF CConnect, sVars, PastInv, EchoTypes
  <2>2. \A m \in Around : m[1] \in Client /\ m[1] # c
    BY <2>1 DEF Around, PastInv, Old
  <2>3. \A m \in Around : Current(m)'
    BY <1>2, <2>1, <2>2 DEF Current
  <2>4. Apart' /\ Around' = Around
    BY <1>2, <2>1 DEF Apart, Around
  <2>5. \A d \in Client : InStep(d)'
    BY <1>2, <2>1 DEF InStep
  <2>6. QED
    BY <2>3, <2>4, <2>5 DEF MatchInv
<1>10. ASSUME NEW c \in Client, CWrite(c) PROVE MatchInv'
  <2>1. /\ cpc[c] = "write" /\ UNCHANGED <<replies, peer, spc, printed>>
        /\ \A d \in Client : d # c => cpc'[d] = cpc[d] /\ j'[d] = j[d]
    BY <1>10 DEF CWrite, sVars, PastInv, EchoTypes
  <2>2. \A m \in Around : m[1] \in Client /\ m[1] # c
    BY <1>2, <2>1 DEF Around, PastInv, Old, Current
  <2>3. \A m \in Around : Current(m)'
    BY <1>2, <2>1, <2>2 DEF Current
  <2>4. \A d \in Client : InStep(d)'
    BY <1>2, <2>1 DEF InStep
  <2>5. CASE requests' = requests
    <3>1. Apart' /\ Around' = Around
      BY <1>2, <2>1, <2>5 DEF Apart, Around
    <3>2. QED
      BY <2>3, <2>4, <3>1 DEF MatchInv
  <2>6. CASE requests' = requests \cup {Exchange(c)} /\ cpc' = [cpc EXCEPT ![c] = "read"] /\ j' = j
    <3>1. Exchange(c)[1] = c /\ Exchange(c)[2] = j[c]
      BY DEF Exchange
    <3>2. Exchange(c) \notin Around
      BY <2>2, <3>1
    <3>3. Apart'
      BY <1>2, <2>1, <2>6, <3>2 DEF Apart, Around
    <3>4. cpc'[c] = "read" /\ j'[c] = j[c]
      BY <2>6 DEF PastInv, EchoTypes
    <3>5. \A m : m = Exchange(c) => Current(m)'
      BY <3>1, <3>4 DEF Current
    <3>6. \A m \in Around' : m \in Around \/ m = Exchange(c)
      BY <2>1, <2>6 DEF Around
    <3>7. QED
      BY <2>3, <2>4, <3>3, <3>5, <3>6 DEF MatchInv
  <2>7. QED
    BY <1>10, <2>5, <2>6 DEF CWrite
<1>11. ASSUME NEW c \in Client, CRead(c) PROVE MatchInv'
  <2>1. /\ cpc[c] = "read" /\ j[c] \in Nat \ {0} /\ UNCHANGED <<requests, peer, spc>>
        /\ \A d \in Client : d # c => cpc'[d] = cpc[d] /\ j'[d] = j[d] /\ printed'[d] = printed[d]
    BY <1>11 DEF CRead, sVars, PastInv, EchoTypes
  <2>2. \A m \in Around : m \in Client \X Nat /\ Current(m)
    BY <1>2 DEF Around, PastInv, Old
  <2>3. CASE cpc' = [cpc EXCEPT ![c] = "failed"] /\ UNCHANGED <<replies, printed, j>>
    <3>1. Apart' /\ Around' = Around
      BY <1>2, <2>1, <2>3 DEF Apart, Around
    <3>2. \A m \in Around : Current(m)'
      BY <2>1, <2>2, <2>3 DEF Current, PastInv, EchoTypes
    <3>3. \A d \in Client : InStep(d)'
      BY <1>2, <2>3 DEF InStep
    <3>4. QED
      BY <3>1, <3>2, <3>3 DEF MatchInv
  <2>4. ASSUME NEW m \in replies, m[1] = c, replies' = replies \ {m},
               printed' = [printed EXCEPT ![c] = Append(printed[c], m[2])]
        PROVE  MatchInv'
    <3>1. m \in Client \X Nat /\ m[2] = j[c]
      BY <2>2, <2>4 DEF Around, Current
    <3>2. ASSUME NEW o \in Around' PROVE o \in Around /\ o # m
      BY <1>2, <2>1, <2>4 DEF Apart, Around
    <3>3. ASSUME NEW o \in Around' PROVE o[1] # c
      <4>1. o \in Client \X Nat /\ o[2] = j[o[1]] /\ o # m
        BY <2>2, <3>2 DEF Current
      <4>2. QED
        BY <2>4, <3>1, <4>1
    <3>4. ASSUME NEW o \in Around' PROVE Current(o)'
      BY <2>1, <2>2, <3>2, <3>3 DEF Current
    <3>5. Apart'
      BY <1>2, <2>1, <2>4 DEF Apart
    <3>6. InStep(c)'
      <4>1. Echoes(c) /\ j[c] \in Sendable(c) /\ printed[c] \in Seq(Nat)
        BY <2>1 DEF PastInv, EchoTypes, Echoes
      <4>2. Rank(c, j[c]) = Rank(c, j[c] - 1) + 1
        <5>1. j[c] - 1 \in Nat /\ (j[c] - 1) + 1 = j[c]
          BY <2>1
        <5>2. QED
          BY <4>1, <5>1, RankNext
      <4>3. /\ Len(printed'[c]) = Len(printed[c]) + 1 /\ printed'[c][Len(printed[c]) + 1] = m[2]
            /\ \A k \in 1..Len(printed[c]) : printed'[c][k] = printed[c][k]
            /\ Len(printed[c]) \in Nat
        BY <2>4, <3>1, <4>1 DEF PastInv, EchoTypes
      <4>4. ASSUME NEW k \in 1..Len(printed'[c]) PROVE Rank(c, printed'[c][k]) = k
        <5>1. CASE k \in 1..Len(printed[c])
          BY <1>2, <4>3, <5>1 DEF InStep
        <5>2. CASE k = Len(printed[c]) + 1
          BY <3>1, <4>1, <4>2, <4>3, <5>2 DEF Echoes
        <5>3. QED
          BY <4>3, <5>1, <5>2
      <4>5. QED
        BY <4>4 DEF InStep
    <3>7. \A d \in Client : InStep(d)'
      BY <1>2, <2>1, <3>6 DEF InStep
    <3>8. QED
      BY <3>4, <3>5, <3>7 DEF MatchInv
  <2>5. \/ cpc' = [cpc EXCEPT ![c] = "failed"] /\ UNCHANGED <<replies, printed, j>>
        \/ \E m \in replies : /\ m[1] = c /\ replies' = replies \ {m}
                              /\ printed' = [printed EXCEPT ![c] = Append(printed[c], m[2])]
    BY <1>11 DEF CRead
  <2>6. QED
    BY <2>3, <2>4, <2>5
<1>12. CASE UNCHANGED echoVars
  BY <1>2, <1>3, <1>12 DEF echoVars, sVars, Apart, Around
<1>13. QED
  BY <1>4, <1>5, <1>6, <1>7, <1>8, <1>9, <1>10, <1>11, <1>12 DEF EchoNext, Server, ClientStep

\* Until something is duplicated the k-th answer is that to the k-th message,
\* for any clients and messages, and whatever is lost or fails.
THEOREM EchoOfTheMessage == EchoSpec => []AnswersMatch
<1>1. EchoInit => MatchInv
  BY DEF EchoInit, MatchInv, Apart, Around, InStep
<1>2. PastInv /\ MatchInv => AnswersMatch
  <2> SUFFICES ASSUME PastInv, MatchInv, ~copied, NEW c \in Client, NEW k \in 1..Len(printed[c])
               PROVE  printed[c][k] = Sent(c, k)
    BY DEF AnswersMatch
  <2>1. printed[c][k] \in Sendable(c) /\ Rank(c, printed[c][k]) = k
    BY DEF PastInv, Echoes, MatchInv, InStep
  <2>2. QED
    BY <2>1, SentRank
<1>3. QED
  BY <1>1, <1>2, PastInit, PastStep, MatchStep, PTL DEF EchoSpec

-----------------------------------------------------------------------------
(* Types.                                                                  *)

RestTypes ==
  /\ spc \in {"bind", "recv", "send", "failed"} /\ srp \in 1..(Len(ServerAddrs) + 1)
  /\ crp \in [Client -> 1..(Len(HostAddrs) + 1)] /\ \A c \in Client : j[c] <= Args[c] + 1
  /\ refused \subseteq Client /\ lost \subseteq Datagram /\ copied \in BOOLEAN

LEMMA IsDatagram == ASSUME NEW m, Old(m) PROVE m \in Datagram /\ m[1] \in Client
<1>1. m = <<m[1], m[2]>> /\ m[1] \in Client /\ m[2] \in 1..Args[m[1]]
  BY DEF Old, Sendable
<1>2. QED
  BY <1>1 DEF Datagram

\* The counter of one client goes on by one.
LEMMA Onward ==
  ASSUME PastInv, RestTypes, NEW c \in Client, j[c] <= Args[c],
         j' = j \/ j' = [j EXCEPT ![c] = j[c] + 1], NEW d \in Client
  PROVE  j'[d] <= Args[d] + 1
<1>1. j \in [Client -> Nat \ {0}] /\ j[d] <= Args[d] + 1
  BY DEF PastInv, EchoTypes, RestTypes
<1>2. CASE j' = j \/ d # c
  <2>1. j'[d] = j[d]
    BY <1>1, <1>2
  <2>2. QED
    BY <1>1, <2>1
<1>3. CASE j' = [j EXCEPT ![c] = j[c] + 1] /\ d = c
  <2>1. j'[d] = j[c] + 1 /\ Args[c] \in Nat /\ j[c] \in Nat
    BY <1>1, <1>3, EchoAssumption DEF EchoAssumption
  <2>2. QED
    BY <1>3, <2>1
<1>4. QED
  BY <1>2, <1>3

LEMMA RestStep == PastInv /\ RestTypes /\ [EchoNext]_echoVars => RestTypes'
<1> SUFFICES ASSUME PastInv, RestTypes, [EchoNext]_echoVars PROVE RestTypes'
  OBVIOUS
<1>0. \A m \in requests \cup replies \cup peer : m \in Datagram /\ m[1] \in Client
  BY IsDatagram DEF PastInv
<1>1. \A c \in Client : Args[c] \in Nat /\ j[c] \in Nat \ {0}
  BY EchoAssumption DEF EchoAssumption, PastInv, EchoTypes
<1>2. Len(HostAddrs) \in Nat /\ Len(ServerAddrs) \in Nat
  BY EchoAssumption DEF EchoAssumption
<1>3. CASE SBind
  BY <1>2, <1>3 DEF SBind, RestTypes, cVars, hist
<1>4. CASE SRecv \/ SSend \/ SKill \/ Refuse \/ Lose
  <2>1. UNCHANGED <<crp, j>> /\ srp' \in {srp, 1} /\ spc' \in {spc, "send", "recv", "bind"}
    BY <1>4 DEF SRecv, SSend, SKill, Refuse, Lose, cVars, sVars
  <2>2. refused' \subseteq Client /\ lost' \subseteq Datagram /\ copied' \in BOOLEAN
    <3>1. CASE SRecv \/ SSend \/ Refuse \/ Lose
      BY <1>0, <3>1 DEF SRecv, SSend, Refuse, Lose, RestTypes, hist, Stays
    <3>2. CASE SKill
      <4>1. PICK S \in SUBSET {m \in requests : Reaches(m[1])} : lost' = lost \cup peer \cup S
        BY <3>2 DEF SKill
      <4>2. S \subseteq requests /\ UNCHANGED <<refused, copied>>
        BY <3>2 DEF SKill
      <4>3. QED
        BY <1>0, <4>1, <4>2 DEF RestTypes
    <3>3. QED
      BY <1>4, <3>1, <3>2
  <2>3. QED
    BY <1>2, <2>1, <2>2 DEF RestTypes
<1>5. ASSUME NEW c \in Client, CConnect(c) PROVE RestTypes'
  <2>1. /\ UNCHANGED <<spc, srp, j, refused, lost, copied>>
        /\ crp' = crp \/ (crp[c] <= Len(HostAddrs) /\ crp' = [crp EXCEPT ![c] = crp[c] + 1])
    BY <1>5 DEF CConnect, sVars, hist
  <2>2. crp' \in [Client -> 1..(Len(HostAddrs) + 1)]
    BY <1>2, <2>1 DEF RestTypes
  <2>3. QED
    BY <2>1, <2>2 DEF RestTypes
<1>6. ASSUME NEW c \in Client, CWrite(c) PROVE RestTypes'
  <2>1. /\ UNCHANGED <<spc, srp, crp, lost, copied>> /\ refused' \subseteq refused
        /\ j' = j \/ (j[c] <= Args[c] /\ j' = [j EXCEPT ![c] = j[c] + 1])
    BY <1>6 DEF CWrite, sVars, hist
  <2>2. \A d \in Client : j'[d] <= Args[d] + 1
    <3>1. CASE j' = j
      BY <3>1 DEF RestTypes
    <3>2. CASE j' # j
      BY <2>1, <3>2, Onward
    <3>3. QED
      BY <3>1, <3>2
  <2>3. QED
    BY <2>1, <2>2 DEF RestTypes
<1>7. ASSUME NEW c \in Client, CRead(c) PROVE RestTypes'
  <2>1. /\ UNCHANGED <<spc, srp, crp, lost>> /\ refused' \subseteq refused
        /\ cpc[c] = "read" /\ (j' = j \/ j' = [j EXCEPT ![c] = j[c] + 1])
    BY <1>7 DEF CRead, sVars
  <2>2. j[c] <= Args[c]
    BY <1>1, <2>1 DEF PastInv, Echoes, Sendable
  <2>3. \A d \in Client : j'[d] <= Args[d] + 1
    BY <2>1, <2>2, Onward
  <2>4. copied' \in BOOLEAN
    BY <1>7 DEF CRead, Stays, RestTypes
  <2>5. QED
    BY <2>1, <2>3, <2>4 DEF RestTypes
<1>8. CASE UNCHANGED echoVars
  BY <1>8 DEF echoVars, sVars, cVars, hist, RestTypes
<1>9. QED
  BY <1>3, <1>4, <1>5, <1>6, <1>7, <1>8 DEF EchoNext, Server, ClientStep

\* For any clients, messages and addresses, and whatever the network does: what
\* is under way are messages that the clients were given and can send, each
\* client goes through its arguments once, and prints such messages only.
THEOREM EchoTyped == EchoSpec => []EchoTypeOK
<1>1. EchoInit => RestTypes
  <2>1. 1 \in 1..(Len(HostAddrs) + 1) /\ 1 \in 1..(Len(ServerAddrs) + 1)
    BY EchoAssumption DEF EchoAssumption
  <2>2. \A c \in Client : 1 <= Args[c] + 1
    BY EchoAssumption DEF EchoAssumption
  <2>3. QED
    BY <2>1, <2>2 DEF EchoInit, RestTypes
<1>2. PastInv /\ RestTypes => EchoTypeOK
  <2> SUFFICES ASSUME PastInv, RestTypes PROVE EchoTypeOK
    OBVIOUS
  <2>1. peer \subseteq Datagram /\ requests \subseteq Datagram /\ replies \subseteq Datagram
    BY IsDatagram DEF PastInv
  <2>2. ASSUME NEW c \in Client
        PROVE  /\ crp[c] \in 1..(Len(HostAddrs) + 1) /\ j[c] \in 1..(Args[c] + 1)
               /\ printed[c] \in Seq((1..Args[c]) \ TooLong[c])
    <3>1. Args[c] \in Nat /\ j[c] \in Nat \ {0} /\ j[c] <= Args[c] + 1 /\ crp[c] \in 1..(Len(HostAddrs) + 1)
      BY EchoAssumption DEF EchoAssumption, PastInv, EchoTypes, RestTypes
    <3>2. printed[c] \in Seq(Nat) /\ \A k \in 1..Len(printed[c]) : printed[c][k] \in (1..Args[c]) \ TooLong[c]
      BY DEF PastInv, EchoTypes, Echoes, Sendable
    <3>3. printed[c] \in Seq((1..Args[c]) \ TooLong[c])
      BY <3>2
    <3>4. QED
      BY <3>1, <3>3
  <2>3. QED
    BY <2>1, <2>2 DEF EchoTypeOK, RestTypes, PastInv, EchoTypes
<1>3. QED
  BY <1>1, <1>2, PastInit, PastStep, RestStep, PTL DEF EchoSpec
=============================================================================
