---------------------------- MODULE CharDrivers ----------------------------
(***************************************************************************)
(* The loadable modules under packages/driver: how their init functions    *)
(* register things with the kernel one after the other, what they take     *)
(* back when a registration fails, what their exit functions take back,    *)
(* and what a user who opens a device meanwhile gets.                      *)
(*                                                                         *)
(* The kernel's tables are one list of entries, newest first.  An entry    *)
(* belongs to one load of a driver, <<driver, number of the load>>: the    *)
(* code and the cdevs of that load are freed when it is unloaded.          *)
(***************************************************************************)
EXTENDS Integers, Sequences, FiniteSets, SequencesExt

CONSTANTS
  Driver,    \* the drivers in play, a subset of Drivers
  Dynamic,   \* the majors alloc_chrdev_region() chooses from
  Together,  \* which drivers are loaded side by side (a bound): sets of them
  MaxLoads,  \* how often each driver may be loaded (a bound)
  Faults     \* pairs <<driver, what it cannot register>>

Drivers == {"class", "mydev", "char", "first", "misc", "uevent"}

ASSUME DriverAssumption == /\ Driver \subseteq Drivers
                           /\ Dynamic \subseteq (1..4095) \ {10, 202, 222}  \* 12 bits
                           /\ Together \subseteq SUBSET Driver
                           /\ MaxLoads \in Nat

VARIABLES
  st, at, ok,     \* of each driver: its state; next step of init; what succeeded
  undo,           \* of each driver: what it has still to take back
  major, loads,   \* of each driver: its major number; how often it was loaded
  reg,            \* the kernel's tables
  opened,         \* the loads that have a file open
  wild, failed    \* history: an open() went into a freed cdev; loads that failed

vars == <<st, at, ok, undo, major, loads, reg, opened, wild, failed>>

What == {"region", "cdev", "cdev2", "class", "node", "node2", "misc", "kobj", "attr"}

-----------------------------------------------------------------------------
(* What the drivers do.  A step registers `get`, then looks at the result   *)
(* of `test`; if that one failed, the load fails, after `back` in order.    *)

Step(get, back) == [get |-> get, test |-> {get}, back |-> back]
Unchecked(get) == [get |-> get, test |-> {}, back |-> <<>>]

ClassInit == << Step("region", <<>>), Step("cdev", <<"region">>),
                Step("class", <<"region", "cdev">>),
                Step("node", <<"class", "region", "cdev">>) >>
\* Mutant: the cdev is forgotten.
MutKeepsCdev == <<"node", "class", "region">>

\* Mutant: the cdev goes before its device.
MutCdevFirst == <<"cdev", "node", "class", "region">>

ClassExit == <<"node", "class", "cdev", "region">>

\* The result of the first cdev_add() and of the second device_create() is
\* never looked at, and that of the first device_create() after the second.
MydevInit == << Step("region", <<>>), Unchecked("cdev"), Step("cdev2", <<"region">>),
                Step("class", <<"cdev", "region">>), Unchecked("node"),
                [get |-> "node2", test |-> {"node"}, back |-> <<"class", "cdev", "region">>] >>
\* Mutant: the second cdev is forgotten.
MutKeepsCdev2 == <<"node", "node2", "class", "cdev", "region">>

MydevExit == <<"node", "node2", "class", "cdev", "cdev2", "region">>

CharInit == << Step("region", <<>>), Step("cdev", <<"region">>) >>
CharExit == <<"cdev", "region">>

FirstInit == << Step("region", <<>>), Step("cdev", <<"region">>) >>
FirstExit == <<"cdev", "region">>

MiscInit == << Step("misc", <<>>) >>
MiscExit == <<"misc">>

UeventInit == << Step("kobj", <<>>), Step("attr", <<"kobj">>) >>
UeventExit == <<"attr", "kobj">>

InitOf(d) == CASE d = "class" -> ClassInit [] d = "mydev" -> MydevInit
               [] d = "char" -> CharInit   [] d = "first" -> FirstInit
               [] d = "misc" -> MiscInit   [] d = "uevent" -> UeventInit
ExitOf(d) == CASE d = "class" -> ClassExit [] d = "mydev" -> MydevExit
               [] d = "char" -> CharExit   [] d = "first" -> FirstExit
               [] d = "misc" -> MiscExit   [] d = "uevent" -> UeventExit

\* MY_MAJOR_NUM, and the major of all misc devices; 0 where it is allocated.
Static(d) == CASE d = "char" -> 222 [] d = "first" -> 202 [] d = "misc" -> 10
               [] OTHER -> 0

-----------------------------------------------------------------------------
(* The kernel.                                                             *)

Load(d) == <<d, loads[d]>>
Loaded(l) == l = Load(l[1]) /\ st[l[1]] # "out"

Entry(what, key, by) == [what |-> what, key |-> key, by |-> by]

\* Under which key a driver with major m registers something.  Both class
\* drivers call their class hello_class.
Key(d, what, m) == CASE what = "region" -> <<m>>
                     [] what = "class" -> <<"hello_class">>
                     [] what \in {"node", "cdev", "misc"} -> <<m, 0>>
                     [] what \in {"node2", "cdev2"} -> <<m, 1>>
                     [] what \in {"kobj", "attr"} -> <<d>>

\* The first entry with a key wins; there may be several cdevs for one number.
IsCdev(what) == what \in {"cdev", "cdev2", "misc"}
Found(key) == {i \in 1..Len(reg) : IsCdev(reg[i].what) /\ reg[i].key = key}
Reached(key) == reg[CHOOSE i \in Found(key) : \A k \in Found(key) : i <= k].by

Free == {m \in Dynamic : \A i \in 1..Len(reg) :
                            ~(reg[i].what = "region" /\ reg[i].key = <<m>>)}

\* A device is known by the name that its driver gives it, whatever its number.
Taken(d, what) ==
  \E i \in 1..Len(reg) :
     /\ reg[i].what = what
     /\ \/ what = "class"
        \/ what \in {"node", "node2", "kobj", "attr", "misc"} /\ reg[i].by[1] = d

\* cdev_del() takes the newest entry of its number, whoever registered it;
\* everything else is taken back by whom it belongs to.
Matches(d, what, e) ==
  IF IsCdev(what) THEN IsCdev(e.what) /\ e.key = Key(d, what, major[d])
                  ELSE e.what = what /\ e.by = Load(d)

Without(d, what) ==
  LET hits == {i \in 1..Len(reg) : Matches(d, what, reg[i])}
  IN  IF hits = {} THEN reg
      ELSE RemoveAt(reg, CHOOSE i \in hits : \A k \in hits : i <= k)

-----------------------------------------------------------------------------
\* Drivers that are not loaded in a run have used up their loads.
Init ==
  /\ \E group \in Together : loads = [d \in Driver |-> IF d \in group THEN 0 ELSE MaxLoads]
  /\ st = [d \in Driver |-> "out"] /\ at = [d \in Driver |-> 1]
  /\ ok = [d \in Driver |-> {}] /\ undo = [d \in Driver |-> <<>>]
  /\ major = [d \in Driver |-> Static(d)]
  /\ reg = <<>> /\ opened = {} /\ wild = FALSE /\ failed = {}

Insmod(d) ==
  /\ st[d] = "out" /\ loads[d] < MaxLoads
  /\ st' = [st EXCEPT ![d] = "init"] /\ loads' = [loads EXCEPT ![d] = @ + 1]
  /\ at' = [at EXCEPT ![d] = 1] /\ ok' = [ok EXCEPT ![d] = {}]
  /\ major' = [major EXCEPT ![d] = Static(d)]
  /\ UNCHANGED <<undo, reg, opened, wild, failed>>

\* The registration of step s: it succeeds, or is refused and changes nothing.
Registers(d, s) ==
  /\ ~Taken(d, s.get)
  /\ ok' = [ok EXCEPT ![d] = @ \cup {s.get}]
  /\ IF s.get = "region" /\ d \in {"class", "mydev"}
     THEN Free # {} /\ major' = [major EXCEPT ![d] = CHOOSE m \in Free : \A k \in Free : k <= m]
     ELSE major' = major
  /\ reg' = <<Entry(s.get, Key(d, s.get, major'[d]), Load(d))>> \o reg

Refused(d, s) ==
  /\ Taken(d, s.get) \/ <<d, s.get>> \in Faults
  /\ UNCHANGED <<ok, major, reg>>

InitStep(d) ==
  LET s == InitOf(d)[at[d]] IN
  /\ st[d] = "init"
  /\ Registers(d, s) \/ Refused(d, s)
  /\ IF s.test \subseteq ok'[d]
     THEN /\ st' = [st EXCEPT ![d] = IF at[d] = Len(InitOf(d)) THEN "live" ELSE "init"]
          /\ at' = [at EXCEPT ![d] = @ + 1]
          /\ UNCHANGED <<undo, failed>>
     ELSE /\ st' = [st EXCEPT ![d] = "fail"] /\ failed' = failed \cup {Load(d)}
          /\ undo' = [undo EXCEPT ![d] = s.back]
          /\ UNCHANGED at
  /\ UNCHANGED <<loads, opened, wild>>

\* Mutant: .owner is not set.
MutNoOwner(d) ==
  /\ st[d] = "live"
  /\ st' = [st EXCEPT ![d] = "exit"] /\ undo' = [undo EXCEPT ![d] = ExitOf(d)]
  /\ UNCHANGED <<at, ok, major, loads, reg, opened, wild, failed>>

Rmmod(d) ==   \* refused while a file is open: .owner = THIS_MODULE
  /\ st[d] = "live" /\ Load(d) \notin opened
  /\ st' = [st EXCEPT ![d] = "exit"] /\ undo' = [undo EXCEPT ![d] = ExitOf(d)]
  /\ UNCHANGED <<at, ok, major, loads, reg, opened, wild, failed>>

TakeBack(d) ==
  /\ st[d] \in {"fail", "exit"} /\ undo[d] # <<>>
  /\ reg' = Without(d, Head(undo[d]))
  /\ undo' = [undo EXCEPT ![d] = Tail(@)]
  /\ UNCHANGED <<st, at, ok, major, loads, opened, wild, failed>>

Gone(d) ==    \* init returned an error, or exit returned: the module is freed
  /\ st[d] \in {"fail", "exit"} /\ undo[d] = <<>>
  /\ st' = [st EXCEPT ![d] = "out"]
  /\ UNCHANGED <<at, ok, undo, major, loads, reg, opened, wild, failed>>

\* What a user can name: the nodes the kernel made, and those made by mknod.
Nodes == {reg[i].key : i \in {k \in 1..Len(reg) : reg[k].what \in {"node", "node2"}}}
            \cup {<<Static(d), 0>> : d \in Driver}

Open(key) ==
  /\ Found(key) # {}
  /\ LET l == Reached(key) IN
       /\ wild' = (wild \/ ~Loaded(l))
       /\ opened' = IF Loaded(l) /\ st[l[1]] # "exit" THEN opened \cup {l} ELSE opened
  /\ UNCHANGED <<st, at, ok, undo, major, loads, reg, failed>>

Close(l) ==
  /\ l \in opened /\ opened' = opened \ {l}
  /\ UNCHANGED <<st, at, ok, undo, major, loads, reg, wild, failed>>

-----------------------------------------------------------------------------
Next == \/ \E d \in Driver : \/ Insmod(d) \/ InitStep(d) \/ Rmmod(d)
                             \/ TakeBack(d) \/ Gone(d)
        \/ \E key \in Nodes : Open(key)
        \/ \E l \in opened : Close(l)

Spec == Init /\ [][Next]_vars

-----------------------------------------------------------------------------
(* Properties.                                                             *)

Loads == Driver \X (1..MaxLoads)

TypeOK ==
  /\ st \in [Driver -> {"out", "init", "live", "fail", "exit"}]
  /\ at \in [Driver -> 1..7] /\ ok \in [Driver -> SUBSET What]
  /\ undo \in [Driver -> Seq(What)]
  /\ major \in [Driver -> Dynamic \cup {0, 10, 202, 222}]
  /\ loads \in [Driver -> 0..MaxLoads]
  /\ \A i \in 1..Len(reg) : reg[i].what \in What /\ reg[i].by \in Loads
  /\ opened \subseteq Loads /\ wild \in BOOLEAN /\ failed \subseteq Loads

\* A file that is open runs the code of a module that is there; but nothing
\* holds a module whose init function returns an error.
OpenInCode == \A l \in opened : Loaded(l) \/ l \in failed

\* Until a load fails, no open() goes into a freed cdev, however loading,
\* unloading and opening interleave.
NoWildOpen == wild => failed # {}

\* Until a load fails, the driver that has made a node in /dev answers an
\* open() of it, if its cdev_add(), whose result mydev ignores, succeeded.
NodeReaches == failed = {} =>
   \A i \in 1..Len(reg), what \in {"node", "node2"} :
      LET e == reg[i] IN
      (e.what = what /\ (IF what = "node" THEN "cdev" ELSE "cdev2") \in ok[e.by[1]])
         => Found(e.key) # {} /\ Reached(e.key) = e.by

\* A module that was loaded and unloaded leaves nothing in the kernel's
\* tables; one whose init failed leaves at most what its error paths forget.
Forgotten(d) == CASE d = "mydev" -> {"cdev", "cdev2", "node2"}
                  [] d = "class" -> {"cdev"}
                  [] OTHER -> {}
UnloadedClean == \A i \in 1..Len(reg) :
   ~Loaded(reg[i].by) => /\ reg[i].by \in failed
                         /\ reg[i].what \in Forgotten(reg[i].by[1])
=============================================================================
