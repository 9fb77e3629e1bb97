--------------------------- MODULE SysvShmProofs ---------------------------
(***************************************************************************)
(* What holds of sysv_shm_demo for every input, every set of faults and    *)
(* every state an earlier writer may have left in the kernel.              *)
(***************************************************************************)
EXTENDS SysvShm, TLAPS

(***************************************************************************)
(* Types.  The semaphores never go below zero: each decrement waits.       *)
(***************************************************************************)
LEMMA TypeInit == Init => TypeOK
<1> SUFFICES ASSUME Init PROVE TypeOK
  OBVIOUS
<1>1. semAlive \in BOOLEAN /\ keyed \in BOOLEAN
  BY Zenon DEF Init
<1>2. writeSem \in Nat /\ readSem \in Nat /\ cnt \in Counts /\ buf \in Blocks
  BY DEF Init, LeftBehind, Counts, Blocks
<1>3. /\ wsem \in BOOLEAN /\ wshm \in BOOLEAN
      /\ inited \in BOOLEAN /\ early \in BOOLEAN /\ failed \in BOOLEAN
  BY Zenon DEF Init
<1>4. pos \in 0..Len(Input) /\ out \in Seq(Blocks)
  BY RunAssumption DEF RunAssumption, Init
<1>5. QED
  BY <1>1, <1>2, <1>3, <1>4 DEF Init, TypeOK, WRun, RRun, Mapping

LEMMA FailedStep == failed \in BOOLEAN /\ [Next]_vars => failed' \in BOOLEAN
<1>1. [Next]_vars => failed' = failed \/ failed' = TRUE
  BY DEF Next, Writer, Reader, Signals, WSemget, WSetall, WShmget, WShmat, WWait, WRead,
         WLend, WRaise, WTest, WFinal, WExit, WSignal, WKill, WFail, WSemop, WSegv,
         RSemget, RShmget, RShmat, RWait, RCheck, RPrint, RLend, RRaise, RDetach, RBye,
         RExit, RSignal, RKill, RFail, RSemop, RSegv, vars, hist
<1>2. QED
  BY <1>1, Zenon

LEMMA TypeStep == TypeOK /\ [Next]_vars => TypeOK'
<1> SUFFICES ASSUME TypeOK, [Next]_vars PROVE TypeOK'
  OBVIOUS
<1> USE RunAssumption DEF RunAssumption, TypeOK, Blocks, Counts, Mapping, WRun, RRun, Ended,
        semVars, segVars, wVars, rVars, hist
<1> failed' \in BOOLEAN
  BY FailedStep
<1>1. CASE WSemget
  <2>1. semAlive' \in BOOLEAN /\ wsem' \in BOOLEAN
    BY <1>1, Zenon DEF WSemget, WFail
  <2>2. QED
    BY <1>1, <2>1 DEF WSemget, WFail
<1>2. CASE WSetall
  <2>1. inited' \in BOOLEAN
    BY <1>2, Zenon DEF WSetall, WFail
  <2>2. QED
    BY <1>2, <2>1 DEF WSetall, WFail
<1>3. CASE WShmget
  <2>1. keyed' \in BOOLEAN /\ wshm' \in BOOLEAN
    BY <1>3, Zenon DEF WShmget, WFail
  <2>2. QED
    BY <1>3, <2>1 DEF WShmget, WFail
<1>4. CASE WShmat
  BY <1>4 DEF WShmat, WFail
<1>5. CASE WWait
  BY <1>5 DEF WWait, WSemop
<1>6. CASE WRead
  <2>1. pos < Len(Input) => Input[pos + 1] \in Block
    OBVIOUS
  <2>2. QED
    BY <1>6, <2>1 DEF WRead, WSegv
<1>7. CASE WLend
  BY <1>7 DEF WLend, WSemop
<1>8. CASE WRaise
  BY <1>8 DEF WRaise, WSemop
<1>9. CASE WTest
  BY <1>9 DEF WTest, WSegv
<1>10. CASE WFinal
  BY <1>10 DEF WFinal, WSemop
<1>11. CASE WExit
  BY <1>11 DEF WExit, WRemove
<1>12. CASE WSignal
  BY <1>12 DEF WSignal, WRemove
<1>13. CASE WKill
  BY <1>13 DEF WKill
<1>14. CASE RSemget
  BY <1>14 DEF RSemget, RFail
<1>15. CASE RShmget
  <2>1. early' \in BOOLEAN
    BY <1>15, Zenon DEF RShmget, RFail
  <2>2. QED
    BY <1>15, <2>1 DEF RShmget, RFail
<1>16. CASE RShmat
  BY <1>16 DEF RShmat, RFail
<1>17. CASE RWait
  BY <1>17 DEF RWait, RSemop
<1>18. CASE RCheck
  BY <1>18 DEF RCheck, RSegv
<1>19. CASE RPrint
  <2>1. Append(out, buf) \in Seq(Blocks)
    OBVIOUS
  <2>2. out' \in Seq(Blocks)
    BY <1>19, <2>1 DEF RPrint, RSegv, RFail
  <2>3. QED
    BY <1>19, <2>2 DEF RPrint, RSegv, RFail
<1>20. CASE RLend
  BY <1>20 DEF RLend, RSemop
<1>21. CASE RRaise
  BY <1>21 DEF RRaise, RSemop
<1>22. CASE RDetach
  BY <1>22 DEF RDetach, RFail
<1>23. CASE RBye
  BY <1>23 DEF RBye, RSemop
<1>24. CASE RExit
  BY <1>24 DEF RExit
<1>25. CASE RSignal
  BY <1>25 DEF RSignal
<1>26. CASE RKill
  BY <1>26 DEF RKill
<1>27. CASE UNCHANGED vars
  BY <1>27 DEF vars
<1>28. QED
  BY <1>1, <1>2, <1>3, <1>4, <1>5, <1>6, <1>7, <1>8, <1>9, <1>10, <1>11,
     <1>12, <1>13, <1>14, <1>15, <1>16, <1>17, <1>18, <1>19, <1>20, <1>21,
     <1>22, <1>23, <1>24, <1>25, <1>26, <1>27
     DEF Next, Writer, Reader, Signals

\* Every variable keeps its type: in particular semop() never takes a
\* semaphore below zero.
THEOREM TypeCorrect == Spec => []TypeOK
  BY TypeInit, TypeStep, PTL DEF Spec
-----------------------------------------------------------------------------
(***************************************************************************)
(* The set-up: the writer creates the segment only after SETALL, so a      *)
(* reader that finds no leftover segment finds initialised semaphores.     *)
(***************************************************************************)
LEMMA SetupStep == TypeOK /\ Setup /\ [Next]_vars => Setup'
<1> SUFFICES ASSUME TypeOK, Setup, [Next]_vars PROVE Setup'
  OBVIOUS
<1> USE DEF TypeOK, Setup, Ended, WRun, RRun, Gone,
        semVars, segVars, wVars, rVars, hist
<1>1. CASE WSemget
  BY <1>1 DEF WSemget, WFail
<1>2. CASE WSetall
  BY <1>2 DEF WSetall, WFail
<1>3. CASE WShmget
  BY <1>3 DEF WShmget, WFail
<1>4. CASE WShmat
  BY <1>4 DEF WShmat, WFail
<1>5. CASE WWait
  BY <1>5 DEF WWait, WSemop
<1>6. CASE WRead
  BY <1>6 DEF WRead, WSegv
<1>7. CASE WLend
  BY <1>7 DEF WLend, WSemop
<1>8. CASE WRaise
  BY <1>8 DEF WRaise, WSemop
<1>9. CASE WTest
  BY <1>9 DEF WTest, WSegv
<1>10. CASE WFinal
  BY <1>10 DEF WFinal, WSemop
<1>11. CASE WExit
  BY <1>11 DEF WExit, WRemove
<1>12. CASE WSignal
  BY <1>12 DEF WSignal, WRemove
<1>13. CASE WKill
  BY <1>13 DEF WKill
<1>14. CASE RSemget
  BY <1>14 DEF RSemget, RFail
<1>15. CASE RShmget
  BY <1>15 DEF RShmget, RFail
<1>16. CASE RShmat
  BY <1>16 DEF RShmat, RFail
<1>17. CASE RWait
  BY <1>17 DEF RWait, RSemop
<1>18. CASE RCheck
  BY <1>18 DEF RCheck, RSegv
<1>19. CASE RPrint
  BY <1>19 DEF RPrint, RSegv, RFail
<1>20. CASE RLend
  BY <1>20 DEF RLend, RSemop
<1>21. CASE RRaise
  BY <1>21 DEF RRaise, RSemop
<1>22. CASE RDetach
  BY <1>22 DEF RDetach, RFail
<1>23. CASE RBye
  BY <1>23 DEF RBye, RSemop
<1>24. CASE RExit
  BY <1>24 DEF RExit
<1>25. CASE RSignal
  BY <1>25 DEF RSignal, RAsleep
<1>26. CASE RKill
  BY <1>26 DEF RKill
<1>27. CASE UNCHANGED vars
  BY <1>27 DEF vars
<1>28. QED
  BY <1>1, <1>2, <1>3, <1>4, <1>5, <1>6, <1>7, <1>8, <1>9, <1>10, <1>11, <1>12, <1>13, <1>14, <1>15, <1>16, <1>17, <1>18, <1>19, <1>20, <1>21, <1>22, <1>23, <1>24, <1>25, <1>26, <1>27
     DEF Next, Writer, Reader, Signals

(***************************************************************************)
(* The hand-over: whichever process a step belongs to, the semaphores, the *)
(* program counters and the contents of the segment stay in one of the     *)
(* four phases.                                                            *)
(***************************************************************************)
LEMMA PhaseStep == TypeOK /\ IInv /\ [Next]_vars => (inited /\ ~early => Phase)'
<1> SUFFICES ASSUME TypeOK, IInv, [Next]_vars, inited', ~early' PROVE Phase'
  OBVIOUS
<1> USE RunAssumption DEF RunAssumption, TypeOK, IInv, Setup, Phase, Writing, Reading, Filled,
        RBefore, RLooking, RUsed, Gone, Ended, WRun, RRun, Counts, Blocks,
        semVars, segVars, wVars, rVars, hist
<1>1. CASE WSemget
  BY <1>1 DEF WSemget, WFail
<1>2. CASE WSetall
  <2>1. wpc = "setall" /\ UNCHANGED <<rpc, out, pos, early>>
    BY <1>2 DEF WSetall, WFail
  <2>2. ~inited /\ ~early
    BY <2>1
  <2>3. rpc \in {"semget", "shmget"} \cup Gone /\ out = <<>> /\ pos = 0
    BY <2>2
  <2>4. writeSem' = 0 /\ readSem' = 1 /\ wpc' = "shmget"
    BY <1>2, <2>2, inited' DEF WSetall, WFail
  <2>5. QED
    BY <2>1, <2>3, <2>4
<1>3. CASE WShmget
  BY <1>3 DEF WShmget, WFail
<1>4. CASE WShmat
  BY <1>4 DEF WShmat, WFail
<1>5. CASE WWait
  BY <1>5 DEF WWait, WSemop
<1>6. CASE WRead
  BY <1>6 DEF WRead, WSegv
<1>7. CASE WLend
  BY <1>7 DEF WLend, WSemop
<1>8. CASE WRaise
  BY <1>8 DEF WRaise, WSemop
<1>9. CASE WTest
  BY <1>9 DEF WTest, WSegv
<1>10. CASE WFinal
  BY <1>10 DEF WFinal, WSemop
<1>11. CASE WExit
  BY <1>11 DEF WExit, WRemove
<1>12. CASE WSignal
  BY <1>12 DEF WSignal, WRemove
<1>13. CASE WKill
  BY <1>13 DEF WKill
<1>14. CASE RSemget
  BY <1>14 DEF RSemget, RFail
<1>15. CASE RShmget
  BY <1>15 DEF RShmget, RFail
<1>16. CASE RShmat
  BY <1>16 DEF RShmat, RFail
<1>17. CASE RWait
  BY <1>17 DEF RWait, RSemop
<1>18. CASE RCheck
  BY <1>18 DEF RCheck, RSegv
<1>19. CASE RPrint
  <2>1. rpc = "print" /\ inited /\ ~early /\ Phase
    BY <1>19 DEF RPrint, RSegv, RFail
  <2>2. CASE RFail("print") \/ RSegv("print")
    BY <2>1, <2>2 DEF RFail, RSegv
  <2>3. CASE out' = Append(out, buf) /\ rpc' = "lend"
    <3>1. Len(out') = Len(out) + 1
      BY <2>3
    <3>2. UNCHANGED <<semVars, segVars, wVars, hist>>
      BY <1>19, <2>3 DEF RPrint, RSegv, RFail
    <3>3. QED
      BY <2>1, <2>3, <3>1, <3>2
  <2>4. QED
    BY <1>19, <2>1, <2>2, <2>3 DEF RPrint
<1>20. CASE RLend
  BY <1>20 DEF RLend, RSemop
<1>21. CASE RRaise
  BY <1>21 DEF RRaise, RSemop
<1>22. CASE RDetach
  BY <1>22 DEF RDetach, RFail
<1>23. CASE RBye
  BY <1>23 DEF RBye, RSemop
<1>24. CASE RExit
  BY <1>24 DEF RExit
<1>25. CASE RSignal
  BY <1>25 DEF RSignal, RAsleep
<1>26. CASE RKill
  BY <1>26 DEF RKill
<1>27. CASE UNCHANGED vars
  BY <1>27 DEF vars
<1>28. QED
  BY <1>1, <1>2, <1>3, <1>4, <1>5, <1>6, <1>7, <1>8, <1>9, <1>10, <1>11, <1>12, <1>13, <1>14, <1>15, <1>16, <1>17, <1>18, <1>19, <1>20, <1>21, <1>22, <1>23, <1>24, <1>25, <1>26, <1>27
     DEF Next, Writer, Reader, Signals

\* Only the reader's write() adds to what was printed, and what it adds is the
\* block the writer has put in last.
LEMMA PrintStep ==
  ASSUME TypeOK, IInv, [Next]_vars, ~early', out' # out
  PROVE  /\ out' = Append(out, Input[Len(out) + 1])
         /\ pos = Len(out) + 1
         /\ UNCHANGED pos
<1> USE DEF semVars, segVars, wVars, rVars, hist
<1>1. RPrint /\ out' = Append(out, buf) /\ cnt = "data" /\ rpc = "print" /\ UNCHANGED <<pos, early>>
  BY DEF vars, Next, Writer, Reader, Signals, WSemget, WSetall, WShmget, WShmat, WWait, WRead,
         WLend, WRaise, WTest, WFinal, WExit, WSignal, WKill, WFail, WSemop, WSegv, WRemove,
         RSemget, RShmget, RShmat, RWait, RCheck, RPrint, RLend, RRaise, RDetach, RBye,
         RExit, RSignal, RKill, RFail, RSemop, RSegv
<1>2. Filled
  BY <1>1 DEF IInv, Setup, Phase, Reading, RBefore, RLooking, RUsed, Gone, Ended
<1>3. QED
  BY <1>1, <1>2 DEF Filled

\* Only the writer's read() takes a block of the input, and only when all the
\* earlier ones have been printed.
LEMMA ReadStep ==
  ASSUME TypeOK, IInv, [Next]_vars, ~early, pos' # pos
  PROVE  /\ pos' = pos + 1 /\ pos < Len(Input)
         /\ pos = Len(out)
         /\ UNCHANGED <<out, early>>
<1> USE DEF semVars, segVars, wVars, rVars, hist
<1>1. /\ wpc = "read" /\ pos' = pos + 1 /\ pos < Len(Input)
      /\ UNCHANGED <<out, early>>
  BY DEF vars, Next, Writer, Reader, Signals, WSemget, WSetall, WShmget, WShmat, WWait, WRead,
         WLend, WRaise, WTest, WFinal, WExit, WSignal, WKill, WFail, WSemop, WSegv, WRemove,
         RSemget, RShmget, RShmat, RWait, RCheck, RPrint, RLend, RRaise, RDetach, RBye,
         RExit, RSignal, RKill, RFail, RSemop, RSegv
<1>2. Phase /\ wpc \notin {"lend"} \cup Gone
  BY <1>1 DEF IInv, Setup, WRun, Gone, Ended
<1>3. pos = Len(out)
  BY <1>1, <1>2 DEF Phase, Writing, Gone, Ended
<1>4. QED
  BY <1>1, <1>3

LEMMA EarlyStays == TypeOK /\ [Next]_vars /\ Setup /\ early => early'
  BY DEF TypeOK, Setup, Next, Writer, Reader, Signals, WSemget, WSetall, WShmget, WShmat, WWait, WRead,
         WLend, WRaise, WTest, WFinal, WExit, WSignal, WKill, WFail, WSemop, WSegv, WRemove,
         RSemget, RShmget, RShmat, RWait, RCheck, RPrint, RLend, RRaise, RDetach, RBye,
         RExit, RSignal, RKill, RFail, RSemop, RSegv, vars, semVars, segVars, wVars, rVars, hist

\* A reader turns out to be early before SETALL, and so before any block.
LEMMA EarlyBegins == TypeOK /\ IInv /\ [Next]_vars /\ ~early /\ early' => pos = 0 /\ out = <<>>
<1> SUFFICES ASSUME TypeOK, IInv, [Next]_vars, ~early, early' PROVE pos = 0 /\ out = <<>>
  OBVIOUS
<1>1. RShmget /\ ~inited
  BY DEF Next, Writer, Reader, Signals, WSemget, WSetall, WShmget, WShmat, WWait, WRead,
         WLend, WRaise, WTest, WFinal, WExit, WSignal, WKill, WFail, WSemop, WSegv, WRemove,
         RSemget, RShmget, RShmat, RWait, RCheck, RPrint, RLend, RRaise, RDetach, RBye,
         RExit, RSignal, RKill, RFail, RSemop, RSegv, vars, semVars, segVars, wVars, rVars, hist
<1>2. QED
  BY <1>1 DEF IInv, Setup

LEMMA IInvInit == Init => IInv
  BY RunAssumption DEF RunAssumption, Init, IInv, Setup, InOrder, WRun

LEMMA IInvStep == TypeOK /\ IInv /\ [Next]_vars => IInv'
<1> SUFFICES ASSUME TypeOK, IInv, [Next]_vars PROVE IInv'
  OBVIOUS
<1>1. Setup'
  BY SetupStep DEF IInv
<1>2. (inited /\ ~early => Phase)'
  BY PhaseStep
<1>3. CASE early'
  BY <1>1, <1>2, <1>3 DEF IInv, InOrder
<1>4. CASE ~early' /\ out' # out
  <2>1. out' = Append(out, Input[Len(out) + 1]) /\ pos = Len(out) + 1 /\ pos' = pos
    BY <1>4, PrintStep
  <2>2. ~early
    BY <1>4, EarlyStays DEF IInv
  <2>3. out \in Seq(Blocks) /\ pos \in 0..Len(Input)
    BY DEF TypeOK
  <2>4. Len(out') = Len(out) + 1
    BY <2>1, <2>3
  <2>5. ASSUME NEW i \in 1..Len(out') PROVE out'[i] = Input[i]
    BY <2>1, <2>2, <2>3, <2>4 DEF IInv, InOrder
  <2>6. QED
    BY <1>1, <1>2, <2>1, <2>3, <2>4, <2>5 DEF IInv, InOrder
<1>5. CASE ~early' /\ out' = out
  <2>1. ~early
    BY <1>5, EarlyStays DEF IInv
  <2>2. pos' = pos \/ pos' = pos + 1
    BY <2>1, ReadStep
  <2>3. QED
    BY <1>1, <1>2, <1>5, <2>1, <2>2, RunAssumption DEF RunAssumption, IInv, InOrder, TypeOK
<1>6. QED
  BY <1>3, <1>4, <1>5

-----------------------------------------------------------------------------
\* The inductive invariant holds throughout.
THEOREM Inductive == Spec => [](TypeOK /\ IInv)
<1>1. Init => TypeOK /\ IInv
  BY TypeInit, IInvInit
<1>2. TypeOK /\ IInv /\ [Next]_vars => (TypeOK /\ IInv)'
  BY TypeStep, IInvStep
<1>3. QED
  BY <1>1, <1>2, PTL DEF Spec

\* The writer never fills the segment while the reader is looking at it.
THEOREM Exclusion == Spec => []BufferExclusion
<1>1. TypeOK /\ IInv => BufferExclusion
  BY DEF TypeOK, IInv, Setup, Phase, Writing, Reading, BufferExclusion,
         RBefore, RLooking, RUsed, Gone, Ended, WRun
<1>2. QED
  BY <1>1, Inductive, PTL

\* What the reader has printed is at any time a prefix of the input, unless it
\* came before SETALL.
THEOREM PrintedInOrder == Spec => []InOrder
<1>1. IInv => InOrder
  BY DEF IInv
<1>2. QED
  BY <1>1, Inductive, PTL

\* No reader comes before SETALL where no segment was left: the writer makes
\* the segment after SETALL, and the reader needs it.
Unseen == ~early /\ (~inited => ~keyed)

LEMMA UnseenStep == TypeOK /\ Setup /\ Unseen /\ [Next]_vars => Unseen'
<1> SUFFICES ASSUME TypeOK, Setup, Unseen, [Next]_vars PROVE Unseen'
  OBVIOUS
<1> USE DEF TypeOK, Setup, Unseen, WRun, semVars, segVars, wVars, rVars, hist
<1>1. CASE WSetall \/ WShmget
  BY <1>1 DEF WSetall, WShmget, WFail
<1>2. CASE RShmget
  BY <1>2 DEF RShmget, RFail
<1>3. CASE WExit \/ WSignal
  BY <1>3 DEF WExit, WSignal, WRemove
<1>4. CASE UNCHANGED <<keyed, inited, early>>
  BY <1>4
<1>5. QED
  BY <1>1, <1>2, <1>3, <1>4
     DEF Next, Writer, Reader, Signals, WSemget, WShmat, WWait, WRead, WLend, WRaise,
         WTest, WFinal, WKill, WFail, WSemop, WSegv, RSemget, RShmat, RWait, RCheck,
         RPrint, RLend, RRaise, RDetach, RBye, RExit, RSignal, RKill, RFail, RSemop,
         RSegv, vars

THEOREM NeverEarly == Spec => FreshNeverEarly
<1>1. Init /\ ~keyed => Unseen
  BY DEF Init, Unseen
<1>2. IInv => Setup
  BY DEF IInv
<1>3. Unseen => ~early
  BY DEF Unseen
<1>4. QED
  BY <1>1, <1>2, <1>3, UnseenStep, Inductive, PTL DEF Spec, FreshNeverEarly

\* The two programs implement the one-slot hand-over of OneSlot, whatever
\* faults the run meets and whatever an earlier one left: as long as the reader
\* was not early each step is one of OneSlot's, and a reader that turns out to
\* be early does so before anything was handed over.
THEOREM TransferImplemented == Spec => Transfer
<1>1. Init => Slot!Init
  BY DEF Init, Slot!Init
<1>2. TypeOK /\ IInv /\ (TypeOK /\ IInv)' /\ [Next]_vars
        => [Slot!Next]_<<IF early THEN 0 ELSE pos, IF early THEN <<>> ELSE out>>
  <2> SUFFICES ASSUME TypeOK, IInv, IInv', [Next]_vars
               PROVE  [Slot!Next]_<<IF early THEN 0 ELSE pos, IF early THEN <<>> ELSE out>>
    OBVIOUS
  <2>1. CASE early'
    <3>1. CASE early
      BY <2>1, <3>1
    <3>2. CASE ~early
      <4>1. pos = 0 /\ out = <<>>
        BY <2>1, <3>2, EarlyBegins
      <4>2. QED
        BY <2>1, <3>2, <4>1
    <3>3. QED
      BY <3>1, <3>2
  <2>2. CASE ~early'
    <3>1. ~early
      BY <2>2, EarlyStays DEF IInv
    <3>2. CASE out' # out
      <4>1. Slot!Take
        BY <2>2, <3>1, <3>2, PrintStep DEF Slot!Take, TypeOK
      <4>2. QED
        BY <4>1 DEF Slot!Next
    <3>3. CASE pos' # pos
      <4>1. Slot!Put
        BY <2>2, <3>1, <3>3, ReadStep DEF Slot!Put
      <4>2. QED
        BY <4>1 DEF Slot!Next
    <3>4. QED
      BY <2>2, <3>1, <3>2, <3>3
  <2>3. QED
    BY <2>1, <2>2
<1>3. QED
  BY <1>1, <1>2, Inductive, PTL DEF Spec, Transfer, Slot!Spec

-----------------------------------------------------------------------------
(***************************************************************************)
(* What the writer leaves behind.  The SIGSEGV that follows a caught       *)
(* SIGINT runs no exit handler, but the signal handler has removed both    *)
(* objects by then and nothing creates them again.                         *)
(***************************************************************************)
LeftInv == /\ wpc = "semget" => ~wsem
           /\ wpc \in {"semget", "setall", "shmget"} => ~wshm
           /\ wpc \in {"semget", "setall", "shmget", "shmat"} => watt = "none"
           /\ watt = "unmapped" => Removed
           /\ NothingLeft

LEMMA LeftStep == TypeOK /\ LeftInv /\ [Next]_vars => LeftInv'
<1> SUFFICES ASSUME TypeOK, LeftInv, [Next]_vars PROVE LeftInv'
  OBVIOUS
<1> USE DEF TypeOK, LeftInv, Removed, NothingLeft, Ended, WRun, Mapping,
        semVars, segVars, wVars, rVars, hist
<1>1. CASE WSemget
  BY <1>1 DEF WSemget, WFail
<1>2. CASE WSetall
  BY <1>2 DEF WSetall, WFail
<1>3. CASE WShmget
  BY <1>3 DEF WShmget, WFail
<1>4. CASE WShmat
  BY <1>4 DEF WShmat, WFail
<1>5. CASE WWait
  BY <1>5 DEF WWait, WSemop
<1>6. CASE WRead
  BY <1>6 DEF WRead, WSegv
<1>7. CASE WLend
  BY <1>7 DEF WLend, WSemop
<1>8. CASE WRaise
  BY <1>8 DEF WRaise, WSemop
<1>9. CASE WTest
  BY <1>9 DEF WTest, WSegv
<1>10. CASE WFinal
  BY <1>10 DEF WFinal, WSemop
<1>11. CASE WExit
  BY <1>11 DEF WExit, WRemove
<1>12. CASE WSignal
  BY <1>12 DEF WSignal, WRemove
<1>13. CASE WKill
  BY <1>13 DEF WKill
<1>14. CASE RSemget
  BY <1>14 DEF RSemget, RFail
<1>15. CASE RShmget
  BY <1>15 DEF RShmget, RFail
<1>16. CASE RShmat
  BY <1>16 DEF RShmat, RFail
<1>17. CASE RWait
  BY <1>17 DEF RWait, RSemop
<1>18. CASE RCheck
  BY <1>18 DEF RCheck, RSegv
<1>19. CASE RPrint
  BY <1>19 DEF RPrint, RSegv, RFail
<1>20. CASE RLend
  BY <1>20 DEF RLend, RSemop
<1>21. CASE RRaise
  BY <1>21 DEF RRaise, RSemop
<1>22. CASE RDetach
  BY <1>22 DEF RDetach, RFail
<1>23. CASE RBye
  BY <1>23 DEF RBye, RSemop
<1>24. CASE RExit
  BY <1>24 DEF RExit
<1>25. CASE RSignal
  BY <1>25 DEF RSignal, RAsleep
<1>26. CASE RKill
  BY <1>26 DEF RKill
<1>27. CASE UNCHANGED vars
  BY <1>27 DEF vars
<1>28. QED
  BY <1>1, <1>2, <1>3, <1>4, <1>5, <1>6, <1>7, <1>8, <1>9, <1>10, <1>11, <1>12, <1>13, <1>14, <1>15, <1>16, <1>17, <1>18, <1>19, <1>20, <1>21, <1>22, <1>23, <1>24, <1>25, <1>26, <1>27
     DEF Next, Writer, Reader, Signals

\* A writer that ends in any way but SIGKILL leaves neither the semaphore set
\* nor the segment it had opened.
THEOREM NothingLeftBehind == Spec => []NothingLeft
<1>1. Init => LeftInv
  BY DEF Init, LeftInv, NothingLeft, Ended
<1>2. LeftInv => NothingLeft
  BY DEF LeftInv
<1>3. QED
  BY <1>1, <1>2, LeftStep, TypeCorrect, PTL DEF Spec

-----------------------------------------------------------------------------
(***************************************************************************)
(* The semaphores' values, for any reader: also one that came too early    *)
(* adds to READ_SEM only what it has seen at zero before.                  *)
(***************************************************************************)
SemInv == /\ LeftBehindClosed
          /\ wpc \in {"read", "lend", "raise"} => writeSem = 0
          /\ rpc \in RLooking \cup {"lend", "raise"} => readSem <= 1

LEMMA SemStep == TypeOK /\ SemInv /\ [Next]_vars => SemInv'
<1> SUFFICES ASSUME TypeOK, SemInv, [Next]_vars PROVE SemInv'
  OBVIOUS
<1> USE DEF TypeOK, SemInv, LeftBehindClosed, RLooking, WRun, RRun, Ended,
        semVars, segVars, wVars, rVars, hist
<1>1. CASE WSemget
  BY <1>1 DEF WSemget, WFail
<1>2. CASE WSetall
  BY <1>2 DEF WSetall, WFail
<1>3. CASE WShmget
  BY <1>3 DEF WShmget, WFail
<1>4. CASE WShmat
  BY <1>4 DEF WShmat, WFail
<1>5. CASE WWait
  BY <1>5 DEF WWait, WSemop
<1>6. CASE WRead
  BY <1>6 DEF WRead, WSegv
<1>7. CASE WLend
  BY <1>7 DEF WLend, WSemop
<1>8. CASE WRaise
  BY <1>8 DEF WRaise, WSemop
<1>9. CASE WTest
  BY <1>9 DEF WTest, WSegv
<1>10. CASE WFinal
  BY <1>10 DEF WFinal, WSemop
<1>11. CASE WExit
  BY <1>11 DEF WExit, WRemove
<1>12. CASE WSignal
  BY <1>12 DEF WSignal, WRemove
<1>13. CASE WKill
  BY <1>13 DEF WKill
<1>14. CASE RSemget
  BY <1>14 DEF RSemget, RFail
<1>15. CASE RShmget
  BY <1>15 DEF RShmget, RFail
<1>16. CASE RShmat
  BY <1>16 DEF RShmat, RFail
<1>17. CASE RWait
  BY <1>17 DEF RWait, RSemop
<1>18. CASE RCheck
  BY <1>18 DEF RCheck, RSegv
<1>19. CASE RPrint
  BY <1>19 DEF RPrint, RSegv, RFail
<1>20. CASE RLend
  BY <1>20 DEF RLend, RSemop
<1>21. CASE RRaise
  BY <1>21 DEF RRaise, RSemop
<1>22. CASE RDetach
  BY <1>22 DEF RDetach, RFail
<1>23. CASE RBye
  BY <1>23 DEF RBye, RSemop
<1>24. CASE RExit
  BY <1>24 DEF RExit
<1>25. CASE RSignal
  BY <1>25 DEF RSignal, RAsleep
<1>26. CASE RKill
  BY <1>26 DEF RKill
<1>27. CASE UNCHANGED vars
  BY <1>27 DEF vars
<1>28. QED
  BY <1>1, <1>2, <1>3, <1>4, <1>5, <1>6, <1>7, <1>8, <1>9, <1>10, <1>11, <1>12,
     <1>13, <1>14, <1>15, <1>16, <1>17, <1>18, <1>19, <1>20, <1>21, <1>22,
     <1>23, <1>24, <1>25, <1>26, <1>27
     DEF Next, Writer, Reader, Signals

\* The semaphores a writer leaves when it is killed have the values this model
\* starts a run from, so that a run on them is covered as well.
THEOREM LeftoversCovered == Spec => []LeftBehindClosed
<1>1. Init => SemInv
  BY DEF Init, SemInv, LeftBehind, LeftBehindClosed, RLooking
<1>2. SemInv => LeftBehindClosed
  BY DEF SemInv
<1>3. QED
  BY <1>1, <1>2, SemStep, TypeCorrect, PTL DEF Spec

-----------------------------------------------------------------------------
(***************************************************************************)
(* No block is printed twice or out of order, by any reader.  Between two  *)
(* looks of the reader at the segment the writer lowers READ_SEM, and      *)
(* before it does that it has put a new block there.                       *)
(***************************************************************************)
\* As long as the segment has not been lent to the reader, READ_SEM keeps out
\* the reader that waits for it.
KeptOut == (/\ wpc \in WRun \ {"semget", "setall", "raise"}
            /\ writeSem = 0
            /\ rpc \in RBefore \cup RLooking \cup {"lend"}) => readSem # 0

\* A reader that has printed what is in the segment does not look at it again.
NotAgain == /\ rpc \notin RLooking
            /\ rpc \in {"lend", "raise"} /\ wpc = "lend" => readSem >= 1
            /\ rpc \in RBefore => readSem >= (IF wpc = "lend" THEN 2 ELSE 1)

Printed(k) == \E i \in 1..Len(out) : out[i] = Input[k]
PrintedLast == cnt = "data" /\ pos > 0 /\ Printed(pos)

Different == \A k, l \in 1..Len(Input) : Input[k] = Input[l] => k = l

BackInv == /\ wpc \in {"semget", "setall", "shmget"} => pos = 0
           /\ buf = IF pos = 0 THEN Stale ELSE Input[pos]
           /\ \A k \in 1..Len(Input) : Printed(k) => k <= pos
           /\ KeptOut
           /\ PrintedLast => NotAgain
           /\ NeverBackwards

LEMMA KeptOutStep == TypeOK /\ SemInv /\ KeptOut /\ [Next]_vars => KeptOut'
<1> SUFFICES ASSUME TypeOK, SemInv, KeptOut, [Next]_vars PROVE KeptOut'
  OBVIOUS
<1> USE DEF TypeOK, SemInv, LeftBehindClosed, KeptOut, RLooking, RBefore, WRun, RRun, Ended,
        semVars, segVars, wVars, rVars, hist
<1>1. CASE WSemget
  BY <1>1 DEF WSemget, WFail
<1>2. CASE WSetall
  BY <1>2 DEF WSetall, WFail
<1>3. CASE WShmget
  BY <1>3 DEF WShmget, WFail
<1>4. CASE WShmat
  BY <1>4 DEF WShmat, WFail
<1>5. CASE WWait
  BY <1>5 DEF WWait, WSemop
<1>6. CASE WRead
  BY <1>6 DEF WRead, WSegv
<1>7. CASE WLend
  BY <1>7 DEF WLend, WSemop
<1>8. CASE WRaise
  BY <1>8 DEF WRaise, WSemop
<1>9. CASE WTest
  BY <1>9 DEF WTest, WSegv
<1>10. CASE WFinal
  BY <1>10 DEF WFinal, WSemop
<1>11. CASE WExit
  BY <1>11 DEF WExit, WRemove
<1>12. CASE WSignal
  BY <1>12 DEF WSignal, WRemove
<1>13. CASE WKill
  BY <1>13 DEF WKill
<1>14. CASE RSemget
  BY <1>14 DEF RSemget, RFail
<1>15. CASE RShmget
  BY <1>15 DEF RShmget, RFail
<1>16. CASE RShmat
  BY <1>16 DEF RShmat, RFail
<1>17. CASE RWait
  BY <1>17 DEF RWait, RSemop
<1>18. CASE RCheck
  BY <1>18 DEF RCheck, RSegv
<1>19. CASE RPrint
  BY <1>19 DEF RPrint, RSegv, RFail
<1>20. CASE RLend
  BY <1>20 DEF RLend, RSemop
<1>21. CASE RRaise
  BY <1>21 DEF RRaise, RSemop
<1>22. CASE RDetach
  BY <1>22 DEF RDetach, RFail
<1>23. CASE RBye
  BY <1>23 DEF RBye, RSemop
<1>24. CASE RExit
  BY <1>24 DEF RExit
<1>25. CASE RSignal
  BY <1>25 DEF RSignal, RAsleep
<1>26. CASE RKill
  BY <1>26 DEF RKill
<1>27. CASE UNCHANGED vars
  BY <1>27 DEF vars
<1>28. QED
  BY <1>1, <1>2, <1>3, <1>4, <1>5, <1>6, <1>7, <1>8, <1>9, <1>10, <1>11, <1>12,
     <1>13, <1>14, <1>15, <1>16, <1>17, <1>18, <1>19, <1>20, <1>21, <1>22,
     <1>23, <1>24, <1>25, <1>26, <1>27
     DEF Next, Writer, Reader, Signals

LEMMA NotAgainStep ==
  ASSUME TypeOK, SemInv, KeptOut, NotAgain, [Next]_vars,
         wpc \notin {"semget", "setall", "shmget"}, ~(wpc = "read" /\ wpc' = "lend")
  PROVE  NotAgain'
<1> USE DEF TypeOK, SemInv, LeftBehindClosed, KeptOut, NotAgain, RLooking, RBefore, WRun, RRun,
        Ended, semVars, segVars, wVars, rVars, hist
<1>1. CASE WSemget
  BY <1>1 DEF WSemget, WFail
<1>2. CASE WSetall
  BY <1>2 DEF WSetall, WFail
<1>3. CASE WShmget
  BY <1>3 DEF WShmget, WFail
<1>4. CASE WShmat
  BY <1>4 DEF WShmat, WFail
<1>5. CASE WWait
  BY <1>5 DEF WWait, WSemop
<1>6. CASE WRead
  BY <1>6 DEF WRead, WSegv
<1>7. CASE WLend
  BY <1>7 DEF WLend, WSemop
<1>8. CASE WRaise
  BY <1>8 DEF WRaise, WSemop
<1>9. CASE WTest
  BY <1>9 DEF WTest, WSegv
<1>10. CASE WFinal
  BY <1>10 DEF WFinal, WSemop
<1>11. CASE WExit
  BY <1>11 DEF WExit, WRemove
<1>12. CASE WSignal
  BY <1>12 DEF WSignal, WRemove
<1>13. CASE WKill
  BY <1>13 DEF WKill
<1>14. CASE RSemget
  BY <1>14 DEF RSemget, RFail
<1>15. CASE RShmget
  BY <1>15 DEF RShmget, RFail
<1>16. CASE RShmat
  BY <1>16 DEF RShmat, RFail
<1>17. CASE RWait
  BY <1>17 DEF RWait, RSemop
<1>18. CASE RCheck
  BY <1>18 DEF RCheck, RSegv
<1>19. CASE RPrint
  BY <1>19 DEF RPrint, RSegv, RFail
<1>20. CASE RLend
  BY <1>20 DEF RLend, RSemop
<1>21. CASE RRaise
  BY <1>21 DEF RRaise, RSemop
<1>22. CASE RDetach
  BY <1>22 DEF RDetach, RFail
<1>23. CASE RBye
  BY <1>23 DEF RBye, RSemop
<1>24. CASE RExit
  BY <1>24 DEF RExit
<1>25. CASE RSignal
  BY <1>25 DEF RSignal, RAsleep
<1>26. CASE RKill
  BY <1>26 DEF RKill
<1>27. CASE UNCHANGED vars
  BY <1>27 DEF vars
<1>28. QED
  BY <1>1, <1>2, <1>3, <1>4, <1>5, <1>6, <1>7, <1>8, <1>9, <1>10, <1>11, <1>12,
     <1>13, <1>14, <1>15, <1>16, <1>17, <1>18, <1>19, <1>20, <1>21, <1>22,
     <1>23, <1>24, <1>25, <1>26, <1>27
     DEF Next, Writer, Reader, Signals

\* What any step does to the segment, and to what is read and printed.
LEMMA SegmentStep ==
  ASSUME TypeOK, [Next]_vars
  PROVE  \/ /\ UNCHANGED <<out, pos, buf>>
            /\ cnt' # "data" \/ (cnt' = cnt /\ ~(wpc = "read" /\ wpc' = "lend"))
            /\ wpc' \in {"semget", "setall", "shmget"} => wpc \in {"semget", "setall", "shmget"}
         \/ /\ wpc = "shmget" /\ wpc' = "shmat" /\ cnt' = "eof" /\ buf' = Stale
            /\ UNCHANGED <<out, pos>>
         \/ /\ wpc = "read" /\ wpc' = "lend"
            /\ pos < Len(Input) /\ pos' = pos + 1 /\ buf' = Input[pos + 1]
            /\ UNCHANGED out
         \/ /\ rpc = "print" /\ rpc' = "lend" /\ cnt = "data" /\ out' = Append(out, buf)
            /\ UNCHANGED <<pos, cnt, buf, wpc, readSem, writeSem>>
<1> USE DEF TypeOK, WRun, Ended, semVars, segVars, wVars, rVars, hist
<1>1. CASE WSemget
  BY <1>1 DEF WSemget, WFail
<1>2. CASE WSetall
  BY <1>2 DEF WSetall, WFail
<1>3. CASE WShmget
  BY <1>3 DEF WShmget, WFail
<1>4. CASE WShmat
  BY <1>4 DEF WShmat, WFail
<1>5. CASE WWait
  BY <1>5 DEF WWait, WSemop
<1>6. CASE WRead
  BY <1>6 DEF WRead, WSegv
<1>7. CASE WLend
  BY <1>7 DEF WLend, WSemop
<1>8. CASE WRaise
  BY <1>8 DEF WRaise, WSemop
<1>9. CASE WTest
  BY <1>9 DEF WTest, WSegv
<1>10. CASE WFinal
  BY <1>10 DEF WFinal, WSemop
<1>11. CASE WExit
  BY <1>11 DEF WExit, WRemove
<1>12. CASE WSignal
  BY <1>12 DEF WSignal, WRemove
<1>13. CASE WKill
  BY <1>13 DEF WKill
<1>14. CASE RSemget
  BY <1>14 DEF RSemget, RFail
<1>15. CASE RShmget
  BY <1>15 DEF RShmget, RFail
<1>16. CASE RShmat
  BY <1>16 DEF RShmat, RFail
<1>17. CASE RWait
  BY <1>17 DEF RWait, RSemop
<1>18. CASE RCheck
  BY <1>18 DEF RCheck, RSegv
<1>19. CASE RPrint
  BY <1>19 DEF RPrint, RSegv, RFail
<1>20. CASE RLend
  BY <1>20 DEF RLend, RSemop
<1>21. CASE RRaise
  BY <1>21 DEF RRaise, RSemop
<1>22. CASE RDetach
  BY <1>22 DEF RDetach, RFail
<1>23. CASE RBye
  BY <1>23 DEF RBye, RSemop
<1>24. CASE RExit
  BY <1>24 DEF RExit
<1>25. CASE RSignal
  BY <1>25 DEF RSignal, RAsleep
<1>26. CASE RKill
  BY <1>26 DEF RKill
<1>27. CASE UNCHANGED vars
  BY <1>27 DEF vars
<1>28. QED
  BY <1>1, <1>2, <1>3, <1>4, <1>5, <1>6, <1>7, <1>8, <1>9, <1>10, <1>11, <1>12,
     <1>13, <1>14, <1>15, <1>16, <1>17, <1>18, <1>19, <1>20, <1>21, <1>22,
     <1>23, <1>24, <1>25, <1>26, <1>27
     DEF Next, Writer, Reader, Signals

LEMMA BackStep == Different /\ TypeOK /\ SemInv /\ BackInv /\ [Next]_vars => BackInv'
<1> SUFFICES ASSUME Different, TypeOK, SemInv, BackInv, [Next]_vars PROVE BackInv'
  OBVIOUS
<1>t. /\ out \in Seq(Blocks) /\ Len(out) \in Nat /\ pos \in 0..Len(Input) /\ Len(Input) \in Nat
      /\ \A k \in 1..Len(Input) : Input[k] # Stale
  BY RunAssumption DEF RunAssumption, TypeOK
<1>k. KeptOut'
  BY KeptOutStep DEF BackInv
<1>a. \A i, j \in 1..Len(out), k, l \in 1..Len(Input) :
         (i < j /\ out[i] = Input[k] /\ out[j] = Input[l]) => k < l
  BY DEF BackInv, NeverBackwards, Different
<1>1. ASSUME UNCHANGED <<out, pos, buf>>,
             cnt' # "data" \/ (cnt' = cnt /\ ~(wpc = "read" /\ wpc' = "lend")),
             wpc' \in {"semget", "setall", "shmget"} => wpc \in {"semget", "setall", "shmget"}
      PROVE  BackInv'
  <2>1. \A k : Printed(k)' <=> Printed(k)
    BY <1>1 DEF Printed
  <2>2. NeverBackwards'
    BY <1>1 DEF BackInv, NeverBackwards
  <2>3. ASSUME PrintedLast' PROVE NotAgain'
    <3>1. cnt' = "data" /\ pos > 0 /\ Printed(pos)
      BY <1>1, <2>1, <2>3 DEF PrintedLast, Printed
    <3>2. PrintedLast /\ ~(wpc = "read" /\ wpc' = "lend")
      BY <1>1, <3>1 DEF PrintedLast
    <3>3. wpc \notin {"semget", "setall", "shmget"}
      BY <1>t, <3>1 DEF BackInv
    <3>4. QED
      BY <3>2, <3>3, NotAgainStep DEF BackInv
  <2>4. QED
    BY <1>k, <1>1, <2>1, <2>2, <2>3 DEF BackInv
<1>2. ASSUME wpc = "shmget", wpc' = "shmat", cnt' = "eof", buf' = Stale, UNCHANGED <<out, pos>>
      PROVE  BackInv'
  <2>1. pos = 0 /\ \A k : Printed(k)' <=> Printed(k)
    BY <1>2 DEF BackInv, Printed
  <2>2. NeverBackwards'
    BY <1>2 DEF BackInv, NeverBackwards
  <2>3. ~PrintedLast'
    BY <1>2 DEF PrintedLast
  <2>4. QED
    BY <1>k, <1>2, <2>1, <2>2, <2>3 DEF BackInv
<1>3. ASSUME wpc = "read", wpc' = "lend", pos < Len(Input), pos' = pos + 1, buf' = Input[pos + 1],
             UNCHANGED out
      PROVE  BackInv'
  <2>1. \A k : Printed(k)' <=> Printed(k)
    BY <1>3 DEF Printed
  <2>2. NeverBackwards'
    BY <1>3 DEF BackInv, NeverBackwards
  <2>3. ~PrintedLast'
    <3>1. pos + 1 \in 1..Len(Input) /\ ~(pos + 1 <= pos)
      BY <1>t, <1>3
    <3>2. ~Printed(pos + 1)
      BY <3>1 DEF BackInv
    <3>3. PrintedLast' => Printed(pos + 1)
      BY <1>3 DEF PrintedLast, Printed
    <3>4. QED
      BY <3>2, <3>3
  <2>4. \A k \in 1..Len(Input) : Printed(k)' => k <= pos'
    BY <1>t, <1>3, <2>1 DEF BackInv
  <2>5. buf' = IF pos' = 0 THEN Stale ELSE Input[pos']
    BY <1>t, <1>3
  <2>6. QED
    BY <1>k, <1>3, <2>2, <2>3, <2>4, <2>5 DEF BackInv
<1>4. ASSUME rpc = "print", rpc' = "lend", cnt = "data", out' = Append(out, buf),
             UNCHANGED <<pos, cnt, buf, wpc, readSem, writeSem>>
      PROVE  BackInv'
  <2>1. /\ Len(out') = Len(out) + 1 /\ out'[Len(out) + 1] = buf
        /\ \A i \in 1..Len(out) : out'[i] = out[i]
    BY <1>t, <1>4 DEF TypeOK
  <2>2. \A i \in 1..Len(out') : i \in 1..Len(out) \/ i = Len(out) + 1
    BY <1>t, <2>1
  <2>3. ASSUME NEW k \in 1..Len(Input), buf = Input[k] PROVE k = pos
    <3>1. pos \in 1..Len(Input) /\ buf = Input[pos]
      BY <1>t, <2>3 DEF BackInv
    <3>2. QED
      BY <2>3, <3>1 DEF Different
  <2>4. \A k \in 1..Len(Input) : k = pos => ~Printed(k)
    BY <1>t, <1>4 DEF BackInv, PrintedLast, NotAgain, RLooking
  <2>5. ASSUME NEW i \in 1..Len(out'), NEW j \in 1..Len(out'), NEW k \in 1..Len(Input),
               NEW l \in 1..Len(Input), i < j, out'[i] = Input[k], out'[j] = Input[l]
        PROVE  k < l
    <3>1. i \in 1..Len(out) /\ out[i] = Input[k]
      BY <1>t, <2>1, <2>2, <2>5
    <3>2. CASE j \in 1..Len(out)
      BY <1>a, <2>1, <2>5, <3>1, <3>2
    <3>3. CASE j = Len(out) + 1
      <4>1. l = pos
        BY <2>1, <2>3, <2>5, <3>3
      <4>2. Printed(k)
        BY <3>1 DEF Printed
      <4>3. k <= pos /\ k # pos
        BY <2>4, <4>2 DEF BackInv
      <4>4. QED
        BY <1>t, <4>1, <4>3
    <3>4. QED
      BY <2>2, <3>2, <3>3
  <2>6. NeverBackwards'
    BY <2>5 DEF NeverBackwards
  <2>7. ASSUME NEW k \in 1..Len(Input), Printed(k)' PROVE k <= pos
    <3>1. PICK i \in 1..Len(out') : out'[i] = Input[k]
      BY <2>7 DEF Printed
    <3>2. CASE i \in 1..Len(out)
      <4>1. Printed(k)
        BY <2>1, <3>1, <3>2 DEF Printed
      <4>2. QED
        BY <4>1 DEF BackInv
    <3>3. CASE i = Len(out) + 1
      BY <1>t, <2>1, <2>3, <3>1, <3>3
    <3>4. QED
      BY <2>2, <3>2, <3>3
  <2>8. NotAgain'
    <3>1. wpc = "lend" => readSem >= 1
      BY <1>4 DEF BackInv, KeptOut, SemInv, LeftBehindClosed, RLooking, WRun, TypeOK
    <3>2. QED
      BY <1>4, <3>1 DEF NotAgain, RLooking, RBefore
  <2>9. QED
    BY <1>k, <1>4, <2>6, <2>7, <2>8 DEF BackInv
<1>5. QED
  BY <1>1, <1>2, <1>3, <1>4, SegmentStep

\* No reader, early or not, prints a block of the input twice or out of order,
\* whatever the run started from and whatever fails, if the blocks all differ.
THEOREM NoBlockTwice == Spec => []NeverBackwards
<1>1. Init => SemInv /\ BackInv
  <2> SUFFICES ASSUME Init PROVE SemInv /\ BackInv
    OBVIOUS
  <2>1. SemInv
    BY DEF Init, SemInv, LeftBehind, LeftBehindClosed, RLooking
  <2>2. out = <<>> /\ Len(out) = 0 /\ pos = 0 /\ wpc = "semget" /\ buf = Stale
    BY DEF Init, LeftBehind
  <2>3. QED
    BY <2>1, <2>2 DEF BackInv, KeptOut, PrintedLast, Printed, NeverBackwards
<1>2. Different /\ TypeOK /\ SemInv /\ BackInv /\ [Next]_vars => (SemInv /\ BackInv)'
  BY SemStep, BackStep
<1>3. BackInv => NeverBackwards
  BY DEF BackInv
<1>4. ~Different => NeverBackwards
  BY DEF Different, NeverBackwards
<1>5. CASE Different
  <2>1. TypeOK /\ SemInv /\ BackInv /\ [Next]_vars => (SemInv /\ BackInv)'
    BY <1>2, <1>5
  <2>2. QED
    BY <1>1, <1>3, <2>1, TypeCorrect, PTL DEF Spec
<1>6. CASE ~Different
  <2>1. NeverBackwards
    BY <1>4, <1>6
  <2>2. QED
    BY <2>1, PTL
<1>7. QED
  BY <1>5, <1>6
=============================================================================
