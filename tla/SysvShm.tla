------------------------------ MODULE SysvShm ------------------------------
(***************************************************************************)
(* sysv_shm_demo: sysv_shm_writer.c copies its standard input, block by    *)
(* block, through one shared-memory segment to sysv_shm_reader.c, which    *)
(* copies it to its standard output.  Two System V semaphores pass the     *)
(* segment back and forth; each process waits for a semaphore to be ZERO   *)
(* before it touches the buffer, and lends it by lowering the peer's       *)
(* semaphore and then raising its own.                                     *)
(*                                                                         *)
(* One run of each program is modelled, started in any order, on a kernel  *)
(* that holds no IPC object, or those that an earlier writer left behind   *)
(* when it was killed.  Every system call is a step of its own, except     *)
(* that clean() and the signal handlers are one step each.                 *)
(***************************************************************************)
EXTENDS Integers, Sequences

CONSTANTS
  Block,     \* what one read() of the standard input may return
  Input,     \* the blocks that read(STDIN) returns before end of file
  Stale,     \* a block that some earlier run left in the segment
  Faults     \* what may go wrong in this run, a subset of FaultKinds

FaultKinds == {"ipc",      \* semget, shmget or shmat fails
               "stdin",    \* read(STDIN) fails
               "stdout",   \* write(STDOUT) is short or fails
               "sigW",     \* the writer gets SIGINT or SIGTERM
               "sigR",     \* the reader gets SIGINT or SIGTERM
               "killW",    \* the writer gets SIGKILL
               "killR"}    \* the reader gets SIGKILL

ASSUME RunAssumption == /\ Input \in Seq(Block)
                        /\ Stale \notin Block
                        /\ Faults \subseteq FaultKinds

VARIABLES
  semAlive, writeSem, readSem,   \* the semaphore set: WRITE_SEM and READ_SEM
  keyed, cnt, buf,               \* the segment: its key is bound; its contents
  wpc, wsem, wshm, watt, pos,    \* writer: semid and shmid known, shmp, blocks read
  rpc, ratt, out,                \* reader: shmp, blocks printed
  inited, early, failed          \* history: SETALL was done; the reader came before it;
                                 \* a call other than semop() failed, or a signal came

semVars == <<semAlive, writeSem, readSem>>
segVars == <<keyed, cnt, buf>>
wVars == <<wpc, wsem, wshm, watt, pos>>
rVars == <<rpc, ratt, out>>
hist == <<inited, early, failed>>
vars == <<semVars, segVars, wVars, rVars, hist>>

Blocks == Block \cup {Stale}
\* shmp->cnt is the result of read(): 0 at end of file, -1 on error, else a
\* length that only matters as "some data".
Counts == {"eof", "err", "data"}
\* shmp is (void *)-1, mapped, or still set although shmdt() was done.
Mapping == {"none", "mapped", "unmapped"}

WRun == {"semget", "setall", "shmget", "shmat", "wait", "read", "lend",
         "raise", "test", "final"}
RRun == {"semget", "shmget", "shmat", "wait", "check", "print", "lend",
         "raise", "detach", "bye"}
Ended == {"done", "crashed", "killed"}

\* The segment exists while its key is bound or some process has it mapped.
SegAlive == keyed \/ watt = "mapped" \/ ratt = "mapped"

TypeOK ==
  /\ semAlive \in BOOLEAN /\ writeSem \in Nat /\ readSem \in Nat
  /\ keyed \in BOOLEAN /\ cnt \in Counts /\ buf \in Blocks
  /\ wpc \in WRun \cup {"exit"} \cup Ended
  /\ wsem \in BOOLEAN /\ wshm \in BOOLEAN /\ watt \in Mapping
  /\ pos \in 0..Len(Input)
  /\ rpc \in RRun \cup {"exit"} \cup Ended
  /\ ratt \in Mapping /\ out \in Seq(Blocks)
  /\ inited \in BOOLEAN /\ early \in BOOLEAN /\ failed \in BOOLEAN

(***************************************************************************)
(* What a writer that was killed leaves in the kernel.                     *)
(***************************************************************************)
LeftBehind == /\ writeSem \in (IF semAlive THEN 0..1 ELSE {0})
              /\ readSem \in (IF semAlive THEN 0..2 ELSE {0})
              /\ cnt \in (IF keyed THEN Counts ELSE {"eof"})
              /\ buf = Stale

Init ==
  /\ semAlive \in BOOLEAN /\ keyed \in BOOLEAN /\ LeftBehind
  /\ wpc = "semget" /\ wsem = FALSE /\ wshm = FALSE /\ watt = "none" /\ pos = 0
  /\ rpc = "semget" /\ ratt = "none" /\ out = <<>>
  /\ inited = FALSE /\ early = FALSE /\ failed = FALSE

-----------------------------------------------------------------------------
(* The writer.  Every failed call returns -1 from main: wpc = "exit".      *)

WFail(at) == /\ wpc = at
             /\ wpc' = "exit" /\ failed' = TRUE
             /\ UNCHANGED <<semVars, segVars, wsem, wshm, watt, pos, rVars, inited, early>>

\* semop() of the writer at `at`: once ready it adds dw and dr to the two
\* semaphores; it fails when the set has been removed.
WSemop(at, next, ready, dw, dr) ==
  /\ wpc = at
  /\ IF semAlive
     THEN /\ ready
          /\ writeSem' = writeSem + dw
          /\ readSem' = readSem + dr
          /\ wpc' = next
     ELSE wpc' = "exit" /\ UNCHANGED <<writeSem, readSem>>
  /\ UNCHANGED <<semAlive, segVars, wsem, wshm, watt, pos, rVars, hist>>

\* Mutant: SETALL is forgotten.
MutNoSetall ==
  \/ /\ wpc = "semget" /\ wpc' = "shmget" /\ wsem' = TRUE
     /\ semAlive' = TRUE /\ writeSem' = 0 /\ readSem' = 0
     /\ UNCHANGED <<segVars, wshm, watt, pos, rVars, hist>>

WSemget ==  \* IPC_CREAT without IPC_EXCL: an existing set is taken over as it is
  \/ /\ wpc = "semget"
     /\ wpc' = "setall" /\ wsem' = TRUE
     /\ semAlive' = TRUE
     /\ IF semAlive THEN UNCHANGED <<writeSem, readSem>>
                    ELSE writeSem' = 0 /\ readSem' = 0
     /\ UNCHANGED <<segVars, wshm, watt, pos, rVars, hist>>
  \/ "ipc" \in Faults /\ WFail("semget")

\* Mutant: the semaphore is raised, not set.
MutRaisedNotSet == /\ wpc = "setall" /\ semAlive
                   /\ writeSem' = 0 /\ readSem' = readSem + 1
                   /\ wpc' = "shmget" /\ inited' = TRUE
                   /\ UNCHANGED <<semAlive, segVars, wsem, wshm, watt, pos, rVars, early, failed>>

WSetall ==  \* WRITE_SEM = 0: available to the writer; READ_SEM = 1: not to the reader
  \/ /\ wpc = "setall" /\ semAlive
     /\ writeSem' = 0 /\ readSem' = 1
     /\ wpc' = "shmget" /\ inited' = TRUE
     /\ UNCHANGED <<semAlive, segVars, wsem, wshm, watt, pos, rVars, early, failed>>
  \/ ~semAlive /\ WFail("setall")

WShmget ==  \* a new segment is filled with zeros
  \/ /\ wpc = "shmget"
     /\ wpc' = "shmat" /\ wshm' = TRUE
     /\ keyed' = TRUE
     /\ IF keyed THEN UNCHANGED <<cnt, buf>> ELSE cnt' = "eof" /\ buf' = Stale
     /\ UNCHANGED <<semVars, wsem, watt, pos, rVars, hist>>
  \/ "ipc" \in Faults /\ WFail("shmget")

WShmat ==
  \/ /\ wpc = "shmat" /\ SegAlive
     /\ wpc' = "wait" /\ watt' = "mapped"
     /\ UNCHANGED <<semVars, segVars, wsem, wshm, pos, rVars, hist>>
  \/ ("ipc" \in Faults \/ ~SegAlive) /\ WFail("shmat")

\* Mutant: the writer does not wait for its semaphore.
MutNoWait == WSemop("wait", "read", TRUE, 0, 0)

WWait == WSemop("wait", "read", writeSem = 0, 0, 0)

\* An access through shmp after the signal handler's shmdt() is a SIGSEGV,
\* which runs no exit handler.
WSegv(at) ==
  /\ wpc = at /\ watt = "unmapped"
  /\ wpc' = "crashed"
  /\ UNCHANGED <<semVars, segVars, wsem, wshm, watt, pos, rVars, hist>>

WRead ==    \* shmp->cnt = read(STDIN_FILENO, shmp->buf, BUF_SIZE)
  \/ WSegv("read")
  \/ /\ wpc = "read" /\ watt = "mapped"
     /\ \/ /\ pos < Len(Input)
           /\ cnt' = "data" /\ buf' = Input[pos + 1] /\ pos' = pos + 1
           /\ wpc' = "lend"
        \/ /\ pos = Len(Input)
           /\ cnt' = "eof" /\ wpc' = "lend"
           /\ UNCHANGED <<buf, pos>>
     /\ UNCHANGED <<semVars, keyed, wsem, wshm, watt, rVars, hist>>
  \/ /\ wpc = "read" /\ watt = "mapped" /\ "stdin" \in Faults
     /\ cnt' = "err" /\ wpc' = "exit" /\ failed' = TRUE
     /\ UNCHANGED <<semVars, keyed, buf, wsem, wshm, watt, pos, rVars, inited, early>>

WLend == WSemop("lend", "raise", readSem >= 1, 0, -1)
WRaise == WSemop("raise", "test", TRUE, 1, 0)

WTest ==    \* if(shmp->cnt == 0) break;  else bytes += shmp->cnt
  \/ WSegv("test")
  \/ /\ wpc = "test" /\ watt = "mapped"
     /\ wpc' = IF cnt = "eof" THEN "final" ELSE "wait"
     /\ UNCHANGED <<semVars, segVars, wsem, wshm, watt, pos, rVars, hist>>

WFinal == WSemop("final", "exit", writeSem = 0, 0, 0)

\* Mutants: only one of the two objects is removed.
MutSegmentStays == /\ semAlive' = (semAlive /\ ~wsem) /\ keyed' = keyed
                   /\ UNCHANGED <<writeSem, readSem, cnt, buf, wsem, wshm, pos, rVars, inited, early>>
MutSetStays == /\ semAlive' = semAlive /\ keyed' = (keyed /\ ~wshm)
               /\ UNCHANGED <<writeSem, readSem, cnt, buf, wsem, wshm, pos, rVars, inited, early>>

\* clean() and the body of sig_handler(): remove the set, unmap the segment,
\* remove it.  Neither forgets the identifiers it has used.
WRemove == /\ semAlive' = (semAlive /\ ~wsem)
           /\ keyed' = (keyed /\ ~wshm)
           /\ UNCHANGED <<writeSem, readSem, cnt, buf, wsem, wshm, pos, rVars, inited, early>>

WExit == wpc = "exit" /\ wpc' = "done" /\ watt' = "none" /\ WRemove /\ failed' = failed

\* The handler returns: the writer carries on where it was.
WSignal == /\ "sigW" \in Faults
           /\ wpc \in WRun
           /\ watt' = IF watt = "mapped" THEN "unmapped" ELSE watt
           /\ WRemove
           /\ wpc' = wpc /\ failed' = TRUE

WKill == /\ "killW" \in Faults
         /\ wpc \in WRun \cup {"exit"}
         /\ wpc' = "killed" /\ watt' = "none" /\ failed' = TRUE
         /\ UNCHANGED <<semVars, segVars, wsem, wshm, pos, rVars, inited, early>>

-----------------------------------------------------------------------------
(* The reader.                                                             *)

RFail(at) == /\ rpc = at
             /\ rpc' = "exit" /\ failed' = TRUE
             /\ UNCHANGED <<semVars, segVars, wVars, ratt, out, inited, early>>

RSemop(at, next, ready, dw, dr) ==
  /\ rpc = at
  /\ IF semAlive
     THEN /\ ready
          /\ writeSem' = writeSem + dw
          /\ readSem' = readSem + dr
          /\ rpc' = next
     ELSE rpc' = "exit" /\ UNCHANGED <<writeSem, readSem>>
  /\ UNCHANGED <<semAlive, segVars, wVars, ratt, out, hist>>

RSemget ==  \* no IPC_CREAT: the reader needs a set that is there
  \/ /\ rpc = "semget" /\ semAlive
     /\ rpc' = "shmget"
     /\ UNCHANGED <<semVars, segVars, wVars, ratt, out, hist>>
  \/ ~semAlive /\ RFail("semget")

RShmget ==
  \/ /\ rpc = "shmget" /\ keyed
     /\ rpc' = "shmat" /\ early' = ~inited
     /\ UNCHANGED <<semVars, segVars, wVars, ratt, out, inited, failed>>
  \/ ~keyed /\ RFail("shmget")

RShmat ==
  \/ /\ rpc = "shmat" /\ SegAlive
     /\ rpc' = "wait" /\ ratt' = "mapped"
     /\ UNCHANGED <<semVars, segVars, wVars, out, hist>>
  \/ ("ipc" \in Faults \/ ~SegAlive) /\ RFail("shmat")

RWait == RSemop("wait", "check", readSem = 0, 0, 0)

RSegv(at) ==
  /\ rpc = at /\ ratt = "unmapped"
  /\ rpc' = "crashed"
  /\ UNCHANGED <<semVars, segVars, wVars, ratt, out, hist>>

RCheck ==   \* if(shmp->cnt == 0) break;  bytes += shmp->cnt
  \/ RSegv("check")
  \/ /\ rpc = "check" /\ ratt = "mapped"
     /\ rpc' = IF cnt = "eof" THEN "detach" ELSE "print"
     /\ UNCHANGED <<semVars, segVars, wVars, ratt, out, hist>>

RPrint ==   \* write(STDOUT_FILENO, shmp->buf, shmp->cnt) != shmp->cnt; -1 = -1 passes
  \/ RSegv("print")
  \/ /\ rpc = "print" /\ ratt = "mapped"
     /\ out' = IF cnt = "data" THEN Append(out, buf) ELSE out
     /\ rpc' = "lend"
     /\ UNCHANGED <<semVars, segVars, wVars, ratt, hist>>
  \/ "stdout" \in Faults /\ ratt = "mapped" /\ RFail("print")

\* Mutant: the reader keeps its semaphore at 0.
MutNoRaise == RSemop("raise", "wait", TRUE, 0, 0)

RLend == RSemop("lend", "raise", writeSem >= 1, -1, 0)
RRaise == RSemop("raise", "wait", TRUE, 0, 1)

RDetach ==  \* shmdt(shmp), which fails when the signal handler has done it
  \/ /\ rpc = "detach" /\ ratt = "mapped"
     /\ rpc' = "bye" /\ ratt' = "none"
     /\ UNCHANGED <<semVars, segVars, wVars, out, hist>>
  \/ ratt = "unmapped" /\ RFail("detach")

RBye == RSemop("bye", "exit", writeSem >= 1, -1, 0)

RExit == /\ rpc = "exit" /\ rpc' = "done" /\ ratt' = "none"
         /\ UNCHANGED <<semVars, segVars, wVars, out, hist>>

\* A semop() that sleeps is interrupted and fails; anything else carries on.
RAsleep == \/ rpc = "wait" /\ semAlive /\ readSem # 0
           \/ rpc \in {"lend", "bye"} /\ semAlive /\ writeSem = 0

RSignal == /\ "sigR" \in Faults
           /\ rpc \in RRun
           /\ ratt' = IF ratt = "mapped" THEN "unmapped" ELSE ratt
           /\ \/ rpc' = rpc
              \/ RAsleep /\ rpc' = "exit"
           /\ failed' = TRUE
           /\ UNCHANGED <<semVars, segVars, wVars, out, inited, early>>

RKill == /\ "killR" \in Faults
         /\ rpc \in RRun \cup {"exit"}
         /\ rpc' = "killed" /\ ratt' = "none" /\ failed' = TRUE
         /\ UNCHANGED <<semVars, segVars, wVars, out, inited, early>>

-----------------------------------------------------------------------------
Writer == \/ WSemget \/ WSetall \/ WShmget \/ WShmat \/ WWait \/ WRead
          \/ WLend \/ WRaise \/ WTest \/ WFinal \/ WExit
Reader == \/ RSemget \/ RShmget \/ RShmat \/ RWait \/ RCheck \/ RPrint
          \/ RLend \/ RRaise \/ RDetach \/ RBye \/ RExit
Signals == WSignal \/ WKill \/ RSignal \/ RKill

Next == Writer \/ Reader \/ Signals

Spec == Init /\ [][Next]_vars

\* The kernel schedules both processes; nobody owes them a signal or a fault.
FairSpec == Spec /\ WF_vars(Writer) /\ WF_vars(Reader)

-----------------------------------------------------------------------------
(* Properties.                                                             *)

\* While the reader looks at the segment the writer is not filling it: the
\* two semaphores lend the buffer to one process at a time.
BufferExclusion == ~early => ~(wpc = "read" /\ rpc \in {"check", "print"})

\* A reader that found an initialised pair of semaphores prints the blocks of
\* the input, in order, none lost and none twice, whatever then goes wrong and
\* whatever an earlier run left in the kernel.
InOrder == ~early => /\ Len(out) <= Len(Input)
                     /\ \A i \in 1..Len(out) : out[i] = Input[i]

\* Also a reader that came too early after a restart, and may print leftovers
\* or miss blocks, prints no block of the input twice and none out of order,
\* if the blocks of the input are all different.
NeverBackwards ==
  (\A k, l \in 1..Len(Input) : Input[k] = Input[l] => k = l) =>
     \A i, j \in 1..Len(out), k, l \in 1..Len(Input) :
        (i < j /\ out[i] = Input[k] /\ out[j] = Input[l]) => k < l

\* Where no segment was left no reader gets into the protocol before SETALL: the
\* writer creates the segment after it has set the semaphores, and the reader
\* needs the segment.
FreshNeverEarly == ~keyed => []~early

\* A writer that ends in any way but SIGKILL, the crash after a caught SIGINT
\* included, leaves neither the set nor the segment it had opened.
Removed == (wsem => ~semAlive) /\ (wshm => ~keyed)
NothingLeft == wpc \in {"done", "crashed"} => Removed

\* The values a killed writer can leave are those that Init starts from.
LeftBehindClosed == writeSem \in 0..1 /\ readSem \in 0..2

\* Unless something fails, a reader that comes after SETALL gets the whole
\* input, and both programs end, also on what a killed writer left behind.
Delivered == (rpc = "wait" /\ ~early)
                ~> (failed \/ (rpc = "done" /\ wpc = "done" /\ out = Input))

\* When a writer that had the semaphores has ended, other than by SIGKILL, no
\* reader hangs: removing the set wakes it.
ReaderReleased == (wsem /\ wpc \in {"done", "crashed"}) ~> rpc \in Ended

\* The two programs implement the one-slot hand-over, for a reader that found
\* an initialised pair of semaphores; one that came too early takes no part.
Slot == INSTANCE OneSlot WITH sent <- IF early THEN 0 ELSE pos,
                              out <- IF early THEN <<>> ELSE out
Transfer == Slot!Spec

-----------------------------------------------------------------------------
(* The inductive invariant behind BufferExclusion, InOrder and Transfer.   *)
(* Who may touch the buffer is a matter of the two semaphores and the two  *)
(* program counters; there are four cases.                                 *)

RBefore == {"semget", "shmget", "shmat", "wait"}
RLooking == {"check", "print"}
RUsed == {"lend", "detach", "bye"}
Gone == {"exit"} \cup Ended

\* What the writer has put into the slot and the reader has yet to print.
Filled == /\ cnt \in {"data", "eof"}
          /\ cnt = "data" => pos = Len(out) + 1 /\ buf = Input[pos]
          /\ cnt = "eof" => pos = Len(out)

\* The buffer is the writer's.
Writing == /\ wpc \in {"shmget", "shmat", "wait", "read", "lend", "test", "final"} \cup Gone
           /\ wpc = "lend" => Filled
           /\ wpc \notin {"lend"} \cup Gone => pos = Len(out)

\* The buffer is, or soon will be, the reader's.
Reading == /\ rpc \in RBefore \cup RLooking \cup RUsed \cup Gone
           /\ rpc \in RBefore \cup RLooking => Filled
           /\ rpc = "print" => cnt = "data"
           /\ rpc \in RUsed => pos = Len(out)

Phase == \/ writeSem = 0 /\ readSem = 1 /\ rpc \in RBefore \cup Gone /\ Writing
         \/ writeSem = 0 /\ readSem = 0 /\ wpc \in {"raise"} \cup Gone /\ Reading
         \/ writeSem = 1 /\ readSem = 0
              /\ wpc \in {"test", "wait", "final"} \cup Gone /\ Reading
         \/ writeSem = 0 /\ readSem = 0 /\ rpc \in {"raise"} \cup Gone /\ Writing

Setup == /\ wpc \in {"semget", "setall"} => ~inited
         /\ wpc \in WRun \ {"semget", "setall"} => inited
         /\ ~inited => pos = 0
         /\ rpc \in {"semget", "shmget"} => ~early
         /\ ~inited /\ ~early => rpc \in {"semget", "shmget"} \cup Gone /\ out = <<>>

\* The inductive strengthening: set-up order, the phases of the hand-over and
\* the prefix that has been printed.
IInv == /\ Setup
        /\ inited /\ ~early => Phase
        /\ InOrder
        /\ ~early => Len(out) <= pos
=============================================================================
