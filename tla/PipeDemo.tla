------------------------------ MODULE PipeDemo ------------------------------
(***************************************************************************)
(* pipe_demo.c: a parent and the children it forks share one pipe, and the *)
(* end of file says that the others are through.                           *)
(*   demo      the parent writes one message, the child reads once;        *)
(*   sync      N children close their write ends, the parent reads;        *)
(*   redirect  the parent keeps the write end, the child reads to the end. *)
(* End of file comes when nobody holds a write end, so everything hangs on *)
(* who has inherited one and who has closed it.                            *)
(***************************************************************************)
EXTENDS Integers

CONSTANTS
  Demos,       \* the demonstrations in play
  N,           \* how many children pipe_sync() forks
  PipeFaults   \* a subset of PipeFaultKinds

PipeFaultKinds == {"fork", "kill"}
AllDemos == {"demo", "sync", "redirect"}

ASSUME PipeAssumption == Demos \subseteq AllDemos /\ N \in Nat \ {0}

Parent == 0
Child == 1..N
PipeProc == {Parent} \cup Child

VARIABLES
  demo,        \* argv[1]
  pc,          \* of each process: what it does next
  turn,        \* the child that is forked next
  rd, wr,      \* who has the read end open, and who the write end
  full,        \* there is something in the pipe
  got,         \* what a process has read last: data, end of file, or nothing
  slept        \* history: children that slept and said that they are through

pipeVars == <<demo, pc, turn, rd, wr, full, got, slept>>
ends == <<rd, wr, full>>

Over == {"exit", "killed"}
Unused(p) == pc[p] \in {"none"} \cup Over

PipeTypeOK ==
  /\ demo \in AllDemos /\ turn \in 1..(N + 1)
  /\ pc \in [PipeProc -> {"none", "fork", "close", "dup", "write", "sleep", "say", "read", "go"}
                         \cup Over]
  /\ rd \subseteq PipeProc /\ wr \subseteq PipeProc /\ full \in BOOLEAN
  /\ got \in [PipeProc -> {"nothing", "data", "eof"}] /\ slept \subseteq Child

PipeInit ==      \* after pipe()
  /\ demo \in Demos /\ turn = 1
  /\ pc = [p \in PipeProc |-> IF p = Parent THEN "fork" ELSE "none"]
  /\ rd = {Parent} /\ wr = {Parent} /\ full = FALSE
  /\ got = [p \in PipeProc |-> "nothing"] /\ slept = {}

Goto(p, from, to) == pc[p] = from /\ pc' = [pc EXCEPT ![p] = to]

\* What a process has open is closed when it ends, however it ends.
Ends(p, how) ==
  pc' = [pc EXCEPT ![p] = how] /\ rd' = rd \ {p} /\ wr' = wr \ {p}

-----------------------------------------------------------------------------
(* The parent.                                                             *)

Fork ==          \* the child gets all that the parent has open
  /\ pc[Parent] = "fork"
  /\ pc' = [pc EXCEPT ![Parent] = IF demo = "sync" /\ turn < N THEN "fork" ELSE "close",
                      ![turn] = "close"]
  /\ rd' = (IF Parent \in rd THEN rd \cup {turn} ELSE rd)
  /\ wr' = (IF Parent \in wr THEN wr \cup {turn} ELSE wr)
  /\ turn' = turn + 1
  /\ UNCHANGED <<demo, full, got, slept>>

ForkFails ==
  /\ "fork" \in PipeFaults /\ pc[Parent] = "fork" /\ Ends(Parent, "exit")
  /\ UNCHANGED <<demo, turn, full, got, slept>>

AfterClose == CASE demo = "sync" -> "read" [] demo = "demo" -> "write"
                [] demo = "redirect" -> "dup"

\* Mutant: the parent keeps the end that it does not use.
MutKeepsEnd ==
  /\ Goto(Parent, "close", AfterClose)
  /\ UNCHANGED <<demo, turn, ends, got, slept>>

PClose ==        \* the end that the parent does not use
  /\ Goto(Parent, "close", AfterClose)
  /\ IF demo = "sync" THEN wr' = wr \ {Parent} /\ rd' = rd
                      ELSE rd' = rd \ {Parent} /\ wr' = wr
  /\ UNCHANGED <<demo, turn, full, got, slept>>

PDup ==          \* dup2(pipefd[1], 0): the write end twice, until the process ends
  /\ Goto(Parent, "dup", "write")
  /\ UNCHANGED <<demo, turn, ends, got, slept>>

PWrite ==        \* SIGPIPE when nobody is left to read
  /\ pc[Parent] = "write"
  /\ \/ rd = {} /\ Ends(Parent, "killed") /\ full' = full
     \/ rd # {} /\ demo = "demo" /\ Ends(Parent, "exit") /\ full' = TRUE
     \/ /\ rd # {} /\ demo # "demo" /\ Goto(Parent, "write", "sleep") /\ full' = TRUE
        /\ UNCHANGED <<rd, wr>>
  /\ UNCHANGED <<demo, turn, got, slept>>

PReturn ==       \* after sleep(10), or "all child close write end, parent ready to go."
  /\ pc[Parent] \in {"sleep", "go"} /\ Ends(Parent, "exit")
  /\ UNCHANGED <<demo, turn, full, got, slept>>

-----------------------------------------------------------------------------
(* A child.                                                                *)

\* Mutant: a child of sync closes both ends before it sleeps.
MutClosesBoth(c) ==
  /\ Goto(c, "close", IF demo = "sync" THEN "sleep" ELSE "read")
  /\ rd' = (IF demo = "sync" THEN rd \ {c} ELSE rd) /\ wr' = wr \ {c}
  /\ UNCHANGED <<demo, turn, full, got, slept>>

CClose(c) ==     \* the end that the child does not use
  /\ Goto(c, "close", IF demo = "sync" THEN "sleep" ELSE "read")
  /\ IF demo = "sync" THEN rd' = rd \ {c} /\ wr' = wr
                      ELSE wr' = wr \ {c} /\ rd' = rd
  /\ UNCHANGED <<demo, turn, full, got, slept>>

CSleep(c) ==     \* sleep(i+3), and the message
  /\ Goto(c, "sleep", "say") /\ slept' = slept \cup {c}
  /\ UNCHANGED <<demo, turn, ends, got>>

CSay(c) ==       \* close(pipefd[1]); return 0
  /\ pc[c] = "say" /\ Ends(c, "exit")
  /\ UNCHANGED <<demo, turn, full, got, slept>>

-----------------------------------------------------------------------------
\* read() sleeps while the pipe is empty and somebody could still write.  Only
\* the child of redirect goes on reading; nobody tells data from end of file.
Read(p) ==
  /\ pc[p] = "read" /\ (full \/ wr = {})
  /\ got' = [got EXCEPT ![p] = IF full THEN "data" ELSE "eof"]
  /\ full' = FALSE
  /\ \/ p = Parent /\ Goto(p, "read", "go") /\ UNCHANGED <<rd, wr>>
     \/ p # Parent /\ demo = "redirect" /\ full /\ UNCHANGED <<pc, rd, wr>>
     \/ p # Parent /\ ~(demo = "redirect" /\ full) /\ Ends(p, "exit")
  /\ UNCHANGED <<demo, turn, slept>>

PipeKill(p) ==
  /\ "kill" \in PipeFaults /\ ~Unused(p) /\ Ends(p, "killed")
  /\ UNCHANGED <<demo, turn, full, got, slept>>

PStep == Fork \/ ForkFails \/ PClose \/ PDup \/ PWrite \/ PReturn \/ Read(Parent)
CStep(c) == CClose(c) \/ CSleep(c) \/ CSay(c) \/ Read(c)

PipeNext == PStep \/ (\E c \in Child : CStep(c)) \/ (\E p \in PipeProc : PipeKill(p))

PipeSpec == PipeInit /\ [][PipeNext]_pipeVars

-----------------------------------------------------------------------------
(* Properties.                                                             *)

\* End of file tells the truth: the parent of sync sees it only when every
\* child has slept and said so, or was killed; a child sees it only when the
\* parent has ended, and that of demo only when the parent wrote nothing.
EofTells ==
  /\ got[Parent] = "eof" => \A c \in Child : c \in slept \/ pc[c] = "killed"
  /\ \A c \in Child : got[c] = "eof" =>
        pc[Parent] = "killed" \/ (demo = "redirect" /\ pc[Parent] = "exit")

\* Whoever reads the pipe gets to its end: no end that is open by mistake keeps
\* end of file away, whatever fails and whoever is killed.
ReadersEnd == \A p \in PipeProc : pc[p] = "read" ~> pc[p] \in Over
=============================================================================
