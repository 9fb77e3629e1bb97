----------------------------- MODULE MCPipeSem -----------------------------
(* Instances of PipeDemo and of the two halves of PosixSem for one run of  *)
(* TLC.  They share nothing, so that a behaviour is one of one of them.    *)
EXTENDS PipeDemo, PosixSem

CONSTANTS w, v, p, q

MCWaiter == {w, v}
MCPoster == {p, q}

VARIABLE program     \* which of them runs

vars == <<program, pipeVars, semVars>>

Init == PipeInit /\ SemInit /\ program \in {"pipe", "named", "uname"}

OnPipe(A) == program = "pipe" /\ A /\ UNCHANGED <<program, semVars>>
OnNamed(A) == program = "named" /\ A /\ UNCHANGED <<program, pipeVars>>
OnUname(A) == program = "uname" /\ A /\ UNCHANGED <<program, pipeVars>>

Next == OnPipe(PipeNext) \/ OnNamed(NamedNext) \/ OnUname(UnameNext)

\* Every process and thread runs when it can, and a deadline passes; nobody need
\* create, unlink or post, no fork() need fail and nobody need be killed.
FairSpec ==
  /\ Init /\ [][Next]_vars
  /\ WF_vars(OnPipe(PStep)) /\ \A c \in Child : WF_vars(OnPipe(CStep(c)))
  /\ \A r \in Waiter : WF_vars(OnNamed(WTimedwait(r))) /\ WF_vars(OnNamed(Deadline(r)))
  /\ WF_vars(OnUname(MainStep)) /\ \A t \in Thread : WF_vars(OnUname(ThreadStep(t)))
=============================================================================
