----------------------------- MODULE PosixShm -----------------------------
(***************************************************************************)
(* posix_shm_demo: clients pass lines to a server through a POSIX          *)
(* shared-memory object that also holds the two semaphores guarding it.    *)
(* "create" makes the object, and every "server" initialises its           *)
(* semaphores anew, whoever uses them.                                     *)
(*                                                                         *)
(* sem_init() of a semaphore on which a process sleeps is undefined; what  *)
(* it does is to forget the sleeper, which no sem_post() wakes any more.   *)
(***************************************************************************)
EXTENDS Integers, Sequences, FiniteSets

CONSTANTS
  Client, Server,  \* the processes that run "client" or "server"
  MaxObjects,      \* how often "create" may make an object (a bound)
  MaxStarts,       \* how often a server may be started (a bound)
  MaxLines         \* how many lines the clients read for an object (a bound)

ASSUME ShmAssumption == /\ Client \cap Server = {}
                        /\ IsFiniteSet(Client) /\ IsFiniteSet(Server)
                        /\ MaxObjects \in Nat \ {0}
                        /\ MaxStarts \in Nat /\ MaxLines \in Nat

VARIABLES
  named, made, sizing, sized,  \* the object of POSIX_SHM_PATH, or 0; objects made;
                               \* the one "create" has yet to ftruncate(), or 0; sized ones
  read, write, data,           \* of each object: its semaphores and its data
  pc, shmp, forgotten,         \* of each process: where it is; its object; who is forgotten
  starts, inits,               \* servers started; of each object: times initialised
  sent, printed                \* history of each object: lines filled in, and printed

names == <<named, made, sizing, sized>>
object == <<read, write, data>>
vars == <<names, object, pc, shmp, forgotten, starts, inits, sent, printed>>

Proc == Client \cup Server
Object == 1..MaxObjects

TypeOK ==
  /\ named \in 0..MaxObjects /\ made \in 0..MaxObjects
  /\ sizing \in 0..MaxObjects /\ sized \subseteq Object
  /\ read \in [Object -> Nat] /\ write \in [Object -> Nat]
  /\ data \in [Object -> 0..MaxLines]
  /\ pc \in [Proc -> {"open", "initR", "initW", "wait", "fill", "print", "post", "ended"}]
  /\ shmp \in [Proc -> Object] /\ forgotten \subseteq Proc
  /\ starts \in 0..MaxStarts /\ inits \in [Object -> 0..MaxStarts]
  /\ sent \in [Object -> 0..MaxLines] /\ printed \in [Object -> Seq(0..MaxLines)]

Zero == [o \in Object |-> 0]

Init ==
  /\ named = 0 /\ made = 0 /\ sizing = 0 /\ sized = {}
  /\ read = Zero /\ write = Zero /\ data = Zero
  /\ pc = [p \in Proc |-> "open"] /\ shmp = [p \in Proc |-> 1] /\ forgotten = {}
  /\ starts = 0 /\ inits = Zero
  /\ sent = Zero /\ printed = [o \in Object |-> <<>>]

-----------------------------------------------------------------------------
(* create and unlink.                                                      *)

ShmOpen ==    \* O_CREAT | O_EXCL
  /\ named = 0 /\ sizing = 0 /\ made < MaxObjects
  /\ made' = made + 1 /\ named' = made + 1 /\ sizing' = made + 1
  /\ UNCHANGED <<sized, object, pc, shmp, forgotten, starts, inits, sent, printed>>

Ftruncate ==  \* or it is never done, when "create" is killed here
  /\ sizing # 0 /\ sizing' = 0
  /\ sized' \in {sized, sized \cup {sizing}}
  /\ UNCHANGED <<named, made, object, pc, shmp, forgotten, starts, inits, sent, printed>>

Unlink ==     \* who has the old object mapped keeps it
  /\ named # 0 /\ named' = 0
  /\ UNCHANGED <<made, sizing, sized, object, pc, shmp, forgotten, starts, inits, sent, printed>>

-----------------------------------------------------------------------------
Goto(p, at, next) == pc[p] = at /\ pc' = [pc EXCEPT ![p] = next]

\* shm_open() and mmap(); nobody looks at the size.
Attach(p, next) ==
  /\ named # 0 /\ Goto(p, "open", next)
  /\ shmp' = [shmp EXCEPT ![p] = named]
  /\ UNCHANGED <<names, object, forgotten, inits, sent, printed>>

\* An access to an object of size 0 is a SIGBUS.
Bus(p, at) ==
  /\ shmp[p] \notin sized /\ Goto(p, at, "ended")
  /\ UNCHANGED <<names, object, shmp, forgotten, starts, inits, sent, printed>>

SOpen(s) == Attach(s, "initR") /\ starts < MaxStarts /\ starts' = starts + 1

\* sem_init(): those in S were asleep on it.
SInitRead(s) ==
  \/ Bus(s, "initR")
  \/ /\ shmp[s] \in sized /\ Goto(s, "initR", "initW")
     /\ read' = [read EXCEPT ![shmp[s]] = 0]
     /\ \E S \in SUBSET {t \in Server : pc[t] = "wait" /\ shmp[t] = shmp[s]
                                          /\ read[shmp[s]] = 0} :
           forgotten' = forgotten \cup S
     /\ UNCHANGED <<names, write, data, shmp, starts, inits, sent, printed>>

\* Mutant: the permit is added to those that are there.
MutAddPermits(s) ==
  /\ Goto(s, "initW", "wait")
  /\ write' = [write EXCEPT ![shmp[s]] = @ + 2]
  /\ inits' = [inits EXCEPT ![shmp[s]] = @ + 1]
  /\ UNCHANGED <<names, read, data, shmp, forgotten, starts, sent, printed>>

SInitWrite(s) ==
  /\ Goto(s, "initW", "wait")
  /\ write' = [write EXCEPT ![shmp[s]] = 1]
  /\ inits' = [inits EXCEPT ![shmp[s]] = @ + 1]
  /\ \E S \in SUBSET {c \in Client : pc[c] = "wait" /\ shmp[c] = shmp[s]
                                       /\ write[shmp[s]] = 0} :
        forgotten' = forgotten \cup S
  /\ UNCHANGED <<names, read, data, shmp, starts, sent, printed>>

\* Mutant: the server waits for two lines.
MutWaitTwo(s) ==
  /\ s \in Server \ forgotten /\ read[shmp[s]] > 1 /\ Goto(s, "wait", "print")
  /\ read' = [read EXCEPT ![shmp[s]] = @ - 2]
  /\ UNCHANGED <<names, write, data, shmp, forgotten, starts, inits, sent, printed>>

SWait(s) ==
  /\ s \in Server \ forgotten /\ read[shmp[s]] > 0 /\ Goto(s, "wait", "print")
  /\ read' = [read EXCEPT ![shmp[s]] = @ - 1]
  /\ UNCHANGED <<names, write, data, shmp, forgotten, starts, inits, sent, printed>>

SPrint(s) ==
  /\ Goto(s, "print", "post")
  /\ printed' = [printed EXCEPT ![shmp[s]] = Append(@, data[shmp[s]])]
  /\ UNCHANGED <<names, object, shmp, forgotten, starts, inits, sent>>

SPost(s) ==
  /\ s \in Server /\ Goto(s, "post", "wait")
  /\ write' = [write EXCEPT ![shmp[s]] = @ + 1]
  /\ UNCHANGED <<names, read, data, shmp, forgotten, starts, inits, sent, printed>>

COpen(c) == Attach(c, "wait") /\ UNCHANGED starts

\* Mutant: the client does not wait.
MutNoWait(c) ==
  /\ c \in Client \ forgotten /\ Goto(c, "wait", "fill")
  /\ UNCHANGED <<names, object, shmp, forgotten, starts, inits, sent, printed>>

CWait(c) ==
  \/ c \in Client /\ Bus(c, "wait")
  \/ /\ c \in Client \ forgotten /\ write[shmp[c]] > 0 /\ Goto(c, "wait", "fill")
     /\ write' = [write EXCEPT ![shmp[c]] = @ - 1]
     /\ UNCHANGED <<names, read, data, shmp, forgotten, starts, inits, sent, printed>>

CFill(c) ==
  \/ /\ sent[shmp[c]] < MaxLines /\ Goto(c, "fill", "post")
     /\ sent' = [sent EXCEPT ![shmp[c]] = @ + 1]
     /\ data' = [data EXCEPT ![shmp[c]] = sent[shmp[c]] + 1]
     /\ UNCHANGED <<names, read, write, shmp, forgotten, starts, inits, printed>>
  \/ /\ Goto(c, "fill", "ended")     \* end of file: the permit is not given back
     /\ UNCHANGED <<names, object, shmp, forgotten, starts, inits, sent, printed>>

CPost(c) ==
  /\ c \in Client /\ Goto(c, "post", "wait")
  /\ read' = [read EXCEPT ![shmp[c]] = @ + 1]
  /\ UNCHANGED <<names, write, data, shmp, forgotten, starts, inits, sent, printed>>

\* A forgotten sleeper may be woken without a reason, and looks again.
Wake(p) ==
  /\ p \in forgotten /\ forgotten' = forgotten \ {p}
  /\ UNCHANGED <<names, object, pc, shmp, starts, inits, sent, printed>>

Kill(p) ==
  /\ pc[p] \notin {"open", "ended"} /\ pc' = [pc EXCEPT ![p] = "ended"]
  /\ forgotten' = forgotten \ {p}
  /\ UNCHANGED <<names, object, shmp, starts, inits, sent, printed>>

Rerun(p) ==
  /\ Goto(p, "ended", "open")
  /\ UNCHANGED <<names, object, shmp, forgotten, starts, inits, sent, printed>>

-----------------------------------------------------------------------------
ServerStep(s) == SInitRead(s) \/ SInitWrite(s) \/ SWait(s) \/ SPrint(s) \/ SPost(s)
ClientStep(c) == COpen(c) \/ CWait(c) \/ CFill(c) \/ CPost(c)

Next == \/ ShmOpen \/ Ftruncate \/ Unlink
        \/ \E s \in Server : SOpen(s) \/ ServerStep(s)
        \/ \E c \in Client : ClientStep(c)
        \/ \E p \in Proc : Wake(p) \/ Kill(p) \/ Rerun(p)

Spec == Init /\ [][Next]_vars

\* Only a server that runs has to go on.
FairSpec == Spec /\ \A s \in Server : WF_vars(ServerStep(s))

-----------------------------------------------------------------------------
(* Properties.                                                             *)

\* Who is between sem_wait() and sem_post() on object o, and may touch its data.
Inside(o) == {p \in Proc : pc[p] \in {"fill", "print", "post"} /\ shmp[p] = o}
Permits(o) == read[o] + write[o] + Cardinality(Inside(o))

\* Each start of a server adds at most one permit to touch the data, whoever
\* holds one then; so with one server the data are touched by one process at
\* a time, whatever happens to the clients.
PermitsBounded == \A o \in Object : Permits(o) <= inits[o]

\* Until a second server initialises the semaphores of an object, what passes
\* through it passes as through a one-slot buffer: each step of the demo is
\* one of OneSlot, or none.
Slot(o) == INSTANCE OneSlot WITH Input <- [i \in 1..MaxLines |-> i],
                                 sent <- sent[o], out <- printed[o]
Transfer == /\ \A o \in Object : Slot(o)!Init
            /\ [][\A o \in Object : inits'[o] <= 1 => Slot(o)!Next
                                       \/ UNCHANGED <<sent[o], printed[o]>>]_<<sent, printed>>

\* A line that a client has posted is read, unless no server is left that
\* could be woken, or a new one throws it away.
Ready(o) == {s \in Server \ forgotten : shmp[s] = o /\ pc[s] \notin {"open", "ended"}}
LineRead == \A o \in Object : read[o] > 0 ~> (read[o] = 0 \/ Ready(o) = {})
=============================================================================
