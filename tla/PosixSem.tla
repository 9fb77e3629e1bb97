------------------------------ MODULE PosixSem ------------------------------
(***************************************************************************)
(* posix_sem_demo: commands on a named semaphore that is created, unlinked *)
(* and created again while others wait on it, and the two threads of       *)
(* `uname`, which count in glob when an unnamed semaphore lets them go.    *)
(* A process that has opened a semaphore keeps that object, whatever its   *)
(* name comes to mean.  The command `get` changes nothing.                 *)
(***************************************************************************)
EXTENDS Integers, FiniteSets

CONSTANTS
  Waiter, Poster,   \* processes that run `wait` and `post`, each once
  MaxSem,           \* how often the semaphore is created (a bound)
  SemFaults         \* a subset of SemFaultKinds

SemFaultKinds == {"thread"}
Thread == {"t1", "t2"}

ASSUME SemAssumption == Waiter \cap Poster = {} /\ MaxSem \in Nat \ {0}

VARIABLES
  name, made,       \* the object POSIX_SEM_PATH leads to, 0 if none; the last one made
  val,              \* of each object: the value of the semaphore
  npc, mine,        \* of waiters and posters: what they do next; what they have opened
  past,             \* the waiters whose deadline has passed
  upc, glob,        \* main thread of uname; the counter
  usem,             \* uname_sem: its value, or -1
  tpc, reg,         \* of each thread: what it does next; glob as it has loaded it
  slow              \* history: the second post came before a thread was through

namedVars == <<name, made, val, npc, mine, past>>
unameVars == <<upc, glob, usem, tpc, reg, slow>>
semVars == <<name, made, val, npc, mine, past, upc, glob, usem, tpc, reg, slow>>

Object == 1..MaxSem
Stopped == {"end", "crashed"}

SemTypeOK ==
  /\ name \in 0..MaxSem /\ made \in 0..MaxSem /\ val \in [Object -> Nat]
  /\ npc \in [Waiter \cup Poster -> {"gettime", "open", "wait", "sleep", "post",
                                     "finished", "timeout", "failed"}]
  /\ mine \in [Waiter \cup Poster -> 0..MaxSem] /\ past \subseteq Waiter
  /\ upc \in {"init", "t1", "t2", "post1", "post2", "join1", "join2", "print", "destroy"}
             \cup Stopped
  /\ usem \in Nat \cup {-1} /\ glob \in Nat
  /\ tpc \in [Thread -> {"none", "refused", "wait", "load", "store", "over"}]
  /\ reg \in [Thread -> Nat] /\ slow \in BOOLEAN

SemInit ==
  /\ name = 0 /\ made = 0 /\ val = [o \in Object |-> 0]
  /\ npc = [p \in Waiter \cup Poster |-> IF p \in Waiter THEN "gettime" ELSE "open"]
  /\ mine = [p \in Waiter \cup Poster |-> 0] /\ past = {}
  /\ upc = "init" /\ glob = 0 /\ usem = -1
  /\ tpc = [t \in Thread |-> "none"] /\ reg = [t \in Thread |-> 0] /\ slow = FALSE

-----------------------------------------------------------------------------
(* The named semaphore.                                                    *)

Create ==       \* O_EXCL: refused as long as the name is there
  /\ name = 0 /\ made < MaxSem
  /\ made' = made + 1 /\ name' = made' /\ val' = [val EXCEPT ![made'] = 0]
  /\ UNCHANGED <<npc, mine, past, unameVars>>

Unlink == name # 0 /\ name' = 0 /\ UNCHANGED <<made, val, npc, mine, past, unameVars>>

NGoto(p, from, to) == npc[p] = from /\ npc' = [npc EXCEPT ![p] = to]

WGettime(p) == p \in Waiter /\ NGoto(p, "gettime", "open")
               /\ UNCHANGED <<name, made, val, mine, past, unameVars>>

Deadline(p) ==  \* ten seconds have gone by, wherever the process is
  /\ p \in Waiter /\ npc[p] \in {"open", "wait", "sleep"} /\ past' = past \cup {p}
  /\ UNCHANGED <<name, made, val, npc, mine, unameVars>>

NOpen(p) ==
  /\ mine' = [mine EXCEPT ![p] = name]
  /\ NGoto(p, "open", IF name = 0 THEN "failed" ELSE IF p \in Waiter THEN "wait" ELSE "post")
  /\ UNCHANGED <<name, made, val, past, unameVars>>

\* Mutant: the build without POSIX_SEM_TIMED, which waits as long as it takes.
MutUntimed(p) ==
  /\ npc[p] \in {"wait", "sleep"} /\ val[mine[p]] > 0
  /\ npc' = [npc EXCEPT ![p] = "finished"] /\ val' = [val EXCEPT ![mine[p]] = @ - 1]
  /\ UNCHANGED <<name, made, mine, past, unameVars>>

WTimedwait(p) ==
  /\ npc[p] \in {"wait", "sleep"}
  /\ \/ /\ val[mine[p]] > 0
        /\ npc' = [npc EXCEPT ![p] = "finished"]
        /\ val' = [val EXCEPT ![mine[p]] = @ - 1]
     \/ NGoto(p, "wait", "sleep") /\ val[mine[p]] = 0 /\ val' = val
     \/ NGoto(p, "sleep", "timeout") /\ p \in past /\ val' = val
  /\ UNCHANGED <<name, made, mine, past, unameVars>>

NPost(p) ==
  /\ NGoto(p, "post", "finished") /\ val' = [val EXCEPT ![mine[p]] = @ + 1]
  /\ UNCHANGED <<name, made, mine, past, unameVars>>

-----------------------------------------------------------------------------
(* uname: the main thread, and the threads it starts.                      *)

UGoto(from, to) == upc = from /\ upc' = to

\* Mutant: the semaphore lets one thread through from the start.
MutInitOne ==
  /\ UGoto("init", "t1") /\ usem' = 1 /\ UNCHANGED <<glob, tpc, reg, slow, namedVars>>

USemInit ==
  /\ UGoto("init", "t1") /\ usem' = 0 /\ UNCHANGED <<glob, tpc, reg, slow, namedVars>>

UThread(t) ==   \* a failure is told and forgotten
  /\ UGoto(t, IF t = "t1" THEN "t2" ELSE "post1")
  /\ \E s \in {"wait"} \cup (IF "thread" \in SemFaults THEN {"refused"} ELSE {}) :
        tpc' = [tpc EXCEPT ![t] = s]
  /\ UNCHANGED <<glob, usem, reg, slow, namedVars>>

UPost ==        \* after three seconds each
  /\ \/ UGoto("post1", "post2") /\ slow' = slow
     \/ UGoto("post2", "join1") /\ slow' = (\A t \in Thread : tpc[t] # "over")
  /\ usem' = usem + 1
  /\ UNCHANGED <<glob, tpc, reg, namedVars>>

\* The identifier of a thread that was not created is uninitialized.
UJoin(t) ==
  /\ upc = (IF t = "t1" THEN "join1" ELSE "join2")
  /\ \/ tpc[t] \in {"over", "refused"} /\ upc' = IF t = "t1" THEN "join2" ELSE "print"
     \/ tpc[t] = "refused" /\ upc' = "crashed"
  /\ UNCHANGED <<glob, usem, tpc, reg, slow, namedVars>>

UPrint == UGoto("print", "destroy") /\ UNCHANGED <<glob, usem, tpc, reg, slow, namedVars>>

UDestroy ==
  /\ UGoto("destroy", "end") /\ usem' = -1 /\ UNCHANGED <<glob, tpc, reg, slow, namedVars>>

TGoto(t, from, to) == upc \notin Stopped /\ tpc[t] = from /\ tpc' = [tpc EXCEPT ![t] = to]

TWait(t) ==
  /\ usem > 0 /\ TGoto(t, "wait", "load") /\ usem' = usem - 1
  /\ UNCHANGED <<upc, glob, reg, slow, namedVars>>

TLoad(t) ==     \* glob++ is a load ...
  /\ TGoto(t, "load", "store") /\ reg' = [reg EXCEPT ![t] = glob]
  /\ UNCHANGED <<upc, glob, usem, slow, namedVars>>

TStore(t) ==    \* ... and a store
  /\ TGoto(t, "store", "over") /\ glob' = reg[t] + 1
  /\ UNCHANGED <<upc, usem, reg, slow, namedVars>>

-----------------------------------------------------------------------------
WaiterStep(p) == WGettime(p) \/ Deadline(p) \/ NOpen(p) \/ WTimedwait(p)
PosterStep(p) == NOpen(p) \/ NPost(p)
MainStep == USemInit \/ UPost \/ UPrint \/ UDestroy \/ \E t \in Thread : UThread(t) \/ UJoin(t)
ThreadStep(t) == TWait(t) \/ TLoad(t) \/ TStore(t)

NamedNext == \/ Create \/ Unlink
             \/ \E p \in Waiter : WaiterStep(p)
             \/ \E p \in Poster : PosterStep(p)
UnameNext == MainStep \/ \E t \in Thread : ThreadStep(t)

SemSpec == SemInit /\ [][NamedNext \/ UnameNext]_semVars

-----------------------------------------------------------------------------
(* Properties.                                                             *)

\* glob has no lock: the posts alone keep the two increments apart.  What uname
\* prints is the number of threads, unless the first thread took more than the
\* three seconds between the posts; a thread that could not be created does not
\* count, and does not make the others lose their turn.
GlobCounts == (upc \in {"print", "destroy", "end"} /\ ~slow) =>
                 glob = Cardinality({t \in Thread : tpc[t] # "refused"})

\* Every wait ends, though the name may have been given to another semaphore, so
\* that nobody can post to the one waited for; and uname ends, though threads
\* are missing.
SemEnds == /\ \A p \in Waiter : npc[p] \in {"wait", "sleep"} ~> npc[p] \in {"finished", "timeout"}
           /\ upc # "init" ~> upc \in Stopped
=============================================================================
