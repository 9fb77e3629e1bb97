------------------------------ MODULE PosixMq ------------------------------
(***************************************************************************)
(* posix_mq_demo: one program whose sub-commands create and unlink a POSIX *)
(* message queue, send to it, receive from it, and wait for its            *)
(* notifications by a signal (sig_notify) or by a thread (thr_notify).     *)
(*                                                                         *)
(* A queue notifies one registered process, once, when a message arrives   *)
(* while it is empty and nobody waits in mq_receive().  All the messages   *)
(* are alike, so that a queue is the number of messages in it.             *)
(***************************************************************************)
EXTENDS Integers, FiniteSets

CONSTANTS
  Sender, Receiver,  \* processes that run "send" or "receive", again and again
  SigNotify,         \* processes that run "sig_notify"
  ThrNotify,         \* processes that run "thr_notify"
  Nobody,            \* no process
  MAX_MSG,           \* messages that fit into a queue
  MSG_SIZE,          \* the size of a message
  MaxQueues          \* how often "create" may make a queue (a bound)

Notifier == SigNotify \cup ThrNotify
Proc == Sender \cup Receiver \cup Notifier

ASSUME MqAssumption ==
  /\ MAX_MSG \in Nat \ {0} /\ MSG_SIZE \in Nat /\ MAX_MSG < MSG_SIZE
  /\ MaxQueues \in Nat \ {0}
  /\ Nobody \notin Proc
  /\ Sender \cap Receiver = {} /\ SigNotify \cap ThrNotify = {}
  /\ (Sender \cup Receiver) \cap Notifier = {}

VARIABLES
  named, made,    \* the queue POSIX_MQ_PATH names, 0 if none; queues made so far
  n, owner,       \* of each queue: messages in it; who is registered
  pc, mqd,        \* of each process: where it is; the queue it has open
  pending,        \* processes for which NOTIFY_SIG is pending
  threads,        \* of a thr_notify process: where its threads in threadFunc() are
  drained         \* history: sig_notify processes that found the queue empty

qVars == <<named, made, n, owner>>
vars == <<qVars, pc, mqd, pending, threads, drained>>

Queue == 1..MaxQueues

TypeOK ==
  /\ named \in 0..MaxQueues /\ made \in 0..MaxQueues /\ named <= made
  /\ n \in [Queue -> 0..MAX_MSG] /\ owner \in [Queue -> Notifier \cup {Nobody}]
  /\ pc \in [Proc -> {"open", "send", "receive", "wait", "block", "handler",
                      "register", "suspend", "again", "drain", "sleep", "ended"}]
  /\ mqd \in [Proc -> Queue]
  /\ pending \subseteq SigNotify
  /\ threads \in [ThrNotify -> SUBSET {"notify", "receive"}]
  /\ drained \subseteq SigNotify

Init ==
  /\ named = 0 /\ made = 0
  /\ n = [q \in Queue |-> 0] /\ owner = [q \in Queue |-> Nobody]
  /\ pc = [p \in Proc |-> "open"] /\ mqd = [p \in Proc |-> 1]
  /\ pending = {} /\ threads = [p \in ThrNotify |-> {}] /\ drained = {}

Goto(p, at, next) == pc[p] = at /\ pc' = [pc EXCEPT ![p] = next]

-----------------------------------------------------------------------------
(* create, unlink, and mq_open() in the other sub-commands.  A run that     *)
(* finds no queue ends and changes nothing.                                 *)

Create ==    \* O_CREAT | O_EXCL
  /\ named = 0 /\ made < MaxQueues
  /\ made' = made + 1 /\ named' = made + 1
  /\ UNCHANGED <<n, owner, pc, mqd, pending, threads, drained>>

Unlink ==    \* who has the old queue open keeps it
  /\ named # 0 /\ named' = 0
  /\ UNCHANGED <<made, n, owner, pc, mqd, pending, threads, drained>>

Open(p) ==
  /\ named # 0
  /\ Goto(p, "open", CASE p \in Sender -> "send" [] p \in Receiver -> "receive"
                       [] p \in SigNotify -> "block" [] p \in ThrNotify -> "register")
  /\ mqd' = [mqd EXCEPT ![p] = named]
  /\ drained' = drained \ {p}
  /\ UNCHANGED <<qVars, pending, threads>>

-----------------------------------------------------------------------------
(* send and receive.                                                       *)

\* A message arrives in q while nobody waits for it: its owner is told when
\* the queue was empty, and is no longer registered then.
Arrive(q) ==
  /\ n' = [n EXCEPT ![q] = @ + 1]
  /\ LET told == IF n[q] = 0 THEN {owner[q]} ELSE {} IN
       /\ owner' = IF n[q] = 0 THEN [owner EXCEPT ![q] = Nobody] ELSE owner
       /\ pending' = pending \cup (told \cap SigNotify)
       /\ threads' = [t \in ThrNotify |-> IF t \in told THEN threads[t] \cup {"notify"}
                                                        ELSE threads[t]]

Waiting(q) == {r \in Receiver : pc[r] = "wait" /\ mqd[r] = q}

\* mq_timedsend(): the deadline, 5 s after 1970, has passed, so that a sender
\* never waits; tv_nsec is not initialised, and the call may be refused for it.
Send(p) ==
  \/ /\ Waiting(mqd[p]) = {} /\ n[mqd[p]] < MAX_MSG
     /\ Goto(p, "send", "open")
     /\ Arrive(mqd[p])
     /\ UNCHANGED <<named, made, mqd, drained>>
  \/ /\ pc[p] = "send"
     /\ \E r \in Waiting(mqd[p]) : pc' = [pc EXCEPT ![p] = "open", ![r] = "open"]
     /\ UNCHANGED <<qVars, mqd, pending, threads, drained>>
  \/ /\ Goto(p, "send", "open")      \* EINVAL or, if the queue is full, ETIMEDOUT
     /\ UNCHANGED <<qVars, mqd, pending, threads, drained>>

Take(q) == n[q] > 0 /\ n' = [n EXCEPT ![q] = @ - 1]

Receive(p) ==
  \/ /\ Take(mqd[p]) /\ Goto(p, "receive", "open")
     /\ UNCHANGED <<named, made, owner, mqd, pending, threads, drained>>
  \/ /\ n[mqd[p]] = 0 /\ Goto(p, "receive", "wait")
     /\ UNCHANGED <<qVars, mqd, pending, threads, drained>>

ReceiveTimeout(p) ==  \* ten seconds later
  /\ Goto(p, "wait", "open")
  /\ UNCHANGED <<qVars, mqd, pending, threads, drained>>

-----------------------------------------------------------------------------
(* The notifiers.                                                          *)

\* mq_notify() by p is refused (EBUSY) while anybody, p too, is registered.
Free(p) == owner[mqd[p]] = Nobody
Register(p) == owner' = [owner EXCEPT ![mqd[p]] = p]

\* p ends, and with it its registration.
End(p) ==
  /\ pc' = [pc EXCEPT ![p] = "ended"]
  /\ owner' = [q \in Queue |-> IF owner[q] = p THEN Nobody ELSE owner[q]]
  /\ pending' = pending \ {p}
  /\ threads' = [t \in ThrNotify |-> IF t = p THEN {} ELSE threads[t]]
  /\ UNCHANGED <<named, made, n, mqd, drained>>

SBlock(p) ==     \* sigprocmask(): from here on the signal only gets pending
  /\ Goto(p, "block", "handler")
  /\ UNCHANGED <<qVars, mqd, pending, threads, drained>>

SHandler(p) ==   \* sigaction()
  /\ Goto(p, "handler", "register")
  /\ UNCHANGED <<qVars, mqd, pending, threads, drained>>

SRegister(p) ==  \* messages that are in the queue already are not looked at
  \/ /\ p \in SigNotify /\ Free(p)
     /\ Goto(p, "register", "suspend") /\ Register(p)
     /\ UNCHANGED <<named, made, n, mqd, pending, threads, drained>>
  \/ p \in SigNotify /\ pc[p] = "register" /\ ~Free(p) /\ End(p)

SSuspend(p) ==   \* sigsuspend() returns when the signal has been handled
  /\ p \in pending
  /\ Goto(p, "suspend", "again") /\ pending' = pending \ {p}
  /\ UNCHANGED <<qVars, mqd, threads, drained>>

SAgain(p) ==     \* registers again, and only then empties the queue
  \/ /\ Free(p)
     /\ Goto(p, "again", "drain") /\ Register(p)
     /\ UNCHANGED <<named, made, n, mqd, pending, threads, drained>>
  \/ pc[p] = "again" /\ ~Free(p) /\ End(p)

\* Mutant: one message is read, where the code has a loop.
MutReadOne(p) ==
  \/ /\ Take(mqd[p]) /\ Goto(p, "drain", "suspend") /\ drained' = drained \cup {p}
     /\ UNCHANGED <<named, made, owner, mqd, pending, threads>>
  \/ /\ n[mqd[p]] = 0
     /\ Goto(p, "drain", "suspend") /\ drained' = drained \cup {p}
     /\ UNCHANGED <<qVars, mqd, pending, threads>>

SDrain(p) ==     \* one mq_receive() of the loop, which EAGAIN ends
  \/ /\ pc[p] = "drain" /\ Take(mqd[p])
     /\ UNCHANGED <<named, made, owner, pc, mqd, pending, threads, drained>>
  \/ /\ n[mqd[p]] = 0
     /\ Goto(p, "drain", "suspend") /\ drained' = drained \cup {p}
     /\ UNCHANGED <<qVars, mqd, pending, threads>>

TRegister(p) ==
  \/ /\ p \in ThrNotify /\ Free(p)
     /\ Goto(p, "register", "sleep") /\ Register(p)
     /\ UNCHANGED <<named, made, n, mqd, pending, threads, drained>>
  \/ p \in ThrNotify /\ pc[p] = "register" /\ ~Free(p) /\ End(p)

\* threadFunc(): a thread that cannot register returns, but its process stays.
TNotify(p) ==
  /\ "notify" \in threads[p]
  /\ IF Free(p)
     THEN Register(p) /\ threads' = [threads EXCEPT ![p] = (@ \ {"notify"}) \cup {"receive"}]
     ELSE owner' = owner /\ threads' = [threads EXCEPT ![p] = @ \ {"notify"}]
  /\ UNCHANGED <<named, made, n, pc, mqd, pending, drained>>

\* mq_receive() into a buffer of MAX_MSG bytes: EMSGSIZE, whatever is there.
TReceive(p) ==
  /\ "receive" \in threads[p] /\ MAX_MSG < MSG_SIZE
  /\ threads' = [threads EXCEPT ![p] = @ \ {"receive"}]
  /\ UNCHANGED <<qVars, pc, mqd, pending, drained>>

Kill(p) ==
  /\ pc[p] \notin {"open", "ended"} /\ End(p)

Rerun(p) ==      \* the user starts the sub-command again
  /\ Goto(p, "ended", "open")
  /\ UNCHANGED <<qVars, mqd, pending, threads, drained>>

-----------------------------------------------------------------------------
SigStep(p) == \/ SBlock(p) \/ SHandler(p) \/ SRegister(p) \/ SSuspend(p)
              \/ SAgain(p) \/ SDrain(p)
ThrStep(p) == TRegister(p) \/ TNotify(p) \/ TReceive(p)

Next == \/ Create \/ Unlink
        \/ \E p \in Proc : Open(p)
        \/ \E p \in Sender : Send(p)
        \/ \E p \in Receiver : Receive(p) \/ ReceiveTimeout(p)
        \/ \E p \in SigNotify : SigStep(p)
        \/ \E p \in ThrNotify : ThrStep(p)
        \/ \E p \in Notifier : Kill(p) \/ Rerun(p)

Spec == Init /\ [][Next]_vars

\* Only a running sig_notify process has to go on.
FairSpec == Spec /\ \A p \in SigNotify : WF_vars(SigStep(p))

-----------------------------------------------------------------------------
(* Properties.                                                             *)

\* A sig_notify process that sleeps is registered, or a signal is on its way
\* to it: no other process can have taken its place unnoticed.
NotDeaf == \A p \in SigNotify :
   pc[p] = "suspend" => owner[mqd[p]] = p \/ p \in pending

\* Once it has emptied its queue, a sig_notify process never again sleeps on
\* messages without a signal on its way: it registers before it empties.
NoLostWakeup == \A p \in SigNotify :
   (pc[p] = "suspend" /\ p \in drained /\ n[mqd[p]] > 0) => p \in pending

\* So the messages get read, or others take them, or the process ends.
Woken == \A p \in SigNotify :
   (pc[p] = "suspend" /\ p \in drained /\ n[mqd[p]] > 0)
      ~> (pc[p] \in {"drain", "ended"} \/ n[mqd[p]] = 0)
=============================================================================
