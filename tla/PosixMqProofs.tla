--------------------------- MODULE PosixMqProofs ---------------------------
(***************************************************************************)
(* That sig_notify loses no wake-up, for any processes that send to the    *)
(* queue, receive from it or compete for its notification, and any size.   *)
(***************************************************************************)
EXTENDS PosixMq, TLAPS

LEMMA TakeStep ==
  ASSUME TypeOK, NEW q \in Queue, Take(q)
  PROVE  /\ n' \in [Queue -> 0..MAX_MSG]
         /\ \A r \in Queue : n'[r] <= n[r]
  BY MqAssumption DEF MqAssumption, TypeOK, Take

LEMMA RegisterStep ==
  ASSUME TypeOK, NEW p \in Notifier, Register(p)
  PROVE  /\ owner' \in [Queue -> Notifier \cup {Nobody}]
         /\ \A q \in Queue : owner'[q] = IF q = mqd[p] THEN p ELSE owner[q]
  BY DEF TypeOK, Register

LEMMA TypeInit == Init => TypeOK
  BY MqAssumption DEF MqAssumption, Init, TypeOK, Queue, Notifier, Proc

LEMMA TypeStep == TypeOK /\ [Next]_vars => TypeOK'
<1> SUFFICES ASSUME TypeOK, [Next]_vars PROVE TypeOK'
  OBVIOUS
<1> USE MqAssumption DEF MqAssumption, TypeOK, Queue, Notifier, Proc, qVars, Goto
<1>1. CASE Create \/ Unlink
  BY <1>1 DEF Create, Unlink
<1>2. ASSUME NEW p \in Proc, End(p) PROVE TypeOK'
  BY <1>2 DEF End
<1>3. ASSUME NEW p \in Proc, Open(p) PROVE TypeOK'
  <2>1. mqd' \in [Proc -> Queue]
    BY <1>3 DEF Open
  <2>2. pc' \in [Proc -> {"open", "send", "receive", "wait", "block", "handler",
                      "register", "suspend", "again", "drain", "sleep", "ended"}]
    BY <1>3 DEF Open
  <2>3. QED
    BY <1>3, <2>1, <2>2 DEF Open
<1>4. ASSUME NEW p \in Sender, Send(p) PROVE TypeOK'
  <2>1. CASE Arrive(mqd[p]) /\ n[mqd[p]] < MAX_MSG
    <3>1. n' \in [Queue -> 0..MAX_MSG] /\ owner' \in [Queue -> Notifier \cup {Nobody}]
      BY <2>1 DEF Arrive
    <3>2. pending' \subseteq SigNotify /\ threads' \in [ThrNotify -> SUBSET {"notify", "receive"}]
      BY <2>1 DEF Arrive
    <3>3. UNCHANGED <<named, made, mqd, drained>> /\ pc' \in [Proc ->
            {"open", "send", "receive", "wait", "block", "handler",
             "register", "suspend", "again", "drain", "sleep", "ended"}]
      BY <1>4 DEF Send, Waiting
    <3>4. QED
      BY <3>1, <3>2, <3>3
  <2>2. CASE UNCHANGED <<qVars, mqd, pending, threads, drained>>
    BY <1>4, <2>2 DEF Send, Waiting
  <2>3. QED
    BY <1>4, <2>1, <2>2 DEF Send
<1>5. ASSUME NEW p \in Receiver, Receive(p) \/ ReceiveTimeout(p) PROVE TypeOK'
  <2>1. mqd[p] \in Queue
    OBVIOUS
  <2>2. n' \in [Queue -> 0..MAX_MSG]
    BY <1>5, <2>1, TakeStep DEF Receive, ReceiveTimeout
  <2>3. QED
    BY <1>5, <2>2 DEF Receive, ReceiveTimeout
<1>6. ASSUME NEW p \in SigNotify, SigStep(p) PROVE TypeOK'
  <2>1. CASE SBlock(p) \/ SHandler(p) \/ SSuspend(p)
    BY <2>1 DEF SBlock, SHandler, SSuspend
  <2>2. CASE SRegister(p) \/ SAgain(p)
    <3>1. CASE Register(p) /\ UNCHANGED <<named, made, n, mqd, pending, threads, drained>>
      <4>1. owner' \in [Queue -> Notifier \cup {Nobody}]
        BY <3>1, RegisterStep
      <4>2. pc' = [pc EXCEPT ![p] = "suspend"] \/ pc' = [pc EXCEPT ![p] = "drain"]
            \/ pc' = [pc EXCEPT ![p] = "ended"]
        BY <2>2 DEF SRegister, SAgain, End
      <4>3. QED
        BY <3>1, <4>1, <4>2
    <3>2. QED
      BY <1>2, <2>2, <3>1 DEF SRegister, SAgain
  <2>3. CASE SDrain(p)
    <3>1. mqd[p] \in Queue
      OBVIOUS
    <3>2. n' \in [Queue -> 0..MAX_MSG]
      BY <2>3, <3>1, TakeStep DEF SDrain
    <3>3. QED
      BY <2>3, <3>2 DEF SDrain
  <2>4. QED
    BY <1>6, <2>1, <2>2, <2>3 DEF SigStep
<1>7. ASSUME NEW p \in ThrNotify, ThrStep(p) PROVE TypeOK'
  <2>1. CASE TRegister(p)
    <3>1. CASE Register(p) /\ UNCHANGED <<named, made, n, mqd, pending, threads, drained>>
      <4>1. owner' \in [Queue -> Notifier \cup {Nobody}]
        BY <3>1, RegisterStep
      <4>2. pc' = [pc EXCEPT ![p] = "sleep"] \/ pc' = [pc EXCEPT ![p] = "ended"]
        BY <2>1 DEF TRegister, End
      <4>3. QED
        BY <3>1, <4>1, <4>2
    <3>2. QED
      BY <1>2, <2>1, <3>1 DEF TRegister
  <2>2. CASE TNotify(p)
    <3>1. owner' \in [Queue -> Notifier \cup {Nobody}]
      BY <2>2, RegisterStep DEF TNotify
    <3>2. threads' \in [ThrNotify -> SUBSET {"notify", "receive"}]
      <4>1. (threads[p] \ {"notify"}) \cup {"receive"} \in SUBSET {"notify", "receive"}
        BY <1>7
      <4>2. threads[p] \ {"notify"} \in SUBSET {"notify", "receive"}
        BY <1>7
      <4>3. \E S \in SUBSET {"notify", "receive"} : threads' = [threads EXCEPT ![p] = S]
        <5>1. \/ threads' = [threads EXCEPT ![p] = (threads[p] \ {"notify"}) \cup {"receive"}]
              \/ threads' = [threads EXCEPT ![p] = threads[p] \ {"notify"}]
          BY <2>2, Zenon DEF TNotify
        <5>2. QED
          BY <4>1, <4>2, <5>1, Zenon
      <4>4. PICK S \in SUBSET {"notify", "receive"} : threads' = [threads EXCEPT ![p] = S]
        BY <4>3
      <4>5. threads \in [ThrNotify -> SUBSET {"notify", "receive"}]
        OBVIOUS
      <4>6. QED
        BY <4>4, <4>5, Zenon
    <3>3. QED
      BY <2>2, <3>1, <3>2 DEF TNotify
  <2>3. CASE TReceive(p)
    BY <1>7, <2>3 DEF TReceive
  <2>4. QED
    BY <1>7, <2>1, <2>2, <2>3 DEF ThrStep
<1>8. ASSUME NEW p \in Notifier, Kill(p) \/ Rerun(p) PROVE TypeOK'
  BY <1>2, <1>8 DEF Kill, Rerun
<1>9. CASE UNCHANGED vars
  BY <1>9 DEF vars
<1>10. QED
  BY <1>1, <1>3, <1>4, <1>5, <1>6, <1>7, <1>8, <1>9 DEF Next

\* Every variable keeps its type: no queue holds more than MAX_MSG messages.
THEOREM TypeCorrect == Spec => []TypeOK
  BY TypeInit, TypeStep, PTL DEF Spec

-----------------------------------------------------------------------------
(***************************************************************************)
(* A sig_notify process is registered from its second mq_notify() on, all  *)
(* through the loop that empties the queue, unless a signal is pending.    *)
(***************************************************************************)
Heard(p) == owner[mqd[p]] = p \/ p \in pending

MInv == /\ \A p \in SigNotify : pc[p] \in {"suspend", "drain"} => Heard(p)
        /\ \A p \in SigNotify : pc[p] \in {"block", "handler", "register"} => p \notin drained
        /\ NoLostWakeup

LEMMA NotifyStep == TypeOK /\ MInv /\ [Next]_vars => MInv'
<1> SUFFICES ASSUME TypeOK, MInv, [Next]_vars PROVE MInv'
  OBVIOUS
<1> USE MqAssumption DEF MqAssumption, TypeOK, MInv, NoLostWakeup, Heard, Queue, Notifier,
        Proc, qVars, Goto
<1>1. CASE Create \/ Unlink
  BY <1>1 DEF Create, Unlink
<1>2. ASSUME NEW p \in Proc, End(p) PROVE MInv'
  BY <1>2 DEF End
<1>3. ASSUME NEW p \in Proc, Open(p) PROVE MInv'
  BY <1>3 DEF Open
<1>4. ASSUME NEW p \in Sender, Send(p) PROVE MInv'
  <2>1. \A s \in SigNotify : pc'[s] = pc[s]
    BY <1>4 DEF Send, Waiting
  <2>2. CASE Arrive(mqd[p]) /\ UNCHANGED <<mqd, drained>>
    <3>1. CASE n[mqd[p]] = 0
      BY <2>1, <2>2, <3>1 DEF Arrive
    <3>2. CASE n[mqd[p]] # 0
      BY <2>1, <2>2, <3>2 DEF Arrive
    <3>3. QED
      BY <3>1, <3>2
  <2>3. CASE UNCHANGED <<qVars, mqd, pending, threads, drained>>
    BY <2>1, <2>3
  <2>4. QED
    BY <1>4, <2>2, <2>3 DEF Send
<1>5. ASSUME NEW p \in Receiver, Receive(p) \/ ReceiveTimeout(p) PROVE MInv'
  <2>1. mqd[p] \in Queue
    OBVIOUS
  <2>2. \A q \in Queue : n'[q] \in 0..MAX_MSG /\ n'[q] <= n[q]
    BY <1>5, <2>1, TakeStep DEF Receive, ReceiveTimeout
  <2>3. (\A s \in SigNotify : pc'[s] = pc[s]) /\ UNCHANGED <<owner, mqd, pending, drained>>
    BY <1>5 DEF Receive, ReceiveTimeout
  <2>4. QED
    BY <2>2, <2>3
<1>6. ASSUME NEW p \in SigNotify, SigStep(p) PROVE MInv'
  <2>1. CASE SBlock(p) \/ SHandler(p)
    BY <2>1 DEF SBlock, SHandler
  <2>2. CASE SRegister(p)
    BY <1>2, <2>2 DEF SRegister, Free, Register
  <2>3. CASE SSuspend(p)
    BY <2>3 DEF SSuspend
  <2>4. CASE SAgain(p)
    <3>1. CASE Free(p) /\ Register(p)
      BY <2>4, <3>1, RegisterStep DEF SAgain, Free
    <3>2. QED
      BY <1>2, <2>4, <3>1 DEF SAgain
  <2>5. CASE SDrain(p)
    <3>1. CASE pc[p] = "drain" /\ Take(mqd[p]) /\ UNCHANGED <<owner, pc, mqd, pending, drained>>
      <4>1. mqd[p] \in Queue
        OBVIOUS
      <4>2. \A q \in Queue : n'[q] \in 0..MAX_MSG /\ n'[q] <= n[q]
        BY <3>1, <4>1, TakeStep
      <4>3. QED
        BY <3>1, <4>2
    <3>2. CASE n[mqd[p]] = 0 /\ Goto(p, "drain", "suspend") /\ UNCHANGED <<qVars, mqd, pending>>
      BY <2>5, <3>2 DEF SDrain
    <3>3. QED
      BY <2>5, <3>1, <3>2 DEF SDrain
  <2>6. QED
    BY <1>6, <2>1, <2>2, <2>3, <2>4, <2>5 DEF SigStep
<1>7. ASSUME NEW p \in ThrNotify, ThrStep(p) PROVE MInv'
  <2>1. CASE TRegister(p)
    <3>1. CASE Free(p) /\ Register(p)
      BY <2>1, <3>1, RegisterStep DEF TRegister, Free
    <3>2. QED
      BY <1>2, <2>1, <3>1 DEF TRegister
  <2>2. CASE TNotify(p)
    <3>1. CASE Free(p) /\ Register(p)
      BY <2>2, <3>1, RegisterStep DEF TNotify, Free
    <3>2. QED
      BY <2>2, <3>1 DEF TNotify
  <2>3. CASE TReceive(p)
    BY <2>3 DEF TReceive
  <2>4. QED
    BY <1>7, <2>1, <2>2, <2>3 DEF ThrStep
<1>8. ASSUME NEW p \in Notifier, Kill(p) \/ Rerun(p) PROVE MInv'
  BY <1>2, <1>8 DEF Kill, Rerun
<1>9. CASE UNCHANGED vars
  BY <1>9 DEF vars
<1>10. QED
  BY <1>1, <1>3, <1>4, <1>5, <1>6, <1>7, <1>8, <1>9 DEF Next

LEMMA MInvAlways == Spec => [](TypeOK /\ MInv)
<1>1. Init => MInv
  BY DEF Init, MInv, NoLostWakeup, Proc, Notifier
<1>2. QED
  BY <1>1, TypeInit, TypeStep, NotifyStep, PTL DEF Spec

\* A sig_notify process that sleeps is registered, or its signal is pending.
THEOREM NeverDeaf == Spec => []NotDeaf
<1>1. MInv => NotDeaf
  BY DEF MInv, NotDeaf, Heard
<1>2. QED
  BY <1>1, MInvAlways, PTL

\* A sig_notify process that has once emptied its queue never sleeps on
\* messages without a signal pending.
THEOREM WakeupsKept == Spec => []NoLostWakeup
<1>1. MInv => NoLostWakeup
  BY DEF MInv
<1>2. QED
  BY <1>1, MInvAlways, PTL
=============================================================================
